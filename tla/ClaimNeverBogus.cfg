\* One connection that is reset while the task closes it.
SPECIFICATION Spec
CONSTANTS
  Pcb = {c1}
  NULL = NULL
  RxSize = 1
  EchoSize = 1
  LinkCheckPeriod = 1
  GiveUpTries = 2
  RequestTries = 5
  RebindTries = 8
  MaxTries = 11
  HeapUnits = 3
  Refuses = FALSE
  LeaseEnds = FALSE
  MaxFlaps = 0
  MaxTrouble = 0
INVARIANT NeverBogus
