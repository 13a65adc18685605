\* Two connections and one link loss, with fairness.
SPECIFICATION FairSpec
CONSTANTS
  Pcb = {c1, c2}
  NULL = NULL
  RxSize = 1
  EchoSize = 1
  LinkCheckPeriod = 1
  GiveUpTries = 2
  RequestTries = 5
  RebindTries = 8
  MaxTries = 9
  HeapUnits = 3
  Refuses = FALSE
  LeaseEnds = FALSE
  MaxFlaps = 1
  MaxTrouble = 0
INVARIANTS TypeOK ServerKnown ClientPcbLive
PROPERTIES CloseServed ServerStarts
