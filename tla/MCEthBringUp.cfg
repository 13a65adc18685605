\* No client: link, DHCP refusals, leases and restarts, with fairness.
SPECIFICATION FairSpec
CONSTANTS
  Pcb = {}
  NULL = NULL
  RxSize = 1
  EchoSize = 1
  LinkCheckPeriod = 2
  GiveUpTries = 2
  RequestTries = 5
  RebindTries = 8
  MaxTries = 9
  HeapUnits = 10
  Refuses = TRUE
  LeaseEnds = TRUE
  MaxFlaps = 2
  MaxTrouble = 6
INVARIANT DhcpHasNetif
PROPERTIES ServerComesUp LinkLossSeen QuietAtReinit
