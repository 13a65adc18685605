\* Two addresses, one in use by another host; a lease of 2 ticks with T2 at its
\* end; one message under way in each direction; no memory for some requests.
SPECIFICATION FairSpec
CONSTANTS
  a1 = a1
  a2 = a2
  Address <- Addresses
  InUse <- Squatted
  RequestTries = 1
  RebindTries = 1
  TriesWidth = 3
  TimerWidth = 3
  Lease = 2
  T1 = 1
  T2 = 2
  MaxOverdue = 1
  MaxMessages = 1
  Failing = {"RENEW", "RELEASE"}
INVARIANTS AddressGranted NoticesEnd
PROPERTIES AsDriven ComesBack EndsUse
