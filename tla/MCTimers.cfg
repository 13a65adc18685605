\* Intervals of 4, 2 and 2 ticks; an entry misses at most three.
SPECIFICATION FairSpec
CONSTANTS
  Cyclic <- Handlers
  Tcp <- TcpTimer
  Interval <- Intervals
  MEMP_NUM_SYS_TIMEOUT = 3
  MaxMissed = 3
INVARIANTS InTime TcpTimed
PROPERTY HandlersRun
