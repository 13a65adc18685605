\* Two descriptors, four pbufs, three messages and a mailbox of two places.
\* The model ends when MaxFrames have come and all is back, or at a lost list.
SPECIFICATION FairSpec
CONSTANTS
  ETH_RXBUFNB = 2
  Pbuf = {b1, b2, b3, b4}
  Msg = {m1, m2, m3}
  MESG_QUEUE_LENGTH = 2
  MaxFrames = 4
  Pieces <- FramePieces
  MaxBurst = 1
  MaxResets = 1
INVARIANTS TypeOK OneHolder DescInStep NoLockUp
PROPERTIES InOrder FifoMoves BuffersReturn
CHECK_DEADLOCK FALSE
