\* The instance of MCEthRx.cfg.
SPECIFICATION Spec
CONSTANTS
  ETH_RXBUFNB = 2
  Pbuf = {b1, b2, b3, b4}
  Msg = {m1, m2, m3}
  MESG_QUEUE_LENGTH = 2
  MaxFrames = 4
  Pieces <- FramePieces
  MaxBurst = 1
  MaxResets = 1
INVARIANT PoolsProtected
CHECK_DEADLOCK FALSE
