\* Two descriptors and a full ring; the model ends when MaxFrames have been sent.
SPECIFICATION Spec
CONSTANTS
  ETH_TXBUFNB = 2
  MaxFrames = 4
INVARIANT SendSuccess
CHECK_DEADLOCK FALSE
