CONSTANTS
  Size = 4
  Byte = {a, b}
  MaxLen = 3
  WriterPreempts = TRUE
SPECIFICATION Spec
INVARIANTS TypeOK NoOverlap ClaimsFit ResetWindow
PROPERTY FifoRefined
