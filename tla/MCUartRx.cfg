\* A buffer of three bytes and lines of up to five.
SPECIFICATION Spec
CONSTANTS
  USART_REC_LEN = 3
  Char = {x, y}
  CR = CR
  LF = LF
  NUL = NUL
  MaxLine = 5
INVARIANTS TypeOK LineExact
