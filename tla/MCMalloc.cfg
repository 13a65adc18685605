\* A pool of four blocks of two bytes, requests of up to nine bytes.
SPECIFICATION Spec
CONSTANTS
  Blocks = 4
  BlockSize = 2
  Client = {p, q, s}
  NULL = NULL
  Unknown = Unknown
  MaxRequest = 9
INVARIANTS TypeOK TableExact DataKept
PROPERTY Allocates
