SPECIFICATION Spec
CONSTANTS
  Obj = {a, b}
  Node = {n1, n2, n3, n4, n5}
  NULL = NULL
  MAX_STRUCTURED_SYMBOLS = 16
SYMMETRY Symmetry
INVARIANTS TypeOK DataIntact ChunksOwned HeadersLead
CHECK_DEADLOCK FALSE
