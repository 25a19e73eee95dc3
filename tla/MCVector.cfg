SPECIFICATION Spec
CONSTANTS
  Addresses = {a, b}
  Indices <- MCIndices
  UINT64 = 16
  MaxLength = 4
  NULL = NULL
INVARIANT TypeOK
PROPERTY ImplementsSequence
CHECK_DEADLOCK FALSE
