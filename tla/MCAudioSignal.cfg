SPECIFICATION Spec
CONSTANTS
  NULL = NULL
  Block = {b1, b2, b3, b4}
  HostVector = {h1, h2}
  MaxChannels = 3
  VectorSizes = {1, 2}
SYMMETRY Addresses
INVARIANTS
  TypeOK
  OwnsItsVectors
  NoBadFree
  NoDanglingVector
  UniformVectors
CHECK_DEADLOCK FALSE
