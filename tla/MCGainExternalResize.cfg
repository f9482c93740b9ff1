SPECIFICATION Spec
CONSTANTS
  N = 2
  VectorSizes = {1, 2}
  NULL = NULL
INVARIANTS
  InputFits
