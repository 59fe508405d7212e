SPECIFICATION Spec
CONSTANTS
  Slot = {x, y}
  Blocks <- ThreeByTwo
  EXTEND_THRESHOLD = 2
  GO_GEN1 = 1
  Lives = 3
  ARRAY_SIZE = 4
  NULL = NULL
SYMMETRY Symmetry
INVARIANT AllocatingStays
CHECK_DEADLOCK FALSE
