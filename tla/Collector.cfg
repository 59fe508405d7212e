SPECIFICATION Spec
CONSTANTS
  Slot = {x, y}
  Blocks <- TwoByTwo
  EXTEND_THRESHOLD = 2
  GO_GEN1 = 1
  Lives = 3
  ARRAY_SIZE = 2
  NULL = NULL
SYMMETRY Symmetry
INVARIANTS NoLiveFreed OneList
CHECK_DEADLOCK FALSE
