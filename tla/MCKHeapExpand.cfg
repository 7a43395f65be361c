CONSTANTS
  PAGE = 8
  TABLE = 8
  W = 256
  start_address = 64
  initial_end = 80
  max_address = 104
  HEAP_MIN_SIZE = 8
  Sizes = {3,5}
  AlignedSizes = {}
  MaxBlocks = 3
  StackDepth = 3
SPECIFICATION Spec
INVARIANTS NoOverlap
CHECK_DEADLOCK FALSE
