CONSTANTS
  PAGE = 8
  TABLE = 8
  W = 256
  start_address = 64
  initial_end = 80
  max_address = 96
  HEAP_MIN_SIZE = 8
  Sizes = {1,9}
  AlignedSizes = {}
  MaxBlocks = 3
  StackDepth = 3
SPECIFICATION SpecD
INVARIANTS Tiling FootersSound UserDataIntact NoPanic
PROPERTIES ImplementsAllocator
CHECK_DEADLOCK FALSE
