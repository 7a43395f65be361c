CONSTANTS
  PAGE = 12
  TABLE = 4
  W = 256
  start_address = 48
  initial_end = 84
  max_address = 132
  HEAP_MIN_SIZE = 12
  Sizes = {7,32}
  AlignedSizes = {7}
  MaxBlocks = 2
  StackDepth = 3
SPECIFICATION SpecD
INVARIANTS TypeOK
PROPERTIES ImplementsAllocator AllocReturns
CHECK_DEADLOCK FALSE
