CONSTANTS
  FRAME_SIZE = 4
  PAGE_TABLE_SIZE = 8
  WORD_BITS = 8
  BYTE_BITS = 2
  nframes = 80
  kernel_ends <- MCkernel_ends
  KHEAP_START = 30
  KHEAP_INITIAL_SIZE = 2
  HEAP_MIN_SIZE = 1
  max_page = 35
  sizeof_heap_t = 3
SPECIFICATION Spec
INVARIANTS TypeOK IdentityMapped BitsetTruthful NoSharedFrame HighFramesExclusive
PROPERTIES BootCompletes
CHECK_DEADLOCK FALSE
