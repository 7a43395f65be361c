CONSTANTS
  W = 32
  images <- MCimages
  location = 10
  ROOT_NODES = 20
  Names <- MCNames
  Offsets <- MCOffsets
  Sizes <- MCSizes
  Indices <- MCIndices
  GARBAGE = GARBAGE
  NULL = NULL
  ROOT = ROOT
  DEV = DEV
SPECIFICATION Spec
INVARIANTS TypeOK ShortReadMeansEnd ListedIsFound WildOnlyOutsideContract
PROPERTIES ImplementsArchive
CHECK_DEADLOCK FALSE
