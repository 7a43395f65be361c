CONSTANTS
  Items <- MCItems
  Key <- MCKey
  NULL = NULL
  max_size = 4
SPECIFICATION Spec
INVARIANTS TypeOK Sorted NoDuplicates
PROPERTIES ImplementsItemSet
