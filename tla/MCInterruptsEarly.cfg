CONSTANTS
  Lines <- MCLines
  masks <- MCmasks
  stub <- MCstub
  KeyLimit = 2
  TickWrap = 3
SPECIFICATION SpecFromSti
PROPERTIES KeysAreRead
CHECK_DEADLOCK FALSE
