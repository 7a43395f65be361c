CONSTANTS
  Lines <- MCLines
  masks <- MCmasks
  stub <- MCstub
  KeyLimit = 2
  TickWrap = 3
SPECIFICATION SpecQuiet
INVARIANTS TypeOK HandlersExclusive NothingStuckInService IrqVectorsHaveGates TrapsLandInStubs
PROPERTIES KeysAreRead
CHECK_DEADLOCK FALSE
