CONSTANTS
  calendar <- MCcalendar
  Lead = 12
  ticks <- MCticks
  register_values <- MCregister_values
  cpus <- MCcpus
SPECIFICATION Spec
INVARIANTS TypeOK CallAtomic DateFieldsInOrder NumbersReadBack NumbersFit NamedCpuPrinted
PROPERTIES CommandEnds
CHECK_DEADLOCK FALSE
