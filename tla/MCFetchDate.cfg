CONSTANTS
  calendar <- MCcalendar
  Lead = 12
  ticks <- MCticks
  register_values <- MCregister_values
  cpus <- MCcpus
SPECIFICATION Spec
INVARIANTS DateIsOneDay
CHECK_DEADLOCK FALSE
