SPECIFICATION Spec
CONSTANTS
  comm_size = 2
  n = 2
  writes = 2
  reads = 2
  write_phases = 1
  read_phases = 1
  random_order = TRUE
  mon = TRUE
  Flags <- MCFlags
  Shift = 4
  Faults <- AllFaults
CHECK_DEADLOCK FALSE
INVARIANTS
  DirReady
  AllNamesThere
PROPERTY Terminates
