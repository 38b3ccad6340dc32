SPECIFICATION Spec
CONSTANTS
  comm_size = 2
  Source <- MCSource
  Route <- MCRoute
  Flags <- MCFlags
  Faulty = TRUE
CHECK_DEADLOCK FALSE
INVARIANTS
  Complete
  KeysAccounted
PROPERTIES
  Terminates
