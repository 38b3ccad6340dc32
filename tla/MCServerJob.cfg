SPECIFICATION Spec
CONSTANTS
  comm_size = 2
  ports_per_rank = 1
  rpc_threads = 1
  Flags <- MCFlags
  Requests = {"a", "b"}
  Target <- OneEach
  None = None
CHECK_DEADLOCK FALSE
INVARIANTS
  AckedFlushed
  NoUseAfterFree
PROPERTIES
  Terminates
