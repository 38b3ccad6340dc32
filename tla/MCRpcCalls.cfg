SPECIFICATION Spec
CONSTANTS
  Stub = {c1, c2}
  Udp = {c1}
  Request <- MCRequests
  MaxMsg = 17
  MaxCalls = 2
  NotFound <- MCNotFound
  Word = 8
CHECK_DEADLOCK FALSE
INVARIANT OwnAnswer
