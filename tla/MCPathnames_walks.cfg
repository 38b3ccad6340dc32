SPECIFICATION PathSpec
CONSTANTS
  Thread = {t1, t2}
  NULL = NULL
  x1 = x1
  x2 = x2
  root_user = root_user
  user1 = user1
  Char = {x1, x2}
  Path <- MCPaths
  User = {root_user, user1}
  superuser = root_user
  Group <- MCGroup
  Mode <- MCModes
  Existing <- MCExisting
  MaxCalls = 3
SYMMETRY Symmetry
CHECK_DEADLOCK FALSE
INVARIANT ResolvesRight
INVARIANT LeaseRefsExact
INVARIANT WalkPermitted
