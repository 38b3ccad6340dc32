SPECIFICATION Spec
CONSTANTS
  Thread = {t1, t2, t3}
  x1 = x1
  x2 = x2
  Name = {x1, x2}
  NULL = NULL
  Way <- MCOneWay
  Mode = {"regular", "batch", "bulk"}
  Due <- MCDue
  MaxLeases = 4
  MaxLookups = 4
  lease_lru_size = 1
SYMMETRY Symmetry
CHECK_DEADLOCK FALSE
INVARIANTS
  ContextGone
  ModeExclusive
  RefsExact
  TableSound
  BusyOwned
