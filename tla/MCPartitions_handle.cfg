SPECIFICATION PartSpec
CONSTANTS
  Thread = {t1, t2}
  NULL = NULL
  k1 = k1
  k2 = k2
  k3 = k3
  d1 = d1
  d2 = d2
  Dir = {d1, d2}
  Key = {k1, k2, k3}
  DirOf <- MCDirOf
  MaxParts = 5
  MaxLookups = 4
  partition_lru_size = 1
SYMMETRY Symmetry
CHECK_DEADLOCK FALSE
INVARIANT HandleSet
