SPECIFICATION MCSpec
CONSTANTS
  Thread = {t1, t2, t3}
  NULL = NULL
  x1 = x1
  x2 = x2
  x3 = x3
  Name = {x1, x2, x3}
  Kind = {"batch", "bulk"}
  srvs_ = 3
  Hash <- MCHash
  zsrv = 4
  batch_size = 2
  InitCount = {0, 2, 7}
  Width = 8
  bulk_use_copy = TRUE
  skip_name_collision_checks = TRUE
  k1 = k1
  k2 = k2
  k3 = k3
  d1 = d1
  d2 = d2
  Dir = {d1, d2}
  Key = {k1, k2, k3}
  DirOf <- MCDirOf
  MaxParts = 7
  MaxLookups = 5
  partition_lru_size = 1
SYMMETRY Symmetry
CHECK_DEADLOCK FALSE
INVARIANTS
  CountCovers
  EarlyNamesStored
  OnlyOwnNames
  SentToOwner
  OnePartitionPerKey
  RefsExact
