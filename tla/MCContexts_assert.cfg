SPECIFICATION Spec
CONSTANTS
  Thread = {t1}
  NULL = NULL
  x1 = x1
  x2 = x2
  Name = {x1, x2}
  Kind = {"batch", "bulk"}
  srvs_ = 3
  Hash <- MCHash
  zsrv = 4
  batch_size = 2
  InitCount = {0}
  Width = 8
  bulk_use_copy = TRUE
  skip_name_collision_checks = FALSE
CHECK_DEADLOCK FALSE
INVARIANT IndexAsserted
