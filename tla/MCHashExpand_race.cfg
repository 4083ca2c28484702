SPECIFICATION Spec
CONSTANTS
  a = a
  b = b
  a1 = a1
  a2 = a2
  b1 = b1
  Worker = {w1, w2}
  Item = {a1, a2, b1}
  Key = {a, b}
  KeyOf <- TwoForOne
  hv <- Spread
  item_lock_hashpower = 1
  InitPower = 0
  MaxPower = 2
  hash_bulk_move = 1
  NULL = NULL
  Nobody = Nobody
  Maintenance = Maintenance
INVARIANT KeyMustNotExist
CHECK_DEADLOCK FALSE
