SPECIFICATION Spec
CONSTANTS
  k1 = k1
  k2 = k2
  s1 = s1
  s2 = s2
  Key = {k1}
  Stripe = {s1}
  StripeOf <- OneStripe
  Worker = {w1, w2}
  Item = {i1, i2}
  Slot = {}
  GlobalLock = GlobalLock
  NoItem = NoItem
  NoKey = NoKey
  NoWorker = NoWorker
  RefMax = 7
  item_lock_type = "granular"
  flush_enabled = TRUE
SYMMETRY Symmetry
INVARIANTS
  TypeOK
  LockDiscipline
