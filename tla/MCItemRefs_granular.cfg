SPECIFICATION Spec
CONSTANTS
  k1 = k1
  k2 = k2
  s1 = s1
  s2 = s2
  Key = {k1, k2}
  Stripe = {s1, s2}
  StripeOf <- OwnStripes
  Worker = {w1, w2}
  Item = {i1, i2, i3}
  Slot = {"ilist0"}
  GlobalLock = GlobalLock
  NoItem = NoItem
  NoKey = NoKey
  NoWorker = NoWorker
  RefMax = 12
  item_lock_type = "granular"
  flush_enabled = FALSE
SYMMETRY OwnSymmetry
INVARIANTS
  RefcountExact
  NoUseAfterFree
  UniqueKey
  InPlaceExclusive
PROPERTY NotRecycled
