SPECIFICATION Spec
CONSTANTS
  a1 = a1
  a2 = a2
  b1 = b1
  Item = {a1, a2, b1}
  LargestId = 2
  ClassOf <- TwoAndOne
  Worker = {w1, w2}
  Admin = {w1}
  Thread = {t1}
  ToCrawl = {2}
  MaxCount = 3
  NULL = NULL
  Nobody = Nobody
INVARIANTS
  TypeOK
  QueuesIntact
  NothingPassedOver
PROPERTIES
  
  DisableReturns
CHECK_DEADLOCK FALSE
