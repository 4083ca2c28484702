SPECIFICATION Spec
CONSTANTS
  Worker = {w1, w2}
  Page <- ThreePages
  Class <- TwoClasses
  perslab <- TwoAndOne
  mem_limit = 2
  FirstListSize = 16
  slab_automove = 2
  NULL = NULL
INVARIANTS
  TypeOK
  CountsReferences
  ChunksAccountedFor
  ClearWhenGiven
PROPERTIES
  KeepsAPage
  MoveEnds
