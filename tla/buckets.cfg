SPECIFICATION FairSpec
CONSTANTS
  Conns = {c1, c2}
  Admins = {c1}
  Tappers = {c2}
  Names = {n1}
  DefaultName = n1
  MaxHandles = 2
  AutoCreate = TRUE
  None = None
CHECK_DEADLOCK FALSE
INVARIANTS
  NobodyInsideDestroyed
  ClientsCounted
  RefcountExact
  NoDangling
  DestroyedOnce
  AnsweredWhenGone
PROPERTIES
  NobodyWaitsForever
