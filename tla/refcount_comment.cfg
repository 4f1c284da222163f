SPECIFICATION Spec
CONSTANTS
  Conns = {c1}
  Admins = {c1}
  Tappers = {c1}
  Names = {n1}
  DefaultName = n1
  MaxHandles = 1
  AutoCreate = TRUE
  None = None
CHECK_DEADLOCK FALSE
INVARIANT RefcountAsDocumented
