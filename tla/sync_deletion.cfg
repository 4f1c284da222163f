SPECIFICATION Spec
CONSTANTS
  VBs = {v1}
  Conns = {c1}
  States = {"active", "dead"}
  None = None
  SavesFail = FALSE
  DeletesFail = FALSE
  MaxWrites = 2
  MaxCalls = 3
  MaxRestarts = 0
  MaxLapses = 1
CHECK_DEADLOCK FALSE
INVARIANTS
  SyncDeletionDone
