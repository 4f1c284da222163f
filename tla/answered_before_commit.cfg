SPECIFICATION Spec
CONSTANTS
  Keys = {k1}
  Backfills = FALSE
  SavesFail = FALSE
  Expiries = FALSE
  MinDataAge = FALSE
  NarrowModulus = 4
  MaxVersion = 2
  MaxCheckpointId = 5
  WaitedFor = {3}
  MaxLapses = 1
CHECK_DEADLOCK FALSE
INVARIANTS
  AnsweredIsDurable
