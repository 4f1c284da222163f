SPECIFICATION FairSpec
CONSTANTS
  Keys = {k1}
  Backfills = TRUE
  SavesFail = TRUE
  Expiries = TRUE
  MinDataAge = TRUE
  NarrowModulus = 3
  MaxVersion = 2
  MaxCheckpointId = 3
  WaitedFor = {2}
  MaxLapses = 1
CHECK_DEADLOCK FALSE
INVARIANTS
  ForgottenByLapseOnly
  CleanIsSaved
  ReportsCovered
  StoredIdDurable
PROPERTIES
  WritesReachDisk
