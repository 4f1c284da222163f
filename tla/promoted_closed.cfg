SPECIFICATION Spec
CONSTANTS
  Keys = {k1}
  TapNames = {}
  VBStates = {"replica", "active"}
  CheckpointMaxItems = 1
  MaxCheckpoints = 2
  ItemNumBased = TRUE
  InconsistentSlave = FALSE
  KeepClosed = FALSE
  BackupTaps = {}
  OnlineUpdate = FALSE
  MayBeEmpty = FALSE
  MaxMutationId = 200
  MaxCheckpointId = 2
VIEW View
CHECK_DEADLOCK FALSE
INVARIANTS
  NeverAborts
