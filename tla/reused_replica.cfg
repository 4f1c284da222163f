SPECIFICATION Spec
CONSTANTS
  Keys = {k1}
  TapNames = {t1}
  VBStates = {"replica"}
  CheckpointMaxItems = 1
  MaxCheckpoints = 2
  ItemNumBased = TRUE
  InconsistentSlave = FALSE
  KeepClosed = TRUE
  BackupTaps = {}
  OnlineUpdate = FALSE
  MayBeEmpty = TRUE
  MaxMutationId = 9
  MaxCheckpointId = 2
CHECK_DEADLOCK FALSE
INVARIANTS
  TypeOK
  CursorsLive
  NamesRegistered
