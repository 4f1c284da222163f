SPECIFICATION FairSpec
CONSTANTS
  Keys = {k1}
  TapNames = {t1}
  VBStates = {"active"}
  CheckpointMaxItems = 1
  MaxCheckpoints = 2
  ItemNumBased = TRUE
  InconsistentSlave = FALSE
  KeepClosed = FALSE
  BackupTaps = {t1}
  OnlineUpdate = FALSE
  MayBeEmpty = FALSE
  MaxMutationId = 8
  MaxCheckpointId = 4
CHECK_DEADLOCK FALSE
PROPERTIES
  PersistenceDrains
  UnreferencedFreed
  BackupReadsClosed
