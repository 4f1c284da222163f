SPECIFICATION Spec
CONSTANTS
  Keys = {k1}
  TapNames = {t1}
  VBStates = {"replica", "active"}
  CheckpointMaxItems = 1
  MaxCheckpoints = 2
  ItemNumBased = TRUE
  InconsistentSlave = FALSE
  KeepClosed = FALSE
  BackupTaps = {}
  OnlineUpdate = TRUE
  MayBeEmpty = FALSE
  MaxMutationId = 200
  MaxCheckpointId = 3
VIEW NoOffsetView
CHECK_DEADLOCK FALSE
INVARIANTS
  OnlyLastOpen
  IdsGrow
  NoStrayCursor
  NumItemsExact
PROPERTIES
  PreChkIdSetBehind
  ImplementsQueue
