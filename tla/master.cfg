SPECIFICATION Spec
CONSTANTS
  Keys = {k1, k2}
  TapNames = {t1}
  VBStates = {"active"}
  CheckpointMaxItems = 1
  MaxCheckpoints = 2
  ItemNumBased = TRUE
  InconsistentSlave = FALSE
  KeepClosed = FALSE
  BackupTaps = {}
  OnlineUpdate = FALSE
  MayBeEmpty = FALSE
  MaxMutationId = 200
  MaxCheckpointId = 3
SYMMETRY Symmetry
VIEW View
CHECK_DEADLOCK FALSE
INVARIANTS
  NamesExact
  RemainingExact
  EvictionSound
PROPERTIES
  ImplementsQueue
