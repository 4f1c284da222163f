SPECIFICATION FairSpec
CONSTANTS
  VBs = {v1}
  Conns = {c1, c2}
  States = {"active", "dead"}
  None = None
  SavesFail = TRUE
  DeletesFail = TRUE
  MaxWrites = 2
  MaxCalls = 2
  MaxRestarts = 1
  MaxLapses = 1
CHECK_DEADLOCK FALSE
INVARIANTS
  SettledOnDisk
  NothingDropped
  NoOldItems
  SubmittedHasFile
  PersistedIdIsOwn
  ToldDeletionDone
PROPERTIES
  Settles
