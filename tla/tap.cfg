SPECIFICATION FairSpec
CONSTANTS
  Modes = {"replica", "takeover"}
  Kinds = {"fresh", "grab"}
  MaxItem = 2
  ColdItems = {2}
  MaxChk = 3
  MaxNacks = 1
  MaxDrops = 1
  AckWindow = 2
  AckInterval = 2
  SeqModulus = 64
  MaxTakeoverLog = 3
  Followed = {"late"}
CHECK_DEADLOCK FALSE
INVARIANTS
  NothingLeftBehind
  ResumePointSound
  ActiveIsComplete
PROPERTIES
  CatchesUp
