CONSTANTS
  Chats = {c1}
  MaxIter = 2
  MaxHistory = 4
  MaxMsgs = 3
  CompactEvery = 3
  MayTrim = TRUE
  MaxTurns = 3
  MaxClears = 1
  MaxCrashes = 1
  MaxFails = 1
SPECIFICATION Spec
INVARIANTS
  TypeOK
  ContextPaired
  SavedFaithful
  ClearStays
PROPERTIES
  TrimNeverSplits
  NothingForgotten
CHECK_DEADLOCK FALSE
