CONSTANTS
  Chats = {c1}
  MaxIter = 2
  MaxHistory = 3
  MaxMsgs = 3
  CompactEvery = 4
  MayTrim = TRUE
  MaxTurns = 2
  MaxClears = 0
  MaxCrashes = 0
  MaxFails = 0
SPECIFICATION Spec
INVARIANT TurnSavedInFull
CHECK_DEADLOCK FALSE
