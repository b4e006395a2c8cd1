CONSTANTS
  p1 = p1
  p2 = p2
  People = {p1, p2}
  Nobody = Nobody
  AbsentFrames = 2
  RecogInterval = 4
  RecognitionMayFail = TRUE
  MaxStarts = 2
  MaxRequests = 2
SPECIFICATION Spec
SYMMETRY Swap
INVARIANTS TypeOK PresenceFollows RegisterAnswers
PROPERTIES OwnerArrives NoFlapping
CHECK_DEADLOCK FALSE
