CONSTANTS
  p1 = p1
  p2 = p2
  People = {p1, p2}
  Nobody = Nobody
  AbsentFrames = 2
  RecogInterval = 4
  RecognitionMayFail = FALSE
  MaxStarts = 2
  MaxRequests = 2
SPECIFICATION Spec
SYMMETRY Swap
PROPERTY Debounced
CHECK_DEADLOCK FALSE
