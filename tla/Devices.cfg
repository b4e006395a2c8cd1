SPECIFICATION DevicesSpec
CONSTANTS
  Interval = 2
  MaxTime = 5
  VoiceStarts = 2
  MaxOutput = 3
  PipeSize = 2
  Timeout = 2
  Grace = 1
  MaxCalls = 2
  c1 = c1
  c2 = c2
  Conns = {c1, c2}
  NoConn = NoConn
  MaxClients = 2
  MaxCbs = 2
  MaxStarts = 2
  MaxRequests = 2
INVARIANTS
  DevicesTypeOK
  MicShared
  Leftovers
  StreamThreads
  FramesReachClients
PROPERTIES
  Heard
  DevicesGoOn
CHECK_DEADLOCK FALSE
