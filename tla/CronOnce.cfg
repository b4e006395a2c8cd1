CONSTANTS
  MaxJobs = 3
  Intervals = {1}
  Delays = {1}
  MaxId = 3
  MaxClock = 2
  MaxBoots = 0
  DiskMayFail = FALSE
SPECIFICATION Spec
INVARIANT OnceFiresOnce
CHECK_DEADLOCK FALSE
