CONSTANTS
  MaxJobs = 2
  Intervals = {1}
  Delays = {1}
  MaxId = 2
  MaxClock = 2
  MaxBoots = 1
  DiskMayFail = TRUE
SPECIFICATION FairSpec
INVARIANTS
  TypeOK
  JobsConserved
  FiresOnce
  FileCurrentUnlessSpoiled
PROPERTY CronGoesOn
CHECK_DEADLOCK FALSE
