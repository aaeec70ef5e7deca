SPECIFICATION FairSpec
CONSTANTS
  JobBound = 2
  Rounds = 2
  MaxInFlight = 2
  StatsAllowed = TRUE
  StopAllowed = TRUE
INVARIANTS
  TypeOK
  IsolatedIfSerial
PROPERTIES
  MetricsMatchJobs
  JobEnds
CHECK_DEADLOCK FALSE
