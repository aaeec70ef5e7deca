SPECIFICATION FairSpec
CONSTANTS
  JobBound = 1
  Rounds = 1
  MaxInFlight = 1
  StatsAllowed = TRUE
  StopAllowed = FALSE
PROPERTY
  StatsAnswered
CHECK_DEADLOCK FALSE
