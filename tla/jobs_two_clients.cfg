SPECIFICATION Spec
CONSTANTS
  JobBound = 2
  Rounds = 1
  MaxInFlight = 2
  StatsAllowed = FALSE
  StopAllowed = FALSE
INVARIANT
  Isolated
CHECK_DEADLOCK FALSE
