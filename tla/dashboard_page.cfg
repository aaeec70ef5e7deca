SPECIFICATION FairSpec
CONSTANTS
  ClickBound = 3
  JobBound = 1
  RestartBound = 1
  Connections = 2
  MissedAllowed = TRUE
  StatsAllowed = TRUE
INVARIANT
  OneProgressTimer
PROPERTIES
  HandlersSpareServer
  PollEnds
  ViewsCatchUp
CHECK_DEADLOCK FALSE
