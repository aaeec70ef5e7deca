SPECIFICATION FairDebateSpec
CONSTANTS
  Lengths = {1, 2}
  MaxModels = 3
  BaseCount = 2
  NumModels = 2
  RoundBound = 2
  EditBound = 1
  MaxIdleRounds = 1
  MinContributionScore = 2
  ConfigRounds = 2
  DebateRounds = {1, 2}
  DebateBound = 2
INVARIANTS
  PoolTypeOK
  CountDecides
  AskedOnce
PROPERTIES
  ImplementsCouncil
  DebateEnds
CHECK_DEADLOCK FALSE
