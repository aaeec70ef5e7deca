SPECIFICATION CouncilSpec
CONSTANTS
  Lengths = {0, 1, 2}
  MaxModels = 4
  BaseCount = 3
  NumModels = 3
  RoundBound = 2
  EditBound = 1
  MaxIdleRounds = 1
  MinContributionScore = 2
  ConfigRounds = 2
  DebateRounds = {0, 1, 2}
  DebateBound = 2
INVARIANTS
  CouncilTypeOK
  ReadsThisRound
  HistoryFollowsRounds
PROPERTIES
  LongestWins
  BaseNeverPruned
  RemovedStaySilent
