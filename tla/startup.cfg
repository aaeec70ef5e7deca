SPECIFICATION MainSpec
CONSTANTS
  FileRounds = {0, 3, 25}
  AskedRounds = {0, 2}
  LineBound = 2
INVARIANTS
  ValidatedStarts
  BestSourceWins
