CONSTANTS
  NumPlayers = 2
  HandSize = 1
  NumCards = 5
  MinMeldLen = 2
  Autos = {a1, a2}
  Level = "hard"
  MaxMoves = 3
SPECIFICATION MCSpec
SYMMETRY AutoSymmetry
INVARIANT TypeOK
INVARIANT ScoredByOne
INVARIANT NoClockBetweenRounds
CHECK_DEADLOCK FALSE
