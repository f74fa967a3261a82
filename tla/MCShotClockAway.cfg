CONSTANTS
  NumPlayers = 3
  HandSize = 2
  NumCards = 14
  MinMeldLen = 3
  Autos = {a1, a2}
  Level = "easy"
  MaxMoves = 8
SPECIFICATION AwaySpec
PROPERTY RoundPlaysOut
CHECK_DEADLOCK FALSE
