CONSTANTS
  Guests = {g1, g2, g3}
  Timer = timer
  Clocks = {c}
  Bots = {}
  Droppers = {}
  MinPlayers = 2
  MaxPlayers = 3
  Points = {0, 1}
  TargetScore = 1
  Bet = 2
  StartingCoins = 3
  DbMayFail = FALSE
  MaxRounds = 2
SPECIFICATION Spec
INVARIANT OnlyPlayersSettle
CHECK_DEADLOCK FALSE
