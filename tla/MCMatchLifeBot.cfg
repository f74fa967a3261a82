CONSTANTS
  Guests = {g1, g2}
  Timer = timer
  Clocks = {c}
  Bots = {g2}
  Droppers = {}
  MinPlayers = 2
  MaxPlayers = 2
  Points = {0, 1}
  TargetScore = 2
  Bet = 2
  StartingCoins = 3
  DbMayFail = FALSE
  MaxRounds = 3
SPECIFICATION PlayOnSpec
PROPERTY RoundsKeepComing
CHECK_DEADLOCK FALSE
