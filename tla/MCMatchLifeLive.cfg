CONSTANTS
  Guests = {g1, g2}
  Timer = timer
  Clocks = {}
  Bots = {}
  Droppers = {g1}
  MinPlayers = 2
  MaxPlayers = 2
  Points = {0, 1}
  TargetScore = 1
  Bet = 2
  StartingCoins = 3
  DbMayFail = FALSE
  MaxRounds = 2
SPECIFICATION PlayOnSpec
PROPERTY RoundsKeepComing
PROPERTY EveryMatchIsPaid
CHECK_DEADLOCK FALSE
