CONSTANTS
  Guests = {g1, g2, g3}
  Bet = 2
  StartingCoins = 3
  Timer = timer
  Clocks = {c1, c2}
  Bots = {}
  Droppers = {}
  MinPlayers = 2
  MaxPlayers = 2
  Points = {1, 2}
  TargetScore = 2
  DbMayFail = TRUE
  MaxRounds = 2
  Nobody = Nobody
  Servers = {c1, c2}
  DailyRewardLadder <- TwoSteps
  AdReward = 4
  AdCooldown = 2
  MissionReward = 3
  Goal = 1
  ReferralBonus = 5
  PackageCoins = 8
  DayLength = 1
  MaxTime = 2
  MaxRequests = 3
SPECIFICATION MCSpec
INVARIANTS
  TypeOK
  ScoresAddUp
  RoundsNumbered
  SettledOnce
  WinnerIsBest
  OnlyPlayersSettle
  MoneyIsSafe
  WalletTypeOK
  StreakCounts
  AdsSpacedOut
  StatusIsHonest
PROPERTY PaysAsPromised
SYMMETRY AllInterchangeable
CHECK_DEADLOCK FALSE
