CONSTANTS
  Guests = {g1, g2}
  Robot = Robot
  Nobody = Nobody
  Conns = {c1, c2}
  Acts = {a1}
  Clock = Clock
  TableSize = 2
  MaxRooms = 2
  Tiers = {1, 2}
  DefaultBet = 1
  Sizes = {2}
  FullSize = 2
  PracticeBots = 1
  Callers = {k1, k2}
  SessionTTL = 3
  LastDay = 10
  Suits = {c, d}
  King = 4
  Ten = 4
  MinMeldLen = 2
  SpetoCards = {}
  MaxHand = 4
SPECIFICATION MCSpec
INVARIANT PracticeIsPrivate
SYMMETRY Interchangeable
CHECK_DEADLOCK FALSE
