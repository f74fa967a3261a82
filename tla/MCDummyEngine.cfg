CONSTANTS
  Suits = {c, d}
  King = 4
  Ten = 4
  MinMeldLen = 2
  SpetoCards <- Threes
  NumPlayers = 3
  HandSize = 1
  HeadRanks = {2}
  KnockBonus = 50
  KnockCardBonus = 50
  HeadCardBonus = 50
  DarkKnockMult = 2
  SameSuitKnockMult = 2
  DumpPenalty = 50
SPECIFICATION MCSpec
SYMMETRY SuitSymmetry
INVARIANTS
  TypeOK
  CardConservation
  MeldsValid
  HeadBonusOwner
  DarkKnockIsBlind
  ViewsHideHands
  PointsBalance
PROPERTIES
  PenaltyAttribution
  MovesCardsAsPromised
  CountsAsPromised
  OthersNeverCost
CHECK_DEADLOCK FALSE
