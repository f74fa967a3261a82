CONSTANTS
  Suits = {c, d}
  King = 5
  Ten = 5
  MinMeldLen = 4
  SpetoCards = {}
  MaxHand = 4
SPECIFICATION SearchSpec
INVARIANT BotMoveIsLegal
CHECK_DEADLOCK FALSE
