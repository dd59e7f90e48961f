SPECIFICATION LiveSpec
CONSTANTS
  Keyed = TRUE
  MaxMoves = 1
  MaxTrouble = 1
  MaxAnswers = 2
  None = None
CHECK_DEADLOCK FALSE
PROPERTY WakingUnsticks
