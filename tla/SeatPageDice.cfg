SPECIFICATION Spec
CONSTANTS
  Keyed = FALSE
  MaxMoves = 0
  MaxTrouble = 1
  MaxAnswers = 2
  None = None
CHECK_DEADLOCK FALSE
INVARIANT KeyIsKept
