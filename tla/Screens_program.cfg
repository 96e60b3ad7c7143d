SPECIFICATION Spec
CONSTANTS
  MaxW = 4
  MaxH = 2
  VisW = 3
  VisH = 2
  TabStop = 2
  Letter = {"a"}
  By <- MCBy
  At <- MCAt
CHECK_DEADLOCK FALSE
INVARIANT ScrollMoves
 
INVARIANT RegionHolds
