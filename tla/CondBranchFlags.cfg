SPECIFICATION BranchSpec
CONSTANTS
  Tests <- TestsOfMisleadingFlags
  Boot = {}
  Levels = {}
  MaxX = 0
INVARIANTS
  TakenIffHolds
