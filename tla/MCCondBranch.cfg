SPECIFICATION BranchSpec
CONSTANTS
  Tests <- MCTests
  Boot = {}
  Levels = {}
  MaxX = 0
INVARIANTS
  TakenIffHolds
  ValueRight
  Linkable
PROPERTIES
  Arrives
