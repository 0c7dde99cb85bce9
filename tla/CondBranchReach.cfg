SPECIFICATION BranchSpec
CONSTANTS
  Tests <- TestsAtTheLimit
  Boot = {}
  Levels = {}
  MaxX = 0
INVARIANTS
  Linkable
