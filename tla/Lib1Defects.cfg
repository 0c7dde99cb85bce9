SPECIFICATION LibSpec
CONSTANTS
  Calls <- CallsThatFail
  Boot = {}
  Levels = {}
  MaxX = 0
INVARIANT
  ResultRight
