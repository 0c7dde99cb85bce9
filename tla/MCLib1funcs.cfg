SPECIFICATION LibSpec
CONSTANTS
  Calls <- MCCalls
  Boot = {}
  Levels = {}
  MaxX = 0
INVARIANTS
  ResultRight
  CallerUnharmed
PROPERTIES
  Returns
