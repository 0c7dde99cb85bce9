SPECIFICATION MCSpec
CONSTANTS
  Programs <- MCPrograms
  Boot <- MCBoot
  Levels = {}
  MaxX = 0
INVARIANTS
  HarnessTypeOK
  OutputAgrees
  OutcomeRight
PROPERTY
  Exits
CHECK_DEADLOCK FALSE
