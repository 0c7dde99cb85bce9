SPECIFICATION DumpSpec
CONSTANTS
  Sections <- MCSections
  Boot = {}
  Levels = {}
  MaxX = 1
INVARIANTS
  RoundTrip
  SameInstruction
  InStep
