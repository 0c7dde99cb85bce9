SPECIFICATION IntSpec
CONSTANTS
  Boot <- MCBoot
  Levels <- MCLevels
  MaxX = 1
  MaxRaised = 3
INVARIANTS
  TypeOK
  PriorityOrder
  ContextChain
  MainUnharmed
PROPERTIES
  RulesKept
  ImplementsContextStack
  Finishes
