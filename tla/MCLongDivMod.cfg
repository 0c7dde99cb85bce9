SPECIFICATION Spec
CONSTANTS
    Width = 4
    Program <- MCProgram
    InterruptCall <- MCInterruptCall
    MaxInterrupts = 1
INVARIANTS
    TypeOK
    LoopInvariant
    CacheCoherent
PROPERTIES
    ImplementsDivider
    Returns
