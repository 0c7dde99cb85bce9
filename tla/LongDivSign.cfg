SPECIFICATION Spec
CONSTANTS
    Width = 4
    Program <- SignedRemainders
    InterruptCall = {}
    MaxInterrupts = 0
PROPERTY
    ImplementsDivider
