CONSTANTS
    NumCores = 2
    Views <- MCViews
    Accesses <- MCAccesses
    Seed <- MCSeed
    Staging = 22
    Stick = 4
    MaxOps = 2
SPECIFICATION Spec
INVARIANTS
    TypeOK
    MemoryHoldsTensors
    LoadsReturnTensors
    SticksAreThoseTouched
CHECK_DEADLOCK FALSE
