CONSTANTS
    NumCores = 3
    Grids = {2, 3}
    Ops <- MCOps
    StickBytes = 4
    HbmRate = 4
    LxRate = 8
    RingRate = 4
    SimdRate = 2
    SystolicRate = 8
    Penalty = 2
    Scale = 8
    MaxOps = 3
    MaxRuns = 2
    MaxReports = 1
SPECIFICATION Spec
INVARIANTS
    TypeOK
    RatiosAreFractions
    MemoryIsHbmTraffic
PROPERTY ReportsAreFinal
CHECK_DEADLOCK FALSE
