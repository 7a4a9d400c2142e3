CONSTANTS
    N = 3
    Ops = 2
    Group = {g1, g2}
    None = None
    Kernels <- MCKernels
    Trackers = {TRUE, FALSE}
SPECIFICATION Spec
INVARIANTS
    TypeOK
    ArrivalIsFromItsOrigin
    ResultsAreGroupFolds
    RingIsDeadlockFree
    QueuesDrain
PROPERTY EveryReduceReturns
CHECK_DEADLOCK FALSE
