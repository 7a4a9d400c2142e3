CONSTANTS
    N = 4
    Ops = 3
    G = g1
    None = None
    MaxCalls = 1
    Programs <- RingPrograms
SPECIFICATION Spec
PROPERTIES
    SchedulerImplementsRing
    KernelReturns
CHECK_DEADLOCK FALSE
