CONSTANTS
    N = 3
    Ops = 2
    Group = {g1, g2}
    None = None
    Kernels <- MCKernels
    Trackers = {TRUE}
SPECIFICATION Spec
INVARIANT NonConsumersComplete
CHECK_DEADLOCK FALSE
