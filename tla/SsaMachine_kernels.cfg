CONSTANTS
    Kernels <- MCKernels
    MaxTrip = 2
    LoopSteps <- MCSteps
SPECIFICATION Spec
INVARIANTS
    TypeOK
    OperandsAreThere
    OperandsMeanTheirNames
    LoopsDoNotLeak
    LiteralsNeverChange
CHECK_DEADLOCK FALSE
