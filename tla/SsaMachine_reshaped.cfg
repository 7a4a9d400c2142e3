CONSTANTS
    Kernels <- MCReshaped
    MaxTrip = 2
    LoopSteps <- MCSteps
SPECIFICATION Spec
INVARIANTS
    LiteralsNeverChange
CHECK_DEADLOCK FALSE
