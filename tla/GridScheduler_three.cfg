CONSTANTS
    N = 3
    MaxCalls = 2
    Programs <- MCPrograms
SPECIFICATION Spec
INVARIANTS
    TypeOK
    SchedulerBookkeeping
    NothingLost
    InOrder
    DeadlockIsReal
    OutcomeIsScheduleIndependent
PROPERTIES
    NetSpec
    EveryCallEnds
CHECK_DEADLOCK FALSE
