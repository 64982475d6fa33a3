SPECIFICATION FairSpec
CONSTANTS
    NrSlots = 3
    MemSizes = {2, 3}
    Status = {s1}
    NO_TASK = NO_TASK
    NULL = NULL
INVARIANTS
    TypeOK
    NoMissedExit
    NoOrphans
    AnsweredBecomesRunnable
    ReapsOwnChild
PROPERTIES
    MMReturns
    ForkAnswered
CHECK_DEADLOCK FALSE
