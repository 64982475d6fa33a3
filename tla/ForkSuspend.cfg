SPECIFICATION Spec
CONSTANTS
    NrSlots = 2
    MemSizes = {2}
    Status = {s1}
    NO_TASK = NO_TASK
    NULL = NULL
INVARIANT ChildSuspended
CHECK_DEADLOCK FALSE
