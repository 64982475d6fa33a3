SPECIFICATION FairSpec
CONSTANTS
    NR = 4
    Native = 3
    IntTask = {0}
    MM = 1
    priority <- MCPriority
INVARIANTS
    TypeOK
    RunningIsRunnable
PROPERTY NoStarvation
CHECK_DEADLOCK FALSE
