SPECIFICATION MCSpec
CONSTANTS
    Proc = {tty, u1, u2}
    IntTask = {tty}
    Type = {req}
    HARD_INT = HARD_INT
    NoType = NoType
    ANY = ANY
    INTERRUPT = INTERRUPT
    NO_TASK = NO_TASK
INVARIANTS
    IntrTypeOK
    TableSoundWhenIdle
    OnlyDriversTrip
PROPERTY ImplementsIpc
CHECK_DEADLOCK FALSE
