SPECIFICATION Spec
CONSTANTS
    tty = tty
    u1 = u1
    u2 = u2
    u3 = u3
    Proc = {tty, u1, u2, u3}
    IntTask = {tty}
    Type = {req}
    HARD_INT = HARD_INT
    NoType = NoType
    ANY = ANY
    INTERRUPT = INTERRUPT
    NO_TASK = NO_TASK
INVARIANTS
    TypeOK
    FieldsMatchFlags
    QueueIsSenders
    NoMissedRendezvous
    NoMissedInterrupt
    NoSendCycle
    DeadlockLoopAgrees
PROPERTY ImplementsRendezvous
CHECK_DEADLOCK FALSE
SYMMETRY Perms
