SPECIFICATION Spec
CONSTANTS
    KB_IN_BYTES = 3
    keymap <- MCkeymap
    Letters = {"a"}
    ScanCodes <- MCScanCodes
    NR_CONSOLES = 2
    V_MEM_LIMIT = 7
    SCR_WIDTH = 2
    SCR_SIZE = 4
    Proc = {"p", "q"}
    Chars = {"a", "A", "8", "2", "*", "NUL"}
    Printable = {"a", "A", "8", "2", "*"}
    FKeys <- MCFKeys
    Used = 5
    TTY_IN_BYTES = 2
    Scenarios <- MCScenarios
INVARIANTS
    TypeOK
    ModifiersMatchKeys
    SuspendedReaderKnown
    LineDelivered
    ConsoleSound
PROPERTIES
    EventsServed
CHECK_DEADLOCK FALSE
