SPECIFICATION Spec
CONSTANTS
    SECTOR_SIZE = 2
    NSECTS = 26
    COUNT = 4
    NR_SUB = 3
    FSBUF_SECTS = 6
    PartTbl <- MCPartTbl
    Files = {"a", "b", "c"}
    ReadOnly = {"c"}
    Start <- MCStart
    NrSects <- MCNrSects
    InitSize <- MCInitSize
    INode <- MCINode
    InodeSect = 2
    ROOT_DEV = 5
    MAGIC = 77
    Lens = {0, 1, 2, 3, 4, 6, 9}
    MaxReqs = 3
INVARIANTS
    TypeOK
    NoStrayInterrupt
    TransferSound
PROPERTY
    RequestAnswered
CHECK_DEADLOCK FALSE
