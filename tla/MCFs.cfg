SPECIFICATION Spec
CONSTANTS
    Proc = {p1, p2}
    InitProc = p1
    Name = {a, b, c}
    NR_FILES = 1
    NR_FILE_DESC = 2
    NR_INODE = 3
    FileSects = 4
    ByteBits = 2
    NrBits = 18
    MaxIno = 7
    DirMax = 5
    CntMax = 2
    DirWrites <- Written
    MaxDirWrites = 1
SYMMETRY NameSymmetry
INVARIANTS TypeOK DescCounts OpenFileHeld SectorsAccounted DirPointsToFiles
CHECK_DEADLOCK FALSE
