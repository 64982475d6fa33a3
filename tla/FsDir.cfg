SPECIFICATION Spec
CONSTANTS
    Proc = {p1, p2}
    InitProc = p1
    Name = {a, b, c}
    NR_FILES = 2
    NR_FILE_DESC = 2
    NR_INODE = 3
    FileSects = 4
    ByteBits = 2
    NrBits = 18
    MaxIno = 7
    DirMax = 6
    CntMax = 3
    DirWrites = {}
    MaxDirWrites = 0
INVARIANT SizeCoversEntries
CHECK_DEADLOCK FALSE
