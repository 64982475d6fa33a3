SPECIFICATION Spec
CONSTANTS
    Proc = {p1, p2, p3, p4, p5}
    NULL = NULL
    ANY = ANY
SYMMETRY ProcSymmetry
INVARIANTS
    TypeOK
    ListsWellFormed
PROPERTY ImplementsFifo
