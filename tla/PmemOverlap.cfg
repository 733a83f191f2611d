SPECIFICATION Spec
CONSTANTS
    p1 = p1
    p2 = p2
    f1 = f1
    f2 = f2
    Procs <- MCProcs
    Files <- PrivateFiles
    FileOf <- PrivateFileOf
    NFrames = 3
    Beyond = 0
    PageSize = 1
    Home = 2
    Adjacent = 1
    Values = {0}
    MaxCount = 2
    Overlap = TRUE
    TlbCaches = TRUE
    Lookups = {TRUE}
    NULL = NULL
SYMMETRY PairSymmetry
INVARIANTS AccessConfined
