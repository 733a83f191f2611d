SPECIFICATION Spec
CONSTANTS
    p1 = p1
    p2 = p2
    f1 = f1
    f2 = f2
    Procs <- MCProcs
    Files <- SharedFiles
    FileOf <- SharedFileOf
    NFrames = 3
    Beyond = 1
    PageSize = 2
    Home = 2
    Adjacent = 1
    Values = {0, 1}
    MaxCount = 3
    Overlap = FALSE
    TlbCaches = FALSE
    Lookups = {TRUE}
    NULL = NULL
SYMMETRY Symmetry
INVARIANTS TypeOK AccessHitsTarget WindowHome
PROPERTIES PhysAccessSpec
