SPECIFICATION Spec
CONSTANTS
    p1 = p1
    p2 = p2
    f1 = f1
    Procs <- MCProcs
    Files <- MCFiles
    FileOf <- MCFileOf
    NFrames = 6
    Beyond = 0
    PageSize = 2
    Home = 5
    Adjacent = 1
    Values = {0}
    MaxCount = 2
    Overlap = FALSE
    TlbCaches = TRUE
    Lookups = {TRUE, FALSE}
    NULL = NULL
    Block = 3
    TextStart = 10
    ModuleStart = 11
    TextFrame = 4
    PageTable <- MCPageTable
    AstrayPages = {9}
SYMMETRY Symmetry
INVARIANTS AccessHitsTarget WindowHome
PROPERTIES WriteAllOrNothing
