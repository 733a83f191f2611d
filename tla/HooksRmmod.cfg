SPECIFICATION Spec
CONSTANTS
    genpipe0 = genpipe0
    c1 = c1
    c2 = c2
    NULL = NULL
    Instances <- OneInstance
    Cpus <- OneCpu
    SiteCalls <- MCSites
    BaseCalls <- MCBase
    AllCalls <- MCAll
    Level = 1
    HookPack = FALSE
    ParamWrites = FALSE
    SymbolTables <- FullTable
    Lookups = {TRUE}
    MaxLoads = 2
INVARIANT NoDanglingCall
CHECK_DEADLOCK FALSE
