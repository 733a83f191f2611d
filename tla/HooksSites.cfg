SPECIFICATION Spec
CONSTANTS
    genpipe0 = genpipe0
    c1 = c1
    c2 = c2
    NULL = NULL
    Instances <- OneInstance
    Cpus <- OneCpu
    SiteCalls <- MCSites
    BaseCalls <- MCBase
    AllCalls <- MCAll
    Level = 2
    HookPack = FALSE
    ParamWrites = TRUE
    SymbolTables <- MCTables
    Lookups = {TRUE, FALSE}
    MaxLoads = 2
PROPERTIES InsmodRmmodEnd
CHECK_DEADLOCK FALSE
