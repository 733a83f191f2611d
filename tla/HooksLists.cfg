SPECIFICATION Spec
CONSTANTS
    genpipe0 = genpipe0
    c1 = c1
    c2 = c2
    NULL = NULL
    Instances <- OneInstance
    Cpus <- MCCpus
    SiteCalls <- MCSites
    BaseCalls <- MCBase
    AllCalls <- MCAll
    Level = 0
    HookPack = TRUE
    ParamWrites = FALSE
    SymbolTables <- MCTables
    Lookups = {TRUE}
    MaxLoads = 2
INVARIANTS TypeOK NoDanglingCall Bypassed Restored
CHECK_DEADLOCK FALSE
