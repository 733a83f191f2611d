SPECIFICATION Spec
CONSTANTS
    NCpus = 2
    MaxPackets = 2
    IntMax = 3
    AllocCpus = {c1, c2}
    MaxAllocs = 4
    HalfBuf = 8
    Prefix = 4
    Kinds <- MCKinds
    Symbols = {"kfree_skb", "ptype_all"}
    MaxLines = 4
    Walkers = {"x86", "arm", "bypass", "v2p"}
    HalfReg = 4
    LA57 = 2
    MaxChanges = 2
    NPages = 3
    VFrames = {0, 1}
    JunkFrame = 9
    AreaPages = 4
    MaxVchanges = 1
    Devices = {d1, d2}
    MaxProbes = 2
CHECK_DEADLOCK FALSE
INVARIANTS CountsSinceClear FreedWereReceived DiffIsTraffic SharedOnlyByOverlap SymbolsFound WalkSound AreaMapped PciLedger
