SPECIFICATION Spec
CONSTANTS
    AddrBits = 4
    TableBits = 3
    LineIps = {0, 2, 5, 7, 16}
    LineSubnets <- MCSubnets
    ByteSize = 8
    Gateways = {0, 1, 2}
    MaxRoutes = 2
    Workloads <- MCWorkloads
    Threads = 3
    IntSize = 32
    Half = 4
    MaxIhl = 7
    W = 32
    Poly <- EthernetPoly
    Digits = {0, 9, 14}
    MaxChars = 5
    NONE = NONE
    Size = 4
    Room = 2
    MaxMovie = 4
    Second = 20
    Tenth = 2
    Gap = 5
    MaxTime = 50
CHECK_DEADLOCK FALSE
INVARIANTS TypeOK TableIsLongestMatch LookupsComplete NothingLost WaitIsExact
PROPERTIES ChecksumSpec PrintsFcs MovieShown CalibrationEnds
