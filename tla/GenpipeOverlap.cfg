SPECIFICATION TxSpec
CONSTANTS
    w1 = w1
    w2 = w2
    TxWriters <- TwoWriters
    TxCap = 1
    MaxCount = 1
    MaxCalls = 3
INVARIANTS OverrunBounded
PROPERTIES WriteReturns
CHECK_DEADLOCK FALSE
