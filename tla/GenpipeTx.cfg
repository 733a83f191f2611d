SPECIFICATION Spec
CONSTANTS
    w1 = w1
    Writers <- OneWriter
    Cap = 5
    Mtu = 1
    Chars <- HexChars
    Newline = "nl"
    NUL = "NUL"
    DigitVal <- MCHexVal
    HexVal <- MCHexVal
    MaxChunk = 3
    MaxInput = 7
INVARIANTS TypeOK PointersInBuffer
PROPERTIES LinesBecomeFrames
CHECK_DEADLOCK FALSE
