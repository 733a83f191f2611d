SPECIFICATION Spec
CONSTANTS
    Cols = 2
    Rows = 3
    Lines = 8
    Base = 2
    Unreadable = {5}
    MaxDigits = 3
INVARIANTS TypeOK ScreenFresh
PROPERTIES LineMotion NoLineSkipped
CHECK_DEADLOCK FALSE
