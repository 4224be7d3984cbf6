SPECIFICATION MCSpec
CONSTANTS
    Calls <- MCCalls
    CharBits = 4
    ShortBits = 8
    IntBits = 12
    LLBits = 24
    MaxHexBytes = 3
    Guard = 2
    Cells = 5
    Bytes = {0, 1, 255}
INVARIANTS
    ConsolesGetTheText
CHECK_DEADLOCK FALSE
