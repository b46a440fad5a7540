CONSTANTS
    Reads <- MCReads
    NumBufs = 4
    BufLen = 50
    U16 = 64
    U32 = 128
SPECIFICATION ReadSpec
INVARIANT CountsPopulated
CHECK_DEADLOCK FALSE
