CONSTANTS
    Reads <- MCReads
    NumBufs = 4
    BufLen = 50
    U16 = 64
    U32 = 128
SPECIFICATION ReadLiveSpec
INVARIANTS SplitExact NothingLost
PROPERTY Terminates
CHECK_DEADLOCK FALSE
