SPECIFICATION LiveSpec
CONSTANTS
    c1 = c1
    c2 = c2
    Closers = {c1, c2}
    EventCap = 1
    MTUs = {1, 2}
    InitialMTU = 2
    MaxForces = 2
    MaxPackets = 2
    MaxBatch = 1
    MaxSpins = 1
INVARIANT SessionAlive
PROPERTIES CloseReturns PacketsAreRead UserLearnsMTU
CHECK_DEADLOCK FALSE
