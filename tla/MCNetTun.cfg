SPECIFICATION TunLiveSpec
CONSTANTS
    s1 = s1
    s2 = s2
    Senders = {s1, s2}
    QueueCap = 2
    MaxPackets = 3
    MaxBatch = 1
    MaxWrites = 1
    MaxSets = 1
INVARIANTS TunTypeOK ExactlyOnce QuietCloseIsSafe
PROPERTIES PacketsAreRead ReadEndsWithClose PingReadReturns
CHECK_DEADLOCK FALSE
