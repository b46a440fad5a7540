SPECIFICATION LiveSpec
CONSTANTS
    Systems = {"freebsd", "openbsd", "darwin"}
    EventCap = 1
    QueueCap = 1
    MaxChanges = 2
    MaxStolen = 2
    MTUs = {1, 2}
    MTUArgs = {0, 1}
    MaxCalls = 2
    Faults = TRUE
INVARIANTS NoPanic ForeignReadOnce
PROPERTIES CloseClosesEvents Converges
CHECK_DEADLOCK FALSE
