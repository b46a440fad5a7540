SPECIFICATION LiveSpec
CONSTANTS
    c1 = c1
    c2 = c2
    Closers = {c1, c2}
    EventCap = 1
    ErrorCap = 1
    MaxChanges = 2
    Faults = TRUE
INVARIANT NoPanic
PROPERTIES CloseClosesEvents StableUp UserLearnsMTU
CHECK_DEADLOCK FALSE
