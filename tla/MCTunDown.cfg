SPECIFICATION LiveSpec
CONSTANTS
    c1 = c1
    c2 = c2
    Closers = {c1}
    EventCap = 2
    ErrorCap = 1
    MaxChanges = 2
    Faults = FALSE
PROPERTIES
    DownAfterUpIsReported
CHECK_DEADLOCK FALSE
