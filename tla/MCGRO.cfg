CONSTANTS
    f1 = f1
    f2 = f2
    h1 = h1
    h2 = h2
    Packets <- PacketsOf
    MaxBatch = 4
    MaxCalls = 2
    PoolSize = 4
    SeqSpace = 64
    LenSpace = 16
SPECIFICATION Spec
INVARIANTS TypeOK PoolConserved RoundTrip NoSpuriousPSH FlowOrder
CHECK_DEADLOCK FALSE
