CONSTANTS
    Procs = {p1, p2}
    MaxCalls = 2
    Samples <- MCSamples
    NonFinite = {NaN, Inf}
    One = 1
    None = None
SPECIFICATION Spec
PROPERTY Linearizable
CHECK_DEADLOCK FALSE
