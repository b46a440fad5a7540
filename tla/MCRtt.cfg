CONSTANTS
    Procs = {p1, p2}
    MaxCalls = 2
    Samples <- MCSamples
    NonFinite = {NaN}
    MaxPing <- MCMaxPing
    None = None
SPECIFICATION Spec
INVARIANT NeverAmplified
PROPERTY Linearizable
CHECK_DEADLOCK FALSE
