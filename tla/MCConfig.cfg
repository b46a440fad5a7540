CONSTANTS
    a = a
    b = b
    Procs = {p1, p2}
    Creator = p1
    Names <- MCNames
    Blank = Blank
    Weights <- MCWeights
    Files <- AllFiles
    MaxCalls = 1
    MaxWrites = 1
    MaxTime = 2
    maxWeight = 3
    epsilon = 2
    Nil = Nil
SPECIFICATION LiveSpec
INVARIANT CountsExact
PROPERTIES Implements ReloadTimeMonotone EveryCallReturns
CHECK_DEADLOCK FALSE
