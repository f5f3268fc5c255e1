SPECIFICATION Spec
CONSTANTS
    Node = {n1, n2}
    RemoteNode = {}
    Port = {p1, p2}
    IdSpace = 8
    TimeoutSecs = 2
    WildId = {0, 1}
    MaxHandlers = 2
    FdsCounted = FALSE
    FdLimit = 0
    MaxStarts = 1
    MaxNodeStarts = 1
    MaxMiss = 1
    Timely = TRUE
    SlowRestart = TRUE
SYMMETRY NodeSymmetry
INVARIANT
    DistinctIds
