SPECIFICATION Spec
CONSTANTS
    Node = {n1}
    RemoteNode = {}
    Port = {p1, p2}
    IdSpace = 3
    TimeoutSecs = 1
    WildId = {1}
    MaxHandlers = 2
    FdsCounted = FALSE
    FdLimit = 0
    MaxStarts = 3
    MaxNodeStarts = 2
    MaxMiss = 1
    Timely = FALSE
    SlowRestart = TRUE
INVARIANTS
    TypeOK
    HoldsIssuedId
PROPERTY
    ImplementsMembership
