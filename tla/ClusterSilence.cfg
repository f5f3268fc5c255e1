SPECIFICATION FairSpec
CONSTANTS
    Node = {n1}
    RemoteNode = {}
    Port = {p1}
    IdSpace = 8
    TimeoutSecs = 2
    WildId = {0}
    MaxHandlers = 1
    FdsCounted = FALSE
    FdLimit = 0
    MaxStarts = 1
    MaxNodeStarts = 1
    MaxMiss = 2
    Timely = TRUE
    SlowRestart = TRUE
PROPERTIES
    Rejoin
