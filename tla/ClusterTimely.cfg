SPECIFICATION FairSpec
CONSTANTS
    Node = {n1, n2}
    RemoteNode = {}
    Port = {p1}
    IdSpace = 8
    TimeoutSecs = 2
    WildId = {0, 1}
    MaxHandlers = 1
    FdsCounted = FALSE
    FdLimit = 0
    MaxStarts = 2
    MaxNodeStarts = 2
    MaxMiss = 1
    Timely = TRUE
    SlowRestart = TRUE
INVARIANTS
    AccurateListing
    DistinctIds
    RenewsOwn
PROPERTIES
    
    DeadNodesExpire
