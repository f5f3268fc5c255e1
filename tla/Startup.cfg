SPECIFICATION FairSpec
CONSTANTS
    Controller = {c1}
    Daemon = {d1, d2}
    NONE = NONE
    LastPort = 4
    Busy = {3}
    FdLimit = 4
    Topology <- MCTopology
INVARIANTS
    OwnPort
    FailsOnlyExhausted
    ReachesSender
PROPERTIES
    StartupEnds
    
