SPECIFICATION FairSpec
CONSTANTS
    Conn = {c1, c2, c3}
    MAXTHREADS = 3
    MaxErrors = 2
INVARIANTS
    TypeOK
    CountsThreads
    FiniAlone
    
PROPERTIES
    Accepted
    ShutdownCompletes
    ShutdownOrBlocked
