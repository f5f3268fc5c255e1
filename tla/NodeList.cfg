SPECIFICATION FairSpec
CONSTANTS
    Thread = {t1, t2}
    SWEEP = SWEEP
    TimeoutSecs = 1
    MaxEntries = 2
    MaxLag = 1
    NULL = NULL
INVARIANTS
    FindsListed
PROPERTIES
    ImplementsMembership
    ExpiredLeave
