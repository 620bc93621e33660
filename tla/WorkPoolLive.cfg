CONSTANTS
    Works = {w1, w2}
    Threads = {t1, t2}
    MaxWorkers = 2
    None = None
SPECIFICATION FairSpec
CHECK_DEADLOCK FALSE
PROPERTIES
    DataReclaimed
    SharedReclaimed
    TimeoutHonoured
    PoolFreeEnds
