SPECIFICATION Spec
CONSTANTS
    w1 = w1
    dc0 = dc0
    dc1 = dc1
    dc2 = dc2
    dc3 = dc3
    ioc = ioc
    Walker = {w1}
    Dc = {dc0, dc1, dc2, dc3}
    Io = {ioc}
    Primary = dc0
    Other = Other
    None = None
    Pages <- MCPages
    Excluded = {dc3}
    Modes = {"no", "auto", "force"}
    Before = {dc1}
    MaxDepth = 2
    MaxRetries = 2
    Chunk = 2
    MaxChange = 2
    MaxFault = 1
INVARIANTS
    TypeOK
    SnapshotRead
    ReadOnce
    Persisted
    Followed
PROPERTIES
    OthersKept
    Terminates
CHECK_DEADLOCK FALSE
