CONSTANTS
    Works = {w1, w2, w3}
    Threads = {t1, t2, t3}
    MaxWorkers = 2
    None = None
SPECIFICATION Spec
SYMMETRY Symmetry
CHECK_DEADLOCK FALSE
INVARIANTS
    TypeOK
    FreedOnceUnreachable
    EndedCallbackExclusive
    CountersExact
    WorkersBounded
    WorkConserving
    NoLostSignal
    NoLostEnd
PROPERTY RefinesContract
