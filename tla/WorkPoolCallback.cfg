CONSTANTS
    Works = {w1, w2}
    Threads = {t1, t2}
    MaxWorkers = 1
    None = None
SPECIFICATION Spec
CHECK_DEADLOCK FALSE
INVARIANT CallbackDataAlive
