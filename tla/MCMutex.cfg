SPECIFICATION MutexSpec
CONSTANTS
    LockThreads = {t1, t2, t3}
    NoOwner = NoOwner
INVARIANTS
    WaiterFindsItFree
CHECK_DEADLOCK FALSE
