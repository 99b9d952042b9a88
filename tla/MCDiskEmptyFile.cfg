CONSTANTS
    InitialPages = 0
    ExtendPages = 2
    MaxRequest = 2
    MaxPages = 4
    MaxExtents = 2
    Threads = {t1, t2}
    NoThread = NoThread
SPECIFICATION DiskSpec
CHECK_DEADLOCK FALSE
INVARIANTS
    WholeSpaceReusable
