SPECIFICATION SpaceSpec
CONSTANTS
    InitialPages = 0
    ExtendPages = 2
    MaxRequest = 3
    MaxPages = 4
    MaxExtents = 1
    Threads = {t1, t2, t3}
    NoThread = NoThread
    Pages = {p1, p2, p3}
    WindowMax = 1
    A1Max = 1
    A2Max = 1
    Writers = {w1, w2}
    MaxDirty = 2
    DiskPages = {1, 2, 3, 4, 5, 6}
    MaxFiles = 2
    MaxFilePages = 2
INVARIANTS
    PagesAccountedFor
    FilesOwnTheirPages
    PagesAreBacked
    MemoryInOnePlace
    CommittedFilesReadable
PROPERTIES
    AllocateReturns
    FreeSpaceIsCutOnlyAtItsStart
    FlushedStateStaysOpen
    PageWaitEnds
    FlushEnds
CHECK_DEADLOCK FALSE
