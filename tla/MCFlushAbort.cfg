SPECIFICATION DiskWriterSpec
CONSTANTS
    Pages = {p1, p2, p3}
    WindowMax = 1
    A1Max = 1
    A2Max = 1
    Writers = {w1, w2}
    MaxDirty = 2
    DiskPages = {1, 2, 3, 4, 5, 6}
    MaxFiles = 2
    MaxFilePages = 2
INVARIANTS
    FlushedStateIsOpen
CHECK_DEADLOCK FALSE
