SPECIFICATION CachesSpec
CONSTANTS
    Pages = {p1, p2, p3}
    WindowMax = 1
    A1Max = 1
    A2Max = 1
    Keys = {k1, k2, k3, k4}
    Readers = {r1, r2, r3}
    Writers = {w1}
    ReadsFail = TRUE
    Slices = {s1}
    NodeReaders = {n1, n2}
    MaxNodes = 4
    MaxRefs = 2
    p1 = p1 p2 = p2 p3 = p3
    k1 = k1 k2 = k2 k3 = k3 k4 = k4
    r1 = r1 r2 = r2 r3 = r3 w1 = w1
    n1 = n1 n2 = n2 s1 = s1
SYMMETRY CacheSymmetry
INVARIANTS
    PagesInOnePlace
    ReadsOwnPage
    NobodyMissesTheRelease
    NodesLinkedAsInFile
CHECK_DEADLOCK FALSE
