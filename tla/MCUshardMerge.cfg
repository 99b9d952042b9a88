CONSTANTS
    k1 = k1
    k2 = k2
    Keys = {k1, k2}
    Batches <- SingleBatches
    Writers = {w1, w2}
    Readers = {}
    MergeThreads = {m1, m2}
    MaxSlicesPerTier = 1
    TierDivisor = 1
    WordBits = 2
    Compacting = FALSE
    MaxUpdates = 4
SPECIFICATION Spec
CHECK_DEADLOCK FALSE
INVARIANTS
    UnlinkedOnce
    OverfullIsScheduled
PROPERTIES
    RefinesStore
    OverfullTiersShrink
