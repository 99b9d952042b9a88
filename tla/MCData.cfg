SPECIFICATION DataSpec
CONSTANTS
    k1 = 1
    k2 = 2
    Keys = {1, 2}
    Batches <- MixedBatches
    Writers = {w1}
    Readers = {r1}
    MergeThreads = {m1}
    MaxSlicesPerTier = 1
    TierDivisor = 1
    WordBits = 2
    Compacting = TRUE
    MaxUpdates = 4
    Slices = {s1, s2, s3}
    MaxParts = 2
    Items = {a, b}
    Free = Free
    InitialSize = 4
    MaxItems = 8
    SlabSize = 3
    MaxSlabs = 2
    Word = 8
    Nibble = 2
    ClzBits = 2
    SizeBits = 3
    Codes <- SmallCodes
    Timestamps = {0, 1, 4, 9, 40, 72}
    Values = {0, 1, 20, 170, 255}
    WideSteps = FALSE
    MaxSamples = 4
    SliceKeys = {1, 2, 3, 4, 5}
    Sizes = {0, 2, 5}
    NodeSpace = 4
    EntrySpace = 1
    MinPart = 1
    PartDivisor = 2
    IndexFanout = 2
    LinearSpan = 1
    Unfinished = TRUE
    MaxAdds = 5
SYMMETRY Interchangeable
INVARIANTS
    FreedIffUnreferenced
    NewestCommittedVisible
    YieldsNewestInOrder
    SamplesReadBack
    BeginReadsAll
    RangesComplete
PROPERTIES
    RefinesFifo
    RefinesDeque
CHECK_DEADLOCK FALSE
