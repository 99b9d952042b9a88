SPECIFICATION SliceSpec
CONSTANTS
    SliceKeys = {1, 2, 3, 4, 5, 6, 7}
    Sizes = {0, 1, 2}
    NodeSpace = 4
    EntrySpace = 1
    MinPart = 1
    PartDivisor = 2
    IndexFanout = 2
    LinearSpan = 1
    Unfinished = FALSE
    MaxAdds = 7
INVARIANTS
    RangeFromKeyIsComplete
CHECK_DEADLOCK FALSE
