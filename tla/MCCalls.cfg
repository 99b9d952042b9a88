SPECIFICATION CallsSpec
CONSTANTS
    ClientBuffer = 6
    ServerBuffer = 5
    SlowSends = TRUE
    MaxCalls = 3
    Keys = {1, 2}
    Space = 8
    EntryBytes = 2
    HandleBytes = 2
    MaxPart = 4
    MaxParts = 3
    BufferSizes <- UpdateBuffers
    MaxKeys = 4
    GroupBits = 0
    UshardBits = 1
    HttpBuffer = 9
    Requests <- HttpRequests
    AnswerSizes = {0, 1, 10}
    MaxRequests = 3
    Clients = {c1, c2}
    Ushards = {u1, u2}
    MaxSlices = 2
    MergeAt = 2
    MaxUpdates = 3
    Leavers = {c2}
    Connections = {n1, n2}
    NoConnection = none
INVARIANTS
    UpdatesStartedAloneAreWhole
    AnswersMatchCalls
    ValuesReassembled
    EntriesArrive
    RequestsAnsweredInOrder
PROPERTIES
    HeldBackUpdatesStart
    CallsEnd
    FetchEnds
    TerminateEndsServer
CHECK_DEADLOCK FALSE
