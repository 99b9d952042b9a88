SPECIFICATION DbSpec
CONSTANTS
    Clients = {c1, c2}
    Ushards = {u1, u2}
    MaxSlices = 2
    MergeAt = 2
    MaxUpdates = 4
    Leavers = {c1, c2}
INVARIANTS
    UpdatesAreWhole
CHECK_DEADLOCK FALSE
