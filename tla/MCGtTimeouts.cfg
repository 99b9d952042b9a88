CONSTANTS
    u1 = u1
    u2 = u2
    u3 = u3
    Users = {u1, u2, u3}
    Io = Io
    Idle = Idle
    Started <- StartedThreads
    Settings <- TightSettings
SPECIFICATION GtSpec
CHECK_DEADLOCK FALSE
INVARIANTS
    EnqueuedOnce
