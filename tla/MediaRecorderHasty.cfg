CONSTANTS
    Putters = {p1, p2}
    GLPutters = {}
    MaxFrames = 2
    MaxStarts = 3
    MaxCalls = 3
    MaxQueue = 0
    Faults = {"open", "malloc"}
    MuxFaults = {}
    Client = {"puts_late"}
SPECIFICATION Spec
INVARIANTS
    FramesOwned
    QueueBounded
CONSTRAINT MuxIdle
CHECK_DEADLOCK FALSE
