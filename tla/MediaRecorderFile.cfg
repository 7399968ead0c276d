CONSTANTS
    Putters = {p1}
    GLPutters = {}
    MaxFrames = 2
    MaxStarts = 3
    MaxCalls = 3
    MaxQueue = 1
    Faults = {}
    MuxFaults = {}
    Client = {"awaits", "serial", "puts_late", "settles", "in_order"}
SPECIFICATION Spec
INVARIANTS
    FileComplete
CHECK_DEADLOCK FALSE
