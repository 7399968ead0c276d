CONSTANTS
    Putters = {p1}
    GLPutters = {}
    MaxFrames = 2
    MaxStarts = 3
    MaxCalls = 3
    MaxQueue = 1
    Faults = {}
    MuxFaults = {}
    Client = {"awaits", "serial", "puts_late", "in_order"}
SPECIFICATION Spec
INVARIANTS
    QuietWhenStopped
CHECK_DEADLOCK FALSE
