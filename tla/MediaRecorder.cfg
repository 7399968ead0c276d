CONSTANTS
    Putters = {p1}
    GLPutters = {}
    MaxFrames = 4
    MaxStarts = 6
    MaxCalls = 6
    MaxQueue = 1
    Faults = {}
    MuxFaults = {}
    Client = {"awaits", "serial", "puts_late", "settles", "in_order"}
SPECIFICATION Spec
INVARIANTS
    TypeOK
    QuietWhenStopped
    NoClash
    FileIsSuffix
    NoError
PROPERTY StartNeedsPrepared
CHECK_DEADLOCK FALSE
