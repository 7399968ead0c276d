CONSTANTS
    Putters = {p1}
    GLPutters = {}
    MaxFrames = 1
    MaxStarts = 5
    MaxCalls = 5
    MaxQueue = 1
    Faults = {}
    MuxFaults = {}
    Client = {"awaits", "serial", "settles"}
    Control = Control
    MaxConfigs = 2
SPECIFICATION LFairSpec
INVARIANTS
    LifeInv
    LastIsAlone
    WeakOutlivesLoop
    WorkersEndFirst
    StringsLive
    StoppedIsFreed
PROPERTY ReleaseReturns
CHECK_DEADLOCK FALSE
