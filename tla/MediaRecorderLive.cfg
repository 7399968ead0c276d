CONSTANTS
    Putters = {p1}
    GLPutters = {p1}
    MaxFrames = 2
    MaxStarts = 6
    MaxCalls = 6
    MaxQueue = 1
    Faults = {"open", "size", "malloc"}
    MuxFaults = {"output", "trailer"}
    Client = {"awaits", "serial", "puts_late", "settles", "in_order"}
SPECIFICATION FairSpec
PROPERTIES
    StartAnswered
    EncoderStops
    MuxErrorTold
CHECK_DEADLOCK FALSE
