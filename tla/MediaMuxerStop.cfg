CONSTANTS
    MaxPackets = 2
    MaxMuxStarts = 1
    MuxFaults = {}
SPECIFICATION FairSpec
PROPERTY MuxStopReturns
CHECK_DEADLOCK FALSE
