CONSTANTS
    Putters = {p1}
    MaxFrames = 1
    MaxStarts = 1
    Faults = {}
SPECIFICATION FairSpec
PROPERTY StopReturns
CHECK_DEADLOCK FALSE
