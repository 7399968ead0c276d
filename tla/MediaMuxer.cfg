CONSTANTS
    MaxPackets = 5
    MaxMuxStarts = 2
    MuxFaults = {"output", "header", "write", "trailer"}
SPECIFICATION FairSpec
INVARIANTS
    TypeOK
    DrainBeforeTrailer
    MuxDrainInv
    NoGap
PROPERTY AbortSeenEndsMux
CHECK_DEADLOCK FALSE
