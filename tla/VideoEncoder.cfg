CONSTANTS
    Putters = {p1, p2}
    MaxFrames = 3
    MaxStarts = 2
    Faults = {"open", "process", "packet", "flush", "size", "malloc"}
SYMMETRY PutterSymmetry
SPECIFICATION Spec
INVARIANTS
    TypeOK
    NoLostAbort
    DrainOnStop
    DrainInv
    FrameOwnership
CHECK_DEADLOCK FALSE
