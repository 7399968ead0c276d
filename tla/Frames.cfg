CONSTANTS
    Putters = {p1, p2}
    Fps = 2
    Multiple = 2
    Second = 3
    Precision = 8
    MaxFrames = 3
    MaxTime = 2
    MaxSessions = 2
    Pictures <- MCPictures
SYMMETRY PutterSymmetry
SPECIFICATION Spec
INVARIANTS
    TypeOK
    Forward
    ConstantRate
    NotTooLate
    RealTime
    PictureRight
    ClockInv
CHECK_DEADLOCK FALSE
