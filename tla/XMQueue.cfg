CONSTANTS
    p1 = p1
    p2 = p2
    getter = getter
    manager = manager
    Threads <- MCThreads
    Ops <- MCOps
    Nodes = {n1, n2}
    Nil = Nil
    Free = Free
    MaxItems = 3
    InitAborted = TRUE
SPECIFICATION Spec
INVARIANTS
    TypeOK
    Consistent
    NoMissedSignal
PROPERTY AtomicSpec
CHECK_DEADLOCK FALSE
