SPECIFICATION FairSpec
CONSTANTS
    o1 = o1
    o2 = o2
    c1 = c1
    c2 = c2
    Objects <- MCObjects
    Children <- MCChildren
    Pids <- MCPids
    MaxDepth = 2
    OwnGroup = FALSE
    DeleteTaken = FALSE
    SharedWait = FALSE
INVARIANTS
    TypeOK
    NoDangling
    HeardOnce
    NoStray
PROPERTIES
    ExitIsHeard
CHECK_DEADLOCK FALSE
