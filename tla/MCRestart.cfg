CONSTANTS
    p1 = p1
    p2 = p2
    p3 = p3
    w1 = w1
    w2 = w2
    Lo = 0
    Hi = 1
    BlockSize = 1
    LeaseTTL = 1
    Workers = {w1, w2}
    Procs = {p1, p2, p3}
    WorkerId <- RestartedId
    MaxLeases = 3
    MaxBlocks = 1
    TargetKeys = {1}
    MayStop = FALSE
    MaxQueue = 0
SPECIFICATION Spec
PROPERTY SweeperKeepsLease
CHECK_DEADLOCK FALSE
