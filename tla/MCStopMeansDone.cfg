CONSTANTS
    Lo = 0
    Hi = 2
    BlockSize = 1
    LeaseTTL = 1
    Workers = {w1, w2}
    Procs = {w1, w2}
    WorkerId <- OwnId
    MaxLeases = 4
    MaxBlocks = 2
    TargetKeys = {1}
    MayStop = FALSE
    MaxQueue = 1
SPECIFICATION Spec
PROPERTY StopMeansDone
CHECK_DEADLOCK FALSE
