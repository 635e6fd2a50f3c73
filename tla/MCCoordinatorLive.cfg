CONSTANTS
    Lo = 0
    Hi = 1
    BlockSize = 1
    LeaseTTL = 1
    Workers = {w1, w2}
    Procs = {w1, w2}
    WorkerId <- OwnId
    MaxLeases = 2
    MaxBlocks = 1
    TargetKeys = {0}
    MayStop = TRUE
    MaxQueue = 1
SPECIFICATION FairSpec
PROPERTIES DeadHolderLosesLease AskerAnswered
CHECK_DEADLOCK FALSE
