CONSTANTS
    Lo = 0
    Hi = 6
    BlockSize = 2
    LeaseTTL = 1
    Workers = {w1, w2}
    Procs = {w1, w2}
    WorkerId <- OwnId
    MaxLeases = 6
    MaxBlocks = 3
    TargetKeys = {0, 1, 3, 5, 6}
    MayStop = FALSE
    MaxQueue = 1
SPECIFICATION SteadySpec
PROPERTIES SwarmFinds SwarmSweepsAll FoundEndsSweeping
CHECK_DEADLOCK FALSE
