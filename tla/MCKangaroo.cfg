CONSTANTS
    P = 211
    N = 199
    Gx = 3
    Gy = 33
    Builds = {"base", "negmap"}
    Lo = 3
    W = 6
    Keys <- KeysAround
    Herd = 2
    JumpScalars <- FourJumps
    Limb = 64
    DPMask = 4
    Cap = 2
    Steps = 3
    Rounds = 3
SPECIFICATION Spec
INVARIANTS Bookkeeping CandidateIsKey NoMissedCollision ReportsReachTables
CHECK_DEADLOCK FALSE
