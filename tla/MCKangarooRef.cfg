CONSTANTS
    P = 211
    N = 199
    Gx = 3
    Gy = 33
    Builds = {"plain", "negmap"}
    Lo = 20
    Widths = {3, 15, 30}
    Keys = {20, 21, 22, 23, 24, 26, 28, 30, 32, 35, 40, 45, 50, 60, 120, 190, 195, 198}
    Herd = 2
    JumpTables <- SmallJumps
    DPMask = 2
    CycWindow = 6
    MaxCyc = 8
    MaxSteps = 12
SPECIFICATION Spec
INVARIANTS Bookkeeping NoMeetingMissed
PROPERTIES EscapesTogether
CHECK_DEADLOCK FALSE
