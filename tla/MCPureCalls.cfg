CONSTANTS
    Base = 4
    Limbs = 4
    Fold = 3
    P = 43
    N = 31
    Gx = 2
    Gy = 12
    Scales = {1, 2, 5}
    Batch = 4
    Steps = 3
    Words = 48
    LowWords = 16
    Back = 2
    Window = 4
    Strays <- Memory
    StrayLows = {0, 9}
    Ranges = {0, 1, 3}
    Prizes = {0, 2}
    Intensities = {0, 1}
    DPRates = {0, 3}
    Costs = {0, 1}
    MulCurves <- ThreeCurves
    MulScalars <- BothSigns
SPECIFICATION PureSpec
INVARIANTS SumsExact ProductOrOneFoldShort GroupLaw DecompressRight WalkEmitsKeys
INVARIANTS ScanFindsKey NeverFundsWorseArm ToyRecovers
CHECK_DEADLOCK FALSE
