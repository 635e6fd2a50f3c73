CONSTANTS
    Base = 4
    Limbs = 4
    Fold = 3
    P = 43
    N = 31
    Gx = 2
    Gy = 12
    Scales = {1, 2, 5}
    Batch = 4
    Steps = 3
SPECIFICATION Spec
INVARIANTS ProductExact
CHECK_DEADLOCK FALSE
