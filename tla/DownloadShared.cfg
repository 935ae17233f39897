SPECIFICATION Spec
CONSTANTS
    b1 = b1
    b2 = b2
    b3 = b3
    Build = {b1, b2, b3}
    Configs <- MCShared
    None = None
    Whole = Whole
    MaxFail = 4
INVARIANTS
    SafeInParallel
