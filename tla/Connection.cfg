SPECIFICATION Spec
CONSTANTS
    Conns = {c1, c2}
    Keys = {p1, t1, old}
    TempKeys = {t1}
    LegacyKeys = {old}
    MaxFrames = 2
    None = None
SYMMETRY Symmetry
INVARIANTS SessionKeysAreProven NoFrameLost ValidKeyNotDenied
PROPERTIES AckedKeyFound
