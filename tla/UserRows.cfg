SPECIFICATION Spec
CONSTANTS
    Users = {u1}
    Processes = {p1, p2, p3}
    MaxTime = 4
    Limits = {0, 1}
    None = None
SYMMETRY Symmetry
INVARIANTS ServedAsGranted
PROPERTIES LastSeenMonotone DeletedRowsKept
