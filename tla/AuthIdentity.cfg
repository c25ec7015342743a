SPECIFICATION Spec
CONSTANTS
    Txs = {x1, x2}
    PermKeys = {1, 2, 3}
    TempKeys = {9}
    Users = {u1, u2}
    Hash <- MCHash
    MaxAttempts = 3
    MaxPts = 1
    MaxTxs = 2
    None = None
SYMMETRY Symmetry
INVARIANTS IdentityTxsNeverDeadlock NoSilentGap DeletionComplete RepeatedBindAccepted
PROPERTIES RevokesOwnOnly
