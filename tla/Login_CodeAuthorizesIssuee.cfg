SPECIFICATION Spec
CONSTANTS
    Workers = {w1, w2}
    Phones = {p1}
    Users = {u1, u2}
    Hashes = {h1, h2}
    Codes = {c1, c2}
    FixedCode = c1
    Keys = {perm, temp}
    PermKeys = {perm}
    MaxAttempts = 2
    OtpSender = FALSE
    RacingWriters = TRUE
    None = None
SYMMETRY Symmetry
INVARIANT CodeAuthorizesIssuee
