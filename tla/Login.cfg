SPECIFICATION Spec
CONSTANTS
    Workers = {w1, w2}
    Phones = {p1, p2}
    Users = {u1, u2}
    Hashes = {h1, h2}
    Codes = {c1, c2}
    FixedCode = c1
    Keys = {perm, temp}
    PermKeys = {perm}
    MaxAttempts = 3
    OtpSender = FALSE
    RacingWriters = FALSE
    None = None
SYMMETRY Symmetry
INVARIANTS
    TypeOK
    OneLoginPerCode
    LoginsAreProven
    ExhaustedCodeIsDead
    CodeAuthorizesIssuee
    SignUpPromiseKept
