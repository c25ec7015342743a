SPECIFICATION Spec
CONSTANTS
    Sessions = {s1, s2}
    Users = {u1, u2}
    Verifiers = {v1, v2}
    MaxChallenges = 2
    None = None
SYMMETRY Symmetry
INVARIANTS CompletedByOwner LiveProofAccepted
PROPERTIES CompletedWithPassword
