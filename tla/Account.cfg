SPECIFICATION Spec
CONSTANTS
    Workers = {w1, w2}
    Users = {u1, u2}
    Usernames = {n1}
    Values = {a, b}
    Updates <- OneField
    None = None
SYMMETRY Symmetry
VIEW View
INVARIANTS TypeOK UsernamesAgree PartialUpdateAlone
