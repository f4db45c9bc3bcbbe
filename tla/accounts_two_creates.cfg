SPECIFICATION Spec
CONSTANTS
    p0 = p0
    p1 = p1
    p2 = p2
    w1 = w1
    w2 = w2
    Workers = {w1, w2}
    Passwords = {p0, p1, p2}
    Requests <- TwoCreates
    InitialHomes <- NoAccount
    Attempts = 2
    MaxTime = 1
    Environment = {}
    NoFile = NoFile
    NoDir = NoDir
    Nobody = Nobody
    Torn = Torn
SYMMETRY Symmetry
INVARIANTS
    CreatedCanLogIn
