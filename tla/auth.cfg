SPECIFICATION Spec
CONSTANTS
    w1 = w1
    w2 = w2
    u1 = u1
    p1 = p1
    p2 = p2
    Keys <- OneKey
    Limit = 2
    Window = 2
    Workers = {w1, w2}
    Users = {u1}
    Passwords = {p1, p2}
    TTL = 1
    Disruptions = {"abort", "restart", "reset"}
    MaxTime = 2
    MaxAttempts = 3
    Nobody = Nobody
SYMMETRY Symmetry
INVARIANTS
    TypeOK
    WindowBound
    OverStaysOver
    LoginNeedsPassword
PROPERTIES
    RefusalsJustified
    OnlyOwnLogoutEnds
