SPECIFICATION Spec
CONSTANTS
    p0 = p0
    p1 = p1
    p2 = p2
    w1 = w1
    w2 = w2
    Workers = {w1, w2}
    Passwords = {p0, p1, p2}
    Requests <- AllRequests
    InitialHomes <- AnyAccount
    Attempts = 2
    MaxTime = 0
    Environment = {"fail", "drop", "deliver", "bans"}
    NoFile = NoFile
    NoDir = NoDir
    Nobody = Nobody
    Torn = Torn
SYMMETRY Symmetry
INVARIANTS
    TypeOK
    LoneCreateCanLogIn
PROPERTIES
    MailLeavesWhole
    RequestsAdvance
