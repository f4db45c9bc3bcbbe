SPECIFICATION FairSpec
CONSTANTS
    p0 = p0
    p1 = p1
    p2 = p2
    w1 = w1
    w2 = w2
    Workers = {w1, w2}
    Passwords = {p0, p1, p2}
    Requests <- Toggles
    InitialHomes <- AnExistingAccount
    Attempts = 2
    MaxTime = 1
    Environment = {"fail", "drop", "deliver", "tick", "bans"}
    NoFile = NoFile
    NoDir = NoDir
    Nobody = Nobody
    Torn = Torn
PROPERTIES
    CredentialStays
    DisabledMeansNoPassword
    DeletedMeansRemoved
    ImplementsLogin
    EveryRequestEnds
