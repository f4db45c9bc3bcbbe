SPECIFICATION FairSpec
CONSTANTS
    w1 = w1
    w2 = w2
    Workers = {w1}
    Nobody = Nobody
    Targets <- AllTargets
    Requests <- SerialRequests
    MaxBans = 2
    Outcomes = {"ok", "nonzero", "error"}
    Disruptions = {"fail", "disconnect", "crash", "service"}
    MayLapse = TRUE
PROPERTIES
    LaterSyncRepairs
    ImplementsPublication
