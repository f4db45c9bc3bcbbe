SPECIFICATION Spec
CONSTANTS
    w1 = w1
    w2 = w2
    Workers = {w1, w2}
    Nobody = Nobody
    Targets <- OneTarget
    Requests <- AdminRequests
    MaxBans = 2
    Outcomes = {"ok", "error"}
    Disruptions = {"fail", "disconnect", "crash", "service"}
    MayLapse = TRUE
SYMMETRY Symmetry
INVARIANTS
    TypeOK
    UndisturbedSyncPublishes
    EnforcedAfterReload
    RequestTookEffect
PROPERTIES
    RequestsAdvance
