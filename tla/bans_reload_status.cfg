SPECIFICATION Spec
CONSTANTS
    w1 = w1
    w2 = w2
    Workers = {w1}
    Nobody = Nobody
    Targets <- OneTarget
    Requests <- RaceRequests
    MaxBans = 2
    Outcomes = {"ok", "nonzero", "error"}
    Disruptions = {}
    MayLapse = FALSE
INVARIANTS
    FailedReloadReported
