SPECIFICATION Spec
CONSTANTS
    w1 = w1
    w2 = w2
    Workers = {w1}
    Nobody = Nobody
    Targets <- AllTargets
    Requests <- SerialRequests
    MaxBans = 2
    Outcomes = {"ok"}
    Disruptions = {}
    MayLapse = FALSE
INVARIANTS
    ActiveBansWritten
