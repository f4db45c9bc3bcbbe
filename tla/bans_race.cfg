SPECIFICATION Spec
CONSTANTS
    w1 = w1
    w2 = w2
    Workers = {w1, w2}
    Nobody = Nobody
    Targets <- OneTarget
    Requests <- RaceRequests
    MaxBans = 2
    Outcomes = {"ok"}
    Disruptions = {}
    MayLapse = FALSE
INVARIANTS
    QuiescentFilesCurrent
