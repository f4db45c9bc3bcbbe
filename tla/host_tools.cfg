CONSTANTS
    Workers = {w1, w2}
    Messages = {m1, m2}
    Services = {s1}
    Probes = {"queue"}
    Ops <- AllOps
    Wirings <- MCWirings
SPECIFICATION FairSpec
INVARIANTS
    TypeOK
    ClearedMeansGone
    OkWasTrue
    SilenceIsShown
PROPERTIES
    EveryRequestEnds
    RequestsAdvance
