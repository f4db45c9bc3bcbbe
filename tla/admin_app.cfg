CONSTANTS
    u1 = u1
    all = all
    other = other
    Users = {u1}
    Queries = {all, other}
    NoFilter = all
    Matches <- MCMatches
    Lists = {1, 2}
    Dashes = {1, 2}
    Posts = {1, 2}
    MaxBans = 1
    MaxEvents = 2
    None = None
SPECIFICATION FairSpec
INVARIANTS TypeOK RefreshPending GreyedHasPost
PROPERTIES QuietLoadsAreRight RowsConverge MetricsConverge
