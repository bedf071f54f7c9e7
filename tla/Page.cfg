\* The page ends when all has been asked and answered.
SPECIFICATION FairSpec
CONSTANTS
    Callers = {k1, k2}
    MaxConnections = 3
    NoConnection = NoConnection
    Parcels = {x, y}
    Dependents = {"transactions", "statistics", "comparables", "valuation"}
    Outcomes = {{"transactions", "statistics", "comparables", "valuation"}, {"transactions", "comparables"}, {}}
    MaxRetries = 3
    MaxSearches = 3
    MaxLoads = 2
    None = None
    MaxRefreshes = 2
    Mounts = {m1, m2}
    MapRetries = 3
INVARIANTS
    SessionsAreAccounted
    SearchShowsTheLatest
    ShownIsSelected
PROPERTY PageNeverHangs
CHECK_DEADLOCK FALSE
