SPECIFICATION Spec
CONSTANTS
    Ids <- MCIds
    Orders <- MCOrders
    Workers = {w1, w2}
    Clients = {c1}
    MaxDay = 2
    MaxRuns = 2
    MaxCrashes = 0
    MaxOverlaps = 0
    Doubtful = FALSE
    Corrupt = Corrupt
CHECK_DEADLOCK FALSE
PROPERTY KeepsPromise
