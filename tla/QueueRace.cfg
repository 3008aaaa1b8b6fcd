SPECIFICATION Spec
CONSTANTS
    Ids <- MCPairIds
    Orders <- MCPair
    Workers = {w1, w2}
    Clients = {c1}
    MaxDay = 2
    MaxRuns = 3
    MaxCrashes = 1
    MaxOverlaps = 3
    Doubtful = TRUE
    Corrupt = Corrupt
CHECK_DEADLOCK FALSE
INVARIANTS OnlyClearedGates ExecutedWasAccepted SentOrCancelledOnce
