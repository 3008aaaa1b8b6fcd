SPECIFICATION HSpec
CONSTANTS
    Cap = 100
    Symbols <- MCSymbols
    MaxOpen = 2
    StreakLimit = 2
    UnlockAfter = 2
    WeekLength = 2
    Equities <- MCEquities
    Orders <- MCOrders
    PnLs <- MCPnLs
    MaxDay = 2
    MaxCloses = 2
    MaxCrashes = 0
    MaxCliRuns = 0
    Down = Down
    Unreadable = Unreadable
INVARIANTS FloorsOrdered RatchetIsLadder DeRiskMatches ExposureCapped
PROPERTY HaltIsSticky
