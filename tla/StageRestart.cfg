SPECIFICATION HSpec
CONSTANTS
    Cap = 100
    Symbols <- MCFewSymbols
    MaxOpen = 2
    StreakLimit = 2
    UnlockAfter = 2
    WeekLength = 2
    Equities <- MCFewEquities
    Orders <- MCOneOrder
    PnLs <- MCPnLs
    MaxDay = 1
    MaxCloses = 0
    MaxCrashes = 1
    MaxCliRuns = 2
    Down = Down
    Unreadable = Unreadable
INVARIANTS HaltBelowHardFloor LiveNeedsPhrase DayExposureBounded
PROPERTY RunningKeepsCourse
