\* A week of two days, a hold of one week; the money in quarters of a percent.
SPECIFICATION FairSpec
CONSTANTS
    Universe <- MCUniverse
    Sector <- MCSector
    Fundamentals <- MCFundamentals
    OpenSets <- MCOpenSets
    Regimes <- MCRegimes
    Week = 2
    MinHoldWeeks = 1
    MaxChanges = 2
    CoreMax = 3
    Equity = 400
    BaseSize = 28
    NameCap = 48
    SectorCap = 50
    CashFloor = 48
    MaxThreads = 2
    Never = Never
    Missing = Missing
    Garbled = Garbled
    MinBackoff = 1
    MaxBackoff = 1
INVARIANTS SectorBounded BearHoldsPutsOnly WeeklyBatches
PROPERTIES RebalanceRecurs
