SPECIFICATION Spec
CONSTANTS
    Codes <- MCCodes
    Sector <- MCSector
    Kind <- MCKind
    Lot <- MCLot
    Core <- MCCore
    Charts <- MCCharts
    Reports <- MCReports
    Markets <- MCMarkets
    Balances <- MCBalances
    Tiers <- MCTiers
    Pnls <- MCPnls
    MaxOpenTrades = 2
    MinScore = 500
    MaxRows = 3
    MaxMishaps = 1
    NoSignal = NoSignal
    Unknown = Unknown
    Never = Never
    Torn = Torn
    Raised = Raised
  
PROPERTIES HalfASector NoCloseForgotten
