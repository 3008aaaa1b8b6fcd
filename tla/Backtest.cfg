SPECIFICATION Spec
CONSTANTS
  Codes <- MCCodes
  Slip <- MCSlip
  Atr <- MCAtr
  Fee = 1
  BorrowUnit = 40
  MaxOpen = 2
  HoldMin = 2
  HoldMax = 3
  TrailAfter = 2
  Tiers <- MCTiers
  Universe <- MCUniverse
  Industry <- MCIndustry
  Sector <- MCSector
  Statements <- MCStatements
  Shares <- MCShares
  PubLag = 1
  BasketSize = 3
  MaxTurnover = 1
  MaxPerSector = 1
  Lookback = 6
  MinSeries = 1
  MinTrend = 3
  Short = 2
  Long = 4
  HalfYear = 3
  Volatility <- MCVolatility
  Downside <- MCDownside
  Options <- MCOptions
  Days <- MCDays
  SignalLists <- MCSignalLists
  SPY = "SPY"
  CoreNames <- MCCore
  Capital = 200
  CoreCapital = 110
  TacticalCapital = 66
  CashFloor = 24
  IdleUnit = 60
  Before <- MCBefore
  Quarter <- MCQuarter
  RebalDates <- MCRebal
  Bars = 5
INVARIANTS BooksBalance NoLookAhead BasketRules
PROPERTY EntriesAreOld
CHECK_DEADLOCK FALSE
