\* One day to be stale, two at most, three of a catalyst's hold.
SPECIFICATION LifeFairSpec
CONSTANTS
    Band = 80
    StaleDays = 1
    MaxDays = 2
    MinHoldDays = 3
    Override = ""
    IsETF = FALSE
    Prices <- MCPrices
    Returns <- MCReturns
    Candles <- MCCandles
    Dates <- MCDates
    Theses <- MCTheses
    Adopted <- MCAdopted
    NoThesis = NoThesis
    Garbled = Garbled
    MaxAdoptions = 2
    MaxLogs = 1
INVARIANTS WinnerProtected
PROPERTIES HeldToClass OpenEnds
