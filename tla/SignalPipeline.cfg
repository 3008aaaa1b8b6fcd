SPECIFICATION Spec
CONSTANTS
    Codes <- MCCodes
    Watched <- MCWatched
    Foreign = {}
    Digests <- MCDigests
    Levels <- MCLevels
    Distances <- MCDistances
    Price = 5
    Balance = 200
    MaxUsd = 5000
    MaxOpenTrades = 2
    MaxOrders = 3
INVARIANTS ExposureBounded RankedByScore TradesLogged
