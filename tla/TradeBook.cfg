\* Two symbols, two rows, one trade by hand or one cut; the scripts overlap the
\* trader freely. With os imported.
SPECIFICATION Spec
CONSTANTS
    c1 = c1
    c2 = c2
    Codes <- MCCodes
    Positions <- MCPositions
    Moves <- MCMoves
    NoOrder = NoOrder
    Blank = Blank
    MaxOpenTrades = 2
    CooldownAfterLosses = 2
    DailyLimit = 1
    OsImported = TRUE
    MaxRows = 2
    MaxMishaps = 1
SYMMETRY Symmetry
INVARIANTS TypeOK ClosedOnce PnlBooked EntriesStay
PROPERTY KnownClosesShrink
