SPECIFICATION GateSpec
CONSTANTS
    Ids = {o1, o2}
    Timeout = 1
    MaxTime = 3
    MaxRestarts = 1
    MaxOverlaps = 3
    Corrupt = Corrupt
SYMMETRY Symmetry
INVARIANTS NoLateApproval NoForgedStatus DecidedOnce
