SPECIFICATION GateSpec
CONSTANTS
    Ids = {o1, o2}
    Timeout = 1
    MaxTime = 3
    MaxRestarts = 0
    MaxOverlaps = 0
    Corrupt = Corrupt
PROPERTY KeepsPromise
