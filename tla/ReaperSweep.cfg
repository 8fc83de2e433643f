SPECIFICATION Spec
CONSTANTS
    MaxShares = 3
    Daemons = {d1, d2}
    BatchSize = 2
    MaxFaults = 1
    d1 = d1
    d2 = d2
INVARIANT BatchJustified
PROPERTY DueIsPurged
CHECK_DEADLOCK FALSE
