SPECIFICATION Spec
CONSTANTS
    Chunks = {1, 2}
    Puts = {p1, p2}
    Gets = {g1, g2}
    Revokes = {d1}
    Reports = {}
    Reapers = {r1}
    Options <- BurnOptions
    MaxReapFaults = 1
    None = None
SYMMETRY Symmetry
INVARIANTS LiveDataKept ReadyComplete ServedWasDelivered
PROPERTIES BurnAfterDelivery DoomIsForever RetentionKept
