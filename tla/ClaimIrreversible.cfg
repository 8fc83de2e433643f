SPECIFICATION Spec
CONSTANTS
    Chunks = {1}
    Puts = {p1}
    Gets = {}
    Revokes = {d1}
    Reports = {}
    Reapers = {r1}
    Options <- PlainOptions
    MaxReapFaults = 1
    None = None
PROPERTY DestroyIrreversible
