SPECIFICATION WebSpec
CONSTANTS
    Chunks = {1, 2}
    Puts = {p1, p2}
    Gets = {g1, g2}
    Revokes = {d1}
    Reports = {w1, w2}
    Reapers = {r1}
    Options <- WebOptions
    MaxReapFaults = 1
    None = None
SYMMETRY Symmetry
INVARIANTS CapRespected SingleBurn RowMatchesBlob
PROPERTY TerminalForever
