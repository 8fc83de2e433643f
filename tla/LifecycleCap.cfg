SPECIFICATION LiveSpec
CONSTANTS
    Chunks = {1}
    Puts = {p1}
    Gets = {}
    Revokes = {d1}
    Reports = {w1, w2}
    Reapers = {r1, r2}
    Options <- MixedOptions
    MaxReapFaults = 1
    None = None
INVARIANTS TypeOK ReaperJustified TerminalReapable AuditWithinCount
PROPERTY EventuallyPurged
