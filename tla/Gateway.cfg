SPECIFICATION Spec
CONSTANTS
    Sockets = {s1, s2, s3}
    Ips = {i1}
    WsMax = 2
    Conns = {c1}
    Signals = {g1, g2}
INVARIANTS
    CountExact
    NatsSingle
    NothingCut
PROPERTY ShutdownCompletes
CHECK_DEADLOCK FALSE
