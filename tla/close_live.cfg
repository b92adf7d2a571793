SPECIFICATION FairSpec
CONSTANTS
    Conns = {c1, c2}
    c1 = c1
    c2 = c2
    Keys = {k1, k2}
    k1 = k1
    k2 = k2
    NoKey = NoKey
    Env = {"early", "stall", "reject", "midway", "reconnect", "late", "dead"}
PROPERTIES
    CloseEnds
    ShutdownEnds
