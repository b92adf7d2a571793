SPECIFICATION Spec
CONSTANTS
    Conns = {c1, c2, c3}
    c1 = c1
    c2 = c2
    c3 = c3
    Keys = {k1, k2}
    k1 = k1
    k2 = k2
    NoKey = NoKey
    Env = {"early", "stall", "reject", "midway", "reconnect", "dead"}
SYMMETRY Symmetry
INVARIANTS
    TypeOK
    ShutdownSemaphore
    NoCallbackIntoFreed
    NoLostTask
    InstanceClosed
    OneConnectionPerKey
    DictionaryUsable
