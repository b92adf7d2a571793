SPECIFICATION Spec
CONSTANTS
    Conns = {c1, c2, c3}
    c1 = c1
    c2 = c2
    c3 = c3
    Keys = {k1, k2, k3}
    k1 = k1
    k2 = k2
    k3 = k3
    NoKey = NoKey
    Env = {"dead"}
INVARIANTS
    ExactSemaphore
    NoFault
PROPERTIES
    BarrierSpec
