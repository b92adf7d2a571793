SPECIFICATION Spec
CONSTANTS
    Conns = {c1}
    c1 = c1
    Keys = {k1}
    k1 = k1
    NoKey = NoKey
    Env = {"midway"}
SYMMETRY Symmetry
INVARIANTS
    CallbacksRemoved
