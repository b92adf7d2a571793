SPECIFICATION Spec
CONSTANTS
    Chirps = {a, b}
    Users = {u}
    Offered <- MCOffered
    Outside <- MCOutside
    MaxStarts = 3
    Env = {"uv", "signal"}
SYMMETRY MCSymmetry
CHECK_DEADLOCK FALSE
INVARIANTS
    TypeOK
    AliveWhenUsed
    OpenSSLInUse
    PortsGivenBack
    CloseNeverStuck
