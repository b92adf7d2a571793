SPECIFICATION Spec
CONSTANTS
    Chirps = {a}
    Users = {u, v}
    Offered <- MCUsable
    Outside <- MCNone
    MaxStarts = 1
    Env = {"race"}
CHECK_DEADLOCK FALSE
PROPERTY
    FlagsKept
