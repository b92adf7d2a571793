SPECIFICATION FairSpec
CONSTANTS
    Chirps = {a}
    Users = {u}
    Offered <- MCUsable
    Outside <- MCNone
    MaxStarts = 1
    Env = {}
CHECK_DEADLOCK FALSE
PROPERTY
    CloseEndsInAnyBuild
