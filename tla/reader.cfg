SPECIFICATION FairSpec
CONSTANTS
    HandshakeSize = 2
    HeaderSize = 6
    PartSize = 1
    Parts = {"data"}
    Messages = 2
    Records = 3
    Lengths <- MCLengths
    BioSize = 3
    ReadSize = 4
\* A connection that is shut down, and a remote that is silent, do no more.
CHECK_DEADLOCK FALSE
INVARIANTS
    TypeOK
    OrderlyIsServed
    TakenInOrder
    TakenSoundly
PROPERTIES
    AllRead
    CallbackReturns
