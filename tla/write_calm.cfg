CONSTANTS
    m1 = m1
    m2 = m2
    m3 = m3
    NoMessage = NoMessage
    Messages = {m1, m2, m3}
    Size <- SmallSize
    RecordSize = 1
    BufferSize = 2
    Env = {"fail", "offline", "stall"}
SPECIFICATION FairSpec
INVARIANTS Complete NoFault
PROPERTIES EverySendAnswered
\* A connection that is closed, or that the remote leaves alone, does no more.
CHECK_DEADLOCK FALSE
