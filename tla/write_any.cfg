CONSTANTS
    m1 = m1
    m2 = m2
    m3 = m3
    NoMessage = NoMessage
    Messages = {m1, m2, m3}
    Size <- LargeSize
    RecordSize = 3
    BufferSize = 2
    Env = {"fail", "greetfail", "slow", "end", "cut", "eager", "impatient", "offline", "stall"}
SPECIFICATION Spec
INVARIANTS TypeOK AnsweredOnce OneAtATime PartsInOrder HalfSentIsClosed
\* A connection that is closed, or that the remote leaves alone, does no more.
CHECK_DEADLOCK FALSE
