SPECIFICATION FairSpec
CONSTANTS
    Subs = {s1, s2}
    BufSize = 2
    ChanCap = 3
    MaxMsgs = 5
    QueueFull = TRUE
    RowFails = TRUE
    SlowHandler = TRUE
INVARIANTS
    TypeOK
    NoGaps
    ClosedExactlyOnce
    SuccessIsRecorded
PROPERTIES
    StreamEnds
CHECK_DEADLOCK FALSE
