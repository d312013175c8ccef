CONSTANTS
    Threads = {t1}
    Buffers = {b1, b2}
    NoThread = NoThread
    NoBuffer = NoBuffer
    MaxUint32 = 15
    MaxInt64 = 127
    None = None
    Clients = {"once", "always"}
    MaxGeneration = 2
    Allowed <- OneCrash
    AnswersLost = FALSE
CHECK_DEADLOCK FALSE
SPECIFICATION FairSpec
INVARIANT BorrowedWhileRead
PROPERTY StreamIsShown
