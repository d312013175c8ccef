CONSTANTS
    Threads = {t1}
    Buffers = {b1}
    NoThread = NoThread
    NoBuffer = NoBuffer
    MaxUint32 = 15
    MaxInt64 = 127
    None = None
    Clients = {"always"}
    MaxGeneration = 1
    Allowed <- OneTrouble
    AnswersLost = TRUE
CHECK_DEADLOCK FALSE
SPECIFICATION Spec
INVARIANT BorrowedWhileRead
