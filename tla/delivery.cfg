CONSTANTS
    Threads = {t1, t2}
    Buffers = {b1, b2}
    NoThread = NoThread
    NoBuffer = NoBuffer
    MaxUint32 = 15
    MaxInt64 = 127
    None = None
    Clients = {"always"}
    MaxGeneration = 2
    Allowed <- OneTrouble
    AnswersLost = TRUE
CHECK_DEADLOCK FALSE
SYMMETRY Symmetry
SPECIFICATION Spec
INVARIANTS
    TypeOK
    GenerationScoped
    RegistrationsAgree
PROPERTIES
    HandoverSpec
