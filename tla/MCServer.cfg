SPECIFICATION FairSpec
CONSTANTS
    k1 = k1
    k2 = k2
    a = a
    b = b
    d = d
    e = e
    NoAnswer = NoAnswer
    Clients = {k1}
    Calls = {a, b, d}
    Answers = {a, b, d}
    WithCallback = {a, b}
    Answering = {a, b}
    Supported = {a, b}
    ClientOf <- AllOfK1
    FrameSize <- SmallFrames
    Looped = {}
    ServerLooped = TRUE
    MAX_DATA_LENGTH = 20
    MAX_QUEUE_SIZE = 2
    MAX_CLIENT_ID = 1
    QUEUE_SIZE = 1
    MaxAnswers = 1
    MaxExits = 1
CHECK_DEADLOCK FALSE
INVARIANTS
    ServedInOrder
    NothingLost
PROPERTIES
    PromisesKept
    CallsReachTheServer
    WaitingEnds
