SPECIFICATION Spec
CONSTANTS
    k1 = k1
    k2 = k2
    a = a
    b = b
    d = d
    e = e
    NoAnswer = NoAnswer
    Clients = {k1, k2}
    Calls = {a, b, d, e}
    Answers = {a, b, d, e}
    WithCallback = {a, b, d}
    Answering = {a, d, e}
    Supported = {a, b, d, e}
    ClientOf <- DOfK2
    FrameSize <- FramesWithABigOne
    Looped = {k2}
    ServerLooped = FALSE
    MAX_DATA_LENGTH = 20
    MAX_QUEUE_SIZE = 2
    MAX_CLIENT_ID = 2
    QUEUE_SIZE = 1
    MaxAnswers = 1
    MaxExits = 0
CHECK_DEADLOCK FALSE
INVARIANTS
    TypeOK
    AnswersMatchUndisturbed
    SlotOwnership
    AtMostOnce
