SPECIFICATION Spec
CONSTANTS
    none = none
    mixed = mixed
    full = full
    large = large
    long = long
    unknown = unknown
    list = list
    Calls = {none, mixed, full, large, long, unknown}
    ArgsOf <- Args
    ReplyOf <- Replies
    Supported <- KnownCalls
    MAX_CALL_SZ = 512
    MAX_QUEUE_SIZE = 1
CHECK_DEADLOCK FALSE
INVARIANTS
    ArgsArrive
    ParsedInFull
    RefusedTooBig
    AnswersArrive
