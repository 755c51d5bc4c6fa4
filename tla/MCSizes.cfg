SPECIFICATION Spec
CONSTANTS
    none = none
    mixed = mixed
    full = full
    large = large
    long = long
    unknown = unknown
    list = list
    Calls = {mixed, full, list}
    ArgsOf <- Args
    ReplyOf <- Replies
    Supported <- KnownCalls
    MAX_CALL_SZ = 512
    MAX_QUEUE_SIZE = 1
CHECK_DEADLOCK FALSE
INVARIANT SizeOfArgsMatchesSerialize
