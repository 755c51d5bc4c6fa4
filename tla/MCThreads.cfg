SPECIFICATION FairSpec
CONSTANTS
    a = a
    b = b
    e = e
    None = None
    Calls = {a, b}
    Events = {e}
    Blocking = {b}
    Programs <- Busy
    MaxConnects = 2
CHECK_DEADLOCK FALSE
INVARIANTS
    TypeOK
    QuietAfterDisconnect
PROPERTIES
    DisconnectReturns
    BlockingReturns
