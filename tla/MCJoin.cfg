SPECIFICATION FairSpec
CONSTANTS
    a = a
    b = b
    e = e
    None = None
    Calls = {a}
    Events = {e}
    Blocking = {}
    Programs <- OnlyIdle
    MaxConnects = 1
CHECK_DEADLOCK FALSE
PROPERTY DisconnectEnds
