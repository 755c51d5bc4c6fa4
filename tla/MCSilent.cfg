SPECIFICATION Spec
CONSTANTS
    k1 = k1
    k2 = k2
    l1 = l1
    l2 = l2
    e1 = e1
    e2 = e2
    e3 = e3
    NoEvent = NoEvent
    NoClient = NoClient
    NoView = NoView
    Clients = {k1, k2}
    Listeners = {l1, l2}
    Events = {e1, e2}
    ClientOf <- OneEach
    Hears <- HearsSome
    EventSize <- SmallEvents
    Looped = {k2}
    MAX_DATA_LENGTH = 1
    MAX_QUEUE_SIZE = 3
    MAX_CLIENTS_SIZE = 2
CHECK_DEADLOCK FALSE
INVARIANTS
    SilentAfterUnsubscribe
