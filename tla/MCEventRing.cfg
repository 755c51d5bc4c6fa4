SPECIFICATION FairSpec
CONSTANTS
    k1 = k1
    k2 = k2
    l1 = l1
    l2 = l2
    e1 = e1
    e2 = e2
    e3 = e3
    NoEvent = NoEvent
    NoClient = NoClient
    NoView = NoView
    Clients = {k1, k2}
    Listeners = {l1}
    Events = {e1, e2, e3}
    ClientOf <- OneEach
    Hears <- HearsSome
    EventSize <- SmallEvents
    Looped = {}
    MAX_DATA_LENGTH = 1
    MAX_QUEUE_SIZE = 2
    MAX_CLIENTS_SIZE = 1
CHECK_DEADLOCK FALSE
INVARIANTS
    ViewIntact
PROPERTIES
    EventsHeard
