SPECIFICATION FairSpec
CONSTANTS
    s1 = s1
    s2 = s2
    c1 = c1
    c2 = c2
    p1 = p1
    p2 = p2
    None = None
    Servers = {s1, s2}
    Clients = {c1}
    Processes = {p1, p2}
    ProcessOf <- TwoProcesses
    NumSpaces = 2
    CLIENTS_SIZE = 1
    FdLimit = 4
    MaxCrashes = 1
CHECK_DEADLOCK FALSE
INVARIANTS
    TypeOK
    KeptUndisturbed
    NoPhantomServer
PROPERTIES
    ReportedWasAvailable
    DestructionNoticed
    ServerNoticed
