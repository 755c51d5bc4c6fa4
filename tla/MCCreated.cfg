SPECIFICATION Spec
CONSTANTS
    s1 = s1
    s2 = s2
    c1 = c1
    c2 = c2
    p1 = p1
    p2 = p2
    None = None
    Servers = {s1}
    Clients = {c2}
    Processes = {p1, p2}
    ProcessOf <- TwoProcesses
    NumSpaces = 3
    CLIENTS_SIZE = 1
    FdLimit = 9
    MaxCrashes = 0
CHECK_DEADLOCK FALSE
INVARIANT AvailableWhenRunning
