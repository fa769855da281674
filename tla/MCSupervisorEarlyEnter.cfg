\* Nothing fails, and Enter is typed once.
CONSTANTS
    p1 = p1
    p2 = p2
    c1 = c1
    c2 = c2
    WorkerCount = 2
    Ports <- OnePort
    Clients <- OneClient
    MaxEnters = 1
    MaxFaults = 0
SPECIFICATION Spec
INVARIANTS
    ClearKillsNone
CHECK_DEADLOCK FALSE
