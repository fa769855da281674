\* Two workers, one port, two clients, two lines, two faults.
CONSTANTS
    p1 = p1
    p2 = p2
    c1 = c1
    c2 = c2
    WorkerCount = 2
    Ports <- OnePort
    Clients <- TwoClients
    MaxEnters = 2
    MaxFaults = 2
SPECIFICATION FairSpec
INVARIANTS
    TypeOK
PROPERTIES
    OnlyParentStops
    StopReachesAll
    ClearReachesAll
    ClientsAccepted
\* The processes may all end.
CHECK_DEADLOCK FALSE
