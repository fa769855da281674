\* Two workers, one of which may die; friends are added and removed twice in all.
CONSTANTS
    w1 = w1
    w2 = w2
    u1 = u1
    u2 = u2
    u3 = u3
    e1 = e1
    e2 = e2
    r1 = r1
    r2 = r2
    Workers <- TwoWorkers
    Users <- TwoUsers
    Emails <- TwoEmails
    Refs <- TwoRefs
    Attempts = 2
    MaxFriends = 1
    MaxChanges = 2
    MaxCrashes = 1
SPECIFICATION Spec
SYMMETRY Symmetry
INVARIANTS
    TypeOK
    RegisteredOwns
    HalvesAgree
    DrawsEnd
PROPERTIES
    OnlyPostWrites
\* All workers may be dead.
CHECK_DEADLOCK FALSE
