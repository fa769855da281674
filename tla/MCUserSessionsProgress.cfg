\* One user, two workers, one of which may die: every request is answered.
CONSTANTS
    w1 = w1
    w2 = w2
    u1 = u1
    u2 = u2
    s1 = s1
    s2 = s2
    s3 = s3
    unknown = unknown
    Workers <- TwoWorkers
    Users <- OneUser
    SessionIds <- TwoIds
    UnknownId <- unknown
    Lifetime = 2
    RestartAfter = 1
    Attempts = 2
    MaxTime = 1
    MaxCrashes = 1
SPECIFICATION Spec
PROPERTY
    Answered
