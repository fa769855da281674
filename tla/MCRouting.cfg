\* The hosts of config/server.json, paths of up to four sections; and hosts that
\* cannot be built.
CONSTANTS
    Nodes <- ServerNodes
    Kind <- ServerKind
    Content <- ServerContent
    Default <- ServerDefault
    Own <- ServerOwn
    Valid <- WithRoot
    HostConfigs <- ServerHosts
    NoName = "none"
    NoHost = "none"
    HexSections = {"", "ab"}
    Requests <- AllRequests
SPECIFICATION Spec
INVARIANTS
    TypeOK
    ServedAsAsked
    HostsAsConfigured
PROPERTIES
    Routed
    RewrittenOnRetry
    ClearReachesAll
\* A worker whose hosts cannot be built ends.
CHECK_DEADLOCK FALSE
