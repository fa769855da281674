\* A hierarchy without default host gets SIGUSR1.
CONSTANTS
    Nodes <- ServerNodes
    Kind <- ServerKind
    Content <- ServerContent
    Default <- NoDefault
    Own <- ServerOwn
    Valid <- WithRoot
    HostConfigs <- OnlyLocalhost
    NoName = "none"
    NoHost = "none"
    HexSections = {"", "ab"}
    Requests <- FewRequests
SPECIFICATION Spec
INVARIANT
    SurvivesClear
