\* A response under way, two changes of the disk and one clear.
CONSTANTS
    plain = plain
    page = page
    hidden = hidden
    NoPath = NoPath
    Paths <- SomePaths
    IndexFile = page
    Deny <- DenyOne
    Allow <- AllowAll
    AllowMode = "any"
    DefaultBehavior = "files"
    ChangeBehavior <- OnlyPages
    Contents <- SomeContents
    Models <- SomeModels
    ServerName = TRUE
    MaxQueue = 1
    MaxWrites = 3
    MaxClears = 1
SPECIFICATION Spec
INVARIANTS
    TypeOK
    BuffersOwned
    BodyTrue
    FreshAfterClear
    StatusTrue
    SameUntilClear
