\* Two requests on a connection, with up to four header lines.
CONSTANTS
    StartLines <- SomeStarts
    HeaderLines <- SomeHeaders
    FormsSent <- SomeForms
    BodyLimit = 4
    MaxHeaders = 4
    MaxRequests = 2
SPECIFICATION Spec
INVARIANTS
    TypeOK
    ParsedIsOwn
    RefusedForCause
    ArgsComplete
    FormRoundTrip
\* A request that failed ends the connection.
CHECK_DEADLOCK FALSE
