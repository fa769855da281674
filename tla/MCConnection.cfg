\* Every kind of request, three pipelined, bodies of up to two pieces.
CONSTANTS
    Blocks <- AllBlocks
    MaxRequests = 3
    BodyLimit = 2
SPECIFICATION Spec
INVARIANTS
    TypeOK
    FrontIsBeingSent
    NothingStranded
    ReadsUntilFinal
PROPERTIES
    AnswersInOrder
    AnswersCome
    SessionEnds
