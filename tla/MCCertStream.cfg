SPECIFICATION FairSpec
CONSTANTS
    Window = 0
INVARIANTS
    TypeOK
    CommitOnlyOnceSeen
    StreamEndsBehindFinalize
    SuccessNotOverRefusedId
PROPERTIES
    HandlerReturns
    SenderReleased
    ImplementsContract
