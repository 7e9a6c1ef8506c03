SPECIFICATION FairSpec
CONSTANTS
    PackageSize = 3
    ChunkSize = 2
    Window = 1
    RespWindow = 2
    FileLengths <- MCFileLengths
INVARIANTS
    TypeOK
    ContentOnlyOnceReadyOrOver
    EndOnlyAfterWholeFile
    AlreadyPresentTransferredNothing
    UnvalidatedSuccessHasAnnouncedSize
    GivenUpTransferNotReported
    ValidatedReportsDeliveredBytes
    AcknowledgedWithinTransferred
PROPERTIES
    HandlerReturns
    SenderReleased
    ImplementsContract
