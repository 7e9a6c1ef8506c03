SPECIFICATION Spec
CONSTANTS
    PackageSize = 3
    ChunkSize = 2
    Window = 1
    RespWindow = 2
    FileLengths <- MCFileLengths
INVARIANTS
    SuccessMeansWholeImageSent
