SPECIFICATION FairSpec
CONSTANTS
    a = a
    b = b
    Values <- MCValues
    Nothing = Nothing
    MaxAbandoned = 1
INVARIANTS
    TypeOK
    BackupIsPreChange
    NoEffectInCheckMode
    DiffBracketsTheSet
PROPERTIES
    TaskReports
    ImplementsContract
