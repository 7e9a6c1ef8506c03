SPECIFICATION Spec
CONSTANTS
    a = a
    b = b
    Values <- MCValues
    Nothing = Nothing
    MaxAbandoned = 1
INVARIANTS
    BackupHoldsAffectedPaths
