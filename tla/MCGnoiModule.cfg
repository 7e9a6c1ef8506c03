SPECIFICATION FairSpec
CONSTANTS
    v1 = v1
    v2 = v2
    c1 = c1
    c2 = c2
    Versions <- MCVersions
    CertIds <- MCCertIds
    Platforms <- MCPlatforms
    Playbook <- MCPlaybook
    Factory = v1
    MaxAbandoned = 1
INVARIANTS
    TypeOK
    OnlyLicensedTasksTouch
    UnchangedMeansUntouched
    AlreadyActiveRan
    ReactivatesOnlyUnverified
PROPERTIES
    TaskReports
    ImplementsContract
