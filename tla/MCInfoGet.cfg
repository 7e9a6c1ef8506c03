SPECIFICATION FairSpec
CONSTANTS
    Options <- MCOptions
    Certs <- MCCerts
    CaCert <- MCCaCert
    Host = "10.0.0.1"
    NoCert = NoCert
    Tasks <- MCTasks
    Tree <- MCTree
    Words <- MCWords
    Identifiers <- MCIdentifiers
    NativeNamespaces <- MCNativeNamespaces
    OpenconfigNamespaces <- MCOpenconfigNamespaces
INVARIANTS
    TypeOK
    RequestsAreTrusted
    ReportAnswersTheTask
    NotFoundOnlyIfAbsent
PROPERTIES
    TaskReports
