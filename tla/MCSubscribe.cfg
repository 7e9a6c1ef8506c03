SPECIFICATION FairSpec
CONSTANTS
    SubscriptionLists <- MCSubscriptionLists
    MaxResponses = 4
INVARIANTS
    TypeOK
    SuccessReportsTheStream
    SentIsAllowedOrWarned
PROPERTIES
    TimedTaskReturns
