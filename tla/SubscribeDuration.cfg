SPECIFICATION FairSpec
CONSTANTS
    SubscriptionLists <- MCSubscriptionLists
    MaxResponses = 4
INVARIANTS
    DurationIsNoFailure
