SPECIFICATION FairStartSpec
CONSTANTS
    RequireConsent = TRUE
    MinimumReview = TRUE
    FormalV2 = TRUE
    Requests = {r1}
    Targets <- None
    SubmitTypes <- ConsentOnly
    Kinds <- None
    Instruments <- None
    UiTypes <- None
    EventTypes <- None
    MaxVersion = 3
    MaxOverrides = 0
    MaxCrashes = 1
PROPERTIES SessionStarts
CHECK_DEADLOCK FALSE
