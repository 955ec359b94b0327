SPECIFICATION Spec
CONSTANTS
    RequireConsent = TRUE
    MinimumReview = TRUE
    FormalV2 = FALSE
    Requests = {r1}
    Targets <- AllTargets
    SubmitTypes <- AllSubmissions
    Kinds <- None
    Instruments <- None
    UiTypes <- ReviewTypes
    EventTypes <- FlagEvents
    MaxVersion = 15
    MaxOverrides = 0
    MaxCrashes = 1
INVARIANTS TypeOK
 
CHECK_DEADLOCK FALSE
