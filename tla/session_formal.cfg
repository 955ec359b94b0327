SPECIFICATION Spec
CONSTANTS
    RequireConsent = FALSE
    MinimumReview = TRUE
    FormalV2 = TRUE
    Requests = {r1}
    Targets <- AllTargets
    SubmitTypes <- FormalSubmissions
    Kinds <- AllKinds
    Instruments <- FormalInstruments
    UiTypes <- None
    EventTypes <- FlagEvents
    MaxVersion = 15
    MaxOverrides = 0
    MaxCrashes = 1
INVARIANTS StoredIsBacked EarnedPhases ReadinessAgrees
PROPERTIES CompletionOnlyGrows
CHECK_DEADLOCK FALSE
