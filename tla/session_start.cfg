SPECIFICATION FairStartSpec
CONSTANTS
    RequireConsent = TRUE
    MinimumReview = TRUE
    FormalV2 = FALSE
    Requests = {r1, r2}
    Targets <- RaceTargets
    SubmitTypes <- ConsentOnly
    Kinds <- None
    Instruments <- None
    UiTypes <- None
    EventTypes <- RaceEvents
    MaxVersion = 3
    MaxOverrides = 2
    MaxCrashes = 1
INVARIANTS VersionIdentifiesPhase
PROPERTIES SessionStarts
CHECK_DEADLOCK FALSE
