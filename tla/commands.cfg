SPECIFICATION FairSpec
CONSTANTS
    start_1 = start_1
    start_2 = start_2
    stop = stop
    w1 = w1
    w2 = w2
    Ids <- ThreeIds
    Keys <- TwoKeys
    Sessions <- OneSession
    KeyOf <- KeysOfIds
    SessionOf <- SessionsOfKeys
    Workers <- TwoWorkers
    MaxPosts = 4
    MaxFailures = 2
    MaxCrashes = 2
INVARIANTS OneAtATime OutcomesAreTold
PROPERTIES CommandSettles ImplementsLedger
CHECK_DEADLOCK FALSE
