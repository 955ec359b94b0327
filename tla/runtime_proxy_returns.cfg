SPECIFICATION Spec
CONSTANTS
    Humans <- TwoHumans
    Tasks <- OneTask
    Forced = FALSE
    MaxChanges = 1
    MaxFaults = 2
    MaxCrashes = 1
INVARIANT SyncWithoutProxy
CHECK_DEADLOCK FALSE
