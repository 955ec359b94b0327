SPECIFICATION FairSpec
CONSTANTS
    Humans <- TwoHumans
    Tasks <- OneTask
    Forced = TRUE
    MaxChanges = 2
    MaxFaults = 2
    MaxCrashes = 1
INVARIANTS RoomFollowsMeetings EndIsComplete
PROPERTIES HandoffIsQuiet 
CHECK_DEADLOCK FALSE
