SPECIFICATION LiveSpec
CONSTANTS
    Jobs = {"j1", "j2"}
    Approvals = {"a1", "a2"}
    MaxMeetings = 2
    MaxPurgeCrashes = 1
    MaxRetentionRestarts = 1
    Teammate = TRUE
    Calls = {1, 2}
    MaxRooms = 3
    MaxJoins = 3
    MaxDrops = 2
    Agents = {"a1"}
    Candidates = {"c1", "c2"}
    RunnerIds = {1, 2}
    LoopSlots = {1, 2}
    VoteSlots = {1}
    Routes = {1}
    MaxOps = 4
    MaxAgentRestarts = 1
INVARIANTS PurgeIsExact  
PROPERTIES PurgeIsCarriedOut  NobodyIsStuck
CHECK_DEADLOCK FALSE
