SPECIFICATION PlatformSpec
CONSTANTS
    thread_1 = thread_1
    thread_2 = thread_2
    asked_1 = asked_1
    asked_2 = asked_2
    People = {"p1"}
    Agents = {"a1"}
    Shapes = {"circle"}
    Threads <- TwoThreads
    StartingMoney = 2
    ShapeCost = 1
    IncentiveMoney = 2
    TradePrice = 2
    MaxProductionNum = 2
    InitialTasks <- OneOrder
    MaxOffers = 1
    MaxGameRestarts = 1
    MaxOverlaps = 1
    Humans <- TwoAsked
    Duration = 4
    Windows <- Checkpoints
    Requests = {"r1"}
    Slots = {"t1"}
    MaxClock = 5
    MaxControls = 3
    MaxTimerRestarts = 1
    MayCross = FALSE
    Persons = {"h1", "h2"}
    Follower = "h1"
    Bots = {"b1"}
    Handlers <- TwoThreads
    Capital = 3
    Amounts = {1, 2}
    Prices = {2}
    Essays = {"e1", "e2"}
    Ranks = {1, 2}
    MaxAnswers = 4
    MaxReloads = 1
    MaxTogether = 1
    Talkers = {"h1", "h2"}
    Robots = {"b1"}
    Guides = {"b1"}
    Authors = {"h1", "b1"}
    FollowerOf = "h1"
    Senders <- TwoThreads
    Window = 1
    MaxMessages = 2
    MaxSaves = 1
    MaxBoots = 1
SYMMETRY ThreadSymmetry
INVARIANTS   AnswersAreKept MessagesAreKept
CHECK_DEADLOCK FALSE
