SPECIFICATION PartsSpec
CONSTANTS
    principal = principal
    teammate_1 = teammate_1
    teammate_2 = teammate_2
    HUMAN_ROLES <- ThreeRoles
    MaxRevisions = 2
    MaxInFlight = 3
    StudyRoles <- TwoRoles
    Facts <- TwoFacts
    Tasks <- ThreeTasks
    Fields = {"timing", "model"}
    Values = {0, 1}
    Uploads = {"u1"}
    Editors = {"e1", "e2"}
    Visits = {"v1"}
    PageKinds = {"hidden", "focus", "blur", "heartbeat"}
    MaxGap = 2
    Minimum = 2
    MaxNow = 3
    MaxEvents = 4
    MaxFlights = 2
    Own = {"o1", "o2"}
    Foreign = {"f1"}
    CommandIds = {"c1", "c2"}
    Calls = {"r1", "r2"}
    MaxConfigs = 2
    MaxVersions = 3
    MaxIssues = 3
SYMMETRY RoleSymmetry
INVARIANT RunningIsFrozen
CHECK_DEADLOCK FALSE
