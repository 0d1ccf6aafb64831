SPECIFICATION Spec
CONSTANTS
    u1 = u1
    p1 = p1
    Timeout = Timeout
    Shutdown = Shutdown
    Task = Task
    Steps = 1
    Users = {u1}
    Polls = {p1}
    Faults = {"redis", "ssh", "crash", "nomarker"}
    Expiring = {"run"}
CHECK_DEADLOCK FALSE
INVARIANTS
    TypeOK
    SystemSparesNonKillable
    VerdictMatchesExit
PROPERTIES
    StepsAreGroups
    OnlyRacingWritersOverturn
    TaskIsPoolCall
    CallsWindDown
