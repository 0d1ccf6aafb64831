SPECIFICATION Spec
CONSTANTS
    u1 = u1
    p1 = p1
    Timeout = Timeout
    Shutdown = Shutdown
    Task = Task
    Steps = 2
    Users = {u1}
    Polls = {}
    Faults = {"shutdown"}
    Expiring = {}
CHECK_DEADLOCK FALSE
INVARIANTS
    KillIsComplete
    VerdictMatchesExit
