SPECIFICATION Spec
CONSTANTS
    u1 = u1
    p1 = p1
    Timeout = Timeout
    Shutdown = Shutdown
    Task = Task
    Steps = 1
    Users = {u1}
    Polls = {p1}
    Faults = {}
    Expiring = {}
CHECK_DEADLOCK FALSE
INVARIANTS
    SuccessMeansExitZero
