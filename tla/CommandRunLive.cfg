SPECIFICATION FairSpec
CONSTANTS
    u1 = u1
    p1 = p1
    Timeout = Timeout
    Shutdown = Shutdown
    Task = Task
    Steps = 1
    Users = {u1}
    Polls = {p1}
    Faults = {"crash"}
    Expiring = {}
CHECK_DEADLOCK FALSE
PROPERTIES
    EveryRunSettles
    PoolEntryRemoved
    MarkerHealsOrphan
