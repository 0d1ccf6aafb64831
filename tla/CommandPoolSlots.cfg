SPECIFICATION FairSpec
CONSTANTS
    r1 = r1
    r2 = r2
    r3 = r3
    r4 = r4
    Requests = {r1, r2, r3, r4}
    MaxRunning = 3
    MaxConcurrency = 2
    Faults = {"redis", "ssh"}
CHECK_DEADLOCK FALSE
INVARIANTS
    TypeOK
    SlotsConserved
    ReleasedAtEnd
    CeilingWithoutOverlap
PROPERTIES
    ServesInOrder
    AdmittedFinish
