SPECIFICATION FairSpec
CONSTANTS
    r1 = r1
    r2 = r2
    s1 = s1
    s2 = s2
    Runs = {r1, r2}
    Secrets = {s1, s2}
    ModesOf <- MCModesOf
    Killable = {r1}
    Crowded = {r1}
CHECK_DEADLOCK FALSE
INVARIANTS
    TypeOK
    MarkerMeansOver
    FailureLeavesMarker
    CloneStaysMounted
    NoStrayClone
    VaultDriftsByOverlapOnly
PROPERTIES
    ScriptIsGroup
    NormalRunIsMarked
