SPECIFICATION FairSpec
CONSTANTS
    v1 = v1
    Viewers = {v1}
    Sources = {"ssh", "gitlab"}
    Characters <- AllCharacters
    MaxLog = 5
    HardCap = 4
    MaxFailures = 2
    Faults = {"poll", "session", "early"}
CHECK_DEADLOCK FALSE
INVARIANTS
    TypeOK
    NothingSkipped
    TraceShownExactly
    FinishedShowsAll
    CacheIsFinal
PROPERTIES
    EveryLineShown
