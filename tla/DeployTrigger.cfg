SPECIFICATION Spec
CONSTANTS
    r1 = r1
    r2 = r2
    Requests = {r1, r2}
    Actions = {"deploy"}
    Bodies <- MCBodies
    Lifecycle <- MCLifecycle
    MaxPipelines = 2
    PageSize = 1
    Faults = {"list", "fetch", "create", "late", "backward", "manual", "outside"}
SYMMETRY MCSymmetry
CHECK_DEADLOCK FALSE
INVARIANTS
    TypeOK
    DuplicateHasExcuse
    TwinsHaveExcuse
