SPECIFICATION Spec
CONSTANTS
    None = None
    c1 = c1
    c2 = c2
    k1 = k1
    k2 = k2
    t1 = t1
    t2 = t2
    a0 = a0
    a1 = a1
    a2 = a2
    b1 = b1
    b2 = b2
    b3 = b3
    Clusters = {c1, c2}
    Kinds = {k1, k2}
    Types = {t1, t2}
    Addresses = {a0, a1, a2}
    Bastions = {b1, b2, b3}
    Safe = {b1, b2}
    Requests <- MCRequests
    NodeRecords <- MCNodeRecords
    MappingLists <- MCMappingLists
    Whitelists = {{a0, a1, a2}, {a0, a2}}
    KindType <- MCKindType
    SlashType <- MCSlashType
CHECK_DEADLOCK FALSE
INVARIANTS
    TypeOK
    OneIdentity
    TargetAllowed
    RightWhenQuiet
    RefusedBeforeClaim
