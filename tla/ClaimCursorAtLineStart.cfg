SPECIFICATION Spec
CONSTANTS
    v1 = v1
    Viewers = {v1}
    Sources = {"ssh"}
    Characters <- PlainCharacters
    MaxLog = 4
    HardCap = 3
    MaxFailures = 2
    Faults = {}
CHECK_DEADLOCK FALSE
INVARIANTS
    CursorAtLineStart
