\* One run and an editor that changes one line in place.
SPECIFICATION EditSpec
CONSTANTS
    r1 = r1
    r2 = r2
    v1 = v1
    v2 = v2
    None = None
    Foreign = Foreign
    Reporters = {r1}
    Values = {v1, v2}
    MaxLines = 2
    MaxFiles = 1
    MaxEdits = 1
    MaxForeign = 0
SYMMETRY Symmetric
INVARIANTS
    PublishedAsVerified
CHECK_DEADLOCK FALSE
