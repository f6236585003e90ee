\* One run, a journal that grows to four lines and is replaced once.
SPECIFICATION Spec
CONSTANTS
    r1 = r1
    r2 = r2
    v1 = v1
    v2 = v2
    None = None
    Foreign = Foreign
    Reporters = {r1}
    Values = {v1, v2}
    MaxLines = 4
    MaxFiles = 2
    MaxEdits = 0
    MaxForeign = 1
SYMMETRY Symmetric
INVARIANTS
    PublishedAsVerified
CHECK_DEADLOCK FALSE
