\* Two runs over one output path.
SPECIFICATION Spec
CONSTANTS
    r1 = r1
    r2 = r2
    v1 = v1
    v2 = v2
    None = None
    Foreign = Foreign
    Reporters = {r1, r2}
    Values = {v1, v2}
    MaxLines = 2
    MaxFiles = 1
    MaxEdits = 0
    MaxForeign = 0
SYMMETRY Symmetric
PROPERTIES
    KeepsExisting
CHECK_DEADLOCK FALSE
