\* The smallest instance in which the disk disappears.
SPECIFICATION Spec
CONSTANTS
    m1 = m1
    m2 = m2
    Media = {m1, m2}
    Nothing = Nothing
    Size = 1
    WriteBytes = 1
    ReadBytes = 1
    MaxMoves = 1
    MaxForeign = 0
    MaxHolds = 0
SYMMETRY Symmetric
INVARIANTS
    FailureWasObserved
CHECK_DEADLOCK FALSE
