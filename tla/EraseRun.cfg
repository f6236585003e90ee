\* Two media of seven bytes, written four and read two at a time: the last chunk is smaller, and sampling leaves a byte out; two changes of the path, one foreign write, one mount.
SPECIFICATION Spec
CONSTANTS
    m1 = m1
    m2 = m2
    Media = {m1, m2}
    Nothing = Nothing
    Size = 7
    WriteBytes = 4
    ReadBytes = 2
    MaxMoves = 2
    MaxForeign = 1
    MaxHolds = 1
SYMMETRY Symmetric
INVARIANTS
    NoUnannouncedDamage
    OnlyConfirmedTarget
    VerdictRecordable
    ConfirmedContentOnly
    SuccessMeansErased
PROPERTIES
    NeverWritesHeldDisk
CHECK_DEADLOCK FALSE
