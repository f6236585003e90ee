\* One target, two strategies, a standard, a laboratory and a missing binary, one disk in two states.
SPECIFICATION FairSpec
CONSTANTS
    t1 = t1
    t2 = t2
    s1 = s1
    s2 = s2
    j1 = j1
    j2 = j2
    None = None
    plain = plain
    mounted = mounted
    tail = tail
    Tails = {tail}
    Tail <- MCTail
    Targets = {t1}
    Strategies = {s1, s2}
    Binaries = {std, labo, gone}
    Lab = {labo}
    Broken = {gone}
    Journals = {j1}
    Inspections = {plain, mounted}
    MaxEdits = 4
    MaxSwaps = 1
INVARIANTS
    PreparationCurrent
    ReadyWhenOffered
    NothingErasedUnprepared
    ReportOfVerified
PROPERTIES
    WindowReleased
CHECK_DEADLOCK FALSE
