\* The target is changed and changed back while the plan is made.
SPECIFICATION Spec
CONSTANTS
    t1 = t1
    t2 = t2
    s1 = s1
    s2 = s2
    j1 = j1
    j2 = j2
    None = None
    plain = plain
    mounted = mounted
    tail = tail
    Tails = {tail}
    Tail <- MCTail
    Targets = {t1, t2}
    Strategies = {s1, s2}
    Binaries = {std, labo}
    Lab = {labo}
    Broken = {}
    Journals = {j1, j2}
    Inspections = {plain, mounted}
    MaxEdits = 4
    MaxSwaps = 1
SYMMETRY Symmetric
INVARIANTS
    SnapshotInspected
CHECK_DEADLOCK FALSE
