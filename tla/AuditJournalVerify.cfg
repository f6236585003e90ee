\* Two runs, one verifier that may hold the lock for ever, a replaced file.
SPECIFICATION FairSpec
CONSTANTS
    p1 = p1
    p2 = p2
    p3 = p3
    o1 = o1
    o2 = o2
    f1 = f1
    f2 = f2
    v1 = v1
    Procs = {p1, p2}
    Verifiers = {v1}
    Ops = {o1, o2}
    ContextOf <- SameContext
    Files = {f1, f2}
    FirstFile = f1
    NoFile = NoFile
    NoOp = NoOp
    MaxRecords = 3
    MaxOperations = 2
    MaxKills = 0
    MaxPowerLoss = 0
    MaxFaults = 1
INVARIANTS
    TypeOK
    OneFilePerRun
    VerdictFinal
    ExitCodeBacked
PROPERTIES
    RunsEnd
CHECK_DEADLOCK FALSE
