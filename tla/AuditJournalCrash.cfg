\* Two runs, a replaced file, one kill, one power loss, one I/O error.
SPECIFICATION Spec
CONSTANTS
    p1 = p1
    p2 = p2
    p3 = p3
    o1 = o1
    o2 = o2
    f1 = f1
    f2 = f2
    v1 = v1
    Procs = {p1, p2}
    Verifiers = {}
    Ops = {o1, o2}
    ContextOf <- SameContext
    Files = {f1, f2}
    FirstFile = f1
    NoFile = NoFile
    NoOp = NoOp
    MaxRecords = 3
    MaxOperations = 2
    MaxKills = 1
    MaxPowerLoss = 1
    MaxFaults = 1
SYMMETRY Symmetric
INVARIANTS
    JournalValid
    WorkExclusive
    TerminalReserved
    AckedDurable
PROPERTIES
    AppendOnly
    KeepsPromise
CHECK_DEADLOCK FALSE
