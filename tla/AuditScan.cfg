\* Three operations, two contexts, up to four lines, limits of three lines and two operations; texts of up to three characters, numbers up to 7 in base 3.
SPECIFICATION ReaderSpec
CONSTANTS
    o1 = o1
    o2 = o2
    o3 = o3
    c1 = c1
    c2 = c2
    Ops = {o1, o2, o3}
    ScannedContexts = {c1, c2}
    ScannedStatuses = {"refuse", "en_cours", "echoue"}
    NoOp = NoOp
    MaxLines = 4
    MaxRecords = 3
    MaxOperations = 2
    Letters <- MCLetters
    Digits <- MCDigits
    MaxNumber = 7
    FieldBytes = 5
    Characters <- MCCharacters
    EditBytes <- MCEditBytes
    MaxLength = 3
SYMMETRY Symmetric
INVARIANTS
    ScannersExact
    ReportAgrees
    WrittenReadsBack
    OnlyCanonical
CHECK_DEADLOCK FALSE
