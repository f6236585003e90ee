\* Three pending readings, five polls, one operation of another tool.
SPECIFICATION FairSpec
CONSTANTS
    PendingLimit = 3
    MaxPolls = 5
    MaxForeign = 1
INVARIANTS
    TypeOK
    ResultMatchesDrive
    OutcomeAllowed
    PollingBounded
PROPERTIES
    PurgeReturns
CHECK_DEADLOCK FALSE
