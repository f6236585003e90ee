\* The same instance, against the documented values of the requested method.
SPECIFICATION Spec
CONSTANTS
    Table <- TwoTuples
    MaxOdd = 2
INVARIANTS
    RefusalRecordable
CHECK_DEADLOCK FALSE
