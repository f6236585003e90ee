\* Every target with two odd facts or failing reads, every command line and build.
SPECIFICATION Spec
CONSTANTS
    Table <- TwoTuples
    MaxOdd = 2
INVARIANTS
    AcceptedRecordable
    PlanAgrees
    DestructiveScope
    UsableMeansKnown
CHECK_DEADLOCK FALSE
