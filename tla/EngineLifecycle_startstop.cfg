SPECIFICATION FairSpec
CONSTANTS
    Programs = {"app", "cli"}
    MaxStarts = 2
INVARIANTS
    TypeOK
    NoUseAfterDelete
    CleanedUp
    ServedWhileTraced
    OneLateUse
PROPERTIES
    StopEndsOrHangs
CHECK_DEADLOCK FALSE
