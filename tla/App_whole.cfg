SPECIFICATION FairSpec
CONSTANTS
    Size = 2
    Markers = {1, 2}
    Threads = {"t1", "t2"}
    Activities = {"a", "b"}
    Enough = 4
INVARIANTS
    TypeOK
    MachineOwned
    StatusTrue
    WindowHeld
    SuccessTold
PROPERTIES
    InstallEnds
CHECK_DEADLOCK FALSE
