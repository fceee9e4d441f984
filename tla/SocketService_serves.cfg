SPECIFICATION FairSpec
CONSTANTS
    Clients = {"c1", "c2"}
    Kinds = {"set", "short"}
    Answered = {"set"}
    Setting = {"set"}
    MaxStarts = 2
INVARIANTS
    TypeOK
    ReadsOwnWrite
    NobodyLeftWaiting
PROPERTIES
    EveryoneServed
    StopAfterClient
    ThreadSpec
CHECK_DEADLOCK FALSE
