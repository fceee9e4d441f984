SPECIFICATION FairSpec
CONSTANTS
    Clients = {"c1"}
    Kinds = {"query", "other"}
    Answered = {"query", "other"}
    Setting = {}
    MaxStarts = 1
PROPERTIES
    StopReturns
CHECK_DEADLOCK FALSE
