SPECIFICATION FairSpec
CONSTANTS
    MaxPid = 3
    Dirs = {"root", "host"}
    RootDir = "root"
    HostDir = "host"
    NoDir = NoDir
    Arch = "x86_64"
    CloneCalls = {"fork", "clone"}
    MaxCalls = 2
    MaxKills = 1
    MayInterrupt = TRUE
    MayStop = TRUE
INVARIANTS
    TypeOK
    Tracked
    NoneLeft
    CwdAgrees
PROPERTIES
    ThreadSpec
    StopsHandled
    LoopEnds
CHECK_DEADLOCK FALSE
