SPECIFICATION Spec
CONSTANTS
    MaxPid = 2
    Dirs = {"root", "host", "data"}
    RootDir = "root"
    HostDir = "host"
    NoDir = NoDir
    Arch = "aarch64"
    CloneCalls = {"fork", "clone"}
    MaxCalls = 3
    MaxKills = 0
    MayInterrupt = TRUE
    MayStop = TRUE
INVARIANTS
    StopLeavesNone
CHECK_DEADLOCK FALSE
