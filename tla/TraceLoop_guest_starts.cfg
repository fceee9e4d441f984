SPECIFICATION FairSpec
CONSTANTS
    MaxPid = 1
    Dirs = {"root", "host", "data"}
    RootDir = "root"
    HostDir = "host"
    NoDir = NoDir
    Arch = "aarch64"
    CloneCalls = {"fork", "clone"}
    MaxCalls = 1
    MaxKills = 0
    MayInterrupt = FALSE
    MayStop = FALSE
PROPERTIES
    GuestStarts
CHECK_DEADLOCK FALSE
