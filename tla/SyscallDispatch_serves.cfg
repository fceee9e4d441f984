SPECIFICATION Spec
CONSTANTS
    Arch = "x86_64"
    Calls = {"openat", "statx", "connect", "execve", "chdir", "mount", "identity", "prctl", "other"}
    Rootfs <- MCRootfs
    Extends <- MCExtends
    PathsOf <- MCPathsOf
    HostCwd <- MCHostCwd
    Dirs <- MCDirs
    Links <- MCLinks
INVARIANTS
    TypeOK
    ChdirAgrees
PROPERTIES
    ServedAsPromised
    ExitHarmless
