SPECIFICATION Spec
CONSTANTS
    Arch = "aarch64"
    Calls = {"openat", "faccessat", "statx", "connect", "mkdirat", "ioctl", "execve", "execveat", "chdir", "getcwd", "mount", "identity", "prctl", "other"}
    Rootfs <- MCRootfs
    Extends <- MCExtends
    PathsOf <- WidePathsOf
    HostCwd <- MCHostCwd
    Dirs <- WideDirs
    Links <- WideLinks
INVARIANTS
    Confined
