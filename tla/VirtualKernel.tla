---------------------------- MODULE VirtualKernel ----------------------------
(***************************************************************************)
(* What the engine promises a guest process: a kernel whose root directory *)
(* is the rootfs, in which /sdcard/Download is the host's, and which       *)
(* treats the process as root.  Each call happens at once.                 *)
(***************************************************************************)
EXTENDS GuestPaths

CONSTANTS
    Paths,       \* paths the guest uses
    PathCalls,   \* the calls that look a path up
    RootCalls,   \* the calls a root process is granted
    Links,       \* the symbolic links, by the names the process has for them
    Dirs,        \* the directories there are, as the host names them
    HostResults  \* what the host may answer to any other call

VARIABLES
    cwd,         \* the process's directory, as the host names it
    answer       \* the last call, the path it was given and what came of it

Ok    == <<"ok">>
Error == <<"error">>

(* The host's name for what the guest calls d, and the reverse.            *)
HostOf(d) == IF IsPrefix(Download, d) THEN d
             ELSE IF IsPrefix(StorageDownload, d)
             THEN Download \o SubSeq(d, Len(StorageDownload) + 1, Len(d))
             ELSE Rootfs.segs \o d

GuestNameOf(h) == IF IsPrefix(Rootfs.segs, h)
                  THEN SubSeq(h, Len(Rootfs.segs) + 1, Len(h)) ELSE h

(* The host's name for where a path of the process leads, by the links,    *)
(* whose absolute texts begin at the process's root.                       *)
Denotes(p) == HostOf(Walk(Links, IF p.abs THEN <<>> ELSE GuestNameOf(cwd), p.segs))

Answer(c, p, v) == answer' = [call |-> c, path |-> p, value |-> v]

Init == cwd = Rootfs.segs /\ answer = [call |-> "none", path |-> EmptyPath, value |-> Ok]

Chdir(p) ==
    \/ Denotes(p) \in Dirs /\ cwd' = Denotes(p) /\ Answer("chdir", p, Ok)
    \/ Denotes(p) \notin Dirs /\ UNCHANGED cwd /\ Answer("chdir", p, Error)

(* What there is cannot always be executed.                                *)
LookUp(c, p) ==
    /\ Answer(c, p, Denotes(p)) \/ (c = "execve" /\ Answer(c, p, Error))
    /\ UNCHANGED cwd

GetCwd(p)       == Answer("getcwd", p, GuestNameOf(cwd)) /\ UNCHANGED cwd
Grant(c, p)     == Answer(c, p, Ok) /\ UNCHANGED cwd
HostAnswer(p)   == UNCHANGED cwd /\ \E v \in HostResults : Answer("other", p, v)

Next ==
    \E p \in Paths :
        \/ Chdir(p) \/ GetCwd(p) \/ HostAnswer(p)
        \/ \E c \in PathCalls : LookUp(c, p)
        \/ \E c \in RootCalls : Grant(c, p)

Spec == Init /\ [][Next]_<<cwd, answer>>
=============================================================================
