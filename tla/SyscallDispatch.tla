--------------------------- MODULE SyscallDispatch ---------------------------
(***************************************************************************)
(* One system call at a time of one traced task: what                      *)
(* SyscallDispatcher::dispatch does to its registers and memory when it    *)
(* enters the call, what the kernel then makes of it, and what dispatch    *)
(* does at the exit, where run_loop calls it again as if at an entry.      *)
(*                                                                         *)
(* The registers are reduced to the number a debugger reads (nr), the      *)
(* number the kernel goes by (scno), the first argument and the result.    *)
(* On x86_64 nr and scno are one register and the argument survives the    *)
(* call; on aarch64 a debugger's x8 is not the kernel's number, and x0 is  *)
(* both the first argument and the result.  The second argument, where the *)
(* *at calls have their path, survives on both.                            *)
(*                                                                         *)
(* The root file system holds symbolic links, some with absolute texts     *)
(* (patch_rootfs.py makes both kinds), and the host's kernel follows them  *)
(* from its own root.                                                      *)
(***************************************************************************)
EXTENDS GuestPaths

CONSTANTS
    Arch,      \* "aarch64" or "x86_64"
    Calls,     \* the calls the guest makes
    PathsOf,   \* the paths it gives to each of them
    HostCwd,   \* the engine's directory, in which the task starts
    Dirs,      \* the directories of the host, as sequences of segments
    Links      \* the symbolic links of the rootfs: their texts, by the host's names

ASSUME ArchAssumption == Arch \in {"aarch64", "x86_64"}
ASSUME PathAssumption == \A c \in Calls : PathsOf[c] \subseteq Strings
ASSUME CwdAssumption  == HostCwd \in Seq(STRING \ {".", ".."})

(* A name goes through no link, and a text neither: it stands for where    *)
(* the chain ends.                                                         *)
ASSUME LinkAssumption ==
    \A h \in DOMAIN Links :
        /\ h \in Seq(STRING \ {".", ".."}) \ {<<>>} /\ Links[h] \in Strings
        /\ \A l \in DOMAIN Links :
              ~ IsPrefix(l, LinkEnd(Links, h)) /\ (l # h => ~ IsPrefix(l, h))

AtCalls     == {"openat", "faccessat", "statx", "newfstatat", "readlinkat", "connect"}
RootOptions == {"4", "38"}   \* PR_SET_DUMPABLE, PR_SET_NO_NEW_PRIVS
Unrewritten == {"mkdirat"}   \* stands for every call with a path that has no handler
Options     == RootOptions \cup {"1"}
NoCall      == "-1"

(* Results are sequences so that they compare with paths.  A prctl may     *)
(* return a number that is also one of the options.                        *)
Ok      == <<"ok">>
Error   == <<"error">>
HostUid == <<"uid">>
Four    == <<"4">>

VARIABLES
    phase,       \* user, entry, kernel, exit
    request,     \* the call the guest made
    asked,       \* the path the guest wrote into its buffer for it
    nr, scno,    \* the number of the call, to a debugger and to the kernel
    first,       \* the first argument: "buf", a prctl option, "other"
    buf,         \* the path in the buffer now
    result,
    process_cwd, \* process_cwds[pid]: the segments of a normalised path
    kcwd,        \* the kernel's directory of the task
    answer       \* the last call, its path and its result, once it has one

asking == <<request, asked>>
regs   == <<nr, scno, first>>
vars   == <<phase, asking, regs, buf, result, process_cwd, kcwd, answer>>

Init ==
    /\ phase = "user" /\ request = "none" /\ asked = EmptyPath
    /\ nr = NoCall /\ scno = NoCall /\ first = "other"
    /\ buf = EmptyPath /\ result = Ok
    /\ process_cwd = <<>> /\ kcwd = HostCwd
    /\ answer = [call |-> "none", path |-> EmptyPath, value |-> Ok]

-----------------------------------------------------------------------------
(* The guest makes a call, with a path of its choice in the buffer or with *)
(* the buffer as the last call left it.  A prctl of another option is like *)
(* any other call.                                                         *)

Issue ==
    /\ phase = "user" /\ phase' = "entry"
    /\ \E c \in Calls :
        /\ nr' = c /\ scno' = c
        /\ first' \in IF c = "prctl" THEN Options
                      ELSE IF c \in {"chdir", "execve", "getcwd"} THEN {"buf"} ELSE {"other"}
        /\ request' = IF first' \in Options \ RootOptions THEN "other" ELSE c
        /\ \/ asked' \in PathsOf[c] /\ buf' = asked'
           \/ asked \in PathsOf[c] /\ request \in AtCalls \cup {"chdir"}
              /\ UNCHANGED <<asked, buf>>
    /\ UNCHANGED <<result, process_cwd, kcwd, answer>>

-----------------------------------------------------------------------------
(* dispatch.  A handler may rewrite the buffer, set the table's directory  *)
(* and cancel the call.                                                    *)

(* read_string at the first argument.  What is not an address of the guest *)
(* reads as the empty string.                                              *)
FirstString == IF first = "buf" THEN buf ELSE EmptyPath

Rewrite(p) == buf' = p /\ UNCHANGED <<regs, result>>

(* cancel_syscall: only on x86_64 does the register the debugger writes    *)
(* hold the kernel's number; on aarch64 the result's register is the first *)
(* argument, and the call goes ahead with it.                              *)
cancel_syscall(v) ==
    /\ nr' = NoCall /\ result' = v
    /\ scno' = IF Arch = "x86_64" THEN NoCall ELSE scno
    /\ first' = IF Arch = "x86_64" THEN first ELSE "other"

(* An absolute path in the second argument is resolved, another left.      *)
RewriteAbsolute ==
    /\ IF buf.abs THEN Rewrite(resolve(process_cwd, buf)) ELSE UNCHANGED <<buf, regs, result>>
    /\ UNCHANGED process_cwd

handle_openat == nr = "openat" /\ RewriteAbsolute

(* handle_faccessat, handle_statx, handle_newfstatat, handle_readlinkat    *)
handle_at == nr \in AtCalls \ {"openat", "connect"} /\ RewriteAbsolute

(* For a UNIX socket whose address has room for the longer path.           *)
handle_socket_connect == nr = "connect" /\ RewriteAbsolute

(* handle_ioctl and handle_close: no code registers a descriptor of the    *)
(* binder or the framebuffer, so neither ever knows the one it is given.   *)
handle_descriptor ==
    nr \in {"ioctl", "close"} /\ UNCHANGED <<buf, regs, result, process_cwd>>

(* Also for execveat, whose first argument is a directory and not a path. *)
handle_execve ==
    /\ nr \in {"execve", "execveat"}
    /\ IF FirstString # EmptyPath THEN Rewrite(resolve(process_cwd, FirstString))
       ELSE UNCHANGED <<buf, regs, result>>
    /\ UNCHANGED process_cwd

(* Mutants: the path is resolved but not written back; the table is left   *)
(* alone; the table holds the path as the guest spelled it.                *)
handle_chdirNotWritten ==
    /\ nr = "chdir"
    /\ UNCHANGED <<regs, result, buf>>
    /\ process_cwd' = IF FirstString # EmptyPath THEN normalize_path(FirstString)
                      ELSE process_cwd

handle_chdirNotSet ==
    /\ nr = "chdir"
    /\ IF FirstString # EmptyPath THEN Rewrite(resolve(process_cwd, FirstString))
       ELSE UNCHANGED <<buf, regs, result>>
    /\ UNCHANGED process_cwd

handle_chdirRaw ==
    /\ nr = "chdir"
    /\ IF FirstString # EmptyPath
       THEN process_cwd' = FirstString.segs /\ Rewrite(resolve(process_cwd, FirstString))
       ELSE UNCHANGED <<process_cwd, buf, regs, result>>

(* The table is set first, and the path resolved from the new directory.   *)
handle_chdir ==
    /\ nr = "chdir"
    /\ IF FirstString # EmptyPath
       THEN LET d == normalize_path(FirstString)
            IN process_cwd' = d /\ Rewrite(resolve(d, FirstString))
       ELSE UNCHANGED <<process_cwd, buf, regs, result>>

(* The buffer may be too small, and then the call is the kernel's.         *)
handle_getcwd ==
    /\ nr = "getcwd"
    /\ \/ first = "buf" /\ buf' = Path(TRUE, process_cwd) /\ cancel_syscall(Ok)
       \/ UNCHANGED <<buf, regs, result>>
    /\ UNCHANGED process_cwd

handle_mount ==
    nr = "mount" /\ cancel_syscall(Ok) /\ UNCHANGED <<buf, process_cwd>>

handle_fake_identity ==
    nr = "identity" /\ cancel_syscall(Ok) /\ UNCHANGED <<buf, process_cwd>>

handle_prctl ==
    /\ nr = "prctl"
    /\ IF first \in RootOptions THEN cancel_syscall(Ok) ELSE UNCHANGED <<regs, result>>
    /\ UNCHANGED <<buf, process_cwd>>

(* The default of the switch: also for mkdirat, unlinkat, renameat, openat2 *)
(* and, on x86_64, open, stat, access and readlink, whose paths go to the  *)
(* kernel as the guest wrote them.                                         *)
unhandled ==
    nr \in Unrewritten \cup {NoCall, "other"} /\ UNCHANGED <<buf, regs, result, process_cwd>>

dispatch ==
    \/ handle_openat \/ handle_at \/ handle_socket_connect \/ handle_descriptor
    \/ handle_execve \/ handle_chdir \/ handle_getcwd
    \/ handle_mount \/ handle_fake_identity \/ handle_prctl \/ unhandled

EntryStop ==
    /\ phase = "entry" /\ phase' = "kernel"
    /\ dispatch
    /\ UNCHANGED <<asking, kcwd, answer>>

(* run_loop calls dispatch(pid, &regs, true) at this stop too.             *)
ExitStop ==
    /\ phase = "exit" /\ phase' = "user"
    /\ dispatch
    /\ answer' = [answer EXCEPT !.value = IF @ = result THEN result' ELSE @]
    /\ UNCHANGED <<asking, kcwd>>

-----------------------------------------------------------------------------
(* The kernel runs the call, by the number it has.                         *)

(* Where a path leads: it follows the links, the last one also where a     *)
(* call would not (readlinkat, O_NOFOLLOW).                                *)
HostPath(p) == Walk(Links, IF p.abs THEN <<>> ELSE kcwd, p.segs)

(* The result, and the directory afterwards. *)
Outcome(r, d) == result' = r /\ kcwd' = d

KernelCall ==
    \/ /\ scno \in AtCalls \cup Unrewritten \cup {"execve", "execveat"}
       /\ Outcome(HostPath(buf), kcwd)
    \/ scno = "execve"                             /\ Outcome(Error, kcwd)
    \/ scno = "chdir" /\ HostPath(buf) \in Dirs    /\ Outcome(Ok, HostPath(buf))
    \/ scno = "chdir" /\ HostPath(buf) \notin Dirs /\ Outcome(Error, kcwd)
    \/ scno \in {"getcwd", "mount"}                /\ Outcome(Error, kcwd)
    \/ scno = "identity"                           /\ Outcome(HostUid, kcwd)
    \/ scno = "prctl" /\ first = "other"           /\ Outcome(Error, kcwd)
    \/ scno = "prctl" /\ first # "other" /\ \E r \in {Ok, Four} : Outcome(r, kcwd)
    \/ scno \in {"other", "ioctl", "close"}        /\ Outcome(Ok, kcwd)
    \/ scno = NoCall                               /\ Outcome(result, kcwd)

(* At the exit the first argument is still there on x86_64, but not after  *)
(* an execve that succeeded, whose image is new; on aarch64 it has become  *)
(* the result.                                                             *)
Execute ==
    /\ phase = "kernel" /\ phase' = "exit"
    /\ KernelCall
    /\ first' = IF Arch = "x86_64" /\ (scno = "execve" => result' = Error) THEN first
                ELSE IF result' = Four THEN "4" ELSE "other"
    /\ answer' = [call |-> request, path |-> asked, value |->
                    IF request = "getcwd" /\ result' = Ok THEN buf.segs ELSE result']
    /\ UNCHANGED <<asking, nr, scno, buf, process_cwd>>

Next == Issue \/ EntryStop \/ Execute \/ ExitStop

Spec == Init /\ [][Next]_vars

-----------------------------------------------------------------------------
(* Properties.                                                             *)

(* Type invariant; both directories are normalised.                        *)
TypeOK ==
    /\ phase \in {"user", "entry", "kernel", "exit"}
    /\ request \in Calls \cup {"none", "other"}
    /\ nr \in Calls \cup {NoCall} /\ scno \in Calls \cup {NoCall}
    /\ first \in Options \cup {"buf", "other"}
    /\ asked.abs \in BOOLEAN /\ buf.abs \in BOOLEAN
    /\ {".", ".."} \cap (ToSet(process_cwd) \cup ToSet(kcwd)) = {}
    /\ answer.call \in Calls \cup {"none", "other"}

(* The links by the names the guest has for them.                          *)
GuestLinks ==
    [g \in {SubSeq(h, Len(Rootfs.segs) + 1, Len(h)) : h \in DOMAIN Links} |->
        Links[Rootfs.segs \o g]]

(* The guest is served as promised: whatever sequence of calls it makes,   *)
(* the directory it is in and the answer to each call are those of the     *)
(* virtual kernel.  Rewriting at the entry, the host's kernel and the      *)
(* second dispatch at the exit add up to one step of that kernel.          *)
View == INSTANCE VirtualKernel WITH
            Links <- GuestLinks,
            Paths <- {EmptyPath} \cup UNION {PathsOf[c] : c \in Calls},
            PathCalls <- AtCalls \cup {"execve"},
            RootCalls <- {"identity", "mount", "prctl"},
            HostResults <- {Ok, Four},
            cwd <- IF kcwd = HostCwd THEN Rootfs.segs ELSE kcwd
ServedAsPromised == View!Spec

(* After a chdir that succeeded, the table's directory denotes the one the *)
(* kernel is in, by whatever links it got there: what later relative paths *)
(* of execve are resolved from.                                            *)
ChdirAgrees ==
    phase = "user" /\ answer.call = "chdir" /\ answer.value = Ok
        => HostPath(resolve(process_cwd, Path(TRUE, process_cwd))) = kcwd

(* No absolute path of a call that is rewritten takes a lookup, and no     *)
(* path a chdir, out of the rootfs, the shared folder and what the links   *)
(* of the rootfs lead to, whatever is in the table and in the buffer.      *)
Inside(h) ==
    \/ IsPrefix(Rootfs.segs, h) \/ IsPrefix(Download, h)
    \/ \E l \in DOMAIN Links : IsPrefix(LinkEnd(Links, l), h)
Confined ==
    /\ kcwd = HostCwd \/ Inside(kcwd)
    /\ answer.call \in AtCalls \cup {"execve"} /\ answer.path.abs =>
           answer.value = Error \/ Inside(answer.value)

(* The dispatch at the exit leaves the guest's memory and result as the    *)
(* kernel left them, although it runs the handlers of an entry.            *)
ExitHarmless == [][phase = "exit" => UNCHANGED <<buf, result>>]_vars

=============================================================================
