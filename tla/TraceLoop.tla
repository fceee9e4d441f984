------------------------------ MODULE TraceLoop ------------------------------
(***************************************************************************)
(* The tracer thread of the engine: SyscallDispatcher::spawn_guest and     *)
(* run_loop, with the two tables they keep about the guest's tasks (the    *)
(* map of ProcessTree and the working directories of PathResolver), and    *)
(* ProcessTree::kill_all, which the UI thread calls while the loop runs.   *)
(*                                                                         *)
(* The other half of the module is what this code relies on and does not   *)
(* contain: the kernel's ptrace, wait, fork, chdir and exit as the loop    *)
(* can observe them.  The loop and the kernel interleave freely.           *)
(*                                                                         *)
(* A directory is what a path denotes in the host file system.  How a path *)
(* is spelled, normalised and rewritten is the matter of SyscallDispatch.  *)
(***************************************************************************)
EXTENDS Naturals, FiniteSets

CONSTANTS
    MaxPid,       \* pids are handed out in order, 1 .. MaxPid, and not reused
    Dirs,         \* directories
    RootDir,      \* what "/" of the guest denotes: the rootfs
    HostDir,      \* the working directory of the engine when it forks
    NoDir,        \* no entry in process_cwds
    Arch,         \* "aarch64" or "x86_64": which registers survive a call
    CloneCalls,   \* the calls that make tasks: "fork" (own group), "clone" (thread)
    MaxCalls,     \* bound: system calls the guest makes
    MaxKills,     \* bound: SIGKILLs from outside the engine
    MayInterrupt, \* whether spawn_guest's waitpid may fail with EINTR
    MayStop       \* whether the UI thread may call kill_all

ASSUME PidAssumption  == MaxPid \in Nat /\ MaxPid >= 1
ASSUME DirAssumption  == RootDir \in Dirs /\ HostDir \in Dirs /\ NoDir \notin Dirs
ASSUME CallAssumption ==
    /\ CloneCalls \subseteq {"fork", "clone"}
    /\ Dirs \cap {"none", "fork", "clone", "exit", "other"} = {}
ASSUME BoundAssumption ==
    /\ MaxCalls \in Nat /\ MaxKills \in Nat
    /\ MayInterrupt \in BOOLEAN /\ MayStop \in BOOLEAN

Pids     == 1 .. MaxPid
StrayPid == MaxPid + 1       \* an exit status that is taken for a pid
AnyPid   == 1 .. MaxPid + 1
NoPid    == 0
Root     == 1                \* the task spawn_guest forks

(* A call is chdir, represented by the directory it goes to, or one of the rest. *)
Calls     == Dirs \cup CloneCalls \cup {"exit", "other"}
StopKinds == {"sigstop", "entry", "exit", "newchild", "signal", "exiting"}
Running   == {"starting", "user", "kernel"}
LoopPcs   == {"check", "wait", "remove", "stop", "register", "resume"}
SpawnPcs  == {"spawn_wait", "spawn_options", "spawn_add"}

VARIABLES
    \* the tracer thread: where it is and its locals
    pc, cur, status, new_pid,
    \* the tables
    processes,    \* keys of ProcessTree::processes
    process_cwds, \* PathResolver::process_cwds
    \* the kernel's side of every task
    task,         \* absent, running, stopped (the kind of stop), dead, reaped or wild
    reported,     \* tasks whose present stop a waitpid has returned
    call,         \* the call a task is in
    group,        \* the thread group of a task, by its leader
    eventmsg,     \* what PTRACE_GETEVENTMSG returns at a newchild stop
    kcwd,         \* the kernel's working directory of a group
    opts,         \* PTRACE_SETOPTIONS has taken effect on the guest
    next_pid,
    \* bounds and history
    stopping,     \* kill_all has been called
    calls, kills,
    lost,         \* children whose announcement died unread with its task
    early,        \* tasks whose last chdir was dispatched before they were registered
    drifted       \* tasks whose table entry may differ from the kernel (see KChdir, Register)

loop    == <<pc, cur, status, new_pid>>
tables  == <<processes, process_cwds>>
kernel  == <<task, reported, call, group, eventmsg, kcwd, opts, next_pid>>
bounds  == <<stopping, calls, kills>>
history == <<lost, early, drifted>>
vars    == <<loop, tables, kernel, bounds, history>>

Stopped(p) == task[p] \in StopKinds
Live(p)    == task[p] \in Running \cup StopKinds
Alive(p)   == Live(p) \/ task[p] = "wild"
GroupOf(p) == {q \in Pids : group[q] = group[p] /\ Alive(q)}
(* A newchild stop whose message the loop has not fetched: the parent is   *)
(* still stopped there, unwaited for or just about to be handled.          *)
Unread(q)  == task[q] = "newchild" /\ (q \notin reported \/ (pc = "stop" /\ cur = q))

Init ==
    /\ pc = "fork" /\ cur = NoPid /\ status = "none" /\ new_pid = NoPid
    /\ processes = {}
    /\ process_cwds = [p \in AnyPid |-> NoDir]
    /\ task = [p \in Pids |-> "absent"]
    /\ reported = {}
    /\ call = [p \in Pids |-> "none"]
    /\ group = [p \in Pids |-> p]
    /\ eventmsg = [p \in Pids |-> NoPid]
    /\ kcwd = [p \in Pids |-> HostDir]
    /\ opts = FALSE
    /\ next_pid = 1
    /\ stopping = FALSE /\ calls = 0 /\ kills = 0
    /\ lost = {} /\ early = {} /\ drifted = {}

-----------------------------------------------------------------------------
(* ProcessTree and PathResolver.  Each method holds its class's mutex.     *)

(* Mutants: a process is not added; a directory is always found missing.   *)
AddNothing(p) == UNCHANGED processes
GetRoot(p)    == RootDir

AddProcess(p)    == processes' = processes \cup {p}
GetCwd(p)        == IF process_cwds[p] = NoDir THEN RootDir ELSE process_cwds[p]
SetCwd(p, d)     == process_cwds' = [process_cwds EXCEPT ![p] = d]
RemoveProcess(p) == processes' = processes \ {p}
RemoveCwd(p)     == process_cwds' = [process_cwds EXCEPT ![p] = NoDir]

-----------------------------------------------------------------------------
(* spawn_guest.                                                            *)

GuestFork ==
    /\ pc = "fork"
    /\ \/ /\ pc' = "spawn_wait"
          /\ task' = [task EXCEPT ![Root] = "starting"]
          /\ next_pid' = Root + 1
          /\ drifted' = IF HostDir = RootDir THEN {} ELSE {Root}
       \/ /\ pc' = "done"                           \* fork failed
          /\ UNCHANGED <<task, next_pid, drifted>>
    /\ UNCHANGED <<cur, status, new_pid, tables, reported, call, group, eventmsg,
                   kcwd, opts, bounds, lost, early>>

(* waitpid(pid, &status, 0).  Its result is not looked at: it may have     *)
(* consumed the initial stop, reaped a child that failed, or been          *)
(* interrupted with the stop still to come.                                *)
SpawnWait ==
    /\ pc = "spawn_wait"
    /\ \/ /\ Stopped(Root) /\ Root \notin reported
          /\ reported' = reported \cup {Root}
          /\ UNCHANGED task
       \/ /\ task[Root] = "dead"
          /\ task' = [task EXCEPT ![Root] = "reaped"]
          /\ UNCHANGED reported
       \/ MayInterrupt /\ UNCHANGED <<task, reported>>
    /\ pc' = "spawn_options"
    /\ UNCHANGED <<cur, status, new_pid, tables, call, group, eventmsg, kcwd, opts,
                   next_pid, bounds, history>>

(* PTRACE_SETOPTIONS fails, unnoticed, on a task that is not stopped.      *)
SpawnOptions ==
    /\ pc = "spawn_options"
    /\ opts' = Stopped(Root)
    /\ pc' = "spawn_add"
    /\ UNCHANGED <<cur, status, new_pid, tables, task, reported, call, group,
                   eventmsg, kcwd, next_pid, bounds, history>>

SpawnAdd ==
    /\ pc = "spawn_add"
    /\ AddProcess(Root)
    /\ pc' = "check"
    /\ UNCHANGED <<cur, status, new_pid, process_cwds, kernel, bounds, history>>

-----------------------------------------------------------------------------
(* run_loop.                                                               *)

(* active_process_count() > 0.  Mutant: the last task counts as none.      *)
ActiveOffByOne == Cardinality(processes) > 1
Active == Cardinality(processes) > 0

Check ==
    /\ pc = "check"
    /\ pc' = IF Active THEN "wait" ELSE "done"
    /\ UNCHANGED <<cur, status, new_pid, tables, kernel, bounds, history>>

(* A dead leader cannot be waited for before the other threads of its group. *)
Reapable(p) ==
    /\ task[p] = "dead"
    /\ group[p] = p => \A q \in Pids \ {p} :
                          group[q] = p => task[q] \in {"absent", "reaped"}

(* waitpid(-1, &status, __WALL): any stop not yet reported, or any death.  *)
WaitStop(p) ==
    /\ Stopped(p) /\ p \notin reported
    /\ pc' = "stop" /\ cur' = p /\ status' = task[p]
    /\ reported' = reported \cup {p}
    /\ UNCHANGED task

WaitDeath(p) ==
    /\ Reapable(p)
    /\ pc' = "remove" /\ cur' = p /\ status' = "none"
    /\ task' = [task EXCEPT ![p] = "reaped"]
    /\ UNCHANGED reported

(* Mutant: every error of waitpid goes round again. *)
WaitNoneContinues ==
    /\ \A p \in Pids : task[p] \in {"absent", "reaped", "wild"}
    /\ pc' = "check"
    /\ UNCHANGED <<cur, status, task, reported>>

(* Mutant: any error of waitpid ends the loop. *)
WaitErrorEnds ==
    /\ pc' = "done"
    /\ UNCHANGED <<cur, status, task, reported>>

(* ECHILD ends the loop.                                                   *)
WaitNone ==
    /\ \A p \in Pids : task[p] \in {"absent", "reaped", "wild"}
    /\ pc' = "done"
    /\ UNCHANGED <<cur, status, task, reported>>

Wait ==
    /\ pc = "wait"
    /\ WaitNone \/ \E p \in Pids : WaitStop(p) \/ WaitDeath(p)
    /\ UNCHANGED <<new_pid, tables, call, group, eventmsg, kcwd, opts, next_pid,
                   bounds, history>>

Remove ==
    /\ pc = "remove"
    /\ RemoveProcess(cur)
    /\ RemoveCwd(cur)
    /\ pc' = "check"
    /\ UNCHANGED <<cur, status, new_pid, kernel, bounds, history>>

(* PTRACE_GETEVENTMSG.  A parent killed since the wait has left the stop:  *)
(* the request fails, or it finds the exit stop and returns a status.      *)
EventMessage == IF task[cur] = "newchild" THEN eventmsg[cur]
                ELSE IF task[cur] = "exiting" THEN StrayPid
                ELSE NoPid

(* Mutant: the message is used without `if (new_pid > 0)'. *)
ReadEventUnchecked ==
    /\ status = "newchild"
    /\ new_pid' = EventMessage
    /\ pc' = "register"
    /\ UNCHANGED <<process_cwds, early>>

(* The message decides whether there is a child to register.               *)
ReadEvent ==
    /\ status = "newchild"
    /\ new_pid' = EventMessage
    /\ pc' = IF EventMessage > NoPid THEN "register" ELSE "resume"
    /\ UNCHANGED <<process_cwds, early>>

(* dispatch(pid, &regs, true), at the entry of a call and at its exit.  Of *)
(* the handlers only chdir's changes a table.  At the exit of a call the   *)
(* register that held the path still does on x86_64; on aarch64 it holds   *)
(* the result, no string is read and nothing is done.                      *)
Dispatch ==
    /\ status \in {"entry", "exit"} /\ opts
    /\ IF /\ Stopped(cur) /\ call[cur] \in Dirs
          /\ status = "entry" \/ Arch = "x86_64"
       THEN /\ SetCwd(cur, call[cur])
            /\ early' = IF status = "exit" THEN early
                        ELSE IF cur \in processes THEN early \ {cur}
                        ELSE early \cup {cur}
       ELSE UNCHANGED <<process_cwds, early>>
    /\ pc' = "resume"
    /\ UNCHANGED new_pid

OtherStop ==
    /\ status # "newchild" /\ ~ (status \in {"entry", "exit"} /\ opts)
    /\ pc' = "resume"
    /\ UNCHANGED <<new_pid, process_cwds, early>>

HandleStop ==
    /\ pc = "stop"
    /\ ReadEvent \/ Dispatch \/ OtherStop
    /\ UNCHANGED <<cur, status, processes, kernel, bounds, lost, drifted>>

(* Mutant: the loop goes round without resuming the parent. *)
RegisterNoResume ==
    /\ pc = "register"
    /\ AddProcess(new_pid)
    /\ SetCwd(new_pid, GetCwd(cur))
    /\ pc' = "check"
    /\ UNCHANGED <<cur, status, new_pid, kernel, bounds, history>>

(* kill_all may come between the fetching of the message and this step.    *)
(* The child's entry is only as good as that of its parent.                *)
Register ==
    /\ pc = "register"
    /\ AddProcess(new_pid)
    /\ SetCwd(new_pid, GetCwd(cur))
    /\ drifted' = IF cur \in drifted \/ cur \notin processes
                  THEN drifted \cup ({new_pid} \cap Pids) ELSE drifted
    /\ pc' = "resume"
    /\ UNCHANGED <<cur, status, new_pid, kernel, bounds, lost, early>>

(* Where PTRACE_SYSCALL takes a task from each kind of stop. *)
ResumedTo(kind) == IF kind \in {"entry", "newchild"} THEN "kernel"
                   ELSE IF kind \in {"sigstop", "exit", "signal"} THEN "user"
                   ELSE IF kind = "exiting" THEN "dead"
                   ELSE kind

(* ptrace(PTRACE_SYSCALL, pid, 0, 0): no signal is passed on, and a task   *)
(* that is no longer stopped is left alone.  A task killed since it was    *)
(* waited for is resumed from its exit stop, though that is not reported.  *)
Resume ==
    /\ pc = "resume"
    /\ pc' = "check"
    /\ task' = [task EXCEPT ![cur] = ResumedTo(@)]
    /\ call' = IF task[cur] = "exit" THEN [call EXCEPT ![cur] = "none"] ELSE call
    /\ reported' = reported \ {cur}
    /\ UNCHANGED <<cur, status, new_pid, tables, group, eventmsg, kcwd, opts,
                   next_pid, bounds, history>>

LoopStep ==
    \/ GuestFork \/ SpawnWait \/ SpawnOptions \/ SpawnAdd
    \/ Check \/ Wait \/ Remove \/ HandleStop \/ Register \/ Resume

-----------------------------------------------------------------------------
(* The kernel and the guest.                                               *)

StopAt(p, kind) ==
    /\ task' = [task EXCEPT ![p] = kind]
    /\ reported' = reported \ {p}

(* The tasks of V die.  With PTRACE_O_TRACEEXIT a dying task may stop once *)
(* more (E); a child that nobody traces disappears by itself.              *)
Die(V) ==
    \E E \in SUBSET {q \in V : opts /\ task[q] \notin {"starting", "exiting", "wild"}} :
        /\ task' = [q \in Pids |-> IF q \in E THEN "exiting"
                                   ELSE IF q \notin V THEN task[q]
                                   ELSE IF task[q] = "wild" THEN "reaped" ELSE "dead"]
        /\ reported' = reported \ V
        /\ lost' = lost \cup {eventmsg[q] : q \in {r \in V : Unread(r)}}

(* PTRACE_TRACEME and raise(SIGSTOP) of the forked child.                  *)
Startup ==
    /\ task[Root] = "starting"
    /\ \/ StopAt(Root, "sigstop")
       \/ task' = [task EXCEPT ![Root] = "dead"] /\ UNCHANGED reported
    /\ UNCHANGED <<loop, tables, call, group, eventmsg, kcwd, opts, next_pid, bounds,
                   history>>

EnterSyscall(p) ==
    /\ task[p] = "user" /\ calls < MaxCalls
    /\ calls' = calls + 1
    /\ \E c \in Calls : call' = [call EXCEPT ![p] = c]
    /\ StopAt(p, "entry")
    /\ UNCHANGED <<loop, tables, group, eventmsg, kcwd, opts, next_pid, stopping,
                   kills, history>>

(* The group's directory changes, or the call fails.  The table was        *)
(* changed at the entry in both cases.                                     *)
KChdir(p) ==
    /\ task[p] = "kernel" /\ call[p] \in Dirs
    /\ \/ /\ kcwd' = [kcwd EXCEPT ![group[p]] = call[p]]
          /\ drifted' = (drifted \ ({p} \ early)) \cup ({p} \cap early)
                            \cup {q \in Pids \ {p} : group[q] = group[p] /\ task[q] # "absent"}
       \/ drifted' = drifted \cup {p} /\ UNCHANGED kcwd
    /\ StopAt(p, "exit")
    /\ UNCHANGED <<loop, tables, call, group, eventmsg, opts, next_pid, bounds, lost,
                   early>>

(* A traced child starts with a SIGSTOP, and its parent stops to announce  *)
(* it; the two stops can be reported in either order.  What is left of the *)
(* call after that is its return.                                          *)
KClone(p) ==
    /\ task[p] = "kernel" /\ call[p] \in CloneCalls /\ next_pid <= MaxPid
    /\ LET n == next_pid IN
       /\ next_pid' = n + 1
       /\ group' = [group EXCEPT ![n] = IF call[p] = "clone" THEN group[p] ELSE n]
       /\ kcwd' = IF call[p] = "clone" THEN kcwd ELSE [kcwd EXCEPT ![n] = kcwd[group[p]]]
       /\ IF opts
          THEN /\ task' = [task EXCEPT ![p] = "newchild", ![n] = "sigstop"]
               /\ eventmsg' = [eventmsg EXCEPT ![p] = n]
               /\ call' = [call EXCEPT ![p] = "other"]
          ELSE /\ task' = [task EXCEPT ![p] = "exit", ![n] = "wild"]
               /\ UNCHANGED <<eventmsg, call>>
       /\ reported' = reported \ {p, n}
    /\ UNCHANGED <<loop, tables, opts, bounds, history>>

(* Every other call, and a fork that fails.                                *)
KOther(p) ==
    /\ task[p] = "kernel" /\ call[p] \in CloneCalls \cup {"other"}
    /\ StopAt(p, "exit")
    /\ UNCHANGED <<loop, tables, call, group, eventmsg, kcwd, opts, next_pid, bounds,
                   history>>

KExit(p) ==                                         \* exit, or exit_group
    /\ task[p] = "kernel" /\ call[p] = "exit"
    /\ \E V \in {{p}, GroupOf(p)} : Die(V)
    /\ UNCHANGED <<loop, tables, call, group, eventmsg, kcwd, opts, next_pid, bounds,
                   early, drifted>>

Signal(p) ==                                        \* also the stop at an exec
    /\ task[p] = "user" /\ calls < MaxCalls
    /\ calls' = calls + 1
    /\ StopAt(p, "signal")
    /\ UNCHANGED <<loop, tables, call, group, eventmsg, kcwd, opts, next_pid, stopping,
                   kills, history>>

Kill(p) ==                                          \* the system, or another guest
    /\ Alive(p) /\ kills < MaxKills
    /\ kills' = kills + 1
    /\ Die(GroupOf(p))
    /\ UNCHANGED <<loop, tables, call, group, eventmsg, kcwd, opts, next_pid, stopping,
                   calls, early, drifted>>

KernelStep ==
    Startup \/ \E p \in Pids : EnterSyscall(p) \/ KChdir(p) \/ KClone(p) \/ KOther(p)
                                \/ KExit(p) \/ Signal(p) \/ Kill(p)

-----------------------------------------------------------------------------
(* ProcessTree::kill_all, called by nativeStopVM on the UI thread.         *)
KillAll ==
    /\ MayStop /\ ~ stopping
    /\ stopping' = TRUE
    /\ Die(UNION {GroupOf(p) : p \in {q \in processes \cap Pids : Alive(q)}})
    /\ processes' = {}
    /\ UNCHANGED <<loop, process_cwds, call, group, eventmsg, kcwd, opts, next_pid,
                   calls, kills, early, drifted>>

Next == LoopStep \/ KernelStep \/ KillAll

Spec == Init /\ [][Next]_vars

(* The tracer is one thread that the scheduler runs.  Nothing is assumed   *)
(* of the guest: a call may block for ever.                                *)
FairSpec == Spec /\ WF_vars(LoopStep)

-----------------------------------------------------------------------------
(* Properties.                                                             *)

(* Type invariant.  The tables hold pids, or the stray pid of a parent     *)
(* killed at its announcement, and never pid 0.                            *)
TypeOK ==
    /\ pc \in {"fork", "done"} \cup SpawnPcs \cup LoopPcs
    /\ cur \in Pids \cup {NoPid}
    /\ pc \in {"remove", "stop", "register", "resume"} => cur \in Pids
    /\ status \in StopKinds \cup {"none"}
    /\ new_pid \in AnyPid \cup {NoPid}
    /\ pc = "register" => new_pid \in AnyPid
    /\ processes \subseteq AnyPid
    /\ process_cwds \in [AnyPid -> Dirs \cup {NoDir}]
    /\ task \in [Pids -> Running \cup StopKinds \cup {"absent", "dead", "reaped", "wild"}]
    /\ reported \subseteq Pids
    /\ call \in [Pids -> Calls \cup {"none"}]
    /\ group \in [Pids -> Pids]
    /\ eventmsg \in [Pids -> Pids \cup {NoPid}]
    /\ kcwd \in [Pids -> Dirs]
    /\ opts \in BOOLEAN
    /\ next_pid \in AnyPid
    /\ stopping \in BOOLEAN /\ calls \in 0 .. MaxCalls /\ kills \in 0 .. MaxKills
    /\ lost \subseteq Pids /\ early \subseteq Pids /\ drifted \subseteq Pids

(* p is on its way into the tree: the stop that announces it is unread, or *)
(* its message has been fetched, or it is the guest being spawned.         *)
Announced(p) ==
    \/ \E q \in Pids : Unread(q) /\ eventmsg[q] = p
    \/ pc = "register" /\ new_pid = p
    \/ p = Root /\ pc \in SpawnPcs

(* Every live task the engine traces is in the process tree, or a stop     *)
(* that will put it there is still to be handled: what kill_all and the    *)
(* loop's condition rely on.  The exceptions are named: a child whose      *)
(* parent was killed with the announcement unread, and what kill_all       *)
(* itself clears.                                                          *)
Tracked ==
    \A p \in Pids : Live(p) => \/ p \in processes \/ Announced(p)
                                \/ p \in lost \/ stopping

(* The loop does not leave while a traced task lives: an empty tree, or    *)
(* ECHILD, means that the guest is over.                                   *)
NoneLeft == pc = "done" /\ ~ stopping /\ lost = {} => \A p \in Pids : ~ Live(p)

(* The table's directory of a task is the kernel's, between calls to       *)
(* chdir, across forks and threads, registration and removal, except for   *)
(* the tasks `drifted' names: the guest before its first chdir, a failed   *)
(* chdir, one by another thread of the group, one made before the task was *)
(* registered, and the children of such tasks.                             *)
CwdAgrees ==
    opts => \A p \in processes \cap Pids :
                Live(p) /\ call[p] \notin Dirs /\ p \notin drifted
                    => GetCwd(p) = kcwd[group[p]]

(* A stop that waitpid has yet to report is in the end resumed, whatever   *)
(* else stops or dies meanwhile, unless the loop is over: no task is left  *)
(* hanging in ptrace.                                                      *)
StopsHandled ==
    \A p \in Pids : (pc \in LoopPcs /\ Stopped(p) /\ p \notin reported)
                        ~> (~ Stopped(p) \/ pc = "done")

(* When the last task has gone the loop ends, even with entries left in    *)
(* the tree that nothing will remove.                                      *)
LoopEnds ==
    (pc # "fork" /\ \A p \in Pids : task[p] \in {"absent", "dead", "reaped"})
        ~> pc = "done"

-----------------------------------------------------------------------------
(* What the rest of the engine sees of the thread and the guest.           *)
ThreadPhase == IF pc = "fork" THEN "entry"
               ELSE IF pc \in SpawnPcs THEN "spawning"
               ELSE IF pc \in LoopPcs THEN "looping"
               ELSE IF next_pid = Root THEN "failed" ELSE "done"
TracedAlive == \E p \in Pids : Live(p)

Thread == INSTANCE TracerThread
            WITH phase <- ThreadPhase, tracked <- Active, alive <- TracedAlive

(* The thread registers and forgets tasks only in its loop, leaves it only *)
(* on an empty tree or a dead guest, and once the guest is dead it stays   *)
(* so, whatever the kernel and kill_all do in between.                     *)
ThreadSpec == Thread!Spec

-----------------------------------------------------------------------------
(* What the repository says of this code and the code does not do; see the *)
(* README.                                                                 *)

(* Once the event loop is entered the guest, if it lives, gets to run.     *)
GuestStarts == (pc = "check" /\ Live(Root)) ~> (~ Stopped(Root))

(* When the tracer has ended after a stop, no task of the guest is left.   *)
(* (One that was killed and halts in its exit is let go with the tracer.)  *)
StopLeavesNone ==
    stopping /\ pc = "done" => \A p \in Pids : Live(p) => task[p] = "exiting"
=============================================================================
