------------------------------ MODULE GuestInit ------------------------------
(***************************************************************************)
(* guest_init_orchestrator: the guest's init, which starts the daemons in  *)
(* order, starts again those that stop, and on SIGTERM or SIGINT sends     *)
(* SIGTERM to them all and leaves.  The other half of the module is the    *)
(* processes it forks, and the signals.                                    *)
(*                                                                         *)
(* Pauses are left out: between any two steps of main everything else may  *)
(* happen, and a signal ends a pause early anyway.                         *)
(***************************************************************************)
EXTENDS Naturals, Sequences, FiniteSets

CONSTANTS
    Daemons,     \* g_daemons, in order
    MaxForks,    \* bound: processes forked
    MaxFailures  \* bound: forks that fail

Names == {Daemons[k] : k \in 1 .. Len(Daemons)}
NoPid == 0
Pids  == 1 .. MaxForks

ASSUME DaemonAssumption ==
    /\ Len(Daemons) \in Nat \ {0}
    /\ \A j, k \in 1 .. Len(Daemons) : Daemons[j] = Daemons[k] => j = k
ASSUME BoundAssumption == MaxForks \in Nat /\ MaxFailures \in Nat

VARIABLES
    pc,          \* start, check, wait, restart, shutdown, exited
    next,        \* the daemon whose turn it is in start and shutdown
    exited_pid,
    g_running,
    pid,         \* DaemonProcess::pid
    proc,        \* absent, forked (not yet execv), running, dead, reaped
    owner,       \* the daemon a process was forked for
    forks, failures,
    failed,      \* daemons whose last fork failed
    missed       \* processes that SIGTERM reached before their execv

main == <<pc, next, exited_pid>>
vars == <<main, g_running, pid, proc, owner, forks, failures, failed, missed>>

Alive(p)  == proc[p] \in {"forked", "running"}
Nobody    == "nobody"

Init ==
    /\ pc = "start" /\ next = 1 /\ exited_pid = NoPid
    /\ g_running = TRUE
    /\ pid = [d \in Names |-> NoPid]
    /\ proc = [p \in Pids |-> "absent"]
    /\ owner = [p \in Pids |-> Nobody]
    /\ forks = 0 /\ failures = 0
    /\ failed = {} /\ missed = {}

-----------------------------------------------------------------------------
(* start_daemon                                                            *)

Forked(d) ==
    /\ forks < MaxForks /\ forks' = forks + 1
    /\ proc' = [proc EXCEPT ![forks + 1] = "forked"]
    /\ owner' = [owner EXCEPT ![forks + 1] = d]
    /\ UNCHANGED failures

ForkFails ==
    /\ failures < MaxFailures /\ failures' = failures + 1
    /\ UNCHANGED <<forks, proc, owner>>

(* Mutant: the daemon is passed by value, and its pid is lost. *)
start_daemonByValue(d) ==
    \/ Forked(d) /\ failed' = failed \ {d} /\ UNCHANGED pid
    \/ ForkFails /\ failed' = failed \cup {d} /\ UNCHANGED pid

start_daemon(d) ==
    \/ Forked(d) /\ failed' = failed \ {d} /\ pid' = [pid EXCEPT ![d] = forks + 1]
    \/ ForkFails /\ failed' = failed \cup {d} /\ UNCHANGED pid

-----------------------------------------------------------------------------
(* main                                                                    *)

Start ==
    /\ pc = "start"
    /\ start_daemon(Daemons[next])
    /\ IF next < Len(Daemons) THEN next' = next + 1 /\ UNCHANGED pc
       ELSE next' = 1 /\ pc' = "check"
    /\ UNCHANGED <<exited_pid, g_running, missed>>

Check ==
    /\ pc = "check"
    /\ pc' = IF g_running THEN "wait" ELSE "shutdown"
    /\ UNCHANGED <<next, exited_pid, g_running, pid, proc, owner, forks, failures, failed, missed>>

(* waitpid(-1, &status, WNOHANG)                                           *)
Reap ==
    \E p \in Pids : /\ proc[p] = "dead"
                    /\ proc' = [proc EXCEPT ![p] = "reaped"]
                    /\ exited_pid' = p /\ pc' = "restart"

(* Mutant: `exited_pid >= 0' goes on to look for a daemon. *)
NoneToReapTaken ==
    /\ \A p \in Pids : proc[p] # "dead"
    /\ pc' = "restart" /\ exited_pid' = NoPid
    /\ UNCHANGED proc

NoneToReap ==
    /\ \A p \in Pids : proc[p] # "dead"
    /\ pc' = "check" /\ exited_pid' = NoPid
    /\ UNCHANGED proc

Wait ==
    /\ pc = "wait"
    /\ Reap \/ NoneToReap
    /\ UNCHANGED <<next, g_running, pid, owner, forks, failures, failed, missed>>

(* The daemon that is started again.  Mutant: any that has stopped once.   *)
ExitedAny(d) == pid[d] # NoPid
Exited(d)    == pid[d] = exited_pid

Restart ==
    /\ pc = "restart" /\ pc' = "check"
    /\ \/ \E d \in Names : Exited(d) /\ start_daemon(d)
       \/ /\ \A d \in Names : ~ Exited(d)
          /\ UNCHANGED <<pid, proc, owner, forks, failures, failed>>
    /\ UNCHANGED <<next, exited_pid, g_running, missed>>

(* kill(d.pid, SIGTERM).  A process that has not reached its execv has its *)
(* parent's handler, which does no more than clear the child's own flag.   *)
Terminate(p) ==
    /\ proc' = IF p # NoPid /\ proc[p] = "running" THEN [proc EXCEPT ![p] = "dead"] ELSE proc
    /\ missed' = IF p # NoPid /\ proc[p] = "forked" THEN missed \cup {p} ELSE missed

(* Mutant: the last daemon is left out. *)
ShutdownShort ==
    /\ pc = "shutdown"
    /\ Terminate(pid[Daemons[next]])
    /\ IF next < Len(Daemons) - 1 THEN next' = next + 1 /\ UNCHANGED pc
       ELSE pc' = "exited" /\ UNCHANGED next
    /\ UNCHANGED <<exited_pid, g_running, pid, owner, forks, failures, failed>>

Shutdown ==
    /\ pc = "shutdown"
    /\ Terminate(pid[Daemons[next]])
    /\ IF next < Len(Daemons) THEN next' = next + 1 /\ UNCHANGED pc
       ELSE pc' = "exited" /\ UNCHANGED next
    /\ UNCHANGED <<exited_pid, g_running, pid, owner, forks, failures, failed>>

MainStep == Start \/ Check \/ Wait \/ Restart \/ Shutdown

-----------------------------------------------------------------------------
(* The daemons, and whoever sends the orchestrator a signal.               *)

Exec(p) ==                                           \* it may fail: _exit(1)
    /\ proc[p] = "forked"
    /\ \E s \in {"running", "dead"} : proc' = [proc EXCEPT ![p] = s]
    /\ UNCHANGED <<main, g_running, pid, owner, forks, failures, failed, missed>>

Crash(p) ==
    /\ Alive(p)
    /\ proc' = [proc EXCEPT ![p] = "dead"]
    /\ UNCHANGED <<main, g_running, pid, owner, forks, failures, failed, missed>>

handle_signal ==
    /\ g_running /\ pc # "exited"
    /\ g_running' = FALSE
    /\ UNCHANGED <<main, pid, proc, owner, forks, failures, failed, missed>>

Next == MainStep \/ handle_signal \/ \E p \in Pids : Exec(p) \/ Crash(p)

(* main is scheduled; nothing is assumed of the daemons.                   *)
Spec == Init /\ [][Next]_vars /\ WF_vars(MainStep)

-----------------------------------------------------------------------------
(* Properties.                                                             *)

(* Type invariant; a recorded pid is that of a process of the daemon, and  *)
(* only a real one is looked for.                                          *)
TypeOK ==
    /\ pc \in {"start", "check", "wait", "restart", "shutdown", "exited"}
    /\ next \in 1 .. Len(Daemons)
    /\ exited_pid \in Pids \cup {NoPid} /\ (pc = "restart" => exited_pid # NoPid)
    /\ g_running \in BOOLEAN
    /\ pid \in [Names -> Pids \cup {NoPid}]
    /\ \A d \in Names : pid[d] # NoPid => owner[pid[d]] = d
    /\ owner \in [Pids -> Names \cup {Nobody}]
    /\ proc \in [Pids -> {"absent", "forked", "running", "dead", "reaped"}]
    /\ forks \in 0 .. MaxForks /\ failures \in 0 .. MaxFailures
    /\ failed \subseteq Names /\ missed \subseteq Pids

(* A daemon never runs twice, however its deaths, those of the others and  *)
(* failed forks interleave with the supervisor's loop.                     *)
OneInstance ==
    \A p, q \in Pids : Alive(p) /\ Alive(q) /\ owner[p] = owner[q] => p = q

(* A daemon that stops is started again, unless the orchestrator is on its *)
(* way out, or a fork fails: then its recorded pid is one that no waitpid  *)
(* returns any more, and it stays down for good.                           *)
Restarted ==
    \A d \in Names :
        (pc \in {"check", "wait", "restart"} /\ ~ \E p \in Pids : owner[p] = d /\ Alive(p))
            ~> \/ \E p \in Pids : owner[p] = d /\ Alive(p)
               \/ ~ g_running \/ d \in failed \/ forks = MaxForks

(* When the orchestrator has left no daemon runs on, except one that the   *)
(* signal reached between its fork and its execv.                          *)
NoneSurvives == pc = "exited" => \A p \in Pids : Alive(p) => p \in missed
=============================================================================
