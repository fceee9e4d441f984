---------------------------- MODULE TracerThread ----------------------------
(***************************************************************************)
(* What the rest of the engine sees of the tracer thread and the guest:    *)
(* how far the thread is, whether the process tree is empty, and whether a *)
(* task that the thread traces is alive.  TraceLoop implements it, and     *)
(* EngineLifecycle is built on it.                                         *)
(***************************************************************************)

VARIABLES
    phase,    \* "entry", "failed", "spawning", "looping" or "done"
    tracked,  \* the process tree has an entry
    alive     \* a traced task lives

vars == <<phase, tracked, alive>>

Init == phase = "entry" /\ tracked = FALSE /\ alive = FALSE

(* spawn_guest: fork, which may fail and leave nothing to loop for, and    *)
(* add_process.                                                            *)
Fork ==
    /\ phase = "entry"
    /\ \/ phase' = "spawning" /\ alive' = TRUE
       \/ phase' = "failed" /\ UNCHANGED alive
    /\ UNCHANGED tracked

Add ==
    /\ phase = "spawning" /\ phase' = "looping"
    /\ tracked' = TRUE
    /\ UNCHANGED alive

(* run_loop: it registers a child, or removes the last entry, and leaves   *)
(* on an empty tree or when there is nothing to wait for.                  *)
Track ==
    /\ phase = "looping" /\ tracked' = TRUE
    /\ UNCHANGED <<phase, alive>>

Untrack ==
    /\ phase = "looping" /\ tracked' = FALSE
    /\ UNCHANGED <<phase, alive>>

Leave ==
    /\ phase = "looping" /\ phase' = "done"
    /\ ~ tracked \/ ~ alive
    /\ UNCHANGED <<tracked, alive>>

ThreadStep == Fork \/ Add \/ Track \/ Untrack \/ Leave

(* The last task of the guest ends.                                        *)
GuestEnds ==
    /\ alive /\ alive' = FALSE
    /\ UNCHANGED <<phase, tracked>>

(* ProcessTree::kill_all reaches the tasks in the tree, and through them   *)
(* perhaps all there are.                                                  *)
KillAll ==
    /\ alive' = alive \/ (tracked /\ alive' = FALSE)
    /\ tracked' = FALSE
    /\ UNCHANGED phase

Next == ThreadStep \/ GuestEnds \/ KillAll

Spec == Init /\ [][Next]_vars
=============================================================================
