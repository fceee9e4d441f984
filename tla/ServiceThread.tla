---------------------------- MODULE ServiceThread ----------------------------
(***************************************************************************)
(* What the engine's start and stop rely on of a service with a thread of  *)
(* its own (the property service, the DNS proxy): the owner starts it,     *)
(* perhaps without a thread, and stops it by a flag and a join; the worker *)
(* serves, or waits for a client in accept or read, which nothing but a    *)
(* client ends; once it has seen a client after the flag was cleared it    *)
(* does not wait again.  SocketService implements it, and EngineLifecycle  *)
(* is built on two of them.                                                *)
(***************************************************************************)

VARIABLES
    phase,   \* of the owner: "idle", "starting", "up" or "stopping"
    worker   \* "none", "busy", "waiting", "leaving" or "exited"

vars == <<phase, worker>>

Init == phase = "idle" /\ worker = "none"

-----------------------------------------------------------------------------
(* The owner.                                                              *)

Begin ==
    /\ phase = "idle" /\ phase' = "starting"
    /\ UNCHANGED worker

Started ==                           \* with a thread, or without if bind fails
    /\ phase = "starting" /\ phase' = "up"
    /\ worker' \in {"none", "busy"}

(* The flag finds a busy worker before its next look at it, or after.      *)
Stop ==
    /\ phase = "up" /\ phase' = "stopping"
    /\ worker' = worker \/ (worker = "busy" /\ worker' = "leaving")

(* Mutant: stop does not wait for the thread. *)
JoinDetached ==
    /\ phase = "stopping" /\ phase' = "idle"
    /\ UNCHANGED worker

Join ==
    /\ phase = "stopping" /\ phase' = "idle"
    /\ worker \in {"none", "exited"} /\ worker' = "none"

-----------------------------------------------------------------------------
(* The worker.                                                             *)

Wait ==
    /\ worker = "busy" /\ worker' = "waiting"
    /\ UNCHANGED phase

(* A client came, or spoke.                                                *)
Resume ==
    /\ worker = "waiting"
    /\ worker' = IF phase = "stopping" THEN "leaving" ELSE "busy"
    /\ UNCHANGED phase

(* accept fails on the closed descriptor.                                  *)
Refused ==
    /\ worker = "busy" /\ phase = "stopping" /\ worker' = "leaving"
    /\ UNCHANGED phase

Exit ==
    /\ worker = "leaving" /\ worker' = "exited"
    /\ UNCHANGED phase

WorkerStep == Wait \/ Refused \/ Exit

Next == Begin \/ Started \/ Stop \/ Join \/ WorkerStep \/ Resume

Spec == Init /\ [][Next]_vars
=============================================================================
