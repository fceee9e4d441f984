--------------------------- MODULE GuestInitProofs ---------------------------
(***************************************************************************)
(* Theorems about GuestInit, for any list of different daemons and any     *)
(* number of forks, successful or not.                                     *)
(***************************************************************************)
EXTENDS GuestInit, TLAPS

USE DaemonAssumption, BoundAssumption DEF NoPid, Pids, Alive

(* A live process is the recorded one of its daemon, and no pid that has   *)
(* not been handed out is recorded.                                        *)
Recorded ==
    /\ \A p \in Pids : Alive(p) => owner[p] \in Names /\ pid[owner[p]] = p
    /\ \A d \in Names : pid[d] <= forks

(* Where main is: the daemons it has not come to have no process yet; the  *)
(* one it starts again has been reaped.                                    *)
Progress ==
    /\ pc = "start" => \A k \in next .. Len(Daemons) : pid[Daemons[k]] = NoPid
    /\ pc \in {"check", "wait", "restart"} => next = 1
    /\ pc = "restart" => exited_pid \in Pids /\ proc[exited_pid] = "reaped"

(* The daemons it has sent SIGTERM are dead, or were not yet daemons.      *)
Passed ==
    \A p \in Pids :
        /\ pc = "shutdown" /\ Alive(p) =>
               \A k \in 1 .. next - 1 : owner[p] = Daemons[k] => p \in missed
        /\ pc = "exited" /\ Alive(p) => p \in missed

IInv == TypeOK /\ Recorded /\ Progress /\ Passed

-----------------------------------------------------------------------------
(* start_daemon, of a daemon that has no live process: a successful fork   *)
(* replaces the recorded pid, a failed one leaves it.                      *)
LEMMA Forks ==
    ASSUME IInv, NEW d \in Names, start_daemon(d),
           pid[d] # NoPid => ~ Alive(pid[d])
    PROVE  /\ pid' \in [Names -> Pids \cup {NoPid}]
           /\ \A e \in Names : pid'[e] # NoPid => owner'[pid'[e]] = e
           /\ owner' \in [Pids -> Names \cup {Nobody}]
           /\ proc' \in [Pids -> {"absent", "forked", "running", "dead", "reaped"}]
           /\ forks' \in 0 .. MaxForks /\ failures' \in 0 .. MaxFailures
           /\ failed' \subseteq Names
           /\ \A e \in Names \ {d} : pid'[e] = pid[e]
           /\ Recorded'
<1> USE DEF IInv, TypeOK
<1>1. CASE ForkFails
  <2>1. UNCHANGED <<forks, proc, owner, pid>> /\ failed' \subseteq Names
        BY <1>1 DEF ForkFails, Forked, start_daemon
  <2>2. failures' \in 0 .. MaxFailures
        BY <1>1 DEF ForkFails
  <2> QED
      BY <2>1, <2>2 DEF Recorded
<1>2. CASE Forked(d) /\ pid' = [pid EXCEPT ![d] = forks + 1] /\ failed' = failed \ {d}
  <2> DEFINE q == forks + 1
  <2>1. /\ q \in Pids /\ forks' = q /\ failures' = failures
        /\ proc' = [proc EXCEPT ![q] = "forked"] /\ owner' = [owner EXCEPT ![q] = d]
        /\ pid' = [pid EXCEPT ![d] = q]
        BY <1>2 DEF Forked
  <2>2. \A e \in Names : pid[e] # q
        BY DEF Recorded
  <2>3. \A e \in Names : pid'[e] # NoPid => owner'[pid'[e]] = e
        BY <2>1, <2>2
  <2>4. ASSUME NEW p \in Pids, proc'[p] \in {"forked", "running"}
        PROVE  owner'[p] \in Names /\ pid'[owner'[p]] = p
    <3>1. CASE p = q
          BY <2>1, <3>1
    <3>2. CASE p # q
      <4>1. Alive(p) /\ owner'[p] = owner[p]
            BY <2>1, <2>4, <3>2
      <4>2. owner[p] \in Names /\ pid[owner[p]] = p
            BY <4>1 DEF Recorded
      <4>3. owner[p] # d
            BY <4>1, <4>2
      <4> QED
          BY <2>1, <4>1, <4>2, <4>3
    <3> QED
        BY <3>1, <3>2
  <2>5. \A e \in Names : pid'[e] <= forks'
        BY <2>1 DEF Recorded
  <2>6. Recorded'
        BY <2>4, <2>5 DEF Recorded
  <2> HIDE DEF q
  <2>7. /\ pid' \in [Names -> Pids \cup {NoPid}] /\ owner' \in [Pids -> Names \cup {Nobody}]
        /\ proc' \in [Pids -> {"absent", "forked", "running", "dead", "reaped"}]
        /\ forks' \in 0 .. MaxForks /\ failures' \in 0 .. MaxFailures
        /\ \A e \in Names \ {d} : pid'[e] = pid[e]
        BY <2>1
  <2> QED
      BY <1>2, <2>3, <2>6, <2>7
<1> QED
    BY <1>1, <1>2 DEF start_daemon

(* The first starts: each daemon in the list is another.                   *)
LEMMA StartKeeps ==
    ASSUME IInv, Start
    PROVE  IInv'
<1> DEFINE d == Daemons[next]
<1>1. next \in 1 .. Len(Daemons) /\ d \in Names /\ start_daemon(d) /\ pid[d] = NoPid
      BY DEF Start, IInv, TypeOK, Progress, Names
<1>2. /\ pid' \in [Names -> Pids \cup {NoPid}]
      /\ \A e \in Names : pid'[e] # NoPid => owner'[pid'[e]] = e
      /\ owner' \in [Pids -> Names \cup {Nobody}]
      /\ proc' \in [Pids -> {"absent", "forked", "running", "dead", "reaped"}]
      /\ forks' \in 0 .. MaxForks /\ failures' \in 0 .. MaxFailures
      /\ failed' \subseteq Names
      /\ \A e \in Names \ {d} : pid'[e] = pid[e]
      /\ Recorded'
      BY <1>1, Forks
<1>3. /\ pc' \in {"start", "check"} /\ next' \in 1 .. Len(Daemons)
      /\ pc' = "start" => next' = next + 1
      /\ pc' = "check" => next' = 1
      /\ UNCHANGED <<exited_pid, g_running, missed>>
      BY <1>1 DEF Start
<1>4. TypeOK'
      BY <1>2, <1>3 DEF IInv, TypeOK
<1>5. ASSUME pc' = "start", NEW k \in next' .. Len(Daemons)
      PROVE  pid'[Daemons[k]] = NoPid
  <2>1. k \in next .. Len(Daemons) /\ k # next /\ k \in 1 .. Len(Daemons)
        BY <1>1, <1>3, <1>5
  <2>2. Daemons[k] \in Names /\ Daemons[k] # d
        BY <1>1, <2>1 DEF Names
  <2>3. pid[Daemons[k]] = NoPid
        BY <2>1 DEF Start, IInv, Progress
  <2> QED
      BY <1>2, <2>2, <2>3
<1>6. Progress' /\ Passed'
      BY <1>3, <1>5 DEF Progress, Passed
<1> QED
    BY <1>2, <1>4, <1>6 DEF IInv

(* A restart: the daemon's process has been reaped.                        *)
LEMMA RestartKeeps ==
    ASSUME IInv, Restart
    PROVE  IInv'
<1>1. pc = "restart" /\ pc' = "check" /\ UNCHANGED <<next, exited_pid, g_running, missed>>
      BY DEF Restart
<1>2. Progress' /\ Passed'
      BY <1>1 DEF IInv, Progress, Passed
<1>3. CASE UNCHANGED <<pid, proc, owner, forks, failures, failed>>
      BY <1>1, <1>2, <1>3 DEF IInv, TypeOK, Recorded
<1>4. ASSUME NEW d \in Names, Exited(d), start_daemon(d)
      PROVE  IInv'
  <2>1. ~ Alive(pid[d])
        BY <1>1, <1>4 DEF IInv, Progress, Exited
  <2>2. /\ pid' \in [Names -> Pids \cup {NoPid}]
        /\ \A e \in Names : pid'[e] # NoPid => owner'[pid'[e]] = e
        /\ owner' \in [Pids -> Names \cup {Nobody}]
        /\ proc' \in [Pids -> {"absent", "forked", "running", "dead", "reaped"}]
        /\ forks' \in 0 .. MaxForks /\ failures' \in 0 .. MaxFailures
        /\ failed' \subseteq Names
        /\ Recorded'
        BY <1>4, <2>1, Forks
  <2>3. TypeOK'
        BY <1>1, <2>2 DEF IInv, TypeOK
  <2> QED
      BY <1>2, <2>2, <2>3 DEF IInv
<1> QED
    BY <1>3, <1>4 DEF Restart

(* The loop's check of the flag and its waitpid.                           *)
LEMMA LoopKeeps ==
    ASSUME IInv, Check \/ Wait
    PROVE  IInv'
<1>1. CASE Check
      BY <1>1 DEF Check, IInv, TypeOK, Recorded, Progress, Passed
<1>2. CASE Wait /\ NoneToReap
      BY <1>2 DEF Wait, NoneToReap, IInv, TypeOK, Recorded, Progress, Passed
<1>3. CASE Wait /\ Reap
  <2>1. PICK p \in Pids : /\ proc[p] = "dead" /\ proc' = [proc EXCEPT ![p] = "reaped"]
                          /\ exited_pid' = p /\ pc' = "restart"
        BY <1>3 DEF Reap
  <2>2. UNCHANGED <<next, g_running, pid, owner, forks, failures, failed, missed>>
        /\ pc = "wait"
        BY <1>3 DEF Wait
  <2>3. \A q \in Pids : Alive(q)' => Alive(q)
        BY <2>1 DEF IInv, TypeOK
  <2>4. TypeOK'
        BY <2>1, <2>2 DEF IInv, TypeOK
  <2>5. Recorded' /\ Passed'
        BY <2>1, <2>2, <2>3 DEF IInv, Recorded, Passed
  <2>6. Progress'
        BY <2>1, <2>2 DEF IInv, TypeOK, Progress
  <2> QED
      BY <2>4, <2>5, <2>6 DEF IInv
<1> QED
    BY <1>1, <1>2, <1>3 DEF Wait

(* SIGTERM for one daemon after the other: the recorded pid is all it      *)
(* needs.                                                                  *)
LEMMA ShutdownKeeps ==
    ASSUME IInv, Shutdown
    PROVE  IInv'
<1> DEFINE d == Daemons[next]
<1> USE DEF IInv
<1>1. /\ pc = "shutdown" /\ next \in 1 .. Len(Daemons) /\ d \in Names
      /\ pid[d] \in Pids \cup {NoPid}
      BY DEF Shutdown, TypeOK, Names
<1>2. /\ Terminate(pid[d])
      /\ UNCHANGED <<exited_pid, g_running, pid, owner, forks, failures, failed>>
      /\ \/ next < Len(Daemons) /\ next' = next + 1 /\ pc' = "shutdown"
         \/ next = Len(Daemons) /\ next' = next /\ pc' = "exited"
      BY <1>1 DEF Shutdown
<1>3. /\ proc' \in [Pids -> {"absent", "forked", "running", "dead", "reaped"}]
      /\ missed \subseteq missed' /\ missed' \subseteq Pids
      /\ \A p \in Pids : Alive(p)' => Alive(p)
      BY <1>1, <1>2 DEF Terminate, TypeOK
<1>4. ASSUME NEW p \in Pids, p = pid[d], Alive(p)'
      PROVE  p \in missed'
  <2>1. proc[p] = "running" => proc' = [proc EXCEPT ![p] = "dead"]
        BY <1>2, <1>4 DEF Terminate
  <2>2. proc[p] = "forked" => p \in missed'
        BY <1>2, <1>4 DEF Terminate
  <2>3. proc[p] # "running" => UNCHANGED proc
        BY <1>2, <1>4 DEF Terminate
  <2> QED
      BY <1>4, <2>1, <2>2, <2>3 DEF TypeOK
<1>5. TypeOK'
      BY <1>1, <1>2, <1>3 DEF TypeOK
<1>6. Recorded' /\ Progress'
      BY <1>2, <1>3 DEF Recorded, Progress
<1>7. ASSUME NEW p \in Pids, Alive(p)', NEW k \in 1 .. next, owner[p] = Daemons[k]
      PROVE  p \in missed'
  <2>1. Alive(p)
        BY <1>3, <1>7
  <2>2. CASE k = next
    <3>1. p = pid[d]
          BY <1>7, <2>1, <2>2 DEF Recorded
    <3> QED
        BY <1>4, <1>7, <3>1
  <2>3. CASE k \in 1 .. next - 1
        BY <1>1, <1>3, <1>7, <2>1, <2>3 DEF Passed
  <2> QED
      BY <1>1, <1>7, <2>2, <2>3
<1>8. Passed'
  <2> SUFFICES ASSUME NEW p \in Pids, Alive(p)'
               PROVE  /\ pc' = "shutdown" =>
                            \A k \in 1 .. next' - 1 : owner'[p] = Daemons[k] => p \in missed'
                      /\ pc' = "exited" => p \in missed'
      BY DEF Passed
  <2>1. CASE pc' = "shutdown"
        BY <1>1, <1>2, <1>7, <2>1
  <2>2. CASE pc' = "exited"
    <3>1. next = Len(Daemons) /\ owner[p] \in Names
          BY <1>2, <1>3, <2>2 DEF Recorded
    <3>2. PICK k \in 1 .. Len(Daemons) : owner[p] = Daemons[k]
          BY <3>1 DEF Names
    <3> QED
        BY <1>7, <2>2, <3>1, <3>2
  <2> QED
      BY <2>1, <2>2
<1> QED
    BY <1>5, <1>6, <1>8

(* What the daemons do, and whoever sends the signal: nobody comes alive.  *)
LEMMA OthersKeep ==
    ASSUME IInv, handle_signal \/ (\E p \in Pids : Exec(p) \/ Crash(p)) \/ UNCHANGED vars
    PROVE  IInv'
<1> USE DEF IInv, main
<1>1. ASSUME NEW p \in Pids, Exec(p) \/ Crash(p)
      PROVE  IInv'
  <2>1. /\ Alive(p)
        /\ \E s \in {"running", "dead"} : proc' = [proc EXCEPT ![p] = s]
        /\ UNCHANGED <<pc, next, exited_pid, g_running, pid, owner, forks, failures, failed,
                       missed>>
        BY <1>1 DEF Exec, Crash
  <2>2. \A q \in Pids : /\ Alive(q)' => Alive(q)
                        /\ proc[q] = "reaped" => proc'[q] = "reaped"
        BY <2>1 DEF TypeOK
  <2>3. TypeOK'
        BY <2>1 DEF TypeOK
  <2>4. Recorded' /\ Progress' /\ Passed'
        BY <2>1, <2>2 DEF Recorded, Progress, Passed
  <2> QED
      BY <2>3, <2>4
<1>2. CASE handle_signal
      BY <1>2 DEF handle_signal, TypeOK, Recorded, Progress, Passed
<1>3. CASE UNCHANGED vars
      BY <1>3 DEF vars, TypeOK, Recorded, Progress, Passed
<1> QED
    BY <1>1, <1>2, <1>3

(* Nothing is forked at first.                                             *)
LEMMA Initially == Init => IInv
<1> SUFFICES ASSUME Init PROVE IInv
    OBVIOUS
<1>1. TypeOK
      BY DEF Init, TypeOK
<1>2. Recorded /\ Progress /\ Passed
      BY DEF Init, Recorded, Progress, Passed, Names
<1> QED
    BY <1>1, <1>2 DEF IInv

(* So the invariant always holds. *)
LEMMA Invariant == Spec => []IInv
<1>1. IInv /\ [Next]_vars => IInv'
      BY StartKeeps, RestartKeeps, LoopKeeps, ShutdownKeeps, OthersKeep DEF Next, MainStep
<1> QED
    BY Initially, <1>1, PTL DEF Spec

(* The variables have their types, and a recorded pid is that of a process *)
(* of the daemon.                                                          *)
THEOREM InitTypes == Spec => []TypeOK
<1>1. IInv => TypeOK
      BY DEF IInv
<1> QED
    BY Invariant, <1>1, PTL

(* No daemon runs twice: a live process is the one recorded.               *)
THEOREM NoneTwice == Spec => []OneInstance
<1>1. IInv => OneInstance
      BY DEF IInv, Recorded, OneInstance
<1> QED
    BY Invariant, <1>1, PTL

(* No daemon outlives the orchestrator unless SIGTERM reached it before    *)
(* its execv.                                                              *)
THEOREM NoneOutlives == Spec => []NoneSurvives
<1>1. IInv => NoneSurvives
      BY DEF IInv, Passed, NoneSurvives
<1> QED
    BY Invariant, <1>1, PTL
=============================================================================
