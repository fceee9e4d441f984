--------------------------- MODULE TraceLoopProofs ---------------------------
(***************************************************************************)
(* Proofs about TraceLoop, for any number of tasks, directories, calls and *)
(* kills.  The inductive invariant says, beside the types, what the loop   *)
(* knows of the task in its hand (Handling), what a pid tells of the order *)
(* of creation (Ordered), and what cannot have happened before the loop    *)
(* resumes anything (Spawning).                                            *)
(***************************************************************************)
EXTENDS TraceLoop, FiniteSetTheorems, WellFoundedInduction, TLAPS

InHand == {"stop", "register", "resume"}

(* The task in hand is stopped or has been killed; a stop it was waited    *)
(* for is the one it is at, unless it was killed; an announcement in hand  *)
(* counts as reported; a task to remove is reaped.                         *)
Handling ==
    /\ pc \in InHand => Stopped(cur) \/ task[cur] = "dead"
    /\ pc \in InHand /\ task[cur] = "newchild" => cur \in reported
    /\ pc = "stop" /\ task[cur] = "newchild" => status = "newchild"
    /\ pc = "remove" => task[cur] = "reaped"

(* Pids are handed out in order, so a child's is above its parent's.       *)
Ordered ==
    /\ \A p \in Pids : p >= next_pid => task[p] = "absent"
    /\ \A q \in Pids : task[q] = "newchild" => eventmsg[q] \in Pids /\ eventmsg[q] > q

(* Before the loop the guest has not run.                                  *)
Spawning ==
    /\ pc = "fork" => next_pid = 1
    /\ pc \in SpawnPcs => \A q \in Pids :
          task[q] \in {"absent", "starting", "sigstop", "exiting", "dead", "reaped"}

IInv == TypeOK /\ Handling /\ Ordered /\ Spawning /\ Tracked /\ NoneLeft

-----------------------------------------------------------------------------
(* What is assumed of the constants. *)
LEMMA Consts ==
    /\ MaxPid \in Nat /\ MaxPid >= 1 /\ Root \in Pids /\ Pids \subseteq AnyPid
    /\ StrayPid \in AnyPid /\ StrayPid > 0 /\ NoPid \notin AnyPid
    /\ "none" \notin Dirs /\ "other" \notin Dirs
    /\ RootDir \in Dirs /\ HostDir \in Dirs
BY PidAssumption, DirAssumption, CallAssumption DEF Pids, AnyPid, StrayPid, NoPid, Root

(* The directory the table gives for a pid is a directory. *)
LEMMA GetCwdType ==
    ASSUME process_cwds \in [AnyPid -> Dirs \cup {NoDir}], NEW p \in AnyPid
    PROVE  GetCwd(p) \in Dirs
BY DirAssumption DEF GetCwd

(* Death leaves the kernel's tables well typed and no task newly alive,    *)
(* and records the children whose announcement is gone.                    *)
LEMMA DieType ==
    ASSUME TypeOK, Ordered, NEW V \in SUBSET Pids, Die(V)
    PROVE  /\ task' \in [Pids -> Running \cup StopKinds
                                   \cup {"absent", "dead", "reaped", "wild"}]
           /\ reported' \subseteq Pids
           /\ lost' \subseteq Pids
<1>1. PICK E \in SUBSET {q \in V : opts /\ task[q] \notin {"starting", "exiting", "wild"}} :
        /\ task' = [q \in Pids |-> IF q \in E THEN "exiting"
                                   ELSE IF q \notin V THEN task[q]
                                   ELSE IF task[q] = "wild" THEN "reaped" ELSE "dead"]
        /\ reported' = reported \ V
        /\ lost' = lost \cup {eventmsg[q] : q \in {r \in V : Unread(r)}}
  BY DEF Die
<1>2. task' \in [Pids -> Running \cup StopKinds \cup {"absent", "dead", "reaped", "wild"}]
  BY <1>1 DEF TypeOK, StopKinds
<1>3. lost' \subseteq Pids
  BY <1>1 DEF TypeOK, Ordered, Unread
<1>4. QED BY <1>1, <1>2, <1>3 DEF TypeOK

(* Every step keeps the types. *)
LEMMA TypeStep == TypeOK /\ Ordered /\ [Next]_vars => TypeOK'
<1> SUFFICES ASSUME TypeOK, Ordered, [Next]_vars PROVE TypeOK'
  OBVIOUS
<1> USE Consts
<1>1. CASE GuestFork
  <2>1. next_pid' \in AnyPid /\ drifted' \subseteq Pids
    <3>1. Root + 1 \in AnyPid
      BY PidAssumption DEF Root, AnyPid
    <3>2. CASE pc' = "spawn_wait"
      BY <1>1, <3>1, <3>2 DEF GuestFork, TypeOK
    <3>3. CASE pc' # "spawn_wait"
      BY <1>1, <3>3 DEF GuestFork, TypeOK
    <3>4. QED BY <3>2, <3>3
  <2>2. QED BY <1>1, <2>1 DEF GuestFork, TypeOK, tables, kernel, bounds, history, loop, LoopPcs, SpawnPcs, StopKinds, Running, NoPid
<1>2. CASE SpawnWait
  BY <1>2 DEF SpawnWait, TypeOK, tables, kernel, bounds, history, loop, LoopPcs, SpawnPcs, StopKinds, Running, NoPid
<1>3. CASE SpawnOptions
  BY <1>3 DEF SpawnOptions, Stopped, TypeOK, tables, kernel, bounds, history, loop, LoopPcs, SpawnPcs, StopKinds, Running, NoPid
<1>4. CASE SpawnAdd
  BY <1>4 DEF SpawnAdd, AddProcess, TypeOK, tables, kernel, bounds, history, loop, LoopPcs, SpawnPcs, StopKinds, Running, NoPid
<1>5. CASE Check
  BY <1>5 DEF Check, Active, TypeOK, tables, kernel, bounds, history, loop, LoopPcs, SpawnPcs, StopKinds, Running, NoPid
<1>6. CASE Wait
  BY <1>6 DEF Wait, WaitNone, WaitStop, WaitDeath, Reapable, Stopped, TypeOK, tables, kernel, bounds, history, loop, LoopPcs, SpawnPcs, StopKinds, Running, NoPid
<1>7. CASE Remove
  BY <1>7 DEF Remove, RemoveProcess, RemoveCwd, TypeOK, tables, kernel, bounds, history, loop, LoopPcs, SpawnPcs, StopKinds, Running, NoPid
<1>8. CASE HandleStop
  <2>1. CASE ReadEvent
    <3>1. cur \in Pids
      BY <1>8 DEF HandleStop, TypeOK
    <3>2. EventMessage \in AnyPid \cup {NoPid}
      BY <3>1 DEF EventMessage, TypeOK
    <3>3. EventMessage \in AnyPid \/ ~ (EventMessage > NoPid)
      BY <3>2 DEF NoPid, AnyPid
    <3>4. QED BY <1>8, <2>1, <3>1, <3>2, <3>3 DEF HandleStop, ReadEvent, TypeOK, tables, kernel, bounds, history, loop, LoopPcs, SpawnPcs, StopKinds, Running, NoPid
  <2>2. CASE Dispatch
    BY <1>8, <2>2 DEF HandleStop, Dispatch, SetCwd, TypeOK, tables, kernel, bounds, history, loop, LoopPcs, SpawnPcs, StopKinds, Running, NoPid
  <2>3. CASE OtherStop
    BY <1>8, <2>3 DEF HandleStop, OtherStop, TypeOK, tables, kernel, bounds, history, loop, LoopPcs, SpawnPcs, StopKinds, Running, NoPid
  <2>4. QED BY <1>8, <2>1, <2>2, <2>3 DEF HandleStop
<1>9. CASE Register
  <2>1. GetCwd(cur) \in Dirs
    BY <1>9, GetCwdType DEF Register, TypeOK
  <2>2. QED BY <1>9, <2>1 DEF Register, AddProcess, SetCwd, TypeOK, tables, kernel, bounds, history, loop, LoopPcs, SpawnPcs, StopKinds, Running, NoPid
<1>10. CASE Resume
  BY <1>10 DEF Resume, ResumedTo, TypeOK, tables, kernel, bounds, history, loop, LoopPcs, SpawnPcs, StopKinds, Running, NoPid
<1>11. CASE Startup
  BY <1>11 DEF Startup, StopAt, TypeOK, tables, kernel, bounds, history, loop, LoopPcs, SpawnPcs, StopKinds, Running, NoPid
<1>12. ASSUME NEW p \in Pids, EnterSyscall(p) PROVE TypeOK'
  BY <1>12, BoundAssumption DEF EnterSyscall, StopAt, Calls, TypeOK, tables, kernel, bounds, history, loop, LoopPcs, SpawnPcs, StopKinds, Running, NoPid
<1>13. ASSUME NEW p \in Pids, KChdir(p) PROVE TypeOK'
  BY <1>13 DEF KChdir, StopAt, TypeOK, tables, kernel, bounds, history, loop, LoopPcs, SpawnPcs, StopKinds, Running, NoPid
<1>14. ASSUME NEW p \in Pids, KClone(p) PROVE TypeOK'
  <2>1. next_pid \in Pids
    BY <1>14 DEF KClone, TypeOK, Pids, AnyPid
  <2>2. next_pid' \in AnyPid
    BY <1>14, <2>1 DEF KClone, TypeOK, Pids, AnyPid
  <2>3. kcwd' \in [Pids -> Dirs] /\ group' \in [Pids -> Pids]
    BY <1>14, <2>1 DEF KClone, TypeOK
  <2>4. eventmsg' \in [Pids -> Pids \cup {NoPid}] /\ call' \in [Pids -> Calls \cup {"none"}]
    BY <1>14, <2>1 DEF KClone, TypeOK, Calls
  <2>5. task' \in [Pids -> Running \cup StopKinds \cup {"absent", "dead", "reaped", "wild"}]
    BY <1>14, <2>1 DEF KClone, TypeOK, StopKinds
  <2>6. QED BY <1>14, <2>1, <2>2, <2>3, <2>4, <2>5 DEF KClone, TypeOK, tables, kernel, bounds, history, loop, LoopPcs, SpawnPcs, StopKinds, Running, NoPid
<1>15. ASSUME NEW p \in Pids, KOther(p) PROVE TypeOK'
  BY <1>15 DEF KOther, StopAt, TypeOK, tables, kernel, bounds, history, loop, LoopPcs, SpawnPcs, StopKinds, Running, NoPid
<1>16. ASSUME NEW p \in Pids, KExit(p) PROVE TypeOK'
  <2>1. PICK V \in {{p}, GroupOf(p)} : Die(V)
    BY <1>16 DEF KExit
  <2>2. V \in SUBSET Pids
    BY DEF GroupOf
  <2>3. QED BY <1>16, <2>1, <2>2, DieType DEF KExit, TypeOK, tables, kernel, bounds, history, loop, LoopPcs, SpawnPcs, StopKinds, Running, NoPid
<1>17. ASSUME NEW p \in Pids, Signal(p) PROVE TypeOK'
  BY <1>17, BoundAssumption DEF Signal, StopAt, Calls, TypeOK, tables, kernel, bounds, history, loop, LoopPcs, SpawnPcs, StopKinds, Running, NoPid
<1>18. ASSUME NEW p \in Pids, Kill(p) PROVE TypeOK'
  <2> DEFINE V == GroupOf(p)
  <2>1. Die(V)
    BY <1>18 DEF Kill
  <2>2. V \in SUBSET Pids
    BY DEF GroupOf
  <2> HIDE DEF V
  <2>3. QED BY <1>18, <2>1, <2>2, DieType, BoundAssumption DEF Kill, TypeOK, tables, kernel, bounds, history, loop, LoopPcs, SpawnPcs, StopKinds, Running, NoPid
<1>19. CASE KillAll
  <2> DEFINE V == UNION {GroupOf(p) : p \in {q \in processes \cap Pids : Alive(q)}}
  <2>1. Die(V)
    BY <1>19 DEF KillAll
  <2>2. V \in SUBSET Pids
    BY DEF GroupOf
  <2> HIDE DEF V
  <2>3. QED BY <1>19, <2>1, <2>2, DieType DEF KillAll, TypeOK, tables, kernel, bounds, history, loop, LoopPcs, SpawnPcs, StopKinds, Running, NoPid
<1>20. CASE UNCHANGED vars
  BY <1>20 DEF vars, TypeOK, tables, kernel, bounds, history, loop, LoopPcs, SpawnPcs, StopKinds, Running, NoPid
<1>21. QED BY <1>1, <1>2, <1>3, <1>4, <1>5, <1>6, <1>7, <1>8, <1>9, <1>10, <1>11, <1>12, <1>13, <1>14, <1>15, <1>16, <1>17, <1>18, <1>19, <1>20
     DEF Next, LoopStep, KernelStep

-----------------------------------------------------------------------------
(* What a death changes: the tasks of V are dead, or at their exit stop,   *)
(* and an announcement they had not been able to make is recorded as lost. *)
LEMMA DieTasks ==
    ASSUME TypeOK, NEW V \in SUBSET {q \in Pids : Alive(q)}, Die(V)
    PROVE  /\ \A q \in Pids \ V : task'[q] = task[q] /\ (q \in reported' <=> q \in reported)
           /\ \A q \in V : /\ task'[q] \in {"exiting", "dead", "reaped"}
                           /\ task'[q] = "reaped" <=> task[q] = "wild"
                           /\ Unread(q) => eventmsg[q] \in lost'
           /\ lost \subseteq lost'
<1>1. PICK E \in SUBSET {q \in V : opts /\ task[q] \notin {"starting", "exiting", "wild"}} :
        /\ task' = [q \in Pids |-> IF q \in E THEN "exiting"
                                   ELSE IF q \notin V THEN task[q]
                                   ELSE IF task[q] = "wild" THEN "reaped" ELSE "dead"]
        /\ reported' = reported \ V
        /\ lost' = lost \cup {eventmsg[q] : q \in {r \in V : Unread(r)}}
  BY DEF Die
<1>2. QED BY <1>1

(* The three ways tasks die, and what they have in common.                 *)
LEMMA Deaths ==
    ASSUME TypeOK, NEW p \in Pids, KExit(p) \/ Kill(p) \/ KillAll
    PROVE  /\ \E V \in SUBSET {q \in Pids : Alive(q)} : Die(V)
           /\ UNCHANGED <<pc, cur, status, new_pid, eventmsg, next_pid, group, call,
                          kcwd, opts, process_cwds, early, drifted>>
           /\ UNCHANGED <<processes, stopping>> \/ stopping'
<1>1. CASE KExit(p)
  <2>1. PICK V \in {{p}, GroupOf(p)} : Die(V)
    BY <1>1 DEF KExit
  <2>2. V \in SUBSET {q \in Pids : Alive(q)}
    BY <1>1 DEF KExit, GroupOf, Alive, Live, Running
  <2>3. QED BY <1>1, <2>1, <2>2 DEF KExit, loop, tables, bounds
<1>2. CASE Kill(p)
  <2>1. GroupOf(p) \in SUBSET {q \in Pids : Alive(q)}
    BY DEF GroupOf
  <2>2. QED BY <1>2, <2>1 DEF Kill, loop, tables
<1>3. CASE KillAll
  <2>1. UNION {GroupOf(r) : r \in {q \in processes \cap Pids : Alive(q)}}
            \in SUBSET {q \in Pids : Alive(q)}
    BY DEF GroupOf
  <2>2. QED BY <1>3, <2>1 DEF KillAll, loop
<1>4. QED BY <1>1, <1>2, <1>3

(* The loop's hold on the task in its hand. *)
LEMMA HandlingStep == TypeOK /\ Handling /\ Ordered /\ [Next]_vars => Handling'
<1> SUFFICES ASSUME TypeOK, Handling, Ordered, [Next]_vars PROVE Handling'
  OBVIOUS
<1> USE Consts
<1>1. CASE GuestFork
  BY <1>1 DEF GuestFork, TypeOK, Handling, InHand, Stopped, StopKinds, LoopPcs, SpawnPcs, tables, kernel, bounds, history, loop
<1>2. CASE SpawnWait
  BY <1>2 DEF SpawnWait, TypeOK, Handling, InHand, Stopped, StopKinds, LoopPcs, SpawnPcs, tables, kernel, bounds, history, loop
<1>3. CASE SpawnOptions
  BY <1>3 DEF SpawnOptions, TypeOK, Handling, InHand, Stopped, StopKinds, LoopPcs, SpawnPcs, tables, kernel, bounds, history, loop
<1>4. CASE SpawnAdd
  BY <1>4 DEF SpawnAdd, TypeOK, Handling, InHand, Stopped, StopKinds, LoopPcs, SpawnPcs, tables, kernel, bounds, history, loop
<1>5. CASE Check
  BY <1>5 DEF Check, Active, TypeOK, Handling, InHand, Stopped, StopKinds, LoopPcs, SpawnPcs, tables, kernel, bounds, history, loop
<1>6. CASE Wait
  BY <1>6 DEF Wait, WaitNone, WaitStop, WaitDeath, Reapable, TypeOK, Handling, InHand, Stopped, StopKinds, LoopPcs, SpawnPcs, NoPid, tables, kernel, bounds, history, loop
<1>7. CASE Remove
  BY <1>7 DEF Remove, TypeOK, Handling, InHand, Stopped, StopKinds, LoopPcs, SpawnPcs, tables, kernel, bounds, history, loop
<1>8. CASE HandleStop
  BY <1>8 DEF HandleStop, ReadEvent, Dispatch, OtherStop, TypeOK, Handling, InHand, Stopped, StopKinds, LoopPcs, SpawnPcs, tables, kernel, bounds, history, loop
<1>9. CASE Register
  BY <1>9 DEF Register, TypeOK, Handling, InHand, Stopped, StopKinds, LoopPcs, SpawnPcs, tables, kernel, bounds, history, loop
<1>10. CASE Resume
  BY <1>10 DEF Resume, ResumedTo, TypeOK, Handling, InHand, Stopped, StopKinds, LoopPcs, SpawnPcs, tables, kernel, bounds, history, loop
<1>11. CASE Startup
  BY <1>11 DEF Startup, StopAt, TypeOK, Handling, InHand, Stopped, StopKinds, LoopPcs, SpawnPcs, tables, kernel, bounds, history, loop
<1>12. ASSUME NEW p \in Pids, EnterSyscall(p) PROVE Handling'
  BY <1>12 DEF EnterSyscall, StopAt, TypeOK, Handling, InHand, Stopped, StopKinds, LoopPcs, SpawnPcs, tables, kernel, bounds, history, loop
<1>13. ASSUME NEW p \in Pids, KChdir(p) PROVE Handling'
  BY <1>13 DEF KChdir, StopAt, TypeOK, Handling, InHand, Stopped, StopKinds, LoopPcs, SpawnPcs, tables, kernel, bounds, history, loop
<1>14. ASSUME NEW p \in Pids, KClone(p) PROVE Handling'
  <2>1. next_pid \in Pids /\ task[next_pid] = "absent"
    BY <1>14 DEF KClone, TypeOK, Ordered, Pids, AnyPid
  <2>2. QED BY <1>14, <2>1 DEF KClone, TypeOK, Handling, InHand, Stopped, StopKinds, LoopPcs, SpawnPcs, tables, kernel, bounds, history, loop
<1>15. ASSUME NEW p \in Pids, KOther(p) PROVE Handling'
  BY <1>15 DEF KOther, StopAt, TypeOK, Handling, InHand, Stopped, StopKinds, LoopPcs, SpawnPcs, tables, kernel, bounds, history, loop
<1>16. ASSUME NEW p \in Pids, Signal(p) PROVE Handling'
  BY <1>16 DEF Signal, StopAt, TypeOK, Handling, InHand, Stopped, StopKinds, LoopPcs, SpawnPcs, tables, kernel, bounds, history, loop
<1>17. ASSUME NEW p \in Pids, KExit(p) \/ Kill(p) \/ KillAll PROVE Handling'
  <2>1. PICK V \in SUBSET {q \in Pids : Alive(q)} : Die(V)
    BY <1>17, Deaths
  <2>2. cur \in V => pc # "remove" /\ (pc \in InHand => task[cur] # "wild")
    BY DEF Handling, Alive, Live, Running, Stopped, StopKinds, InHand
  <2>3. pc \in InHand \cup {"remove"} => cur \in Pids
    BY DEF TypeOK, InHand
  <2>4. QED BY <1>17, Deaths, <2>1, <2>2, <2>3, DieTasks
            DEF Handling, InHand, Stopped, StopKinds
<1>18. CASE UNCHANGED vars
  BY <1>18 DEF vars, TypeOK, Handling, InHand, Stopped, StopKinds, LoopPcs, SpawnPcs, tables, kernel, bounds, history, loop
<1>19. QED BY <1>1, <1>2, <1>3, <1>4, <1>5, <1>6, <1>7, <1>8, <1>9, <1>10, <1>11, <1>12, <1>13, <1>14, <1>15, <1>16, <1>17, <1>18
     DEF Next, LoopStep, KernelStep

(* Pids only grow, and a stop that announces a child names a later pid. *)
LEMMA OrderedStep == TypeOK /\ Ordered /\ Handling /\ Spawning /\ [Next]_vars => Ordered'
<1> SUFFICES ASSUME TypeOK, Ordered, Handling, Spawning, [Next]_vars PROVE Ordered'
  OBVIOUS
<1> USE Consts
<1>1. CASE GuestFork
  <2>1. \A q \in Pids : q >= next_pid' => task'[q] = "absent"
    BY <1>1 DEF GuestFork, TypeOK, Ordered, Spawning, Pids, AnyPid, Root
  <2>2. \A q \in Pids : task'[q] = "newchild" => eventmsg'[q] \in Pids /\ eventmsg'[q] > q
    BY <1>1 DEF GuestFork, TypeOK, Ordered
  <2>3. QED BY <2>1, <2>2 DEF Ordered
<1>2. CASE SpawnWait
  BY <1>2 DEF SpawnWait, TypeOK, Ordered, Running, StopKinds, tables, kernel, bounds, history, loop
<1>3. CASE SpawnOptions
  BY <1>3 DEF SpawnOptions, TypeOK, Ordered, Running, StopKinds, tables, kernel, bounds, history, loop
<1>4. CASE SpawnAdd
  BY <1>4 DEF SpawnAdd, TypeOK, Ordered, Running, StopKinds, tables, kernel, bounds, history, loop
<1>5. CASE Check
  BY <1>5 DEF Check, Active, TypeOK, Ordered, Running, StopKinds, tables, kernel, bounds, history, loop
<1>6. CASE Wait
  BY <1>6 DEF Wait, WaitNone, WaitStop, WaitDeath, Reapable, TypeOK, Ordered, Running, StopKinds, tables, kernel, bounds, history, loop
<1>7. CASE Remove
  BY <1>7 DEF Remove, TypeOK, Ordered, Running, StopKinds, tables, kernel, bounds, history, loop
<1>8. CASE HandleStop
  BY <1>8 DEF HandleStop, ReadEvent, Dispatch, OtherStop, TypeOK, Ordered, Running, StopKinds, tables, kernel, bounds, history, loop
<1>9. CASE Register
  BY <1>9 DEF Register, TypeOK, Ordered, Running, StopKinds, tables, kernel, bounds, history, loop
<1>10. CASE Resume
  BY <1>10 DEF Resume, ResumedTo, TypeOK, Ordered, Running, StopKinds, tables, kernel, bounds, history, loop
<1>11. CASE Startup
  BY <1>11 DEF Startup, StopAt, TypeOK, Ordered, Running, StopKinds, tables, kernel, bounds, history, loop
<1>12. ASSUME NEW p \in Pids, EnterSyscall(p) PROVE Ordered'
  BY <1>12 DEF EnterSyscall, StopAt, TypeOK, Ordered, Running, StopKinds, tables, kernel, bounds, history, loop
<1>13. ASSUME NEW p \in Pids, KChdir(p) PROVE Ordered'
  BY <1>13 DEF KChdir, StopAt, TypeOK, Ordered, Running, StopKinds, tables, kernel, bounds, history, loop
<1>14. ASSUME NEW p \in Pids, KClone(p) PROVE Ordered'
  <2>1. next_pid \in Pids /\ task[next_pid] = "absent"
    BY <1>14 DEF KClone, TypeOK, Ordered, Pids, AnyPid
  <2>2. p < next_pid
    BY <1>14, <2>1 DEF KClone, TypeOK, Ordered, Pids, AnyPid
  <2>3. \A q \in Pids : q >= next_pid' => task'[q] = "absent"
    <3>1. next_pid' = next_pid + 1 /\ next_pid \in Nat
      BY <1>14, <2>1 DEF KClone, Pids
    <3>2. \A q \in Pids : q >= next_pid' => q # p /\ q # next_pid /\ q >= next_pid
      BY <2>2, <3>1 DEF Pids
    <3>3. \A q \in Pids \ {p, next_pid} : task'[q] = task[q]
      BY <1>14, <2>1 DEF KClone, TypeOK
    <3>4. QED BY <3>2, <3>3 DEF Ordered
  <2>4. \A q \in Pids : task'[q] = "newchild" => eventmsg'[q] \in Pids /\ eventmsg'[q] > q
    <3>1. CASE opts
      BY <1>14, <2>1, <2>2, <3>1 DEF KClone, TypeOK, Ordered
    <3>2. CASE ~ opts
      BY <1>14, <2>1, <2>2, <3>2 DEF KClone, TypeOK, Ordered
    <3>3. QED BY <3>1, <3>2
  <2>5. QED BY <2>3, <2>4 DEF Ordered
<1>15. ASSUME NEW p \in Pids, KOther(p) PROVE Ordered'
  BY <1>15 DEF KOther, StopAt, TypeOK, Ordered, Running, StopKinds, tables, kernel, bounds, history, loop
<1>16. ASSUME NEW p \in Pids, Signal(p) PROVE Ordered'
  BY <1>16 DEF Signal, StopAt, TypeOK, Ordered, Running, StopKinds, tables, kernel, bounds, history, loop
<1>17. ASSUME NEW p \in Pids, KExit(p) \/ Kill(p) \/ KillAll PROVE Ordered'
  <2>1. PICK V \in SUBSET {q \in Pids : Alive(q)} : Die(V)
    BY <1>17, Deaths
  <2>2. \A q \in V : task[q] # "absent"
    BY DEF Alive, Live, Running, StopKinds
  <2>3. QED BY <1>17, Deaths, <2>1, <2>2, DieTasks DEF Ordered
<1>18. CASE UNCHANGED vars
  BY <1>18 DEF vars, TypeOK, Ordered, Running, StopKinds, tables, kernel, bounds, history, loop
<1>19. QED BY <1>1, <1>2, <1>3, <1>4, <1>5, <1>6, <1>7, <1>8, <1>9, <1>10, <1>11, <1>12, <1>13, <1>14, <1>15, <1>16, <1>17, <1>18
     DEF Next, LoopStep, KernelStep

(* Until the loop resumes it the guest does nothing. *)
LEMMA SpawningStep == TypeOK /\ Ordered /\ Spawning /\ [Next]_vars => Spawning'
<1> SUFFICES ASSUME TypeOK, Ordered, Spawning, [Next]_vars PROVE Spawning'
  OBVIOUS
<1> USE Consts
<1>1. CASE GuestFork
  <2>1. \A q \in Pids : task[q] = "absent"
    BY <1>1 DEF GuestFork, Ordered, Spawning, Pids
  <2>2. QED BY <1>1, <2>1 DEF GuestFork, TypeOK, Spawning, SpawnPcs
<1>2. CASE SpawnWait
  BY <1>2 DEF SpawnWait, TypeOK, Spawning, SpawnPcs, LoopPcs, tables, kernel, bounds, history, loop
<1>3. CASE SpawnOptions
  BY <1>3 DEF SpawnOptions, TypeOK, Spawning, SpawnPcs, LoopPcs, tables, kernel, bounds, history, loop
<1>4. CASE SpawnAdd
  BY <1>4 DEF SpawnAdd, TypeOK, Spawning, SpawnPcs, LoopPcs, tables, kernel, bounds, history, loop
<1>5. CASE Check
  BY <1>5 DEF Check, Active, TypeOK, Spawning, SpawnPcs, LoopPcs, tables, kernel, bounds, history, loop
<1>6. CASE Wait
  BY <1>6 DEF Wait, WaitNone, WaitStop, WaitDeath, Reapable, TypeOK, Spawning, SpawnPcs, LoopPcs, tables, kernel, bounds, history, loop
<1>7. CASE Remove
  BY <1>7 DEF Remove, TypeOK, Spawning, SpawnPcs, LoopPcs, tables, kernel, bounds, history, loop
<1>8. CASE HandleStop
  BY <1>8 DEF HandleStop, ReadEvent, Dispatch, OtherStop, TypeOK, Spawning, SpawnPcs, LoopPcs, tables, kernel, bounds, history, loop
<1>9. CASE Register
  BY <1>9 DEF Register, TypeOK, Spawning, SpawnPcs, LoopPcs, tables, kernel, bounds, history, loop
<1>10. CASE Resume
  BY <1>10 DEF Resume, ResumedTo, TypeOK, Spawning, SpawnPcs, LoopPcs, tables, kernel, bounds, history, loop
<1>11. CASE Startup
  BY <1>11 DEF Startup, StopAt, TypeOK, Spawning, SpawnPcs, LoopPcs, tables, kernel, bounds, history, loop
<1>12. ASSUME NEW p \in Pids, EnterSyscall(p) PROVE Spawning'
  <2>1. pc # "fork" /\ pc \notin SpawnPcs
    BY <1>12 DEF EnterSyscall, Ordered, Spawning, Pids, SpawnPcs
  <2>2. QED BY <1>12, <2>1 DEF EnterSyscall, Spawning, loop
<1>13. ASSUME NEW p \in Pids, KChdir(p) PROVE Spawning'
  BY <1>13 DEF KChdir, StopAt, TypeOK, Spawning, SpawnPcs, LoopPcs, tables, kernel, bounds, history, loop
<1>14. ASSUME NEW p \in Pids, KClone(p) PROVE Spawning'
  <2>1. pc # "fork" /\ pc \notin SpawnPcs
    BY <1>14 DEF KClone, Ordered, Spawning, Pids, SpawnPcs
  <2>2. QED BY <1>14, <2>1 DEF KClone, Spawning, loop
<1>15. ASSUME NEW p \in Pids, KOther(p) PROVE Spawning'
  BY <1>15 DEF KOther, StopAt, TypeOK, Spawning, SpawnPcs, LoopPcs, tables, kernel, bounds, history, loop
<1>16. ASSUME NEW p \in Pids, Signal(p) PROVE Spawning'
  <2>1. pc # "fork" /\ pc \notin SpawnPcs
    BY <1>16 DEF Signal, Ordered, Spawning, Pids, SpawnPcs
  <2>2. QED BY <1>16, <2>1 DEF Signal, Spawning, loop
<1>17. ASSUME NEW p \in Pids, KExit(p) \/ Kill(p) \/ KillAll PROVE Spawning'
  <2>1. PICK V \in SUBSET {q \in Pids : Alive(q)} : Die(V)
    BY <1>17, Deaths
  <2>2. QED BY <1>17, Deaths, <2>1, DieTasks DEF Spawning
<1>18. CASE UNCHANGED vars
  BY <1>18 DEF vars, TypeOK, Spawning, SpawnPcs, LoopPcs, tables, kernel, bounds, history, loop
<1>19. QED BY <1>1, <1>2, <1>3, <1>4, <1>5, <1>6, <1>7, <1>8, <1>9, <1>10, <1>11, <1>12, <1>13, <1>14, <1>15, <1>16, <1>17, <1>18
     DEF Next, LoopStep, KernelStep

(* A live task stays in the tree, announced or accounted for.             *)
LEMMA TrackedStep == TypeOK /\ Handling /\ Ordered /\ Spawning /\ Tracked /\ [Next]_vars => Tracked'
<1> SUFFICES ASSUME TypeOK, Handling, Ordered, Spawning, Tracked, [Next]_vars PROVE Tracked'
  OBVIOUS
<1> USE Consts
<1>1. CASE GuestFork
  <2>1. \A q \in Pids : task[q] = "absent"
    BY <1>1 DEF GuestFork, Ordered, Spawning, Pids
  <2>2. QED BY <1>1, <2>1 DEF GuestFork, TypeOK, Tracked, Announced, Unread, Live, Running, StopKinds, SpawnPcs, tables, kernel, bounds, history, loop
<1>2. CASE SpawnWait
  BY <1>2 DEF SpawnWait, TypeOK, Tracked, Announced, Unread, Live, Running, StopKinds, SpawnPcs, Spawning, Stopped, tables, kernel, bounds, history, loop
<1>3. CASE SpawnOptions
  BY <1>3 DEF SpawnOptions, TypeOK, Tracked, Announced, Unread, Live, Running, StopKinds, SpawnPcs, tables, kernel, bounds, history, loop
<1>4. CASE SpawnAdd
  BY <1>4 DEF SpawnAdd, TypeOK, Tracked, Announced, Unread, Live, Running, StopKinds, SpawnPcs, Spawning, AddProcess, tables, kernel, bounds, history, loop
<1>5. CASE Check
  BY <1>5 DEF Check, Active, TypeOK, Tracked, Announced, Unread, Live, Running, StopKinds, SpawnPcs, tables, kernel, bounds, history, loop
<1>6. CASE Wait
  BY <1>6 DEF Wait, WaitNone, WaitStop, WaitDeath, Reapable, TypeOK, Tracked, Announced, Unread, Live, Running, StopKinds, SpawnPcs, NoPid, Stopped, LoopPcs, tables, kernel, bounds, history, loop
<1>7. CASE Remove
  BY <1>7 DEF Remove, TypeOK, Tracked, Announced, Unread, Live, Running, StopKinds, SpawnPcs, Handling, RemoveProcess, RemoveCwd, tables, kernel, bounds, history, loop
<1>8. CASE HandleStop
  <2>1. \A r \in Pids : Announced(r) => Announced(r)'
    <3>1. SUFFICES ASSUME NEW r \in Pids, NEW q \in Pids, Unread(q), eventmsg[q] = r
                   PROVE  Announced(r)'
      BY <1>8 DEF Announced, HandleStop, Unread, SpawnPcs
    <3>2. CASE q \notin reported
      BY <1>8, <3>1, <3>2 DEF HandleStop, Announced, Unread, kernel
    <3>3. CASE cur = q
      <4>1. status = "newchild" /\ task[cur] = "newchild"
        BY <1>8, <3>1, <3>3 DEF HandleStop, Handling, Unread
      <4>2. ReadEvent /\ EventMessage = r
        BY <1>8, <4>1, <3>1, <3>3 DEF HandleStop, Dispatch, OtherStop, EventMessage
      <4>3. r > NoPid
        BY DEF Pids, NoPid
      <4>4. QED BY <4>2, <4>3 DEF ReadEvent, Announced
    <3>4. QED BY <3>1, <3>2, <3>3 DEF Unread
  <2>2. QED BY <1>8, <2>1 DEF HandleStop, Tracked, Live, kernel, bounds
<1>9. CASE Register
  <2>1. \A q \in Pids : Unread(q) => Unread(q)'
    BY <1>9 DEF Register, Unread, kernel
  <2>2. QED BY <1>9, <2>1 DEF Register, AddProcess, Tracked, Announced, Live, SpawnPcs, kernel, bounds
<1>10. CASE Resume
  <2>1. \A q \in Pids : Live(q)' => Live(q)
    BY <1>10 DEF Resume, ResumedTo, Live, Running, StopKinds, TypeOK
  <2>2. cur \in Pids
    BY <1>10 DEF Resume, TypeOK
  <2>3. \A q \in Pids : Unread(q) => Unread(q)'
    BY <1>10, <2>2 DEF Resume, Unread, Handling, InHand, TypeOK
  <2>4. QED BY <1>10, <2>1, <2>3 DEF Resume, Tracked, Announced, SpawnPcs, tables, bounds, history
<1>11. CASE Startup
  BY <1>11 DEF Startup, StopAt, TypeOK, Tracked, Announced, Unread, Live, Running, StopKinds, SpawnPcs, tables, kernel, bounds, history, loop
<1>12. ASSUME NEW p \in Pids, EnterSyscall(p) PROVE Tracked'
  BY <1>12 DEF EnterSyscall, StopAt, TypeOK, Tracked, Announced, Unread, Live, Running, StopKinds, SpawnPcs, tables, kernel, bounds, history, loop
<1>13. ASSUME NEW p \in Pids, KChdir(p) PROVE Tracked'
  BY <1>13 DEF KChdir, StopAt, TypeOK, Tracked, Announced, Unread, Live, Running, StopKinds, SpawnPcs, tables, kernel, bounds, history, loop
<1>14. ASSUME NEW p \in Pids, KClone(p) PROVE Tracked'
  <2>1. next_pid \in Pids /\ task[next_pid] = "absent"
    BY <1>14 DEF KClone, TypeOK, Ordered, Pids, AnyPid
  <2>2. \A q \in Pids : Unread(q) => Unread(q)' /\ eventmsg'[q] = eventmsg[q]
    BY <1>14, <2>1 DEF KClone, Unread, TypeOK, loop
  <2>3. \A q \in Pids : Live(q)' => Live(q) \/ (q = next_pid /\ Announced(q)')
    BY <1>14, <2>1 DEF KClone, Live, Running, StopKinds, Announced, Unread, TypeOK
  <2>4. QED BY <1>14, <2>2, <2>3 DEF KClone, Tracked, Announced, loop, tables, bounds, history
<1>15. ASSUME NEW p \in Pids, KOther(p) PROVE Tracked'
  BY <1>15 DEF KOther, StopAt, TypeOK, Tracked, Announced, Unread, Live, Running, StopKinds, SpawnPcs, tables, kernel, bounds, history, loop
<1>16. ASSUME NEW p \in Pids, Signal(p) PROVE Tracked'
  BY <1>16 DEF Signal, StopAt, TypeOK, Tracked, Announced, Unread, Live, Running, StopKinds, SpawnPcs, tables, kernel, bounds, history, loop
<1>17. ASSUME NEW p \in Pids, KExit(p) \/ Kill(p) \/ KillAll PROVE Tracked'
  <2>1. PICK V \in SUBSET {q \in Pids : Alive(q)} : Die(V)
    BY <1>17, Deaths
  <2>2. \A q \in Pids : Live(q)' => Live(q)
    BY <2>1, DieTasks DEF Alive, Live, Running, StopKinds
  <2>3. \A r \in Pids : Announced(r) => Announced(r)' \/ r \in lost'
    <3>1. \A q \in Pids : Unread(q) => Unread(q)' \/ eventmsg[q] \in lost'
      BY <1>17, Deaths, <2>1, DieTasks DEF Unread
    <3>2. QED BY <1>17, Deaths, <3>1 DEF Announced
  <2>4. lost \subseteq lost'
    BY <2>1, DieTasks
  <2>5. QED BY <1>17, Deaths, <2>2, <2>3, <2>4 DEF Tracked
<1>18. CASE UNCHANGED vars
  BY <1>18 DEF vars, TypeOK, Tracked, Announced, Unread, Live, Running, StopKinds, SpawnPcs, tables, kernel, bounds, history, loop
<1>19. QED BY <1>1, <1>2, <1>3, <1>4, <1>5, <1>6, <1>7, <1>8, <1>9, <1>10, <1>11, <1>12, <1>13, <1>14, <1>15, <1>16, <1>17, <1>18
     DEF Next, LoopStep, KernelStep

(* If the tree is empty between two rounds then nobody is left: a live     *)
(* task would be announced by a live task with a lower pid, that one by    *)
(* another, and so on for ever.                                            *)
LEMMA EmptyTree ==
    ASSUME TypeOK, Ordered, Tracked, pc = "check", processes = {}, ~ stopping, lost = {}
    PROVE  \A p \in Pids : ~ Live(p)
<1> DEFINE L == {p \in Pids : Live(p)}
<1> DEFINE R == OpToRel(<, Nat)
<1>1. SUFFICES ASSUME L # {} PROVE FALSE
  OBVIOUS
<1>2. L \subseteq Nat
  BY DEF Pids
<1>3. PICK p \in L : \A q \in L : << q, p >> \notin R
  <2>1. IsWellFoundedOn(R, Nat)
    BY NatLessThanWellFounded
  <2> HIDE DEF L, R
  <2>2. QED BY <1>1, <1>2, <2>1, WFMin
<1>4. PICK q \in Pids : task[q] = "newchild" /\ eventmsg[q] = p
  BY DEF Tracked, Announced, Unread, SpawnPcs
<1>5. q \in L /\ q < p
  BY <1>4 DEF Ordered, Live, StopKinds
<1>6. << q, p >> \in R
  BY <1>2, <1>5 DEF OpToRel
<1>7. QED BY <1>3, <1>5, <1>6

(* The loop is left only when nobody is, and nobody comes back.            *)
LEMMA NoneLeftStep == TypeOK /\ Ordered /\ Spawning /\ Tracked /\ NoneLeft /\ [Next]_vars => NoneLeft'
<1> SUFFICES ASSUME TypeOK, Ordered, Spawning, Tracked, NoneLeft, [Next]_vars PROVE NoneLeft'
  OBVIOUS
<1> USE Consts
<1>1. CASE GuestFork
  <2>1. \A q \in Pids : task[q] = "absent"
    BY <1>1 DEF GuestFork, Ordered, Spawning, Pids
  <2>2. QED BY <1>1, <2>1 DEF GuestFork, TypeOK, NoneLeft, Live, Running, StopKinds, tables, kernel, bounds, history, loop
<1>2. CASE SpawnWait
  BY <1>2 DEF SpawnWait, TypeOK, NoneLeft, Live, Running, StopKinds, tables, kernel, bounds, history, loop
<1>3. CASE SpawnOptions
  BY <1>3 DEF SpawnOptions, TypeOK, NoneLeft, Live, Running, StopKinds, tables, kernel, bounds, history, loop
<1>4. CASE SpawnAdd
  BY <1>4 DEF SpawnAdd, TypeOK, NoneLeft, Live, Running, StopKinds, tables, kernel, bounds, history, loop
<1>5. CASE Check
  <2>1. Cardinality(processes) > 0 \/ processes = {}
    <3>1. IsFiniteSet(AnyPid)
      BY FS_Interval, PidAssumption DEF AnyPid
    <3>2. IsFiniteSet(processes)
      BY <3>1, FS_Subset DEF TypeOK
    <3>3. QED BY <3>2, FS_EmptySet, FS_CardinalityType
  <2>2. CASE Cardinality(processes) > 0
    BY <1>5, <2>2 DEF Check, Active, NoneLeft
  <2>3. CASE processes = {}
    BY <1>5, <2>3, EmptyTree DEF Check, Active, NoneLeft, Live, tables, kernel, bounds, history
  <2>4. QED BY <2>1, <2>2, <2>3
<1>6. CASE Wait
  BY <1>6 DEF Wait, WaitNone, WaitStop, WaitDeath, Reapable, TypeOK, NoneLeft, Live, Running, StopKinds, tables, kernel, bounds, history, loop
<1>7. CASE Remove
  BY <1>7 DEF Remove, TypeOK, NoneLeft, Live, Running, StopKinds, tables, kernel, bounds, history, loop
<1>8. CASE HandleStop
  BY <1>8 DEF HandleStop, ReadEvent, Dispatch, OtherStop, TypeOK, NoneLeft, Live, Running, StopKinds, tables, kernel, bounds, history, loop
<1>9. CASE Register
  BY <1>9 DEF Register, TypeOK, NoneLeft, Live, Running, StopKinds, tables, kernel, bounds, history, loop
<1>10. CASE Resume
  BY <1>10 DEF Resume, ResumedTo, TypeOK, NoneLeft, Live, Running, StopKinds, tables, kernel, bounds, history, loop
<1>11. CASE Startup
  BY <1>11 DEF Startup, StopAt, TypeOK, NoneLeft, Live, Running, StopKinds, Root, tables, kernel, bounds, history, loop
<1>12. ASSUME NEW p \in Pids, EnterSyscall(p) PROVE NoneLeft'
  BY <1>12 DEF EnterSyscall, StopAt, TypeOK, NoneLeft, Live, Running, StopKinds, tables, kernel, bounds, history, loop
<1>13. ASSUME NEW p \in Pids, KChdir(p) PROVE NoneLeft'
  BY <1>13 DEF KChdir, StopAt, TypeOK, NoneLeft, Live, Running, StopKinds, tables, kernel, bounds, history, loop
<1>14. ASSUME NEW p \in Pids, KClone(p) PROVE NoneLeft'
  <2>1. Live(p) /\ pc' = pc /\ UNCHANGED <<bounds, history>>
    BY <1>14 DEF KClone, Live, Running, loop
  <2>2. QED BY <2>1 DEF NoneLeft, bounds, history
<1>15. ASSUME NEW p \in Pids, KOther(p) PROVE NoneLeft'
  BY <1>15 DEF KOther, StopAt, TypeOK, NoneLeft, Live, Running, StopKinds, tables, kernel, bounds, history, loop
<1>16. ASSUME NEW p \in Pids, Signal(p) PROVE NoneLeft'
  BY <1>16 DEF Signal, StopAt, TypeOK, NoneLeft, Live, Running, StopKinds, tables, kernel, bounds, history, loop
<1>17. ASSUME NEW p \in Pids, KExit(p) \/ Kill(p) \/ KillAll PROVE NoneLeft'
  <2>1. PICK V \in SUBSET {q \in Pids : Alive(q)} : Die(V)
    BY <1>17, Deaths
  <2>2. \A q \in Pids : Live(q)' => Live(q)
    BY <2>1, DieTasks DEF Alive, Live, Running, StopKinds
  <2>3. lost \subseteq lost'
    BY <2>1, DieTasks
  <2>4. QED BY <1>17, Deaths, <2>2, <2>3 DEF NoneLeft
<1>18. CASE UNCHANGED vars
  BY <1>18 DEF vars, TypeOK, NoneLeft, Live, Running, StopKinds, tables, kernel, bounds, history, loop
<1>19. QED BY <1>1, <1>2, <1>3, <1>4, <1>5, <1>6, <1>7, <1>8, <1>9, <1>10, <1>11, <1>12, <1>13, <1>14, <1>15, <1>16, <1>17, <1>18
     DEF Next, LoopStep, KernelStep

-----------------------------------------------------------------------------
(* The invariant holds at first. *)
LEMMA InitInv == Init => IInv
<1> SUFFICES ASSUME Init PROVE IInv
  OBVIOUS
<1> USE Consts
<1>1. TypeOK
  <2>1. next_pid \in AnyPid
    BY PidAssumption DEF Init, AnyPid
  <2>2. 0 \in 0 .. MaxCalls /\ 0 \in 0 .. MaxKills
    BY BoundAssumption
  <2>3. QED BY <2>1, <2>2 DEF Init, TypeOK
<1>2. Handling /\ Ordered /\ Spawning
  BY DEF Init, Handling, InHand, Ordered, Spawning, SpawnPcs
<1>3. Tracked /\ NoneLeft
  BY DEF Init, Tracked, NoneLeft, Live, Running, StopKinds
<1>4. QED BY <1>1, <1>2, <1>3 DEF IInv

(* So the invariant always holds. *)
LEMMA Inductive == Spec => []IInv
<1>1. IInv /\ [Next]_vars => IInv'
  BY TypeStep, HandlingStep, OrderedStep, SpawningStep, TrackedStep, NoneLeftStep DEF IInv
<1>2. QED BY InitInv, <1>1, PTL DEF Spec

(* The tables, the loop's locals and the kernel's state keep their types;  *)
(* in particular pid 0 is never registered.                                *)
THEOREM TypeCorrect == Spec => []TypeOK
<1>1. IInv => TypeOK
  BY DEF IInv
<1>2. QED BY Inductive, <1>1, PTL

(* Whatever the order in which stops are reported and whoever is killed,   *)
(* every live task is in the process tree or about to be put there, apart  *)
(* from the two named ways to lose one.                                    *)
THEOREM EveryTaskTracked == Spec => []Tracked
<1>1. IInv => Tracked
  BY DEF IInv
<1>2. QED BY Inductive, <1>1, PTL

(* run_loop returns only when no traced task lives, provided no            *)
(* announcement was lost and kill_all has not emptied the tree.            *)
THEOREM LoopLeavesNone == Spec => []NoneLeft
<1>1. IInv => NoneLeft
  BY DEF IInv
<1>2. QED BY Inductive, <1>1, PTL

-----------------------------------------------------------------------------
(* The refinement.  What is seen of the thread changes when the loop comes *)
(* to another part of it, when the tree becomes empty or is no longer, and *)
(* when the last task dies.                                                *)

(* A pid has been handed out unless the fork failed or is still to come.   *)
Begun == pc \notin {"fork", "done"} => next_pid > Root

(* active_process_count() > 0 says that the tree has an entry.             *)
LEMMA Counted ==
    ASSUME NEW P \in SUBSET AnyPid
    PROVE  Cardinality(P) > 0 <=> P # {}
<1>1. IsFiniteSet(AnyPid)
  BY PidAssumption, FS_Interval DEF AnyPid
<1>2. IsFiniteSet(P)
  BY <1>1, FS_Subset
<1>3. Cardinality(P) \in Nat /\ (Cardinality(P) = 0 <=> P = {})
  BY <1>2, FS_CardinalityType, FS_EmptySet
<1>4. QED BY <1>3

(* Before a step and after it. *)
LEMMA ActiveMeans ==
    ASSUME TypeOK, TypeOK'
    PROVE  (Active <=> processes # {}) /\ (Active' <=> processes' # {})
BY Counted DEF TypeOK, Active

(* What the loop does to a task other than resume it leaves it as alive as *)
(* it was; nothing that the kernel does brings one to life but a live one. *)
LEMMA AliveStep ==
    ASSUME IInv, [Next]_vars, ~ GuestFork
    PROVE  TracedAlive' => TracedAlive
<1> USE Consts DEF IInv, TracedAlive, Live, Running, StopKinds
<1>1. CASE SpawnWait
  BY <1>1 DEF SpawnWait, TypeOK
<1>2. CASE SpawnOptions \/ SpawnAdd \/ Check \/ Remove \/ HandleStop \/ Register
  BY <1>2 DEF SpawnOptions, SpawnAdd, Check, Remove, HandleStop, Register, kernel
<1>3. CASE Wait
  BY <1>3 DEF Wait, WaitNone, WaitStop, WaitDeath, TypeOK
<1>4. CASE Resume
  BY <1>4 DEF Resume, ResumedTo, TypeOK
<1>5. CASE Startup
  BY <1>5 DEF Startup, StopAt, TypeOK
<1>6. ASSUME NEW p \in Pids, EnterSyscall(p) \/ KChdir(p) \/ KClone(p) \/ KOther(p) \/ Signal(p)
      PROVE  TracedAlive
  BY <1>6 DEF EnterSyscall, KChdir, KClone, KOther, Signal
<1>7. ASSUME NEW p \in Pids, KExit(p) \/ Kill(p) \/ KillAll
      PROVE  TracedAlive' => TracedAlive
  <2>1. PICK V \in SUBSET {q \in Pids : Alive(q)} : Die(V)
    BY <1>7, Deaths
  <2>2. \A q \in Pids : Live(q)' => Live(q)
    BY <2>1, DieTasks DEF Alive
  <2>3. QED BY <2>2
<1>8. CASE UNCHANGED vars
  BY <1>8 DEF vars, kernel
<1>9. QED BY <1>1, <1>2, <1>3, <1>4, <1>5, <1>6, <1>7, <1>8 DEF Next, LoopStep, KernelStep

(* Every step keeps the pids handed out, and where the thread is changes   *)
(* with its pc only.                                                       *)
LEMMA BegunStep ==
    ASSUME IInv, Begun, [Next]_vars
    PROVE  /\ Begun'
           /\ UNCHANGED pc => UNCHANGED ThreadPhase
<1> USE Consts DEF IInv, ThreadPhase, SpawnPcs, LoopPcs, Root
<1>1. CASE GuestFork
  BY <1>1 DEF GuestFork, Begun
<1>2. CASE UNCHANGED next_pid /\ pc # "fork"
  <2>1. pc = "done" => pc' = "done"
    BY DEF Next, LoopStep, GuestFork, SpawnWait, SpawnOptions, SpawnAdd, Check, Wait, Remove,
       HandleStop, Register, Resume, KernelStep, Startup, EnterSyscall, KChdir, KClone,
       KOther, KExit, Signal, Kill, KillAll, vars, loop
  <2>2. QED BY <1>2, <2>1 DEF Begun
<1>3. CASE pc = "fork" /\ ~ GuestFork
  <2>1. \A q \in Pids : task[q] = "absent"
    BY <1>3 DEF Ordered, Spawning, Pids
  <2>2. pc' = "fork"
    BY <1>3 DEF Next, LoopStep, SpawnWait, SpawnOptions, SpawnAdd, Check, Wait, Remove,
       HandleStop, Register, Resume, KernelStep, Startup, EnterSyscall, KChdir, KClone,
       KOther, KExit, Signal, Kill, KillAll, vars, loop
  <2>3. QED BY <1>3, <2>2 DEF Begun
<1>4. ASSUME NEW p \in Pids, KClone(p)
      PROVE  Begun' /\ (UNCHANGED pc => UNCHANGED ThreadPhase)
  <2>1. next_pid > Root /\ next_pid' = next_pid + 1 /\ next_pid \in Nat /\ pc' = pc
    BY <1>4 DEF KClone, TypeOK, Ordered, Pids, AnyPid, loop
  <2>2. QED BY <2>1 DEF Begun
<1>5. UNCHANGED next_pid \/ GuestFork \/ \E p \in Pids : KClone(p)
  BY DEF Next, LoopStep, SpawnWait, SpawnOptions, SpawnAdd, Check, Wait, Remove,
     HandleStop, Register, Resume, KernelStep, Startup, EnterSyscall, KChdir,
     KOther, KExit, Signal, Kill, KillAll, vars, kernel
<1>6. QED BY <1>1, <1>2, <1>3, <1>4, <1>5

(* A step during which the thread does not move and the tree stays as      *)
(* empty as it was is a death of the last task, or unseen.                 *)
LEMMA Unseen ==
    ASSUME UNCHANGED ThreadPhase, Active' <=> Active, TracedAlive' => TracedAlive
    PROVE  [Thread!Next]_(Thread!vars)
<1>1. Active' = Active /\ Active \in BOOLEAN
  BY DEF Active
<1>2. CASE TracedAlive' <=> TracedAlive
  <2>1. TracedAlive' = TracedAlive
    BY <1>2 DEF TracedAlive
  <2>2. QED BY <1>1, <2>1 DEF Thread!vars
<1>3. CASE TracedAlive /\ ~ TracedAlive'
  <2>1. TracedAlive' = FALSE
    BY <1>3 DEF TracedAlive
  <2>2. QED BY <1>1, <1>3, <2>1 DEF Thread!Next, Thread!GuestEnds
<1>4. QED BY <1>2, <1>3

(* Every step of the loop, the kernel and kill_all is one of the abstract  *)
(* thread's, or unseen.                                                    *)
LEMMA Implements ==
    ASSUME IInv, Begun, [Next]_vars, TypeOK', Begun'
    PROVE  [Thread!Next]_(Thread!vars)
<1> USE Consts, ActiveMeans DEF IInv
<1>1. CASE GuestFork
  <2>1. pc = "fork" /\ UNCHANGED processes /\ (Active' <=> Active)
    BY <1>1 DEF GuestFork, tables
  <2>2. CASE pc' = "done"
    <3>1. UNCHANGED <<task, next_pid>> /\ next_pid = Root
      BY <1>1, <2>2 DEF GuestFork, Spawning, Root
    <3>2. (TracedAlive' = TracedAlive) /\ Active' = Active
      BY <2>1, <3>1 DEF TracedAlive, Live, Active
    <3>3. QED BY <2>1, <2>2, <3>1, <3>2
         DEF ThreadPhase, SpawnPcs, LoopPcs, Thread!Next, Thread!ThreadStep, Thread!Fork
  <2>3. CASE pc' = "spawn_wait"
    <3>1. task'[Root] = "starting"
      BY <1>1, <2>3 DEF GuestFork, TypeOK
    <3>2. TracedAlive' = TRUE /\ Active' = Active
      BY <2>1, <3>1 DEF TracedAlive, Live, Running, Active
    <3>3. QED BY <2>1, <2>3, <3>2
         DEF ThreadPhase, SpawnPcs, LoopPcs, Thread!Next, Thread!ThreadStep, Thread!Fork
  <2>4. QED BY <1>1, <2>2, <2>3 DEF GuestFork
<1>2. TracedAlive' => TracedAlive \/ GuestFork
  BY AliveStep
<1>3. CASE SpawnWait \/ SpawnOptions
  <2>1. UNCHANGED <<ThreadPhase, processes>>
    BY <1>3 DEF SpawnWait, SpawnOptions, ThreadPhase, SpawnPcs, tables
  <2>2. ~ GuestFork
    BY <1>3 DEF SpawnWait, SpawnOptions, GuestFork
  <2>3. QED BY <1>2, <2>1, <2>2, Unseen
<1>4. CASE SpawnAdd
  <2>1. Active' /\ UNCHANGED TracedAlive
    BY <1>4 DEF SpawnAdd, AddProcess, TracedAlive, Live, kernel
  <2>2. Active' = TRUE
    BY <2>1 DEF Active
  <2>3. QED BY <1>4, <2>1, <2>2
       DEF SpawnAdd, ThreadPhase, SpawnPcs, LoopPcs, Thread!Next, Thread!ThreadStep,
           Thread!Add
<1>5. CASE Check \/ Wait
  <2>1. pc \in {"check", "wait"} /\ UNCHANGED <<processes, next_pid>>
    BY <1>5 DEF Check, Wait, tables, kernel
  <2>2. ~ GuestFork
    BY <2>1 DEF GuestFork
  <2>3. CASE pc' # "done"
    <3>1. pc' \in LoopPcs
      BY <1>5, <2>3 DEF Check, Wait, WaitNone, WaitStop, WaitDeath, LoopPcs
    <3>2. UNCHANGED ThreadPhase
      BY <2>1, <3>1 DEF ThreadPhase, SpawnPcs, LoopPcs
    <3>3. QED BY <1>2, <2>1, <2>2, <3>2, Unseen
  <2>4. CASE pc' = "done"
    <3>1. UNCHANGED task /\ (~ Active \/ ~ TracedAlive)
      BY <1>5, <2>4 DEF Check, Wait, WaitNone, WaitStop, WaitDeath, kernel, TracedAlive,
         Live, Running, StopKinds
    <3>2. UNCHANGED <<TracedAlive, Active>>
      BY <2>1, <3>1 DEF TracedAlive, Live, Active
    <3>3. ThreadPhase = "looping" /\ ThreadPhase' = "done"
      BY <2>1, <2>4 DEF ThreadPhase, SpawnPcs, LoopPcs, Begun, Root
    <3>4. QED BY <3>1, <3>2, <3>3 DEF Thread!Next, Thread!ThreadStep, Thread!Leave
  <2>5. QED BY <2>3, <2>4
<1>6. CASE Remove \/ Register
  <2>1. UNCHANGED <<ThreadPhase, TracedAlive>> /\ ThreadPhase = "looping"
    BY <1>6 DEF Remove, Register, ThreadPhase, SpawnPcs, LoopPcs, TracedAlive, Live, kernel
  <2>2. Active' \in BOOLEAN
    BY DEF Active
  <2>3. QED BY <2>1, <2>2
       DEF Thread!Next, Thread!ThreadStep, Thread!Track, Thread!Untrack
<1>7. CASE HandleStop \/ Resume
  <2>1. UNCHANGED <<ThreadPhase, processes>> /\ ~ GuestFork
    BY <1>7 DEF HandleStop, ReadEvent, Dispatch, OtherStop, Resume, ThreadPhase, SpawnPcs,
       LoopPcs, GuestFork, tables
  <2>2. QED BY <1>2, <2>1, Unseen
<1>8. CASE KillAll
  <2>1. pc' = pc /\ processes' = {} /\ UNCHANGED ThreadPhase
    BY <1>8, BegunStep DEF KillAll, loop
  <2>2. Active' = FALSE
    BY <2>1 DEF Active
  <2>3. CASE processes = {}
    BY <1>2, <1>8, <2>1, <2>3, Unseen DEF KillAll, GuestFork
  <2>4. CASE processes # {}
    <3>1. TracedAlive' => TracedAlive
      BY <1>8, AliveStep DEF KillAll, GuestFork, loop
    <3>2. TracedAlive' = TracedAlive \/ TracedAlive' = FALSE
      BY <3>1 DEF TracedAlive
    <3>3. QED BY <2>1, <2>2, <2>4, <3>2 DEF Thread!Next, Thread!KillAll
  <2>5. QED BY <2>3, <2>4
<1>9. CASE KernelStep \/ UNCHANGED vars
  <2>1. UNCHANGED <<pc, processes>>
    BY <1>9 DEF KernelStep, Startup, EnterSyscall, KChdir, KClone, KOther, KExit, Signal,
       Kill, vars, loop, tables
  <2>2. UNCHANGED ThreadPhase /\ ~ GuestFork
    BY <2>1, BegunStep DEF GuestFork
  <2>3. QED BY <1>2, <2>1, <2>2, Unseen
<1>10. QED BY <1>1, <1>3, <1>4, <1>5, <1>6, <1>7, <1>8, <1>9 DEF Next, LoopStep

(* spawn_guest, run_loop and the guest are the tracer thread that the      *)
(* engine's start and stop are built on.                                   *)
THEOREM LoopImplements == Spec => ThreadSpec
<1>1. Init => Thread!Init /\ Begun
  <2> SUFFICES ASSUME Init PROVE Thread!Init /\ Begun
    OBVIOUS
  <2>1. Active = FALSE /\ TracedAlive = FALSE
    BY Counted DEF Init, Active, TracedAlive, Live, Running, StopKinds
  <2>2. QED BY <2>1 DEF Init, Thread!Init, ThreadPhase, Begun
<1>2. IInv /\ Begun /\ [Next]_vars => Begun'
  BY BegunStep
<1>3. IInv /\ IInv' /\ Begun /\ Begun' /\ [Next]_vars => [Thread!Next]_(Thread!vars)
  BY Implements DEF IInv
<1>4. QED BY Inductive, <1>1, <1>2, <1>3, PTL DEF Spec, ThreadSpec, Thread!Spec

-----------------------------------------------------------------------------
(***************************************************************************)
(* Proof, for any number of tasks, directories, calls and kills, that the  *)
(* working directories PathResolver keeps are the kernel's.  What has to   *)
(* be carried along is how a directory gets into the table.  It comes from *)
(* a chdir that was dispatched at its entry (ListedOf), or from the parent *)
(* when the child is registered, which may be long after the child was     *)
(* made and has run: until then the child is announced, by one task only   *)
(* (Once), and is where its announcer is (InheritedBy).                    *)
(***************************************************************************)

(* The stop of q announces n, or its message has been fetched. *)
Announces(q, n) ==
    \/ Unread(q) /\ eventmsg[q] = n
    \/ pc = "register" /\ cur = q /\ new_pid = n

(* A task has one announcer, and is in the tree only when it has none.     *)
Once ==
    /\ \A n, q, r \in Pids : Announces(q, n) /\ Announces(r, n) => q = r
    /\ \A n, q \in Pids : Announces(q, n) => n \notin processes /\ task[n] # "absent"
    /\ \A p \in processes \cap Pids : task[p] # "absent"

(* A pid not handed out has its own group and no call.                     *)
Fresh ==
    \A p \in Pids : IF task[p] = "absent" THEN group[p] = p /\ call[p] = "none"
                    ELSE task[group[p]] # "absent"

(* Only a task at the entry or exit of a call, or in it, may be in a chdir. *)
NoChdir ==
    /\ \A p \in Pids : task[p] \in {"starting", "sigstop", "user", "signal", "newchild"}
                        => call[p] \notin Dirs
    /\ pc = "stop" /\ task[cur] = "entry" => status = "entry"
    /\ pc = "register" => task[cur] # "entry"
    /\ pc = "register" \/ (pc = "stop" /\ status = "newchild") => call[cur] \notin Dirs

(* While the guest is spawned.                                             *)
Unlisted ==
    /\ pc \in {"fork"} \cup SpawnPcs =>
        /\ processes = {} /\ process_cwds[Root] = NoDir /\ kcwd[group[Root]] = HostDir
    /\ pc \in SpawnPcs => task[Root] # "absent" /\ (HostDir = RootDir \/ Root \in drifted)

(* The entry of p's call has been handled.                                 *)
Dispatched(p) == \/ task[p] = "kernel"
                 \/ task[p] = "entry" /\ pc = "resume" /\ cur = p

(* The task q has announced is where q is, unless a chdir of its own tells. *)
InheritedBy(q, n) ==
    /\ {q, n} \cap drifted = {} /\ call[n] \notin Dirs => kcwd[group[n]] = kcwd[group[q]]
    /\ call[n] \in Dirs => /\ Dispatched(n) => n \in early
                           /\ task[n] = "exit" => n \in drifted

Inherited == opts => \A q, n \in Pids : Announces(q, n) => InheritedBy(q, n)

(* What the table holds for p: before, during and after a chdir.           *)
ListedOf(p) ==
    /\ call[p] \notin Dirs /\ p \notin drifted => GetCwd(p) = kcwd[group[p]]
    /\ call[p] \in Dirs =>
        /\ Dispatched(p) /\ p \notin early => process_cwds[p] = call[p]
        /\ task[p] = "exit" /\ p \notin drifted =>
              process_cwds[p] = call[p] /\ kcwd[group[p]] = call[p]

Listed == opts => \A p \in processes \cap Pids : ListedOf(p)

CInv == Once /\ Fresh /\ NoChdir /\ Unlisted /\ Inherited /\ Listed

-----------------------------------------------------------------------------
(* Whoever announces a task did so before, or has just made it. *)
LEMMA AnnouncesStep ==
    ASSUME IInv, [Next]_vars, NEW q \in Pids, NEW n \in Pids, Announces(q, n)'
    PROVE  Announces(q, n) \/ (KClone(q) /\ opts /\ n = next_pid)
<1> USE Consts DEF IInv
<1>1. CASE GuestFork
  <2>1. \A r \in Pids : task[r] = "absent"
    BY <1>1 DEF GuestFork, Ordered, Spawning, Pids
  <2>2. QED BY <1>1, <2>1 DEF GuestFork, TypeOK, Announces, Unread
<1>2. CASE SpawnWait
  BY <1>2 DEF SpawnWait, Stopped, TypeOK, Announces, Unread, Spawning, SpawnPcs
<1>3. CASE SpawnOptions \/ SpawnAdd \/ Check \/ Remove
  BY <1>3 DEF SpawnOptions, SpawnAdd, Check, Remove, Announces, Unread, kernel
<1>4. CASE Wait
  BY <1>4 DEF Wait, WaitNone, WaitStop, WaitDeath, TypeOK, Announces, Unread
<1>5. CASE HandleStop
  <2>1. CASE ReadEvent
    <3>1. StrayPid \notin Pids /\ NoPid \notin Pids
      BY DEF StrayPid, Pids, NoPid
    <3>2. QED BY <1>5, <2>1, <3>1 DEF HandleStop, ReadEvent, EventMessage, Announces, Unread, kernel,
                Handling, InHand
  <2>2. CASE Dispatch \/ OtherStop
    BY <1>5, <2>2 DEF HandleStop, Dispatch, OtherStop, Announces, Unread, kernel
  <2>3. QED BY <1>5, <2>1, <2>2 DEF HandleStop
<1>6. CASE Register
  BY <1>6 DEF Register, Announces, Unread, kernel
<1>7. CASE Resume
  BY <1>7 DEF Resume, ResumedTo, TypeOK, Announces, Unread
<1>8. CASE Startup
  BY <1>8 DEF Startup, StopAt, TypeOK, Announces, Unread, loop
<1>9. ASSUME NEW p \in Pids, EnterSyscall(p) \/ KChdir(p) \/ KOther(p) \/ Signal(p)
      PROVE  Announces(q, n)
  BY <1>9 DEF EnterSyscall, KChdir, KOther, Signal, StopAt, TypeOK, Announces, Unread, loop
<1>10. ASSUME NEW p \in Pids, KClone(p)
       PROVE  Announces(q, n) \/ (KClone(q) /\ opts /\ n = next_pid)
  <2>1. next_pid \in Pids /\ task[next_pid] = "absent"
    BY <1>10 DEF KClone, TypeOK, Ordered, Pids, AnyPid
  <2>2. CASE q = p /\ opts
    BY <1>10, <2>1, <2>2 DEF KClone, TypeOK, Announces, Unread, loop
  <2>3. CASE q # p \/ ~ opts
    BY <1>10, <2>1, <2>3 DEF KClone, TypeOK, Announces, Unread, loop
  <2>4. QED BY <2>2, <2>3
<1>11. ASSUME NEW p \in Pids, KExit(p) \/ Kill(p) \/ KillAll
       PROVE  Announces(q, n)
  <2>1. PICK V \in SUBSET {r \in Pids : Alive(r)} : Die(V)
    BY <1>11, Deaths
  <2>2. QED BY <1>11, Deaths, <2>1, DieTasks DEF Announces, Unread
<1>12. CASE UNCHANGED vars
  BY <1>12 DEF vars, loop, kernel, Announces, Unread
<1>13. QED BY <1>1, <1>2, <1>3, <1>4, <1>5, <1>6, <1>7, <1>8, <1>9, <1>10, <1>11, <1>12
     DEF Next, LoopStep, KernelStep

(* A pid that has been handed out stays so. *)
LEMMA NeverAbsent ==
    ASSUME IInv, [Next]_vars, NEW p \in Pids, task[p] # "absent"
    PROVE  task'[p] # "absent"
<1> USE Consts DEF IInv
<1>1. CASE GuestFork
  BY <1>1 DEF GuestFork, TypeOK
<1>2. CASE SpawnWait \/ SpawnOptions \/ SpawnAdd \/ Check \/ Remove \/ HandleStop \/ Register
  BY <1>2 DEF SpawnWait, SpawnOptions, SpawnAdd, Check, Remove, HandleStop, Register, TypeOK, kernel
<1>3. CASE Wait \/ Resume \/ Startup
  BY <1>3 DEF Wait, WaitNone, WaitStop, WaitDeath, Resume, ResumedTo, Startup, StopAt, TypeOK
<1>4. ASSUME NEW q \in Pids, EnterSyscall(q) \/ KChdir(q) \/ KOther(q) \/ Signal(q) \/ KClone(q)
      PROVE  task'[p] # "absent"
  BY <1>4 DEF EnterSyscall, KChdir, KOther, Signal, KClone, StopAt, TypeOK
<1>5. ASSUME NEW q \in Pids, KExit(q) \/ Kill(q) \/ KillAll
      PROVE  task'[p] # "absent"
  <2>1. PICK V \in SUBSET {r \in Pids : Alive(r)} : Die(V)
    BY <1>5, Deaths
  <2>2. QED BY <2>1, DieTasks
<1>6. CASE UNCHANGED vars
  BY <1>6 DEF vars, kernel
<1>7. QED BY <1>1, <1>2, <1>3, <1>4, <1>5, <1>6 DEF Next, LoopStep, KernelStep

(* What changes the tree. *)
LEMMA ProcessesStep ==
    ASSUME IInv, [Next]_vars
    PROVE  \/ processes' \subseteq processes
           \/ SpawnAdd /\ processes' = processes \cup {Root}
           \/ Register /\ processes' = processes \cup {new_pid}
<1>1. CASE SpawnAdd \/ Register \/ Remove
  BY <1>1 DEF SpawnAdd, Register, Remove, AddProcess, RemoveProcess
<1>2. CASE ~ (SpawnAdd \/ Register \/ Remove)
  BY <1>2 DEF Next, LoopStep, GuestFork, SpawnWait, SpawnOptions, Check, Wait, HandleStop,
     Resume, KernelStep, Startup, EnterSyscall, KChdir, KClone, KOther, KExit, Signal, Kill,
     KillAll, vars, tables
<1>3. QED BY <1>1, <1>2

(* While the guest is spawned it is not registered, and nobody has moved. *)
LEMMA UnlistedStep ==
    ASSUME IInv, Unlisted, Fresh, [Next]_vars
    PROVE  Unlisted'
<1> USE Consts DEF IInv, Unlisted, SpawnPcs
<1>1. CASE GuestFork
  <2>1. task'[Root] # "absent" \/ pc' = "done"
    BY <1>1 DEF GuestFork, TypeOK
  <2>2. UNCHANGED <<processes, process_cwds, kcwd, group>>
    BY <1>1 DEF GuestFork, tables
  <2>3. QED BY <1>1, <2>1, <2>2 DEF GuestFork
<1>2. CASE SpawnWait \/ SpawnOptions
  <2>1. UNCHANGED <<processes, process_cwds, kcwd, group, drifted>>
    BY <1>2 DEF SpawnWait, SpawnOptions, tables, history
  <2>2. pc \in SpawnPcs
    BY <1>2 DEF SpawnWait, SpawnOptions
  <2>3. QED BY <1>2, <2>1, <2>2, NeverAbsent
<1>3. CASE pc \notin {"fork"} \cup SpawnPcs
  <2>1. pc' \notin {"fork"} \cup SpawnPcs
    BY <1>3 DEF Next, LoopStep, GuestFork, SpawnWait, SpawnOptions, SpawnAdd, Check, Wait, WaitNone,
       WaitStop, WaitDeath, HandleStop, ReadEvent, Dispatch, OtherStop, Register, Remove,
       Resume, KernelStep, Startup, EnterSyscall, KChdir, KClone, KOther, KExit, Signal, Kill,
       KillAll, vars, loop
  <2>2. QED BY <2>1
<1>4. CASE SpawnAdd
  BY <1>4 DEF SpawnAdd
<1>5. ASSUME pc \in {"fork"} \cup SpawnPcs, KernelStep \/ KillAll \/ UNCHANGED vars
      PROVE  Unlisted'
  <2>1. \A q \in Pids : task[q] \in {"absent", "starting", "sigstop", "exiting", "dead", "reaped"}
    BY <1>5 DEF Ordered, Spawning, Pids
  <2>2. UNCHANGED <<kcwd, group, process_cwds, pc, drifted>>
    BY <1>5, <2>1 DEF KernelStep, Startup, EnterSyscall, KChdir, KClone, KOther, KExit, Signal, Kill,
       KillAll, vars, loop, tables, kernel, history
  <2>3. processes' = {}
    BY <1>5 DEF KernelStep, Startup, EnterSyscall, KChdir, KClone, KOther, KExit, Signal, Kill,
       KillAll, vars, tables
  <2>4. QED BY <1>5, <2>2, <2>3, NeverAbsent
<1>6. QED BY <1>1, <1>2, <1>3, <1>4, <1>5
     DEF Next, LoopStep, Check, Wait, HandleStop, Register, Remove, Resume

(* However tasks are made, stop, are registered and die, this stays so. *)
LEMMA OnceStep ==
    ASSUME IInv, Once, Unlisted, [Next]_vars
    PROVE  Once'
<1> USE Consts
<1>1. ASSUME NEW n \in Pids, NEW q \in Pids, NEW r \in Pids, Announces(q, n)', Announces(r, n)'
      PROVE  q = r
  <2>1. next_pid \in Pids => task[next_pid] = "absent"
    BY DEF IInv, Ordered, TypeOK, Pids, AnyPid
  <2>2. ASSUME KClone(q), KClone(r), q # r PROVE FALSE
    <3>1. next_pid \in Pids /\ q # next_pid /\ r # next_pid
      BY <2>1, <2>2 DEF KClone, IInv, TypeOK, Pids, AnyPid
    <3>2. task'[q] \in {"newchild", "exit"} /\ task'[q] = task[q]
      BY <2>2, <3>1 DEF KClone, IInv, TypeOK
    <3>3. QED BY <2>2, <3>2 DEF KClone
  <2>3. QED BY <1>1, <2>1, <2>2, AnnouncesStep DEF Once
<1>2. ASSUME NEW n \in Pids, NEW q \in Pids, Announces(q, n)'
      PROVE  n \notin processes' /\ task'[n] # "absent"
  <2>1. CASE KClone(q) /\ opts /\ n = next_pid
    <3>1. task[n] = "absent"
      BY <2>1 DEF IInv, Ordered, TypeOK, Pids, AnyPid
    <3>2. n \notin processes' /\ task'[n] = "sigstop"
      BY <2>1, <3>1 DEF KClone, Once, IInv, TypeOK, tables
    <3>3. QED BY <3>2
  <2>2. CASE Announces(q, n)
    <3>1. task'[n] # "absent" /\ n \notin processes
      BY <2>2, NeverAbsent DEF Once
    <3>2. CASE SpawnAdd
      BY <2>2, <3>2 DEF SpawnAdd, IInv, Spawning, SpawnPcs, Announces, Unread
    <3>3. CASE Register /\ n = new_pid
      <4>1. cur \in Pids /\ Announces(cur, n) /\ q = cur
        BY <2>2, <3>3 DEF Register, IInv, TypeOK, Announces, Once
      <4>2. ~ Announces(q, n)'
        <5>1. pc' = "resume" /\ cur' = cur /\ task' = task /\ reported' = reported
          BY <3>3 DEF Register, kernel
        <5>2. task[cur] = "newchild" => cur \in reported
          BY <3>3 DEF Register, IInv, Handling, InHand
        <5>3. QED BY <4>1, <5>1, <5>2 DEF Announces, Unread
      <4>3. QED BY <1>2, <4>2
    <3>4. QED BY <3>1, <3>2, <3>3, ProcessesStep
  <2>3. QED BY <1>2, <2>1, <2>2, AnnouncesStep
<1>3. ASSUME NEW p \in processes' \cap Pids
      PROVE  task'[p] # "absent"
  <2>1. CASE p \in processes
    BY <2>1, NeverAbsent DEF Once
  <2>2. CASE SpawnAdd /\ p = Root
    BY <2>2, NeverAbsent DEF SpawnAdd, Unlisted, SpawnPcs
  <2>3. CASE Register /\ p = new_pid
    <3>1. cur \in Pids /\ Announces(cur, p)
      BY <2>3 DEF Register, IInv, TypeOK, Announces
    <3>2. QED BY <3>1, NeverAbsent DEF Once
  <2>4. QED BY <2>1, <2>2, <2>3, ProcessesStep
<1>4. QED BY <1>1, <1>2, <1>3 DEF Once

(* What a task that is made gets: a group that exists, and no call. *)
LEMMA FreshStep ==
    ASSUME IInv, Fresh, [Next]_vars
    PROVE  Fresh'
<1> USE Consts DEF IInv
<1>1. ASSUME NEW p \in Pids, KClone(p) PROVE Fresh'
  <2>1. next_pid \in Pids /\ task[next_pid] = "absent"
    BY <1>1 DEF KClone, TypeOK, Ordered, Pids, AnyPid
  <2>2. task[p] = "kernel" /\ p # next_pid /\ group[p] \in Pids /\ task[group[p]] # "absent"
    BY <1>1, <2>1 DEF KClone, Fresh, TypeOK
  <2>3. task'[next_pid] # "absent" /\ task'[p] # "absent"
    BY <1>1, <2>1, <2>2 DEF KClone, TypeOK
  <2>4. group'[next_pid] \in {group[p], next_pid}
    BY <1>1, <2>1 DEF KClone, TypeOK
  <2>5. \A q \in Pids \ {next_pid} : group'[q] = group[q]
    BY <1>1, <2>1 DEF KClone, TypeOK
  <2>6. \A q \in Pids \ {p, next_pid} : call'[q] = call[q] /\ task'[q] = task[q]
    BY <1>1, <2>1 DEF KClone, TypeOK
  <2>7. \A q \in Pids : task[q] # "absent" => task'[q] # "absent"
    BY NeverAbsent
  <2>8. \A q \in Pids : group[q] \in Pids
    BY DEF TypeOK
  <2>9. QED BY <2>2, <2>3, <2>4, <2>5, <2>6, <2>7, <2>8 DEF Fresh
<1>2. CASE ~ \E p \in Pids : KClone(p)
  <2>1. UNCHANGED group
    BY <1>2 DEF Next, LoopStep, GuestFork, SpawnWait, SpawnOptions, SpawnAdd, Check, Wait,
       HandleStop, Register, Remove, Resume, KernelStep, Startup, EnterSyscall, KChdir, KOther,
       KExit, Signal, Kill, KillAll, vars, kernel
  <2>2. \A q \in Pids : task'[q] = "absent" => task[q] = "absent"
    BY NeverAbsent
  <2>3. \A q \in Pids : task'[q] = "absent" => call'[q] = call[q]
    <3>1. CASE UNCHANGED call
      BY <3>1
    <3>2. ASSUME NEW p \in Pids, EnterSyscall(p)
          PROVE  \A q \in Pids : task'[q] = "absent" => call'[q] = call[q]
      BY <3>2 DEF EnterSyscall, StopAt, TypeOK
    <3>3. CASE Resume
      BY <3>3 DEF Resume, ResumedTo, TypeOK
    <3>4. QED BY <1>2, <3>1, <3>2, <3>3
         DEF Next, LoopStep, GuestFork, SpawnWait, SpawnOptions, SpawnAdd, Check, Wait,
             HandleStop, Register, Remove, KernelStep, Startup, KChdir, KOther,
             KExit, Signal, Kill, KillAll, vars, kernel
  <2>4. \A q \in Pids : task'[q] # "absent" => task'[group[q]] # "absent"
    <3>1. \A q \in Pids : group[q] \in Pids
      BY DEF TypeOK
    <3>2. \A q \in Pids : task[q] # "absent" => task'[group[q]] # "absent"
      BY <3>1, NeverAbsent DEF Fresh
    <3>3. \A q \in Pids : task[q] = "absent" => group[q] = q
      BY DEF Fresh
    <3>4. QED BY <3>2, <3>3
  <2>5. QED BY <2>1, <2>2, <2>3, <2>4 DEF Fresh
<1>3. QED BY <1>1, <1>2

(* A task that runs, or is stopped for anything but a call, is in no chdir. *)
LEMMA NoChdirStep ==
    ASSUME IInv, Fresh, NoChdir, [Next]_vars
    PROVE  NoChdir'
<1> USE Consts DEF IInv, NoChdir
<1>h. pc \in InHand => Stopped(cur) \/ task[cur] = "dead"
  BY DEF Handling
<1>c. pc \in InHand => cur \in Pids
  BY DEF TypeOK, InHand
<1>1. CASE GuestFork
  <2>1. pc = "fork" /\ UNCHANGED call /\ pc' \in {"spawn_wait", "done"}
    BY <1>1 DEF GuestFork
  <2>2. \A p \in Pids : task[p] = "absent" /\ call[p] \notin Dirs
    BY <2>1 DEF Ordered, Spawning, Pids, Fresh
  <2>3. QED BY <2>1, <2>2
<1>2. CASE SpawnWait
  <2>1. pc' = "spawn_options" /\ UNCHANGED call
    BY <1>2 DEF SpawnWait
  <2>2. \A p \in Pids : task'[p] \in {task[p], "reaped"}
    BY <1>2 DEF SpawnWait, TypeOK
  <2>3. QED BY <2>1, <2>2
<1>3. CASE SpawnOptions \/ SpawnAdd \/ Check \/ Remove
  BY <1>3 DEF SpawnOptions, SpawnAdd, Check, Remove, kernel
<1>4. CASE Wait
  <2>1. UNCHANGED call /\ \A p \in Pids : task'[p] \in {task[p], "reaped"}
    BY <1>4 DEF Wait, WaitNone, WaitStop, WaitDeath, TypeOK
  <2>2. CASE pc' = "stop"
    <3>1. PICK p \in Pids : WaitStop(p)
      BY <1>4, <2>2 DEF Wait, WaitNone, WaitDeath
    <3>2. QED BY <2>1, <2>2, <3>1 DEF WaitStop
  <2>3. CASE pc' # "stop"
    <3>1. pc' # "register"
      BY <1>4 DEF Wait, WaitNone, WaitStop, WaitDeath
    <3>2. QED BY <2>1, <2>3, <3>1
  <2>4. QED BY <2>2, <2>3
<1>5. CASE HandleStop \/ Register
  <2>1. UNCHANGED <<call, task, cur, status>> /\ pc \in {"stop", "register"} /\ pc' # "stop"
    BY <1>5 DEF HandleStop, ReadEvent, Dispatch, OtherStop, Register, kernel
  <2>2. pc' = "register" => pc = "stop" /\ status = "newchild"
    BY <1>5 DEF HandleStop, ReadEvent, Dispatch, OtherStop, Register
  <2>3. QED BY <2>1, <2>2
<1>6. CASE Resume
  <2>1. pc' = "check" /\ cur \in Pids
    BY <1>6, <1>c DEF Resume, InHand
  <2>2. \A p \in Pids \ {cur} : task'[p] = task[p] /\ call'[p] = call[p]
    BY <1>6 DEF Resume, TypeOK
  <2>3. task'[cur] \in {"user", "starting", "sigstop", "signal", "newchild"} => call'[cur] \notin Dirs
    BY <1>6, <2>1 DEF Resume, ResumedTo, TypeOK
  <2>4. QED BY <2>1, <2>2, <2>3
<1>7. CASE Startup
  <2>1. UNCHANGED <<call, pc, cur, status>> /\ task[Root] = "starting"
    BY <1>7 DEF Startup, loop
  <2>2. \A p \in Pids : task'[p] # task[p] => p = Root /\ task'[p] \in {"sigstop", "dead"}
    BY <1>7 DEF Startup, StopAt, TypeOK
  <2>3. QED BY <2>1, <2>2, <1>c DEF InHand
<1>8. ASSUME NEW p \in Pids, EnterSyscall(p) PROVE NoChdir'
  <2>1. UNCHANGED <<pc, cur, status>> /\ task[p] = "user"
    BY <1>8 DEF EnterSyscall, loop
  <2>2. \A q \in Pids \ {p} : task'[q] = task[q] /\ call'[q] = call[q]
    BY <1>8 DEF EnterSyscall, StopAt, TypeOK
  <2>3. task'[p] = "entry"
    BY <1>8 DEF EnterSyscall, StopAt, TypeOK
  <2>4. pc \in InHand => cur # p
    BY <2>1, <1>h DEF Stopped, StopKinds
  <2>5. QED BY <2>1, <2>2, <2>3, <2>4, <1>c DEF InHand
<1>9. ASSUME NEW p \in Pids, KChdir(p) \/ KOther(p) \/ Signal(p) PROVE NoChdir'
  <2>1. UNCHANGED <<pc, cur, status, call>> /\ task[p] \in {"kernel", "user"}
    BY <1>9 DEF KChdir, KOther, Signal, loop
  <2>2. \A q \in Pids \ {p} : task'[q] = task[q]
    BY <1>9 DEF KChdir, KOther, Signal, StopAt, TypeOK
  <2>3. task'[p] = "exit" \/ (task[p] = "user" /\ task'[p] = "signal")
    BY <1>9 DEF KChdir, KOther, Signal, StopAt, TypeOK
  <2>4. QED BY <2>1, <2>2, <2>3, <1>c DEF InHand
<1>10. ASSUME NEW p \in Pids, KClone(p) PROVE NoChdir'
  <2>1. next_pid \in Pids /\ task[next_pid] = "absent" /\ call[next_pid] = "none"
    BY <1>10 DEF KClone, TypeOK, Ordered, Pids, AnyPid, Fresh
  <2>2. UNCHANGED <<pc, cur, status>> /\ task[p] = "kernel" /\ p # next_pid
    BY <1>10, <2>1 DEF KClone, loop
  <2>3. \A q \in Pids \ {p, next_pid} : task'[q] = task[q] /\ call'[q] = call[q]
    BY <1>10, <2>1 DEF KClone, TypeOK
  <2>4. call'[next_pid] = "none" /\ task'[next_pid] \in {"sigstop", "wild"}
    BY <1>10, <2>1, <2>2 DEF KClone, TypeOK
  <2>5. task'[p] = "exit" \/ (task'[p] = "newchild" /\ call'[p] = "other")
    BY <1>10, <2>1, <2>2 DEF KClone, TypeOK
  <2>6. pc \in InHand => cur \notin {p, next_pid}
    BY <2>1, <2>2, <1>h DEF Stopped, StopKinds
  <2>7. QED BY <2>2, <2>3, <2>4, <2>5, <2>6, <1>c DEF InHand
<1>11. ASSUME NEW p \in Pids, KExit(p) \/ Kill(p) \/ KillAll PROVE NoChdir'
  <2>1. PICK V \in SUBSET {q \in Pids : Alive(q)} : Die(V)
    BY <1>11, Deaths
  <2>2. UNCHANGED <<pc, cur, status, call>>
    BY <1>11, Deaths
  <2>3. \A q \in Pids : task'[q] = task[q] \/ task'[q] \in {"exiting", "dead", "reaped"}
    BY <2>1, DieTasks
  <2>4. QED BY <2>2, <2>3, <1>c DEF InHand
<1>12. CASE UNCHANGED vars
  BY <1>12 DEF vars, loop, kernel
<1>13. QED BY <1>1, <1>2, <1>3, <1>4, <1>5, <1>6, <1>7, <1>8, <1>9, <1>10, <1>11, <1>12
     DEF Next, LoopStep, KernelStep

-----------------------------------------------------------------------------
(* Who announces a task is stopped or was killed since. *)
LEMMA Announcer ==
    ASSUME IInv, NEW q \in Pids, NEW n \in Pids, Announces(q, n)
    PROVE  task[q] \notin {"kernel", "absent"}
BY DEF IInv, Announces, Unread, Handling, InHand, Stopped, StopKinds

(* A step that leaves the directories alone, and enters no call and leaves *)
(* none as far as chdir is concerned, disturbs nothing.                    *)
LEMMA Quiet ==
    ASSUME Inherited, Listed, opts' => opts,
           UNCHANGED <<process_cwds, kcwd, group, early, drifted>>,
           processes' \subseteq processes,
           \A q, n \in Pids : Announces(q, n)' => Announces(q, n),
           \A p \in Pids :
              /\ call'[p] \notin Dirs => call[p] \notin Dirs
              /\ call'[p] \in Dirs /\ Dispatched(p)' => Dispatched(p) /\ call'[p] = call[p]
              /\ call'[p] \in Dirs /\ task'[p] = "exit" => task[p] = "exit" /\ call'[p] = call[p]
    PROVE  Inherited' /\ Listed'
<1> USE DEF InheritedBy, ListedOf
<1>1. Inherited'
  <2> SUFFICES ASSUME opts', NEW q \in Pids, NEW n \in Pids, Announces(q, n)'
               PROVE  InheritedBy(q, n)'
    BY DEF Inherited
  <2>1. QED BY DEF Inherited
<1>2. Listed'
  <2> SUFFICES ASSUME opts', NEW p \in processes' \cap Pids
               PROVE  ListedOf(p)'
    BY DEF Listed
  <2>1. QED BY DEF Listed, GetCwd
<1>3. QED BY <1>1, <1>2

(* A step that makes no task makes no announcement. *)
LEMMA AnnouncesKept ==
    ASSUME IInv, [Next]_vars, UNCHANGED next_pid, NEW q \in Pids, NEW n \in Pids, Announces(q, n)'
    PROVE  Announces(q, n)
<1>1. ~ KClone(q)
  <2>1. next_pid \in Nat
    BY Consts DEF IInv, TypeOK, AnyPid
  <2>2. QED BY <2>1 DEF KClone
<1>2. QED BY <1>1, AnnouncesStep

(* The steps that move no directory. *)
LEMMA QuietSteps ==
    ASSUME IInv, CInv, NEW r \in Pids,
           \/ SpawnWait \/ Check \/ Wait \/ (HandleStop /\ ~ Dispatch) \/ Startup
           \/ EnterSyscall(r) \/ KOther(r) \/ KExit(r) \/ Signal(r) \/ Kill(r)
           \/ KillAll \/ UNCHANGED vars
    PROVE  Inherited' /\ Listed'
<1> USE Consts DEF IInv
<1>1. [Next]_vars
  BY DEF Next, LoopStep, KernelStep
<1>2. UNCHANGED <<process_cwds, kcwd, group, early, drifted, opts, next_pid>>
          /\ processes' \subseteq processes
  BY DEF SpawnWait, Check, Wait, HandleStop, ReadEvent, OtherStop, Startup, EnterSyscall,
     KOther, KExit, Signal, Kill, KillAll, vars, tables, kernel, history
<1>3. \A q, n \in Pids : Announces(q, n)' => Announces(q, n)
  BY <1>1, <1>2, AnnouncesKept
<1>4. SUFFICES ASSUME opts
               PROVE  Inherited' /\ Listed'
  BY <1>2 DEF Inherited, Listed
<1>h. pc \in InHand => cur \in Pids /\ (Stopped(cur) \/ task[cur] = "dead")
  BY DEF TypeOK, Handling, InHand
<1> DEFINE Calm(p) ==
      /\ call'[p] \notin Dirs => call[p] \notin Dirs
      /\ call'[p] \in Dirs /\ Dispatched(p)' => Dispatched(p) /\ call'[p] = call[p]
      /\ call'[p] \in Dirs /\ task'[p] = "exit" => task[p] = "exit" /\ call'[p] = call[p]
<1>5. ASSUME NEW p \in Pids PROVE Calm(p)
  <2>1. CASE SpawnWait \/ Wait
    <3>1. UNCHANGED call /\ task'[p] \in {task[p], "reaped"} /\ pc' # "resume"
      BY <2>1 DEF SpawnWait, Wait, WaitNone, WaitStop, WaitDeath, TypeOK
    <3>2. QED BY <3>1 DEF Dispatched
  <2>2. CASE Check
    BY <2>2 DEF Check, kernel, Dispatched
  <2>3. CASE HandleStop /\ ~ Dispatch
    <3>1. UNCHANGED <<call, task, cur>> /\ pc = "stop"
      BY <2>3 DEF HandleStop, ReadEvent, OtherStop, kernel
    <3>2. ~ (pc' = "resume" /\ task[cur] = "entry")
      BY <2>3, <1>4 DEF HandleStop, ReadEvent, OtherStop, CInv, NoChdir
    <3>3. QED BY <3>1, <3>2 DEF Dispatched
  <2>4. CASE Startup
    <3>1. UNCHANGED <<call, cur, pc>> /\ (task'[p] = task[p] \/ task'[p] \in {"sigstop", "dead"})
      BY <2>4 DEF Startup, StopAt, TypeOK, loop
    <3>2. QED BY <3>1 DEF Dispatched
  <2>5. CASE EnterSyscall(r)
    <3>1. UNCHANGED <<cur, pc>> /\ task[r] = "user" /\ task'[r] = "entry"
      BY <2>5 DEF EnterSyscall, StopAt, TypeOK, loop
    <3>2. p # r => task'[p] = task[p] /\ call'[p] = call[p]
      BY <2>5 DEF EnterSyscall, StopAt, TypeOK
    <3>3. ~ (pc = "resume" /\ cur = r) /\ call[r] \notin Dirs
      BY <3>1, <1>h DEF InHand, Stopped, StopKinds, CInv, NoChdir
    <3>4. QED BY <3>1, <3>2, <3>3 DEF Dispatched
  <2>6. CASE KOther(r) \/ Signal(r)
    <3>1. UNCHANGED <<cur, pc, call>> /\ (task'[p] = task[p] \/ task'[p] \in {"exit", "signal"})
      BY <2>6 DEF KOther, Signal, StopAt, TypeOK, loop
    <3>2. task'[p] = "exit" => task[p] = "exit" \/ call[p] \notin Dirs
      BY <2>6, CallAssumption DEF KOther, Signal, StopAt, TypeOK
    <3>3. QED BY <3>1, <3>2 DEF Dispatched
  <2>7. CASE KExit(r) \/ Kill(r) \/ KillAll
    <3>1. PICK V \in SUBSET {q \in Pids : Alive(q)} : Die(V)
      BY <2>7, Deaths
    <3>2. UNCHANGED <<cur, pc, call>>
      BY <2>7, Deaths
    <3>3. task'[p] = task[p] \/ task'[p] \in {"exiting", "dead", "reaped"}
      BY <3>1, DieTasks
    <3>4. QED BY <3>2, <3>3 DEF Dispatched
  <2>8. CASE UNCHANGED vars
    BY <2>8 DEF vars, loop, kernel, Dispatched
  <2>9. QED BY <2>1, <2>2, <2>3, <2>4, <2>5, <2>6, <2>7, <2>8
<1>6. QED BY <1>2, <1>3, <1>5, Quiet DEF CInv

(* Before the loop there is nobody to announce, and the guest is where the *)
(* engine was.                                                             *)
LEMMA SpawnKeeps ==
    ASSUME IInv, CInv, GuestFork \/ SpawnOptions \/ SpawnAdd
    PROVE  Inherited' /\ Listed'
<1> USE Consts DEF IInv, CInv, InheritedBy, ListedOf
<1>1. [Next]_vars /\ UNCHANGED <<process_cwds, kcwd, group>>
  BY DEF Next, LoopStep, GuestFork, SpawnOptions, SpawnAdd, tables, kernel
<1>2. \A q, n \in Pids : ~ Announces(q, n)
  <2>1. pc \in {"fork"} \cup SpawnPcs /\ pc # "register"
    BY DEF GuestFork, SpawnOptions, SpawnAdd, SpawnPcs
  <2>2. \A q \in Pids : task[q] # "newchild"
    BY <2>1 DEF Ordered, Spawning, Pids
  <2>3. QED BY <2>1, <2>2 DEF Announces, Unread
<1>3. \A q, n \in Pids : ~ Announces(q, n)'
  BY <1>1, <1>2, AnnouncesStep DEF GuestFork, SpawnOptions, SpawnAdd, KClone, loop, Ordered, Spawning, SpawnPcs, Pids
<1>4. Inherited'
  BY <1>3 DEF Inherited
<1>5. CASE GuestFork \/ SpawnOptions
  <2>1. processes' = {}
    BY <1>5 DEF GuestFork, SpawnOptions, Unlisted, SpawnPcs, tables
  <2>2. QED BY <1>4, <2>1 DEF Listed
<1>6. CASE SpawnAdd
  <2>1. processes' = {Root} /\ UNCHANGED <<kernel, drifted, early>> /\ pc' = "check"
    BY <1>6 DEF SpawnAdd, AddProcess, Unlisted, SpawnPcs, history
  <2>2. task[Root] \in {"absent", "starting", "sigstop", "exiting", "dead", "reaped"}
    BY <1>6 DEF SpawnAdd, Spawning, SpawnPcs
  <2>3. GetCwd(Root)' = RootDir /\ kcwd[group[Root]] = HostDir
    BY <1>1, <1>6 DEF SpawnAdd, Unlisted, SpawnPcs, GetCwd
  <2>4. HostDir = RootDir \/ Root \in drifted
    BY <1>6 DEF SpawnAdd, Unlisted, SpawnPcs
  <2>5. Listed'
    BY <1>1, <2>1, <2>2, <2>3, <2>4 DEF Listed, Dispatched, kernel
  <2>6. QED BY <1>4, <2>5
<1>7. QED BY <1>5, <1>6

(* The entry of a task that has gone is dropped with the task. *)
LEMMA RemoveKeeps ==
    ASSUME IInv, CInv, Remove
    PROVE  Inherited' /\ Listed'
<1> USE Consts DEF IInv, CInv, InheritedBy, ListedOf
<1>1. UNCHANGED <<kernel, history, cur>> /\ pc' = "check" /\ pc = "remove" /\ cur \in Pids
  BY DEF Remove, TypeOK
<1>2. \A q, n \in Pids : Announces(q, n)' => Announces(q, n)
  BY <1>1, AnnouncesKept DEF kernel, Next, LoopStep
<1>3. \A p \in Pids : Dispatched(p)' => Dispatched(p)
  BY <1>1 DEF Dispatched, kernel
<1>4. processes' = processes \ {cur}
          /\ \A p \in Pids \ {cur} : process_cwds'[p] = process_cwds[p]
  BY DEF Remove, RemoveProcess, RemoveCwd, TypeOK
<1>5. Inherited'
  <2> SUFFICES ASSUME opts', NEW q \in Pids, NEW n \in Pids, Announces(q, n)'
               PROVE  InheritedBy(q, n)'
    BY DEF Inherited
  <2>1. QED BY <1>1, <1>2, <1>3 DEF Inherited, kernel, history
<1>6. Listed'
  <2> SUFFICES ASSUME opts', NEW p \in processes' \cap Pids
               PROVE  ListedOf(p)'
    BY DEF Listed
  <2>1. p \in processes \cap Pids /\ process_cwds'[p] = process_cwds[p]
    BY <1>4
  <2>2. QED BY <1>1, <1>3, <2>1 DEF Listed, kernel, history, GetCwd
<1>7. QED BY <1>5, <1>6

(* At the entry of a chdir the table takes the new directory; the task     *)
(* counts as early unless it is registered.                                *)
LEMMA DispatchKeeps ==
    ASSUME IInv, CInv, HandleStop, Dispatch
    PROVE  Inherited' /\ Listed'
<1> USE Consts DEF IInv, CInv, InheritedBy, ListedOf
<1>1. UNCHANGED <<kernel, processes, drifted, cur>> /\ pc' = "resume" /\ pc = "stop"
          /\ cur \in Pids
  BY DEF HandleStop, Dispatch, TypeOK
<1>2. \A q, n \in Pids : Announces(q, n)' => Announces(q, n)
  BY <1>1, AnnouncesKept DEF kernel, Next, LoopStep
<1>3. \A p \in Pids \ {cur} :
          /\ Dispatched(p)' => Dispatched(p)
          /\ process_cwds'[p] = process_cwds[p]
          /\ p \in early' <=> p \in early
  BY <1>1 DEF Dispatched, Dispatch, SetCwd, TypeOK, kernel
<1>4. process_cwds'[cur] = process_cwds[cur] \/ (call[cur] \in Dirs /\ process_cwds'[cur] = call[cur])
  BY <1>1 DEF Dispatch, SetCwd, TypeOK
<1>5. call[cur] \notin Dirs => process_cwds'[cur] = process_cwds[cur]
  BY <1>1 DEF Dispatch
<1>6. ASSUME NEW p \in Pids, p = cur, call[p] \in Dirs, Dispatched(p)'
      PROVE  process_cwds'[p] = call[p] /\ (p \notin processes => p \in early')
  <2>1. Stopped(cur) \/ task[cur] = "dead"
    BY <1>1 DEF Handling, InHand
  <2>2. task[cur] = "entry"
    BY <1>1, <1>6, <2>1 DEF Dispatched, kernel, Stopped, StopKinds
  <2>3. status = "entry" /\ Stopped(cur)
    BY <1>1, <2>2 DEF NoChdir, Stopped, StopKinds
  <2>4. process_cwds' = [process_cwds EXCEPT ![cur] = call[cur]]
    BY <1>6, <2>3 DEF Dispatch, SetCwd
  <2>5. cur \notin processes => early' = early \cup {cur}
    BY <1>6, <2>3 DEF Dispatch
  <2>6. QED BY <1>1, <1>6, <2>4, <2>5 DEF TypeOK
<1>7. Inherited'
  <2> SUFFICES ASSUME opts', NEW q \in Pids, NEW n \in Pids, Announces(q, n)'
               PROVE  InheritedBy(q, n)'
    BY DEF Inherited
  <2>1. n \notin processes
    BY <1>2 DEF Once
  <2>2. call[n] \in Dirs /\ Dispatched(n)' => n \in early'
    <3>1. CASE n = cur
      BY <1>6, <2>1, <3>1
    <3>2. CASE n # cur
      BY <1>1, <1>2, <1>3, <3>2 DEF Inherited, kernel
    <3>3. QED BY <3>1, <3>2
  <2>3. QED BY <1>1, <1>2, <2>2 DEF Inherited, kernel
<1>8. Listed'
  <2> SUFFICES ASSUME opts', NEW p \in processes' \cap Pids
               PROVE  ListedOf(p)'
    BY DEF Listed
  <2>1. CASE p = cur
    BY <1>1, <1>4, <1>5, <1>6, <2>1 DEF Listed, kernel, GetCwd
  <2>2. CASE p # cur
    BY <1>1, <1>3, <2>2 DEF Listed, kernel, GetCwd
  <2>3. QED BY <2>1, <2>2
<1>9. QED BY <1>7, <1>8

(* A child is entered with its parent's directory, which was the child's   *)
(* too when it was made.                                                   *)
LEMMA RegisterKeeps ==
    ASSUME IInv, CInv, Register
    PROVE  Inherited' /\ Listed'
<1> USE Consts DEF IInv, CInv, InheritedBy, ListedOf
<1>1. UNCHANGED <<kernel, early, cur>> /\ pc' = "resume" /\ pc = "register"
          /\ cur \in Pids /\ new_pid \in AnyPid
  BY DEF Register, TypeOK, history
<1>2. \A q, n \in Pids : Announces(q, n)' => Announces(q, n)
  BY <1>1, AnnouncesKept DEF kernel, Next, LoopStep
<1>3. drifted \subseteq drifted' /\ drifted' \subseteq drifted \cup {new_pid}
          /\ processes' = processes \cup {new_pid}
  BY DEF Register, AddProcess
<1>4. \A p \in Pids : Dispatched(p)' => Dispatched(p)
  BY <1>1 DEF Dispatched, kernel, NoChdir
<1>5. process_cwds'[new_pid] = GetCwd(cur)
          /\ \A p \in Pids \ {new_pid} : process_cwds'[p] = process_cwds[p]
  BY <1>1 DEF Register, SetCwd, TypeOK
<1>6. Inherited'
  <2> SUFFICES ASSUME opts', NEW q \in Pids, NEW n \in Pids, Announces(q, n)'
               PROVE  InheritedBy(q, n)'
    BY DEF Inherited
  <2>1. QED BY <1>1, <1>2, <1>3, <1>4 DEF Inherited, kernel
<1>7. Listed'
  <2> SUFFICES ASSUME opts', NEW p \in processes' \cap Pids
               PROVE  ListedOf(p)'
    BY DEF Listed
  <2>1. CASE p # new_pid
    BY <1>1, <1>3, <1>4, <1>5, <2>1 DEF Listed, kernel, GetCwd
  <2>2. CASE p = new_pid
    <3>1. Announces(cur, p)
      BY <1>1, <2>2 DEF Announces
    <3>2. call[p] \in Dirs => (Dispatched(p) => p \in early) /\ (task[p] = "exit" => p \in drifted)
      BY <1>1, <3>1 DEF Inherited, kernel
    <3>3. ASSUME call[p] \notin Dirs, p \notin drifted'
          PROVE  GetCwd(p)' = kcwd[group[p]]
      <4>1. cur \notin drifted /\ cur \in processes /\ p \notin drifted
        BY <3>3, <1>3, <2>2 DEF Register
      <4>2. call[cur] \notin Dirs
        BY <1>1 DEF NoChdir
      <4>3. GetCwd(cur) = kcwd[group[cur]]
        BY <1>1, <4>1, <4>2 DEF Listed, kernel
      <4>4. kcwd[group[p]] = kcwd[group[cur]]
        BY <1>1, <3>1, <3>3, <4>1 DEF Inherited, kernel
      <4>5. GetCwd(cur) # NoDir
        BY <1>1, GetCwdType, DirAssumption DEF TypeOK
      <4>6. QED BY <1>5, <2>2, <4>3, <4>4, <4>5 DEF GetCwd
    <3>4. QED BY <1>1, <1>3, <1>4, <3>2, <3>3 DEF kernel
  <2>3. QED BY <2>1, <2>2
<1>8. QED BY <1>6, <1>7

(* A chdir that has returned has left the table as the kernel is. *)
LEMMA ResumeKeeps ==
    ASSUME IInv, CInv, Resume
    PROVE  Inherited' /\ Listed'
<1> USE Consts DEF IInv, CInv, InheritedBy, ListedOf
<1>1. UNCHANGED <<tables, history, group, kcwd, opts, next_pid, cur>> /\ pc' = "check"
          /\ pc = "resume" /\ cur \in Pids
  BY DEF Resume, TypeOK
<1>2. \A q, n \in Pids : Announces(q, n)' => Announces(q, n)
  BY <1>1, AnnouncesKept DEF Next, LoopStep
<1>3. \A p \in Pids \ {cur} : task'[p] = task[p] /\ call'[p] = call[p]
  BY DEF Resume, TypeOK
<1>4. /\ task'[cur] = ResumedTo(task[cur])
      /\ call'[cur] = IF task[cur] = "exit" THEN "none" ELSE call[cur]
  BY <1>1 DEF Resume, TypeOK
<1>5. task'[cur] # "exit" /\ task'[cur] # "entry"
  BY <1>4 DEF ResumedTo
<1>6. \A p \in Pids : call'[p] \in Dirs => /\ call'[p] = call[p]
                                           /\ Dispatched(p)' => Dispatched(p)
                                           /\ task'[p] = "exit" => task[p] = "exit"
  <2> SUFFICES ASSUME NEW p \in Pids, call'[p] \in Dirs
               PROVE  /\ call'[p] = call[p]
                      /\ Dispatched(p)' => Dispatched(p)
                      /\ task'[p] = "exit" => task[p] = "exit"
    OBVIOUS
  <2>1. CASE p = cur
    <3>1. call'[p] = call[p] /\ task[p] # "newchild"
      BY <1>4, <2>1 DEF NoChdir
    <3>2. task'[p] = "kernel" => task[p] \in {"kernel", "entry"}
      BY <1>4, <2>1, <3>1 DEF ResumedTo
    <3>3. QED BY <1>1, <1>5, <2>1, <3>1, <3>2 DEF Dispatched
  <2>2. CASE p # cur
    BY <1>1, <1>3, <2>2 DEF Dispatched
  <2>3. QED BY <2>1, <2>2
<1>7. \A p \in Pids : call'[p] \notin Dirs =>
          call[p] \notin Dirs \/ (task[p] = "exit" /\ call[p] \in Dirs)
  BY <1>3, <1>4
<1>8. Inherited'
  <2> SUFFICES ASSUME opts', NEW q \in Pids, NEW n \in Pids, Announces(q, n)'
               PROVE  InheritedBy(q, n)'
    BY DEF Inherited
  <2>1. QED BY <1>1, <1>2, <1>6, <1>7 DEF Inherited, history
<1>9. Listed'
  <2> SUFFICES ASSUME opts', NEW p \in processes' \cap Pids
               PROVE  ListedOf(p)'
    BY DEF Listed
  <2>1. call[p] \notin Dirs => (p \notin drifted => GetCwd(p) = kcwd[group[p]])
    BY <1>1 DEF Listed, tables
  <2>2. call[p] \in Dirs /\ task[p] = "exit" => (p \notin drifted => GetCwd(p) = kcwd[group[p]])
    BY <1>1, DirAssumption DEF Listed, tables, GetCwd
  <2>3. GetCwd(p)' = GetCwd(p)
    BY <1>1 DEF GetCwd, tables
  <2>4. QED BY <1>1, <1>6, <1>7, <2>1, <2>2, <2>3 DEF Listed, tables, history
<1>10. QED BY <1>8, <1>9

(* The kernel moves the group: what was dispatched is now where the table  *)
(* has it, and the others of the group are named.                          *)
LEMMA ChdirKeeps ==
    ASSUME IInv, CInv, NEW r \in Pids, KChdir(r)
    PROVE  Inherited' /\ Listed'
<1> USE Consts DEF IInv, CInv, InheritedBy, ListedOf
<1>1. UNCHANGED <<loop, tables, call, group, eventmsg, opts, next_pid, early>>
          /\ task[r] = "kernel" /\ call[r] \in Dirs
  BY DEF KChdir
<1>2. \A q, n \in Pids : Announces(q, n)' => Announces(q, n)
  BY <1>1, AnnouncesKept DEF Next, KernelStep
<1>3. task'[r] = "exit" /\ \A p \in Pids \ {r} : task'[p] = task[p]
  BY DEF KChdir, StopAt, TypeOK
<1>4. \A p \in Pids : Dispatched(p)' => Dispatched(p)
  BY <1>1, <1>3 DEF Dispatched, loop
<1>5. CASE kcwd' = [kcwd EXCEPT ![group[r]] = call[r]]
           /\ drifted' = (drifted \ ({r} \ early)) \cup ({r} \cap early)
                  \cup {q \in Pids \ {r} : group[q] = group[r] /\ task[q] # "absent"}
  <2>1. \A p \in Pids \ {r} : task[p] # "absent" /\ p \notin drifted' =>
            p \notin drifted /\ kcwd'[group'[p]] = kcwd[group[p]]
    BY <1>1, <1>5 DEF TypeOK
  <2>2. \A p \in Pids \ {r} : p \in drifted => p \in drifted'
    BY <1>5
  <2>3. (r \in drifted' <=> r \in early) /\ kcwd'[group'[r]] = call[r]
    BY <1>1, <1>5 DEF TypeOK
  <2>4. Inherited'
    <3> SUFFICES ASSUME opts', NEW q \in Pids, NEW n \in Pids, Announces(q, n)'
                 PROVE  InheritedBy(q, n)'
      BY DEF Inherited
    <3>1. Announces(q, n) /\ q # r /\ task[q] # "absent" /\ task[n] # "absent"
      BY <1>1, <1>2, Announcer DEF Once
    <3>2. CASE n = r
      <4>1. n \in early
        BY <1>1, <3>1, <3>2 DEF Inherited, Dispatched
      <4>2. QED BY <1>1, <2>3, <3>2, <4>1
    <3>3. CASE n # r
      BY <1>1, <1>3, <1>4, <2>1, <2>2, <3>1, <3>3 DEF Inherited
    <3>4. QED BY <3>2, <3>3
  <2>5. Listed'
    <3> SUFFICES ASSUME opts', NEW p \in processes' \cap Pids
                 PROVE  ListedOf(p)'
      BY DEF Listed
    <3>1. p \in processes \cap Pids /\ task[p] # "absent" /\ GetCwd(p)' = GetCwd(p)
      BY <1>1 DEF tables, Once, GetCwd
    <3>2. CASE p = r
      <4>1. p \notin early => process_cwds[p] = call[p]
        BY <1>1, <3>1, <3>2 DEF Listed, Dispatched
      <4>2. QED BY <1>1, <2>3, <3>2, <4>1 DEF tables
    <3>3. CASE p # r
      BY <1>1, <1>3, <1>4, <2>1, <3>1, <3>3 DEF Listed, tables
    <3>4. QED BY <3>2, <3>3
  <2>6. QED BY <2>4, <2>5
<1>6. CASE drifted' = drifted \cup {r} /\ UNCHANGED kcwd
  <2>1. Inherited'
    <3> SUFFICES ASSUME opts', NEW q \in Pids, NEW n \in Pids, Announces(q, n)'
                 PROVE  InheritedBy(q, n)'
      BY DEF Inherited
    <3>1. QED BY <1>1, <1>2, <1>3, <1>4, <1>6 DEF Inherited
  <2>2. Listed'
    <3> SUFFICES ASSUME opts', NEW p \in processes' \cap Pids
                 PROVE  ListedOf(p)'
      BY DEF Listed
    <3>1. p \in processes \cap Pids /\ GetCwd(p)' = GetCwd(p)
      BY <1>1 DEF tables, GetCwd
    <3>2. QED BY <1>1, <1>3, <1>4, <1>6, <3>1 DEF Listed, tables
  <2>3. QED BY <2>1, <2>2
<1>7. QED BY <1>5, <1>6 DEF KChdir

(* A task starts where the one that made it is. *)
LEMMA CloneKeeps ==
    ASSUME IInv, CInv, NEW r \in Pids, KClone(r)
    PROVE  Inherited' /\ Listed'
<1> USE Consts DEF IInv, CInv, InheritedBy, ListedOf
<1> DEFINE m == next_pid
<1>1. m \in Pids /\ task[m] = "absent" /\ call[m] = "none" /\ m \notin processes
  BY DEF KClone, TypeOK, Ordered, Pids, AnyPid, Fresh, Once
<1>2. UNCHANGED <<loop, tables, opts, history>> /\ task[r] = "kernel" /\ call[r] \in CloneCalls
          /\ r # m
  BY <1>1 DEF KClone
<1>3. SUFFICES ASSUME opts
               PROVE  Inherited' /\ Listed'
  BY <1>2 DEF Inherited, Listed
<1>4. task'[r] = "newchild" /\ call'[r] = "other" /\ task'[m] = "sigstop" /\ call'[m] = "none"
  BY <1>1, <1>2, <1>3 DEF KClone, TypeOK
<1>5. \A p \in Pids \ {r, m} : task'[p] = task[p] /\ call'[p] = call[p]
  BY <1>1, <1>3 DEF KClone, TypeOK
<1>6. \A p \in Pids \ {m} : kcwd'[group'[p]] = kcwd[group[p]]
  <2>1. \A p \in Pids \ {m} : group[p] \in Pids /\ group[p] # m
    BY <1>1 DEF Fresh, TypeOK
  <2>2. \A p \in Pids \ {m} : group'[p] = group[p]
    BY <1>1 DEF KClone, TypeOK
  <2>3. \A p \in Pids \ {m} : kcwd'[p] = kcwd[p]
    BY <1>1 DEF KClone, TypeOK
  <2>4. QED BY <2>1, <2>2, <2>3
<1>7. kcwd'[group'[m]] = kcwd[group[r]]
  <2>1. CASE call[r] = "clone"
    BY <1>1, <2>1 DEF KClone, TypeOK
  <2>2. CASE call[r] # "clone"
    BY <1>1, <2>2 DEF KClone, TypeOK
  <2>3. QED BY <2>1, <2>2
<1>8. call[r] \notin Dirs /\ call'[r] \notin Dirs /\ call'[m] \notin Dirs
  BY <1>2, <1>4, CallAssumption
<1>9. \A p \in Pids : call'[p] \in Dirs => /\ call'[p] = call[p] /\ p \notin {r, m}
                                           /\ Dispatched(p)' => Dispatched(p)
                                           /\ task'[p] = task[p]
  BY <1>2, <1>5, <1>8 DEF Dispatched, loop
<1>10. Inherited'
  <2> SUFFICES ASSUME opts', NEW q \in Pids, NEW n \in Pids, Announces(q, n)'
               PROVE  InheritedBy(q, n)'
    BY DEF Inherited
  <2>1. CASE Announces(q, n)
    <3>1. q # m /\ n # m
      BY <1>1, <2>1, Announcer DEF Once
    <3>2. call'[n] \notin Dirs => call[n] \notin Dirs
      BY <1>5, <1>8, <3>1
    <3>3. QED BY <1>2, <1>3, <1>6, <1>9, <2>1, <3>1, <3>2 DEF Inherited, history
  <2>2. CASE KClone(q) /\ n = m
    <3>1. q = r
      <4>1. task'[q] # task[q]
        BY <1>1, <1>3, <2>2 DEF KClone, TypeOK
      <4>2. q # m
        BY <1>1, <2>2 DEF KClone
      <4>3. QED BY <1>5, <4>1, <4>2
    <3>2. QED BY <1>2, <1>6, <1>7, <1>8, <2>2, <3>1
  <2>3. [Next]_vars
    BY DEF Next, KernelStep
  <2>4. QED BY <2>1, <2>2, <2>3, AnnouncesStep
<1>11. Listed'
  <2> SUFFICES ASSUME opts', NEW p \in processes' \cap Pids
               PROVE  ListedOf(p)'
    BY DEF Listed
  <2>1. p \in processes \cap Pids /\ p # m /\ GetCwd(p)' = GetCwd(p)
    BY <1>1, <1>2 DEF tables, GetCwd
  <2>2. call'[p] \notin Dirs => call[p] \notin Dirs
    BY <1>5, <1>8, <2>1
  <2>3. QED BY <1>2, <1>3, <1>6, <1>9, <2>1, <2>2 DEF Listed, tables, history
<1>12. QED BY <1>10, <1>11

-----------------------------------------------------------------------------
(* The directories as the loop, the kernel and kill_all change them: CInv  *)
(* holds at first and every step keeps it.                                 *)
LEMMA CwdInductive == Spec => []CInv
<1>1. Init => CInv
  <2> SUFFICES ASSUME Init PROVE CInv
    OBVIOUS
  <2>1. \A q, n \in Pids : ~ Announces(q, n)
    BY DEF Init, Announces, Unread
  <2>2. Once /\ Fresh /\ NoChdir
    BY <2>1, Consts DEF Init, Once, Fresh, NoChdir
  <2>3. Unlisted
    BY Consts DEF Init, Unlisted, SpawnPcs
  <2>4. QED BY <2>1, <2>2, <2>3 DEF Init, CInv, Inherited, Listed
<1>2. IInv /\ CInv /\ [Next]_vars => CInv'
  <2> SUFFICES ASSUME IInv, CInv, [Next]_vars PROVE CInv'
    OBVIOUS
  <2>1. Once' /\ Fresh' /\ NoChdir' /\ Unlisted'
    BY OnceStep, FreshStep, NoChdirStep, UnlistedStep DEF CInv
  <2>2. Inherited' /\ Listed'
    BY QuietSteps, SpawnKeeps, RemoveKeeps, DispatchKeeps, RegisterKeeps, ResumeKeeps,
       ChdirKeeps, CloneKeeps, Consts
       DEF Next, LoopStep, KernelStep
  <2>3. QED BY <2>1, <2>2 DEF CInv
<1>3. QED BY <1>1, <1>2, Inductive, PTL DEF Spec

(* The path resolver's directory of a registered task, used to resolve its *)
(* relative paths, is the kernel's whenever the task is not in a chdir,    *)
(* across forks, threads, deaths and any order of the stops, but for the   *)
(* tasks that `drifted' names.                                             *)
THEOREM DirectoriesAgree == Spec => []CwdAgrees
<1>1. CInv => CwdAgrees
  BY DEF CInv, Listed, ListedOf, CwdAgrees
<1>2. QED BY CwdInductive, <1>1, PTL
==============================================================================
