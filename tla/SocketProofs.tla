----------------------------- MODULE SocketProofs -----------------------------
(***************************************************************************)
(* Theorems about SocketService, for any clients, messages and number of   *)
(* starts: its safety invariants, and that it implements ServiceThread.    *)
(***************************************************************************)
EXTENDS SocketService, SequenceTheorems, TLAPS

USE KindAssumption, StartAssumption

(* The inductive invariant.  The flag is set exactly between the start of  *)
(* the thread and the stop.                                                *)
Flag == running <=> opc = "up" /\ wpc # "none"

(* The socket lives as long as its descriptor, a copy of it or a call of   *)
(* accept, and has no backlog without.  Copies are of this object's socket. *)
SocketAlive ==
    /\ fd_open => /\ opc \in {"start_listen", "start_thread", "up", "stop_close"}
                  /\ server_fd = "fd"
    /\ listening => fd_open \/ wpc = "accept" \/ inherited
    /\ inherited => opc \notin {"idle", "start_bind"}
    /\ backlog # <<>> => listening
    /\ opc = "start_listen" => fd_open

(* Who waits is in the backlog, or is served, or was left by a stop.       *)
Accounted ==
    \A c \in Clients :
        client[c] = "waiting" => \/ c \in ToSet(backlog) \/ c \in orphans
                                 \/ wpc \in Serving /\ c = served

(* The property is that of the last client answered, or of the one to be   *)
(* answered now.                                                           *)
Latest ==
    /\ wpc \in Serving => served \in Clients
    /\ wpc \in {"set", "reply", "close"} => sent[served] # Nothing
    /\ wpc = "set" => sent[served] \in Setting
    /\ IF wpc = "reply" /\ sent[served] \in Setting THEN property = served
       ELSE answers # <<>> => property = Last(answers)

Sequences == backlog \in Seq(Clients) /\ answers \in Seq(Clients)

IInv == TypeOK /\ Sequences /\ Flag /\ SocketAlive /\ Accounted /\ Latest

-----------------------------------------------------------------------------
(* The elements of a sequence, after a step of the queue.                  *)
LEMMA Elements ==
    ASSUME NEW S, NEW s \in Seq(S), NEW e \in S
    PROVE  /\ ToSet(s) \subseteq S
           /\ ToSet(Append(s, e)) = ToSet(s) \cup {e}
           /\ Last(Append(s, e)) = e
           /\ s # <<>> => /\ Head(s) \in S /\ Tail(s) \in Seq(S)
                          /\ ToSet(s) = {Head(s)} \cup ToSet(Tail(s))
<1> USE DEF ToSet
<1>1. ToSet(s) \subseteq S
      OBVIOUS
<1>2. ToSet(Append(s, e)) = ToSet(s) \cup {e}
  <2>1. /\ DOMAIN s = 1 .. Len(s) /\ DOMAIN Append(s, e) = 1 .. Len(s) + 1
        /\ Len(s) \in Nat /\ Append(s, e)[Len(s) + 1] = e
        /\ \A i \in 1 .. Len(s) : Append(s, e)[i] = s[i]
        OBVIOUS
  <2> QED
      BY <2>1
<1>3. Last(Append(s, e)) = e
      BY DEF Last
<1>4. ASSUME s # <<>>
      PROVE  /\ Head(s) \in S /\ Tail(s) \in Seq(S)
             /\ ToSet(s) = {Head(s)} \cup ToSet(Tail(s))
  <2>1. /\ Head(s) \in S /\ Tail(s) \in Seq(S) /\ Len(Tail(s)) = Len(s) - 1
        /\ \A i \in 1 .. Len(Tail(s)) : Tail(s)[i] = s[i + 1]
        BY <1>4, HeadTailProperties
  <2>2. Head(s) = s[1] /\ Len(s) \in Nat /\ Len(s) > 0
        BY <1>4
  <2>3. DOMAIN s = 1 .. Len(s) /\ DOMAIN Tail(s) = 1 .. Len(s) - 1
        BY <2>1
  <2>4. \A i \in 1 .. Len(s) : i = 1 \/ (i - 1 \in 1 .. Len(s) - 1 /\ s[i] = Tail(s)[i - 1])
        BY <2>1, <2>2
  <2>5. ToSet(s) \subseteq {Head(s)} \cup ToSet(Tail(s))
        BY <2>2, <2>3, <2>4
  <2>6. {Head(s)} \cup ToSet(Tail(s)) \subseteq ToSet(s)
        BY <2>1, <2>2, <2>3
  <2> QED
      BY <2>1, <2>5, <2>6
<1> QED
    BY <1>1, <1>2, <1>3, <1>4

(* What holds of the sequences of clients. *)
LEMMA InClients ==
    <<>> \in Seq(Clients) /\ \A s \in Seq(Clients) : ToSet(s) \subseteq Clients
BY DEF ToSet

-----------------------------------------------------------------------------
(* Every step keeps the flag and the types of what the two threads are at. *)
LEMMA TypesKept ==
    ASSUME IInv, [Next]_vars
    PROVE  TypeOK' /\ Sequences' /\ Flag'
<1> USE DEF IInv, owner, worker, socket, copies, clients, data, Reset, Stopping, Serving
<1>1. CASE OwnerStarts
  <2>1. CASE StartUnlink
        BY <2>1 DEF StartUnlink, TypeOK, Sequences, Flag
  <2>2. CASE StartFails
        BY <2>2 DEF StartFails, TypeOK, Sequences, Flag
  <2>3. CASE StartBind
        BY <2>3 DEF StartBind, TypeOK, Sequences, Flag
  <2>4. CASE StartListen
        BY <2>4 DEF StartListen, TypeOK, Sequences, Flag
  <2>5. CASE StartThread
        BY <2>5 DEF StartThread, TypeOK, Sequences, Flag
  <2> QED
      BY <1>1, <2>1, <2>2, <2>3, <2>4, <2>5 DEF OwnerStarts
<1>2. CASE StopFlag
  <2>1. UNCHANGED <<inherited, orphans, backlog, answers>>
        BY <1>2 DEF StopFlag
  <2>2. inherited' \in BOOLEAN /\ running' \in BOOLEAN
        BY <1>2, <2>1 DEF StopFlag, TypeOK
  <2>3. TypeOK'
        BY <1>2, <2>1, <2>2 DEF StopFlag, TypeOK
  <2> QED
      BY <1>2, <2>1, <2>3 DEF StopFlag, Sequences, Flag
<1>3. CASE OwnerStops
  <2>1. client' \in [Clients -> {"idle", "waiting", "answered", "closed", "refused"}]
        BY <1>3 DEF OwnerStops, StopClose, StopForget, StopUnlink, StopJoin, TypeOK
  <2>2. /\ backlog' = backlog \/ backlog' = <<>>
        /\ answers' = answers \/ answers' = <<>>
        BY <1>3 DEF OwnerStops, StopClose, StopForget, StopUnlink, StopJoin, Abandon
  <2>3. /\ backlog' \in Seq(Clients) /\ ToSet(backlog') \subseteq Clients
        /\ answers' \in Seq(Clients)
        BY <2>2, InClients DEF Sequences
  <2>4. TypeOK'
    <3>1. CASE StopClose
      <4>1. inherited' \in BOOLEAN /\ listening' \in BOOLEAN /\ fd_open' \in BOOLEAN
            BY <3>1 DEF StopClose, TypeOK
      <4> QED
          BY <2>1, <2>3, <3>1, <4>1 DEF StopClose, TypeOK
    <3>2. CASE StopForget \/ StopUnlink
          BY <2>1, <2>3, <3>2 DEF StopForget, StopUnlink, TypeOK
    <3>3. CASE StopJoin
      <4>1. orphans' \subseteq Clients /\ inherited' \in BOOLEAN /\ listening' \in BOOLEAN
            BY <3>3 DEF StopJoin, Abandon, TypeOK
      <4> QED
          BY <2>1, <2>3, <3>3, <4>1 DEF StopJoin, TypeOK
    <3> QED
        BY <1>3, <3>1, <3>2, <3>3 DEF OwnerStops
  <2>5. Flag'
        BY <1>3 DEF OwnerStops, StopClose, StopForget, StopUnlink, StopJoin, Flag
  <2> QED
      BY <2>3, <2>4, <2>5 DEF Sequences
<1>4. CASE LoopCheck \/ LoopLoad \/ LoopAccept \/ Read
      BY <1>4 DEF LoopCheck, LoopLoad, LoopAccept, Read, TypeOK, Sequences, Flag
<1>5. CASE Accept
  <2>1. /\ backlog # <<>> /\ wpc = "accept" /\ wpc' = "read" /\ served' = Head(backlog)
        /\ backlog' = Tail(backlog) \/ backlog' = <<>>
        BY <1>5 DEF Accept
  <2>2. PICK c \in Clients : TRUE
        BY <2>1 DEF Sequences
  <2>3. Head(backlog) \in Clients /\ Tail(backlog) \in Seq(Clients)
        BY <2>1, <2>2, Elements DEF Sequences
  <2>4. backlog' \in Seq(Clients) /\ answers' = answers
        BY <1>5, <2>1, <2>3, InClients DEF Accept
  <2>5. Sequences' /\ ToSet(backlog') \subseteq Clients
        BY <2>4, InClients DEF Sequences
  <2>6. client' \in [Clients -> {"idle", "waiting", "answered", "closed", "refused"}]
        BY <1>5 DEF Accept, TypeOK
  <2>7. TypeOK'
        BY <1>5, <2>1, <2>3, <2>5, <2>6 DEF Accept, TypeOK
  <2> QED
      BY <1>5, <2>5, <2>7 DEF Accept, Flag
<1>6. CASE SetProperty \/ Close
      BY <1>6 DEF SetProperty, Close, TypeOK, Sequences, Flag, Latest
<1>7. CASE Reply
  <2>1. served \in Clients
        BY <1>7 DEF Reply, Latest
  <2>2. Sequences'
        BY <1>7, <2>1 DEF Reply, Sequences
  <2>3. TypeOK' /\ Flag'
        BY <1>7, <2>1 DEF Reply, TypeOK, Flag
  <2> QED
      BY <2>2, <2>3
<1>8. ASSUME NEW c \in Clients, Connect(c) \/ Send(c)
      PROVE  TypeOK' /\ Sequences' /\ Flag'
  <2>1. backlog' = backlog \/ backlog' = Append(backlog, c)
        BY <1>8 DEF Connect, Send
  <2>2. Sequences' /\ ToSet(backlog') \subseteq Clients
    <3>1. backlog' \in Seq(Clients)
          BY <2>1 DEF Sequences
    <3> QED
        BY <1>8, <3>1, InClients DEF Connect, Send, Sequences
  <2>3. TypeOK'
        BY <1>8, <2>2 DEF Connect, Send, TypeOK
  <2> QED
      BY <1>8, <2>2, <2>3 DEF Connect, Send, Flag
<1>9. CASE UNCHANGED vars
      BY <1>9 DEF vars, TypeOK, Sequences, Flag
<1>10. CASE Fork \/ LastCopyGone \/ OldCopiesGone
  <2>1. backlog' = backlog \/ backlog' = <<>>
        BY <1>10 DEF Fork, LastCopyGone, OldCopiesGone
  <2>2. Sequences' /\ ToSet(backlog') \subseteq Clients
    <3>1. backlog' \in Seq(Clients)
          BY <2>1, InClients DEF Sequences
    <3> QED
        BY <1>10, <3>1, InClients DEF Fork, LastCopyGone, OldCopiesGone, Sequences
  <2>3. /\ inherited' \in BOOLEAN /\ listening' \in BOOLEAN /\ orphans' \subseteq Clients
        /\ client' \in [Clients -> {"idle", "waiting", "answered", "closed", "refused"}]
        BY <1>10 DEF Fork, LastCopyGone, OldCopiesGone, TypeOK
  <2>4. TypeOK'
        BY <1>10, <2>2, <2>3 DEF Fork, LastCopyGone, OldCopiesGone, TypeOK
  <2> QED
      BY <1>10, <2>2, <2>4 DEF Fork, LastCopyGone, OldCopiesGone, Flag
<1> QED
    BY <1>1, <1>2, <1>3, <1>4, <1>5, <1>6, <1>7, <1>8, <1>9, <1>10 DEF Next, WorkerStep

(* Every step keeps the socket alive as long as somebody is connected      *)
(* through it.                                                             *)
LEMMA SocketKept ==
    ASSUME IInv, [Next]_vars
    PROVE  SocketAlive'
<1> USE DEF IInv, owner, worker, socket, copies, clients, data, Reset, SocketAlive
<1>1. CASE OwnerStarts
  <2>1. wpc # "accept"
        BY <1>1 DEF OwnerStarts, StartUnlink, StartFails, StartBind, StartListen,
           StartThread, TypeOK, Stopping
  <2>2. CASE StartUnlink \/ StartFails \/ StartBind
        BY <2>2 DEF StartUnlink, StartFails, StartBind
  <2>3. CASE StartListen
    <3>1. fd_open
          BY <2>3 DEF StartListen
    <3> QED
        BY <2>3, <3>1 DEF StartListen
  <2>4. CASE StartThread
        BY <2>1, <2>4 DEF StartThread
  <2> QED
      BY <1>1, <2>2, <2>3, <2>4 DEF OwnerStarts
<1>2. CASE StopFlag
      BY <1>2 DEF StopFlag
<1>3. CASE OwnerStops
      BY <1>3 DEF OwnerStops, StopClose, StopForget, StopUnlink, StopJoin, Abandon
<1>4. CASE WorkerStep
      BY <1>4 DEF WorkerStep, LoopCheck, LoopLoad, LoopAccept, Accept, Read, SetProperty,
         Reply, Close
<1>5. ASSUME NEW c \in Clients, Connect(c) \/ Send(c)
      PROVE  SocketAlive'
      BY <1>5 DEF Connect, Send
<1>6. CASE UNCHANGED vars
      BY <1>6 DEF vars
<1>7. CASE Fork \/ LastCopyGone \/ OldCopiesGone
      BY <1>7 DEF Fork, LastCopyGone, OldCopiesGone
<1> QED
    BY <1>1, <1>2, <1>3, <1>4, <1>5, <1>6, <1>7 DEF Next

(* Every step keeps account of the clients that wait: who is accepted is   *)
(* served, who is served is answered or closed, and a socket that goes     *)
(* closes its backlog.                                                     *)
LEMMA AccountKept ==
    ASSUME IInv, [Next]_vars
    PROVE  Accounted'
<1> USE DEF IInv, owner, worker, socket, copies, clients, data, Serving
<1>1. CASE OwnerStarts \/ StopFlag
      BY <1>1 DEF OwnerStarts, StartUnlink, StartFails, StartBind, StartListen, StartThread,
         StopFlag, TypeOK, Accounted, Stopping
<1>2. CASE OwnerStops
  <2>1. CASE StopClose /\ wpc # "accept" /\ ~ inherited
        BY <2>1 DEF StopClose, Reset, Accounted, TypeOK
  <2>2. CASE StopClose /\ (wpc = "accept" \/ inherited)
        BY <2>2 DEF StopClose, Accounted
  <2>3. CASE StopForget \/ StopUnlink
        BY <2>3 DEF StopForget, StopUnlink, Accounted
  <2>4. CASE StopJoin
        BY <2>4 DEF StopJoin, Abandon, Accounted
  <2> QED
      BY <1>2, <2>1, <2>2, <2>3, <2>4 DEF OwnerStops
<1>3. CASE LoopCheck \/ LoopLoad \/ LoopAccept \/ Read \/ SetProperty
      BY <1>3 DEF LoopCheck, LoopLoad, LoopAccept, Read, SetProperty, Accounted
<1>4. CASE Accept
  <2>1. ASSUME NEW c \in Clients, client'[c] = "waiting"
        PROVE  c \in ToSet(backlog') \/ c \in orphans' \/ c = served'
    <3>1. ToSet(backlog) = {Head(backlog)} \cup ToSet(Tail(backlog))
          BY <1>4, Elements DEF Accept, Sequences
    <3>2. client[c] = "waiting"
          BY <1>4, <2>1 DEF Accept, TypeOK
    <3>3. c = Head(backlog) \/ c \in ToSet(Tail(backlog)) \/ c \in orphans
          BY <1>4, <3>1, <3>2 DEF Accept, Accounted
    <3> QED
        BY <1>4, <2>1, <3>3 DEF Accept, TypeOK
  <2> QED
      BY <1>4, <2>1 DEF Accept, Accounted
<1>5. CASE Reply \/ Close
      BY <1>5 DEF Reply, Close, Accounted, TypeOK
<1>6. ASSUME NEW c \in Clients, Connect(c)
      PROVE  Accounted'
  <2>1. ToSet(Append(backlog, c)) = ToSet(backlog) \cup {c}
        BY Elements DEF Sequences
  <2> QED
      BY <1>6, <2>1 DEF Connect, Accounted, TypeOK
<1>7. ASSUME NEW c \in Clients, Send(c)
      PROVE  Accounted'
      BY <1>7 DEF Send, Accounted
<1>8. CASE UNCHANGED vars
      BY <1>8 DEF vars, Accounted
<1>9. CASE Fork \/ LastCopyGone \/ OldCopiesGone
      BY <1>9 DEF Fork, LastCopyGone, OldCopiesGone, Reset, Accounted, TypeOK
<1> QED
    BY <1>1, <1>2, <1>3, <1>4, <1>5, <1>6, <1>7, <1>8, <1>9 DEF Next, WorkerStep

(* Every step keeps the property that of the last answer: what a client    *)
(* has sent does not change while it is served.                            *)
LEMMA LatestKept ==
    ASSUME IInv, [Next]_vars
    PROVE  Latest'
<1> USE DEF IInv, owner, worker, socket, copies, clients, data, Serving
<1>1. CASE OwnerStarts \/ StopFlag
      BY <1>1 DEF OwnerStarts, StartUnlink, StartFails, StartBind, StartListen, StartThread,
         StopFlag, TypeOK, Latest, Stopping
<1>2. CASE OwnerStops
      BY <1>2 DEF OwnerStops, StopClose, StopForget, StopUnlink, StopJoin, Latest
<1>3. CASE LoopCheck \/ LoopLoad \/ LoopAccept
      BY <1>3 DEF LoopCheck, LoopLoad, LoopAccept, Latest
<1>4. CASE Accept
  <2>1. Head(backlog) \in Clients
        BY <1>4, HeadTailProperties DEF Accept, Sequences
  <2> QED
      BY <1>4, <2>1 DEF Accept, Latest
<1>5. CASE Read
      BY <1>5 DEF Read, Latest
<1>6. CASE SetProperty
      BY <1>6 DEF SetProperty, Latest
<1>7. CASE Reply
  <2>1. served \in Clients
        BY <1>7 DEF Reply, Latest
  <2>2. CASE sent[served] \in Setting
    <3>1. Last(answers') = served
          BY <1>7, <2>1, <2>2, Elements DEF Reply, Sequences
    <3> QED
        BY <1>7, <2>1, <2>2, <3>1 DEF Reply, Latest
  <2>3. CASE sent[served] \notin Setting
        BY <1>7, <2>1, <2>3 DEF Reply, Latest
  <2> QED
      BY <2>2, <2>3
<1>8. CASE Close
      BY <1>8 DEF Close, Latest
<1>9. ASSUME NEW c \in Clients, Connect(c) \/ Send(c)
      PROVE  Latest'
  <2>1. wpc \in {"set", "reply", "close"} => sent'[served] = sent[served]
        BY <1>9 DEF Connect, Send, Latest, TypeOK
  <2> QED
      BY <1>9, <2>1 DEF Connect, Send, Latest
<1>10. CASE UNCHANGED vars
      BY <1>10 DEF vars, Latest
<1>11. CASE Fork \/ LastCopyGone \/ OldCopiesGone
      BY <1>11 DEF Fork, LastCopyGone, OldCopiesGone, Latest
<1> QED
    BY <1>1, <1>2, <1>3, <1>4, <1>5, <1>6, <1>7, <1>8, <1>9, <1>10, <1>11
       DEF Next, WorkerStep

(* Nothing is open, connected or answered at first.                        *)
LEMMA Initially == Init => IInv
<1> SUFFICES ASSUME Init PROVE IInv
    OBVIOUS
<1> USE DEF Init
<1>1. TypeOK /\ Sequences
  <2>1. ToSet(backlog) \subseteq Clients /\ Sequences
        BY InClients DEF Sequences
  <2>2. /\ running \in BOOLEAN /\ fd_open \in BOOLEAN /\ listening \in BOOLEAN
        /\ inherited \in BOOLEAN
        OBVIOUS
  <2> QED
      BY <2>1, <2>2 DEF TypeOK
<1>2. Flag /\ SocketAlive
      BY DEF Flag, SocketAlive
<1>3. Accounted /\ Latest
      BY DEF Accounted, Latest, Serving
<1> QED
    BY <1>1, <1>2, <1>3 DEF IInv

(* So the invariant always holds. *)
LEMMA Invariant == Spec => []IInv
<1>1. IInv /\ [Next]_vars => IInv'
      BY TypesKept, SocketKept, AccountKept, LatestKept DEF IInv
<1> QED
    BY Initially, <1>1, PTL DEF Spec

(* The variables have their types, and there is a worker only between the  *)
(* start and the join.                                                     *)
THEOREM ServiceTypes == Spec => []TypeOK
<1>1. IInv => TypeOK
      BY DEF IInv
<1> QED
    BY Invariant, <1>1, PTL

(* The map has the value of the last client that was told so, however many *)
(* clients there are.                                                      *)
THEOREM OwnWriteRead == Spec => []ReadsOwnWrite
<1>1. IInv => ReadsOwnWrite
      BY DEF IInv, Latest, ReadsOwnWrite
<1> QED
    BY Invariant, <1>1, PTL

(* Once the service is stopped no client waits at a socket that the engine *)
(* had to itself, whoever connects while it stops and whoever has a copy   *)
(* of the descriptor when: such a socket is gone, and its backlog with it. *)
THEOREM NobodyIsLeft == Spec => []NobodyLeftWaiting
<1>1. IInv => NobodyLeftWaiting
  <2> SUFFICES ASSUME IInv, opc = "idle", NEW c \in Clients, client[c] = "waiting",
                      wpc \in {"none", "exited"}
               PROVE  Left(c)
      BY DEF NobodyLeftWaiting, Waits
  <2>1. backlog = <<>>
        BY DEF IInv, SocketAlive
  <2>2. c \in ToSet(backlog) \/ c \in orphans
        BY DEF IInv, Accounted, Serving
  <2>3. ToSet(backlog) = {}
        BY <2>1 DEF ToSet
  <2> QED
      BY <2>2, <2>3 DEF Left
<1> QED
    BY Invariant, <1>1, PTL

-----------------------------------------------------------------------------
(* The refinement: what the owner and the worker do is a step of the       *)
(* abstract service, and the rest of it happens unseen.                    *)
LEMMA Implements ==
    ASSUME IInv, [Next]_vars
    PROVE  [Thread!Next]_(Thread!vars)
<1> USE DEF IInv, owner, worker, socket, copies, clients, data, Thread!vars, OwnerPhase, WorkerState,
            Stopping, Serving
<1>1. CASE StartUnlink
      BY <1>1 DEF StartUnlink, TypeOK, Thread!Next, Thread!Begin
<1>2. CASE StartFails
      BY <1>2 DEF StartFails, TypeOK, Thread!Next, Thread!Started
<1>3. CASE StartBind \/ StartListen
      BY <1>3 DEF StartBind, StartListen, TypeOK
<1>4. CASE StartThread
      BY <1>4 DEF StartThread, TypeOK, Thread!Next, Thread!Started
<1>5. CASE StopFlag
      BY <1>5 DEF StopFlag, TypeOK, Flag, Thread!Next, Thread!Stop
<1>6. CASE StopClose \/ StopForget \/ StopUnlink
      BY <1>6 DEF StopClose, StopForget, StopUnlink
<1>7. CASE StopJoin
      BY <1>7 DEF StopJoin, TypeOK, Thread!Next, Thread!Join
<1>8. CASE LoopCheck
      BY <1>8 DEF LoopCheck, TypeOK, Thread!Next, Thread!WorkerStep, Thread!Exit
<1>9. CASE LoopLoad
      BY <1>9 DEF LoopLoad
<1>10. CASE LoopAccept
      BY <1>10 DEF LoopAccept, TypeOK, Flag, Thread!Next, Thread!WorkerStep, Thread!Wait,
         Thread!Refused
<1>11. CASE Accept
      BY <1>11 DEF Accept
<1>12. CASE Read
      BY <1>12 DEF Read, TypeOK, Flag, Thread!Next, Thread!Resume
<1>13. CASE SetProperty \/ Reply \/ Close
      BY <1>13 DEF SetProperty, Reply, Close
<1>14. ASSUME NEW c \in Clients, Connect(c) \/ Send(c)
       PROVE  UNCHANGED <<OwnerPhase, WorkerState>>
       BY <1>14 DEF Connect, Send
<1>15. CASE UNCHANGED vars
      BY <1>15 DEF vars
<1>16. CASE Fork \/ LastCopyGone \/ OldCopiesGone
      BY <1>16 DEF Fork, LastCopyGone, OldCopiesGone
<1> QED
    BY <1>1, <1>2, <1>3, <1>4, <1>5, <1>6, <1>7, <1>8, <1>9, <1>10, <1>11, <1>12, <1>13,
       <1>14, <1>15, <1>16 DEF Next, OwnerStarts, OwnerStops, WorkerStep

(* The property service and the DNS proxy are what the engine's start and  *)
(* stop take them for.                                                     *)
THEOREM ServiceImplements == Spec => ThreadSpec
<1>1. Init => Thread!Init
      BY DEF Init, Thread!Init, OwnerPhase, WorkerState, Stopping
<1>2. IInv /\ [Next]_vars => [Thread!Next]_(Thread!vars)
      BY Implements
<1> QED
    BY Invariant, <1>1, <1>2, PTL DEF Spec, ThreadSpec, Thread!Spec
=============================================================================
