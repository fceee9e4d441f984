---------------------------- MODULE SocketService ----------------------------
(***************************************************************************)
(* A service of the engine behind a UNIX socket in the rootfs: the         *)
(* property service and the DNS proxy, which have the same start, server   *)
(* loop and stop and differ in the messages they answer.  The owner is the *)
(* thread that calls start and stop, the worker the one start creates,     *)
(* the clients are processes of the guest.                                 *)
(*                                                                         *)
(* Of the kernel there is the listening socket: it lives while its file    *)
(* descriptor is open, here or in a process that was forked meanwhile      *)
(* (socket is called without SOCK_CLOEXEC, so the guest's exec keeps the   *)
(* copy), or a thread is inside accept on it, which a close does not       *)
(* interrupt; and it is reached through its path while that exists.        *)
(***************************************************************************)
EXTENDS Naturals, Sequences, SequencesExt

CONSTANTS
    Clients,    \* each connects at most once and sends one message
    Kinds,      \* what a message may be
    Answered,   \* the kinds that are answered
    Setting,    \* the kinds that set a property
    MaxStarts   \* bound: how often the service is created and started

ASSUME KindAssumption == Answered \subseteq Kinds /\ Setting \subseteq Answered
ASSUME StartAssumption == MaxStarts \in Nat

Backlog  == 16
Nobody   == "nobody"
Nothing  == "nothing"
HungUp   == "hung up"
Stopping == {"stop_close", "stop_forget", "stop_unlink", "stop_join"}
Serving  == {"read", "set", "reply", "close"}

VARIABLES
    opc,        \* the owner: idle, up, stopped, or a step of start or stop
    wpc,        \* the worker
    running,    \* is_running
    server_fd,  \* the member: "none", or the descriptor of this start
    wfd,        \* the worker's argument of accept
    fd_open,    \* the descriptor is open
    path,       \* the socket file: "none", "stale" (another process's), "bound"
    listening,
    inherited,  \* a process the engine forked has a copy of the descriptor
    orphans,    \* waiting at a socket of an earlier start that only such have
    backlog,    \* connected clients that nobody has accepted
    client,     \* idle, waiting, answered, closed or refused
    sent,       \* what a client has sent
    served,     \* the client the worker has accepted
    property,   \* the client whose value the property has
    answers,    \* the clients answered, in order
    starts

owner   == <<opc, running, server_fd, starts>>
worker  == <<wpc, wfd, served>>
socket  == <<fd_open, path, listening>>
copies  == <<inherited, orphans>>
clients == <<client, sent>>
data    == <<property, answers>>
vars    == <<owner, worker, socket, copies, backlog, clients, data>>

Init ==
    /\ opc = "idle" /\ wpc = "none" /\ running = FALSE
    /\ server_fd = "none" /\ wfd = "none"
    /\ fd_open = FALSE /\ path \in {"none", "stale"} /\ listening = FALSE
    /\ inherited = FALSE /\ orphans = {} /\ backlog = <<>>
    /\ client = [c \in Clients |-> "idle"]
    /\ sent = [c \in Clients |-> Nothing]
    /\ served = Nobody /\ property = Nobody /\ answers = <<>>
    /\ starts = 0

(* The socket is gone, and with it the connections nobody accepted.        *)
Reset == /\ client' = [c \in Clients |-> IF c \in ToSet(backlog) THEN "closed" ELSE client[c]]
         /\ backlog' = <<>>

-----------------------------------------------------------------------------
(* start, on a new object, whose map has the defaults.  Its call of stop   *)
(* finds nothing to do.                                                    *)

StartUnlink ==
    /\ opc = "idle" /\ starts < MaxStarts
    /\ starts' = starts + 1
    /\ path' = "none" /\ opc' = "start_bind"
    /\ UNCHANGED <<running, server_fd, worker, fd_open, listening, backlog,
                   clients, data, copies>>

StartFails ==                                        \* socket or bind fails
    /\ opc = "start_bind" /\ opc' = "up"
    /\ UNCHANGED <<running, server_fd, starts, worker, socket, backlog,
                   clients, data, copies>>

StartBind ==
    /\ opc = "start_bind" /\ opc' = "start_listen"
    /\ server_fd' = "fd" /\ fd_open' = TRUE /\ path' = "bound"
    /\ UNCHANGED <<running, starts, worker, listening, backlog, clients, data, copies>>

StartListen ==
    /\ opc = "start_listen" /\ opc' = "start_thread"
    /\ listening' = TRUE
    /\ UNCHANGED <<running, server_fd, starts, worker, fd_open, path,
                   backlog, clients, data, copies>>

StartThread ==
    /\ opc = "start_thread" /\ opc' = "up"
    /\ running' = TRUE /\ wpc' = "check"
    /\ UNCHANGED <<server_fd, starts, wfd, served, socket, backlog, clients, data, copies>>

-----------------------------------------------------------------------------
(* stop.                                                                   *)

StopFlag ==
    /\ opc = "up" /\ running' = FALSE
    /\ opc' = IF server_fd # "none" THEN "stop_close" ELSE "stop_unlink"
    /\ UNCHANGED <<server_fd, starts, worker, socket, backlog, clients, data,
                   copies>>

(* A worker inside accept keeps the socket, and so does a copy.            *)
StopClose ==
    /\ opc = "stop_close" /\ opc' = "stop_forget"
    /\ fd_open' = FALSE
    /\ IF wpc = "accept" \/ inherited
       THEN UNCHANGED <<client, backlog, listening>>
       ELSE Reset /\ listening' = FALSE
    /\ UNCHANGED <<running, server_fd, starts, worker, path, sent, data, copies>>

StopForget ==
    /\ opc = "stop_forget" /\ opc' = "stop_unlink"
    /\ server_fd' = "none"
    /\ UNCHANGED <<running, starts, worker, socket, backlog, clients, data, copies>>

StopUnlink ==
    /\ opc = "stop_unlink" /\ opc' = "stop_join"
    /\ path' = "none"
    /\ UNCHANGED <<running, server_fd, starts, worker, fd_open, listening,
                   backlog, clients, data, copies>>

(* A socket that only the copies keep is left to those who have them, and  *)
(* so are the clients in its backlog.                                      *)
Abandon == IF inherited
           THEN /\ orphans' = orphans \cup ToSet(backlog) /\ backlog' = <<>>
                /\ inherited' = FALSE /\ listening' = FALSE
           ELSE UNCHANGED <<copies, backlog, listening>>

(* Mutant: without the join. *)
StopDetached ==
    /\ opc = "stop_join" /\ opc' = "idle"
    /\ property' = Nobody /\ answers' = <<>> /\ Abandon
    /\ UNCHANGED <<running, server_fd, starts, worker, fd_open, path, clients>>

(* join, if there is a thread; then nativeStopVM deletes the object, and   *)
(* the properties with it.                                                 *)
StopJoin ==
    /\ opc = "stop_join" /\ wpc \in {"none", "exited"}
    /\ opc' = "idle" /\ wpc' = "none"
    /\ property' = Nobody /\ answers' = <<>> /\ Abandon
    /\ UNCHANGED <<running, server_fd, starts, wfd, served, fd_open, path, clients>>

-----------------------------------------------------------------------------
(* server_loop and handle_client.                                          *)

(* Mutant: the flag is not looked at. *)
LoopForEver ==
    /\ wpc = "check"
    /\ wpc' = "load"
    /\ UNCHANGED <<owner, wfd, served, socket, backlog, clients, data, copies>>

LoopCheck ==
    /\ wpc = "check"
    /\ wpc' = IF running THEN "load" ELSE "exited"
    /\ UNCHANGED <<owner, wfd, served, socket, backlog, clients, data, copies>>

(* server_fd is a plain int that stop may write meanwhile.                 *)
LoopLoad ==
    /\ wpc = "load" /\ wpc' = "call"
    /\ wfd' = server_fd
    /\ UNCHANGED <<owner, served, socket, backlog, clients, data, copies>>

(* A closed descriptor is an error, and so is what else may have its       *)
(* number by now: nothing that another thread opens meanwhile listens.     *)
LoopAccept ==
    /\ wpc = "call"
    /\ wpc' = IF wfd # "none" /\ fd_open THEN "accept" ELSE "check"
    /\ UNCHANGED <<owner, wfd, served, socket, backlog, clients, data, copies>>

(* accept returns; the socket may go with it.                              *)
Accept ==
    /\ wpc = "accept" /\ backlog # <<>>
    /\ wpc' = "read" /\ served' = Head(backlog)
    /\ IF fd_open \/ inherited
       THEN backlog' = Tail(backlog) /\ UNCHANGED <<client, listening>>
       ELSE /\ client' = [c \in Clients |-> IF c \in ToSet(Tail(backlog)) THEN "closed"
                                           ELSE client[c]]
            /\ backlog' = <<>> /\ listening' = FALSE
    /\ UNCHANGED <<owner, wfd, fd_open, path, sent, data, copies>>

(* read blocks until the client has sent something or hung up.             *)
Read ==
    /\ wpc = "read" /\ sent[served] # Nothing
    /\ wpc' = IF sent[served] \in Setting THEN "set"
              ELSE IF sent[served] \in Answered THEN "reply" ELSE "close"
    /\ UNCHANGED <<owner, wfd, served, socket, backlog, clients, data, copies>>

(* Mutant: the property is not set before the answer. *)
SetNothing ==
    /\ wpc = "set" /\ wpc' = "reply"
    /\ UNCHANGED property
    /\ UNCHANGED <<owner, wfd, served, socket, backlog, clients, answers, copies>>

SetProperty ==
    /\ wpc = "set" /\ wpc' = "reply"
    /\ property' = served
    /\ UNCHANGED <<owner, wfd, served, socket, backlog, clients, answers, copies>>

Reply ==
    /\ wpc = "reply" /\ wpc' = "close"
    /\ client' = [client EXCEPT ![served] = IF @ = "waiting" THEN "answered" ELSE @]
    /\ answers' = IF sent[served] \in Setting THEN Append(answers, served) ELSE answers
    /\ UNCHANGED <<owner, wfd, served, socket, backlog, sent, property, copies>>

(* Mutants: the client's connection stays open; the worker ends after one  *)
(* client.                                                                 *)
CloseExits ==
    /\ wpc = "close" /\ wpc' = "exited"
    /\ client' = [client EXCEPT ![served] = IF @ = "waiting" THEN "closed" ELSE @]
    /\ served' = Nobody
    /\ UNCHANGED <<owner, wfd, socket, backlog, sent, data, copies>>

CloseForgotten ==
    /\ wpc = "close" /\ wpc' = "check"
    /\ served' = Nobody
    /\ UNCHANGED <<owner, wfd, socket, backlog, clients, data, copies>>

Close ==
    /\ wpc = "close" /\ wpc' = "check"
    /\ client' = [client EXCEPT ![served] = IF @ = "waiting" THEN "closed" ELSE @]
    /\ served' = Nobody
    /\ UNCHANGED <<owner, wfd, socket, backlog, sent, data, copies>>

WorkerStep ==
    \/ LoopCheck \/ LoopLoad \/ LoopAccept \/ Accept
    \/ Read \/ SetProperty \/ Reply \/ Close

-----------------------------------------------------------------------------
(* The clients.                                                            *)

Connect(c) ==
    /\ client[c] = "idle"
    /\ IF path = "bound" /\ listening
       THEN /\ Len(backlog) < Backlog
            /\ client' = [client EXCEPT ![c] = "waiting"]
            /\ backlog' = Append(backlog, c)
       ELSE client' = [client EXCEPT ![c] = "refused"] /\ UNCHANGED backlog
    /\ UNCHANGED <<owner, worker, socket, sent, data, copies>>

Send(c) ==
    /\ client[c] = "waiting" /\ sent[c] = Nothing
    /\ \E k \in Kinds \cup {HungUp} : sent' = [sent EXCEPT ![c] = k]
    /\ UNCHANGED <<owner, worker, socket, backlog, client, data, copies>>

-----------------------------------------------------------------------------
(* The processes with a copy of the descriptor: the guest, whom the engine *)
(* forks while the service is up, and shells of system().  They do nothing *)
(* with it, and close it when they end.                                    *)

Fork ==
    /\ fd_open /\ inherited' = TRUE
    /\ UNCHANGED <<owner, worker, socket, orphans, backlog, clients, data>>

(* The last of them ends. *)
LastCopyGone ==
    /\ inherited /\ inherited' = FALSE
    /\ IF fd_open \/ wpc = "accept"
       THEN UNCHANGED <<client, backlog, listening>>
       ELSE Reset /\ listening' = FALSE
    /\ UNCHANGED <<owner, worker, fd_open, path, orphans, sent, data>>

(* And those that have outlived a stop, of one start or of several.        *)
OldCopiesGone ==
    /\ \E gone \in (SUBSET orphans) \ {{}} :
          /\ orphans' = orphans \ gone
          /\ client' = [c \in Clients |-> IF c \in gone THEN "closed" ELSE client[c]]
    /\ UNCHANGED <<owner, worker, socket, inherited, backlog, sent, data>>

-----------------------------------------------------------------------------
OwnerStarts == StartUnlink \/ StartFails \/ StartBind \/ StartListen \/ StartThread
OwnerStops  == StopClose \/ StopForget \/ StopUnlink \/ StopJoin

Next ==
    \/ OwnerStarts \/ StopFlag \/ OwnerStops \/ WorkerStep
    \/ Fork \/ LastCopyGone \/ OldCopiesGone
    \/ \E c \in Clients : Connect(c) \/ Send(c)

Spec == Init /\ [][Next]_vars

(* Both threads are scheduled; nothing is assumed of the clients, nor that *)
(* a process with a copy ever ends, nor that the user ever starts or stops *)
(* the engine.                                                             *)
FairSpec ==
    /\ Spec
    /\ WF_vars(StartFails \/ StartBind) /\ WF_vars(StartListen) /\ WF_vars(StartThread)
    /\ WF_vars(OwnerStops) /\ WF_vars(WorkerStep)

-----------------------------------------------------------------------------
(* Properties.                                                             *)

(* Type invariant; there is a worker only between the start and the join.  *)
TypeOK ==
    /\ opc \in {"idle", "start_bind", "start_listen", "start_thread", "up"} \cup Stopping
    /\ wpc \in {"none", "check", "load", "call", "accept", "exited"} \cup Serving
    /\ wpc # "none" => opc = "up" \/ opc \in Stopping
    /\ running \in BOOLEAN /\ fd_open \in BOOLEAN /\ listening \in BOOLEAN
    /\ server_fd \in {"none", "fd"} /\ wfd \in {"none", "fd"}
    /\ path \in {"none", "stale", "bound"}
    /\ inherited \in BOOLEAN
    /\ orphans \subseteq Clients /\ ToSet(backlog) \subseteq Clients
    /\ client \in [Clients -> {"idle", "waiting", "answered", "closed", "refused"}]
    /\ sent \in [Clients -> Kinds \cup {Nothing, HungUp}]
    /\ served \in Clients \cup {Nobody} /\ property \in Clients \cup {Nobody}
    /\ starts \in 0 .. MaxStarts

(* A client that set a property and was told so has it: the map keeps its  *)
(* value until a client served after it sets another.  That is for as long *)
(* as the object lives; no code reads the map, get_property has no caller. *)
ReadsOwnWrite ==
    answers # <<>> => \/ property = Last(answers)
                       \/ (wpc = "reply" /\ property = served)

Spoken(c) == sent[c] # Nothing
Waits(c)  == client[c] = "waiting"

(* In the queue of a socket that the engine has given up, and that is only *)
(* there because a forked process has a copy of its descriptor.            *)
Left(c) == \/ c \in orphans
           \/ c \in ToSet(backlog) /\ inherited /\ ~ fd_open /\ wpc # "accept"

(* Nobody is left connected to a worker that is done with it: when the     *)
(* service is stopped, who still waits does so at a socket that a process  *)
(* of the guest has inherited.                                             *)
NobodyLeftWaiting ==
    wpc \in {"none", "exited"} /\ opc = "idle"
        => \A c \in Clients : Waits(c) => Left(c)

(* The worker serves one client at a time and waits for it without limit.  *)
(* If every client that connects says something or hangs up, each of them  *)
(* gets an answer or the end of its connection, across a stop as well, but *)
(* for those a stop leaves at an inherited socket.                         *)
EveryoneServed ==
    (\A c \in Clients : Waits(c) ~> (Spoken(c) \/ ~ Waits(c)))
        => \A c \in Clients : Waits(c) ~> (~ Waits(c) \/ Left(c))

(* A stop that comes while a client which has spoken is being served       *)
(* returns.                                                                *)
StopAfterClient ==
    (opc \in Stopping /\ wpc \in Serving /\ Spoken(served)) ~> opc = "idle"

-----------------------------------------------------------------------------
(* What the engine's start and stop see of the service.                    *)
OwnerPhase == IF opc \in Stopping THEN "stopping"
              ELSE IF opc \in {"idle", "up"} THEN opc ELSE "starting"
WorkerState == IF wpc \in {"none", "exited"} THEN wpc
               ELSE IF wpc \in {"accept", "read"} THEN "waiting"
               ELSE IF ~ running /\ wpc \notin {"load", "call"} THEN "leaving"
               ELSE "busy"

Thread == INSTANCE ServiceThread WITH phase <- OwnerPhase, worker <- WorkerState

(* The worker outlives no stop that has returned, ends only when asked to, *)
(* and after stop's flag takes on one client at most, however many have    *)
(* connected: it never goes back to accept once it has seen somebody,      *)
(* however stop's close and the clients interleave.                        *)
ThreadSpec == Thread!Spec

-----------------------------------------------------------------------------
(* What the repository says and the code does not do; see the README.      *)

(* "Semua subsistem VM berhasil dibersihkan": stop returns.                *)
StopReturns == (opc \in Stopping) ~> (opc = "idle")
=============================================================================
