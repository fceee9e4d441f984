--------------------------- MODULE EngineLifecycle ---------------------------
(***************************************************************************)
(* Start and stop of the whole engine: nativeStartVM and nativeStopVM of   *)
(* jni_bridge.cpp, which the UI thread calls, and main of main_cli.cpp.    *)
(* The module composes the threads that these start and end: the tracer    *)
(* (TracerThread), two services (ServiceThread), the audio thread          *)
(* (VirtualAudio).  The other subsystems are passive objects that the      *)
(* tracer uses.                                                            *)
(*                                                                         *)
(* A program is here the sequence of what it does to its subsystems.       *)
(***************************************************************************)
EXTENDS Naturals, Sequences, SequencesExt

CONSTANTS
    Programs,  \* "app", "cli" or both
    MaxStarts  \* bound: how often the app is started

ASSUME ProgramAssumption == Programs \subseteq {"app", "cli"}
ASSUME StartsAssumption == MaxStarts \in Nat

VARIABLES
    program,
    upc,           \* the UI or main thread: idle, starting, up, stopping, ended
    todo,          \* what it has still to do of the present operation
    objects,       \* the subsystems that exist
    prop_phase, prop_worker,             \* PropertyService
    dns_phase, dns_worker,               \* DNSProxy
    audio_opc, audio_wpc, audio_running, audio_fd, audio_open, audio_stream,
    audio_reads, audio_writes,           \* VirtualAudio
    thread_phase, tracked, alive,        \* g_vm_thread or main in run_loop
    escaped,       \* kill_all came before the guest was there, or missed a task
    starts

prop   == <<prop_phase, prop_worker>>
dns    == <<dns_phase, dns_worker>>
audio  == <<audio_opc, audio_wpc, audio_running, audio_fd, audio_open, audio_stream,
            audio_reads, audio_writes>>
tracer == <<thread_phase, tracked, alive>>
driver == <<program, upc, todo, objects, escaped, starts>>
vars   == <<driver, prop, dns, audio, tracer>>

Prop  == INSTANCE ServiceThread WITH phase <- prop_phase, worker <- prop_worker
Dns   == INSTANCE ServiceThread WITH phase <- dns_phase, worker <- dns_worker
Audio == INSTANCE VirtualAudio
           WITH opc <- audio_opc, wpc <- audio_wpc, is_running <- audio_running,
                fifo_fd <- audio_fd, fd_open <- audio_open, stream <- audio_stream,
                late_reads <- audio_reads, late_writes <- audio_writes
Tracer == INSTANCE TracerThread WITH phase <- thread_phase

-----------------------------------------------------------------------------
(* What the programs do, in order.                                         *)

Passive == {"resolver", "tree", "binder", "input", "gralloc", "fb", "dispatcher"}
Objects == Passive \cup {"prop", "dns", "audio"}

New(o)    == <<"new", o>>
Stop(o)   == <<"stop", o>>
Delete(o) == <<"delete", o>>
KillAll   == <<"kill", "tree">>
Run       == <<"run", "thread">>
Join      == <<"join", "thread">>

(* Mutants: the services start after the guest; the dispatcher goes before *)
(* its thread is joined; the binder is forgotten.                          *)
StartAppLate == <<New("resolver"), New("tree"), New("binder"), New("audio"), New("input"),
    New("gralloc"), New("fb"), New("dispatcher"), Run, New("prop"), New("dns")>>
StopAppEarly == <<KillAll, Stop("prop"), Delete("prop"), Stop("dns"), Delete("dns"),
    Stop("audio"), Delete("audio"), Delete("dispatcher"), Join, Delete("tree"),
    Delete("resolver"), Delete("binder"), Delete("input"), Delete("fb"), Delete("gralloc")>>
StopAppLeak == <<KillAll, Stop("prop"), Delete("prop"), Stop("dns"), Delete("dns"),
    Stop("audio"), Delete("audio"), Join, Delete("dispatcher"), Delete("tree"),
    Delete("resolver"), Delete("input"), Delete("fb"), Delete("gralloc")>>

StartApp == <<New("resolver"), New("tree"), New("prop"), New("dns"), New("binder"),
    New("audio"), New("input"), New("gralloc"), New("fb"), New("dispatcher"), Run>>

StopApp == <<KillAll, Stop("prop"), Delete("prop"), Stop("dns"), Delete("dns"),
    Stop("audio"), Delete("audio"), Join, Delete("dispatcher"), Delete("tree"),
    Delete("resolver"), Delete("binder"), Delete("input"), Delete("fb"), Delete("gralloc")>>

(* main starts alike and runs the tracer itself.  Its objects are          *)
(* destroyed in reverse; a destructor of a subsystem with a thread stops   *)
(* it first.                                                               *)
Unwind == <<Delete("dispatcher"), Delete("fb"), Delete("gralloc"), Delete("input"),
    Stop("audio"), Delete("audio"), Delete("binder"), Stop("dns"), Delete("dns"),
    Stop("prop"), Delete("prop"), Delete("tree"), Delete("resolver")>>
StopCli == <<Stop("prop"), Stop("dns"), Stop("audio")>> \o Unwind

Doing(step) == todo # <<>> /\ Head(todo) = step
Done == todo' = Tail(todo)

Init ==
    /\ program \in Programs /\ upc = "idle" /\ todo = <<>> /\ objects = {}
    /\ Prop!Init /\ Dns!Init /\ Audio!Init
    /\ thread_phase = "none" /\ tracked = FALSE /\ alive = FALSE
    /\ escaped = FALSE /\ starts = 0

-----------------------------------------------------------------------------
(* The operations of the programs.                                         *)

nativeStartVM ==                                     \* and the start of main
    /\ upc = "idle" /\ starts < MaxStarts
    /\ upc' = "starting" /\ starts' = starts + 1 /\ escaped' = FALSE
    /\ todo' = StartApp
    /\ UNCHANGED <<program, objects, prop, dns, audio, tracer>>

nativeStopVM ==
    /\ program = "app" /\ upc = "up"
    /\ upc' = "stopping" /\ todo' = StopApp
    /\ UNCHANGED <<program, objects, escaped, starts, prop, dns, audio, tracer>>

(* main comes back from run_loop, or returns 1 when the spawn has failed.  *)
mainStops ==
    /\ program = "cli" /\ upc = "up" /\ thread_phase \in {"done", "failed"}
    /\ upc' = "stopping" /\ thread_phase' = "none"
    /\ todo' = IF thread_phase = "done" THEN StopCli ELSE Unwind
    /\ UNCHANGED <<program, objects, escaped, starts, prop, dns, audio, tracked, alive>>

(* The operation is over.                                                  *)
Finish ==
    /\ todo = <<>> /\ upc \in {"starting", "stopping"}
    /\ upc' = IF upc = "starting" THEN "up"
              ELSE IF program = "app" THEN "idle" ELSE "ended"
    /\ UNCHANGED <<program, todo, objects, escaped, starts, prop, dns, audio, tracer>>

-----------------------------------------------------------------------------
(* Their steps.                                                            *)

NewPassive ==
    \E o \in Passive :
        /\ Doing(New(o)) /\ Done
        /\ objects' = objects \cup {o}
        /\ UNCHANGED <<program, upc, escaped, starts, prop, dns, audio, tracer>>

NewProp ==
    /\ Doing(New("prop"))
    /\ \/ Prop!Begin /\ objects' = objects \cup {"prop"} /\ UNCHANGED todo
       \/ Prop!Started /\ Done /\ UNCHANGED objects
    /\ UNCHANGED <<program, upc, escaped, starts, dns, audio, tracer>>

NewDns ==
    /\ Doing(New("dns"))
    /\ \/ Dns!Begin /\ objects' = objects \cup {"dns"} /\ UNCHANGED todo
       \/ Dns!Started /\ Done /\ UNCHANGED objects
    /\ UNCHANGED <<program, upc, escaped, starts, prop, audio, tracer>>

NewAudio ==
    /\ Doing(New("audio"))
    /\ \/ Audio!OpenFifo /\ objects' = objects \cup {"audio"}
       \/ Audio!OwnerInit /\ UNCHANGED objects
    /\ IF audio_opc' = "up" THEN Done ELSE UNCHANGED todo
    /\ UNCHANGED <<program, upc, escaped, starts, prop, dns, tracer>>

StopProp ==
    /\ Doing(Stop("prop"))
    /\ \/ Prop!Stop /\ UNCHANGED todo
       \/ Prop!Join /\ Done
       \/ prop_phase = "idle" /\ Done /\ UNCHANGED prop
    /\ UNCHANGED <<program, upc, objects, escaped, starts, dns, audio, tracer>>

StopDns ==
    /\ Doing(Stop("dns"))
    /\ \/ Dns!Stop /\ UNCHANGED todo
       \/ Dns!Join /\ Done
       \/ dns_phase = "idle" /\ Done /\ UNCHANGED dns
    /\ UNCHANGED <<program, upc, objects, escaped, starts, prop, audio, tracer>>

StopAudio ==
    /\ Doing(Stop("audio"))
    /\ \/ Audio!StopFlag \/ Audio!OwnerStop
       \/ audio_opc = "idle" /\ UNCHANGED audio
    /\ IF audio_opc' = "idle" THEN Done ELSE UNCHANGED todo
    /\ UNCHANGED <<program, upc, objects, escaped, starts, prop, dns, tracer>>

(* ~ProcessTree kills what has been registered since.                      *)
DeleteObject ==
    \E o \in Objects :
        /\ Doing(Delete(o)) /\ Done
        /\ objects' = objects \ {o}
        /\ IF o = "tree" THEN Tracer!KillAll ELSE UNCHANGED tracer
        /\ UNCHANGED <<program, upc, escaped, starts, prop, dns, audio>>

Kill ==
    /\ Doing(KillAll) /\ Done
    /\ Tracer!KillAll
    /\ escaped' = (alive' \/ thread_phase = "entry")
    /\ UNCHANGED <<program, upc, objects, starts, prop, dns, audio>>

RunThread ==
    /\ Doing(Run) /\ Done
    /\ thread_phase' = "entry" /\ tracked' = FALSE /\ alive' = FALSE
    /\ UNCHANGED <<program, upc, objects, escaped, starts, prop, dns, audio>>

JoinThread ==
    /\ Doing(Join) /\ Done
    /\ thread_phase \in {"done", "failed"} /\ thread_phase' = "none"
    /\ UNCHANGED <<program, upc, objects, escaped, starts, tracked, alive, prop, dns, audio>>

Step == \/ NewPassive \/ NewProp \/ NewDns \/ NewAudio \/ RunThread \/ Kill
        \/ StopProp \/ StopDns \/ StopAudio \/ JoinThread \/ DeleteObject

-----------------------------------------------------------------------------
(* The other threads, the guest and its clients.                           *)

PropWorker  == Prop!WorkerStep /\ UNCHANGED <<driver, dns, audio, tracer>>
DnsWorker   == Dns!WorkerStep /\ UNCHANGED <<driver, prop, audio, tracer>>
AudioWorker == Audio!audio_loop /\ UNCHANGED <<driver, prop, dns, tracer>>
TracerStep  == Tracer!ThreadStep /\ UNCHANGED <<driver, prop, dns, audio>>

GuestEnds   == Tracer!GuestEnds /\ UNCHANGED <<driver, prop, dns, audio>>
Client ==
    \/ Prop!Resume /\ UNCHANGED <<driver, dns, audio, tracer>>
    \/ Dns!Resume /\ UNCHANGED <<driver, prop, audio, tracer>>

Next ==
    \/ nativeStartVM \/ nativeStopVM \/ mainStops \/ Finish \/ Step
    \/ PropWorker \/ DnsWorker \/ AudioWorker \/ TracerStep
    \/ GuestEnds \/ Client

Spec == Init /\ [][Next]_vars

(* Every thread is scheduled; spawn_guest comes back, since the child      *)
(* stops or dies by itself; run_loop ends when the guest has (LoopEnds of  *)
(* TraceLoop).  Nothing is assumed of the clients, the guest and the user. *)
FairSpec ==
    /\ Spec
    /\ WF_vars(mainStops \/ Finish \/ Step)
    /\ WF_vars(PropWorker) /\ WF_vars(DnsWorker) /\ WF_vars(AudioWorker)
    /\ WF_vars(TracerStep /\ thread_phase \in {"entry", "spawning"})
    /\ WF_vars(TracerStep /\ thread_phase' = "done" /\ ~ alive)

-----------------------------------------------------------------------------
(* Properties.                                                             *)

(* Type invariant; a worker exists only between start and join.            *)
TypeOK ==
    /\ program \in Programs
    /\ upc \in {"idle", "starting", "up", "stopping", "ended"}
    /\ objects \subseteq Objects
    /\ prop_phase \in {"idle", "starting", "up", "stopping"}
    /\ prop_worker \in {"none", "busy", "waiting", "leaving", "exited"}
    /\ dns_phase \in {"idle", "starting", "up", "stopping"}
    /\ dns_worker \in {"none", "busy", "waiting", "leaving", "exited"}
    /\ prop_worker # "none" => prop_phase \in {"up", "stopping"}
    /\ dns_worker # "none" => dns_phase \in {"up", "stopping"}
    /\ Audio!TypeOK
    /\ thread_phase \in {"none", "entry", "failed", "spawning", "looping", "done"}
    /\ tracked \in BOOLEAN /\ alive \in BOOLEAN /\ escaped \in BOOLEAN
    /\ starts \in 0 .. MaxStarts

PropRuns   == prop_worker \notin {"none", "exited"}
DnsRuns    == dns_worker \notin {"none", "exited"}
AudioRuns  == audio_wpc \notin {"none", "exited"}
TracerRuns == thread_phase \in {"entry", "spawning", "looping"}

(* No thread runs on an object that has been deleted: a worker on its      *)
(* service, the tracer on the dispatcher, the tables and the devices it    *)
(* was given, whichever program it is and wherever its stop begins.        *)
NoUseAfterDelete ==
    /\ PropRuns => "prop" \in objects
    /\ DnsRuns => "dns" \in objects
    /\ AudioRuns => "audio" \in objects
    /\ TracerRuns => {"dispatcher", "tree", "resolver", "binder", "fb"} \subseteq objects
    /\ "fb" \in objects => "gralloc" \in objects

(* When stop returns, and when main does, nothing is left over that a next *)
(* start would find or lose: no object, no thread, no entry in the tree.   *)
CleanedUp ==
    upc \in {"idle", "ended"} =>
        /\ objects = {} /\ ~ tracked
        /\ prop = <<"idle", "none">> /\ dns = <<"idle", "none">>
        /\ audio_opc = "idle" /\ audio_wpc = "none" /\ ~ audio_open
        /\ audio_stream = "null" /\ thread_phase = "none"

(* While the guest is traced its services are up, from its first           *)
(* instruction on and until it has ended or been killed.                   *)
ServedWhileTraced ==
    TracerRuns /\ alive /\ ~ escaped =>
        prop_phase = "up" /\ dns_phase = "up" /\ audio_opc = "up"

(* A read and a write at most touch what the audio's stop has closed.      *)
OneLateUse == Audio!OneLateUse

(* Stop ends, and main does, except in two ways, which last for ever: a    *)
(* service waits for a client that does not come, or kill_all has missed   *)
(* the guest, which lives on.  (A guest of main's that lives is not        *)
(* stopped at all.)  The audio thread, the tables' mutexes and an empty    *)
(* or half started engine never hold it up.                                *)
Hung ==
    \/ Doing(Stop("prop")) /\ prop_worker = "waiting"
    \/ Doing(Stop("dns")) /\ dns_worker = "waiting"
    \/ Doing(Join) /\ thread_phase = "looping" /\ alive /\ escaped

StopEndsOrHangs == []<>(upc # "stopping") \/ <>[]Hung
=============================================================================
