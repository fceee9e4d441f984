--------------------------------- MODULE App ---------------------------------
(***************************************************************************)
(* The app: the instances of MainActivity, each with its VMSurfaceView and *)
(* its own idea of whether the machine runs and its button, the foreground *)
(* service, the display that holds the window of one surface, and the      *)
(* installations of RomManager.  All of it but the installations happens   *)
(* on the UI thread, one callback at a time, in an order the system        *)
(* chooses.  The end of an installation and what the UI thread shows of it *)
(* are one step: the thread does nothing in between.                       *)
(*                                                                         *)
(* A second instance comes from the notification, whose intent is not the  *)
(* launcher's, or from a launch before the onDestroy of a finished         *)
(* instance.  A change of the configuration is a finish and a launch.      *)
(***************************************************************************)
EXTENDS RomManager

CONSTANTS
    Activities  \* instances that exist at the same time

ASSUME ActivityAssumption == "nobody" \notin Activities

VARIABLES
    state,      \* of an instance: "none", "live", "dying" (before onDestroy), "destroyed"
    mIsRunning,
    offersStop, \* the instances whose button says "Stop Virtual Machine", not a start
    asker,      \* the live instance that started the installation of a thread, or Nobody
    relabelled, \* an installation's end has put "Start" on a button that said "Stop"
    surface,    \* the instances that have a surface
    shown,      \* the live instance at the top, or Nobody
    foreground, \* the app is on the screen
    engine,     \* nativeStartVM has been called, and nativeStopVM not since
    forgotten,  \* engines that were running when another was started
    window,     \* native_window of the display: the instance it belongs to, or Nobody
    references, \* to the window of each instance
    service,    \* VMForegroundService, with its notification and wake lock
    sticky,     \* it was restarted by the system after the process had died
    overlap     \* two instances have existed at the same time

activities == <<state, mIsRunning, surface, shown, foreground, overlap>>
machine    == <<engine, forgotten, service, sticky>>
buttons    == <<offersStop, asker, relabelled>>
display    == <<window, references>>
vars       == <<activities, buttons, machine, display, roms>>

Nobody == "nobody"
Exists(a) == state[a] # "none"

Init ==
    /\ state = [a \in Activities |-> "none"]
    /\ mIsRunning = [a \in Activities |-> FALSE]
    /\ offersStop = {} /\ relabelled = {} /\ asker = [t \in Threads |-> Nobody]
    /\ surface = {} /\ shown = Nobody /\ foreground = FALSE
    /\ engine = FALSE /\ forgotten = 0 /\ service = FALSE /\ sticky = FALSE
    /\ window = Nobody /\ references = [a \in Activities |-> 0]
    /\ overlap = FALSE
    /\ RomInit

-----------------------------------------------------------------------------
(* Instances come and go.                                                  *)

(* From the launcher when no instance is live, or on top of the live one   *)
(* from the notification.  In the bound an instance beside another weighs  *)
(* two, everything else that is counted one.                               *)
onCreate(a) ==
    /\ ~ Exists(a) /\ a = CHOOSE b \in Activities : ~ Exists(b)
    /\ shown = Nobody \/ service
    /\ state' = [state EXCEPT ![a] = "live"]
    /\ mIsRunning' = [mIsRunning EXCEPT ![a] = FALSE]
    /\ offersStop' = offersStop \ {a} /\ relabelled' = relabelled \ {a}
    /\ shown' = a /\ foreground' = TRUE
    /\ overlap' = (overlap \/ \E b \in Activities : Exists(b))
    /\ LET weight == IF \E b \in Activities : Exists(b) THEN 2 ELSE 1 IN
       doings + weight <= Enough /\ doings' = doings + weight
    /\ UNCHANGED <<asker, surface, machine, display, files, threads>>

Home ==
    /\ shown # Nobody /\ foreground' = ~ foreground
    /\ UNCHANGED <<state, mIsRunning, buttons, surface, shown, overlap, machine,
                   display, roms>>

(* Back, a change of the configuration, or the list of recent apps.  The   *)
(* button of the instance is not seen again.                               *)
Finish ==
    /\ shown # Nobody
    /\ state' = [state EXCEPT ![shown] = "dying"]
    /\ LET below == {a \in Activities \ {shown} : state[a] = "live"} IN
       /\ shown' \in IF below = {} THEN {Nobody} ELSE below
       /\ foreground' = (below # {} /\ foreground)
    /\ asker' = [t \in Threads |-> IF asker[t] = shown THEN Nobody ELSE asker[t]]
    /\ UNCHANGED <<mIsRunning, offersStop, relabelled, surface, overlap, machine,
                   display, roms>>

(* VMEngine.start always reports success.  It replaces what it finds.      *)
StartEngine ==
    engine' = TRUE /\ forgotten' = IF engine THEN forgotten + 1 ELSE forgotten

StopEngine == engine' = FALSE /\ UNCHANGED forgotten

StartService == service' = TRUE /\ sticky' = FALSE

StopService == service' = FALSE /\ sticky' = FALSE

StopMachine == StopEngine /\ StopService

(* Mutants: an instance is gone before its surface is; onDestroy leaves    *)
(* the machine alone.                                                      *)
onDestroyAtOnce(a) ==
    /\ state[a] = "dying"
    /\ state' = [state EXCEPT ![a] = "none"]
    /\ IF mIsRunning[a] THEN StopMachine ELSE UNCHANGED machine
    /\ UNCHANGED <<mIsRunning, buttons, surface, shown, foreground, overlap, display,
                   roms>>

onDestroyOnly(a) ==
    /\ state[a] = "dying"
    /\ state' = [state EXCEPT ![a] = IF a \in surface THEN "destroyed" ELSE "none"]
    /\ UNCHANGED <<mIsRunning, buttons, surface, shown, foreground, overlap, machine,
                   display, roms>>

onDestroy(a) ==
    /\ state[a] = "dying"
    /\ state' = [state EXCEPT ![a] = IF a \in surface THEN "destroyed" ELSE "none"]
    /\ IF mIsRunning[a] THEN StopMachine ELSE UNCHANGED machine
    /\ UNCHANGED <<mIsRunning, buttons, surface, shown, foreground, overlap, display,
                   roms>>

(* The process dies; the system restarts the service, which is START_STICKY. *)
ProcessDies ==
    /\ state' = [a \in Activities |-> "none"]
    /\ mIsRunning' = [a \in Activities |-> FALSE]
    /\ offersStop' = {} /\ relabelled' = {} /\ asker' = [t \in Threads |-> Nobody]
    /\ surface' = {} /\ shown' = Nobody /\ foreground' = FALSE /\ overlap' = FALSE
    /\ engine' = FALSE /\ forgotten' = 0 /\ sticky' = service
    /\ window' = Nobody /\ references' = [a \in Activities |-> 0]
    /\ RomsDie
    /\ UNCHANGED service

-----------------------------------------------------------------------------
(* The surfaces, and the display of the engine.                            *)

(* Mutant: the window there was is not released. *)
set_native_window_leaks(a) ==
    references' = [references EXCEPT ![a] = @ + 1] /\ window' = a

(* ANativeWindow_fromSurface takes a reference, set_native_window drops    *)
(* that of the window it held, which may be the same.                      *)
set_native_window(a) ==
    /\ references' = [b \in Activities |-> references[b] + (IF b = a THEN 1 ELSE 0)
                                                         - (IF b = window THEN 1 ELSE 0)]
    /\ window' = a

release ==
    /\ references' = IF window = Nobody THEN references
                     ELSE [references EXCEPT ![window] = @ - 1]
    /\ window' = Nobody

nativeSetSurface(a) == IF a # Nobody THEN set_native_window(a) ELSE release

surfaceCreated(a) ==
    /\ a = shown /\ foreground /\ a \notin surface
    /\ surface' = surface \cup {a}
    /\ nativeSetSurface(a)
    /\ UNCHANGED <<state, mIsRunning, buttons, shown, foreground, overlap, machine,
                   roms>>

surfaceChanged(a) ==
    /\ a \in surface /\ a = shown /\ foreground
    /\ nativeSetSurface(a)
    /\ UNCHANGED <<activities, buttons, machine, roms>>

(* When the instance is no longer visible, or is gone.                     *)
surfaceDestroyed(a) ==
    /\ a \in surface /\ (a # shown \/ ~ foreground)
    /\ surface' = surface \ {a}
    /\ state' = [state EXCEPT ![a] = IF @ = "destroyed" THEN "none" ELSE @]
    /\ nativeSetSurface(Nobody)
    /\ UNCHANGED <<mIsRunning, buttons, shown, foreground, overlap, machine, roms>>

-----------------------------------------------------------------------------
(* The button.  What a click does depends on isROMInstalled and mIsRunning,*)
(* not on what the button says.                                            *)

Clicked == shown # Nobody /\ foreground

clickInstall(t) ==
    /\ Clicked /\ ~ isROMInstalled
    /\ IF local # {} THEN installROMFromLocalFile(t) ELSE downloadAndInstallROM(t)
    /\ asker' = [asker EXCEPT ![t] = shown]
    /\ UNCHANGED <<activities, offersStop, relabelled, machine, display>>

clickStart ==
    /\ Clicked /\ isROMInstalled /\ ~ mIsRunning[shown]
    /\ mIsRunning' = [mIsRunning EXCEPT ![shown] = TRUE]
    /\ offersStop' = offersStop \cup {shown} /\ relabelled' = relabelled \ {shown}
    /\ StartEngine /\ StartService
    /\ UNCHANGED <<state, asker, surface, shown, foreground, overlap, display, roms>>

(* Mutant: the flag survives the stop. *)
clickStopForgets ==
    /\ Clicked /\ isROMInstalled /\ mIsRunning[shown]
    /\ offersStop' = offersStop \ {shown} /\ relabelled' = relabelled \ {shown}
    /\ StopMachine
    /\ UNCHANGED <<activities, asker, display, roms>>

clickStop ==
    /\ Clicked /\ isROMInstalled /\ mIsRunning[shown]
    /\ mIsRunning' = [mIsRunning EXCEPT ![shown] = FALSE]
    /\ offersStop' = offersStop \ {shown} /\ relabelled' = relabelled \ {shown}
    /\ StopMachine
    /\ UNCHANGED <<state, asker, surface, shown, foreground, overlap, display, roms>>

-----------------------------------------------------------------------------
(* onSuccess, which belongs to the instance that started the installation, *)
(* puts "Start Android 15" on its button whether or not the machine runs.  *)
ShowsStart(a) ==
    /\ offersStop' = offersStop \ {a}
    /\ relabelled' = relabelled \cup (offersStop \cap {a})

Installation(t) ==
    /\ Unpack(t, engine \/ forgotten > 0)
    /\ IF job[t] = "tell" /\ Succeeds(t) THEN ShowsStart(asker[t])
       ELSE UNCHANGED <<offersStop, relabelled>>
    /\ asker' = IF job[t] = "tell" THEN [asker EXCEPT ![t] = Nobody] ELSE asker
    /\ UNCHANGED <<activities, machine, display>>

Downloading(t) == NetworkStep(t) /\ UNCHANGED <<activities, buttons, machine, display>>

Next ==
    \/ \E a \in Activities : onCreate(a) \/ onDestroy(a) \/ surfaceCreated(a)
                              \/ surfaceChanged(a) \/ surfaceDestroyed(a)
    \/ Home \/ Finish \/ ProcessDies \/ clickStart \/ clickStop
    \/ \E t \in Threads : clickInstall(t) \/ Installation(t) \/ Downloading(t)

Spec == Init /\ [][Next]_vars

(* The threads of an installation and their tar are scheduled.  Nothing is *)
(* assumed of the user, the system's callbacks or the network.             *)
FairSpec == Spec /\ \A t \in Threads : WF_vars(Installation(t))

-----------------------------------------------------------------------------
(* Properties.                                                             *)

(* Type invariant; one instance at most is at the top, and it is live.     *)
TypeOK ==
    /\ RomTypeOK
    /\ state \in [Activities -> {"none", "live", "dying", "destroyed"}]
    /\ mIsRunning \in [Activities -> BOOLEAN]
    /\ offersStop \subseteq Activities /\ relabelled \subseteq Activities
    /\ asker \in [Threads -> Activities \cup {Nobody}]
    /\ surface \subseteq {a \in Activities : Exists(a)}
    /\ shown = Nobody \/ (shown \in Activities /\ state[shown] = "live")
    /\ foreground \in BOOLEAN /\ engine \in BOOLEAN /\ service \in BOOLEAN
    /\ sticky \in BOOLEAN /\ overlap \in BOOLEAN
    /\ forgotten \in Nat
    /\ window \in Activities \cup {Nobody} /\ references \in [Activities -> Nat]

(* A running engine has an instance that will stop it, by its button or at *)
(* its end: no order of launches, finishes and clicks leaves one running   *)
(* that nobody stops.  One that a second start has overwritten is lost,    *)
(* and that takes two instances at the same time.                          *)
MachineOwned ==
    /\ engine => \E a \in Activities : state[a] \in {"live", "dying"} /\ mIsRunning[a]
    /\ forgotten > 0 => overlap

(* What the user is told is what the engine does, for one instance at a    *)
(* time, across finishes, changes of configuration and deaths: a click     *)
(* stops exactly an engine that runs; the button says "Stop" exactly then,  *)
(* unless an installation that ended meanwhile has relabelled it; and the  *)
(* notification "Android 15 VM Running" is there for a running engine only, *)
(* except where the system has brought the service back by itself.         *)
StatusTrue ==
    /\ shown # Nobody /\ ~ overlap =>
           /\ mIsRunning[shown] = engine
           /\ shown \in offersStop <=> engine /\ shown \notin relabelled
    /\ engine => service
    /\ service => engine \/ sticky

(* The display's window is one whose surface exists, with one reference    *)
(* and none to any other, in whatever order the surfaces of two instances  *)
(* come and go; and it is the one on the screen, unless the surface of     *)
(* another instance has taken it away.                                     *)
WindowHeld ==
    /\ window # Nobody => window \in surface
    /\ \A a \in Activities : references[a] = IF a = window THEN 1 ELSE 0
    /\ shown \in surface /\ foreground /\ ~ overlap => window = shown
=============================================================================
