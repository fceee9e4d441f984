----------------------------- MODULE RomManager -----------------------------
(***************************************************************************)
(* ROMManager: the threads that download the archive of the root file      *)
(* system and unpack it with tar, and the test whether it is installed.    *)
(* The files outlive the process.  Nothing keeps a second installation     *)
(* from starting while one is under way: the two share the temporary       *)
(* archive and the directory they unpack into.                             *)
(*                                                                         *)
(* The archive is a number of entries, in order; a file that has some of   *)
(* them is represented by the set of those.  tar removes what is in the    *)
(* place of an entry, creates the file and fills it.                       *)
(***************************************************************************)
EXTENDS Naturals, FiniteSets

CONSTANTS
    Size,       \* entries of the archive
    Markers,    \* the entries "system" and "init_guest.sh"
    Threads,    \* of installations at the same time
    Enough      \* bound: how many of the user's and the system's doings are counted

ASSUME SizeAssumption == Size \in Nat /\ Markers \subseteq 1 .. Size
ASSUME ThreadAssumption == Threads \cap {"absent", "torn", "whole"} = {}
ASSUME BoundAssumption == Enough \in Nat

VARIABLES
    rootfs,    \* every entry: "absent", "torn", "whole", or the thread whose tar is at it
    temp,      \* the archive in the cache directory
    local,     \* the archive in /sdcard/Download; no entries: there is none
    job,       \* what each thread is at
    source,    \* the archive it unpacks
    at,        \* entries it is through with
    made,      \* it has created the file of the next one
    code,      \* the exit code of its tar
    outcomes,  \* what the threads have told since they last were all idle
    doings      \* installations started (and what App counts)

files   == <<rootfs, temp, local>>
threads == <<job, source, at, made, code, outcomes>>
roms    == <<files, threads, doings>>

Entries  == 1 .. Size
Network  == {"connect", "download"}
Working  == {"extract", "wait", "tell"}
AllIdle  == \A t \in Threads : job[t] = "idle"
Complete == \A e \in Entries : rootfs[e] = "whole"
Archive(t) == IF source[t] = "temp" THEN temp ELSE local

RomInit ==
    /\ \E s \in {"absent", "whole"} : rootfs = [e \in Entries |-> s]
    /\ temp = {} /\ local \in {{}, Entries, Entries \ {Size}}
    /\ job = [t \in Threads |-> "idle"]
    /\ source = [t \in Threads |-> "temp"]
    /\ at = [t \in Threads |-> 0]
    /\ made = [t \in Threads |-> FALSE]
    /\ code = [t \in Threads |-> "none"]
    /\ outcomes = {} /\ doings = 0

isROMInstalled == \A e \in Markers : rootfs[e] # "absent"

-----------------------------------------------------------------------------
Begin(t, step) ==
    /\ job[t] = "idle" /\ t = CHOOSE u \in Threads : job[u] = "idle"
    /\ doings < Enough
    /\ job' = [job EXCEPT ![t] = step]
    /\ outcomes' = IF AllIdle THEN {} ELSE outcomes
    /\ doings' = doings + 1
    /\ UNCHANGED <<rootfs, temp, local, at, made, code>>

installROMFromLocalFile(t) ==
    Begin(t, "extract") /\ source' = [source EXCEPT ![t] = "local"]

downloadAndInstallROM(t) ==
    Begin(t, "connect") /\ source' = [source EXCEPT ![t] = "temp"]

(* An exception, or tar that ends before its time: onError will be called. *)
Fails(t, step) ==
    /\ job' = [job EXCEPT ![t] = step]
    /\ code' = [code EXCEPT ![t] = "other"]
    /\ UNCHANGED <<rootfs, temp, local, source, at, made, outcomes, doings>>

(* The download.  The stream truncates the file that another thread may be *)
(* writing or unpacking; when it is through another thread unpacks.        *)
Connect(t) ==
    /\ job[t] = "connect"
    /\ \/ Fails(t, "tell")
       \/ /\ temp' = {}
          /\ job' = [job EXCEPT ![t] = "download"]
          /\ UNCHANGED <<rootfs, local, source, at, made, code, outcomes, doings>>

Download(t) ==
    /\ job[t] = "download"
    /\ \/ Fails(t, "tell")
       \/ /\ at[t] < Size
          /\ temp' = temp \cup {at[t] + 1}
          /\ at' = [at EXCEPT ![t] = @ + 1]
          /\ UNCHANGED job
          /\ UNCHANGED <<rootfs, local, source, made, code, outcomes, doings>>
       \/ /\ at[t] = Size
          /\ job' = [job EXCEPT ![t] = "extract"]
          /\ at' = [at EXCEPT ![t] = 0]
          /\ UNCHANGED <<rootfs, temp, local, source, made, code, outcomes, doings>>

-----------------------------------------------------------------------------
(* tar, and what the thread makes of it.                                   *)

TarCreates(t) ==
    /\ job[t] = "extract" /\ at[t] < Size /\ ~ made[t]
    /\ rootfs' = [rootfs EXCEPT ![at[t] + 1] = t]
    /\ made' = [made EXCEPT ![t] = TRUE]
    /\ UNCHANGED <<temp, local, job, source, at, code, outcomes, doings>>

(* A file that another tar has removed meanwhile is filled in vain.        *)
TarFills(t) ==
    /\ job[t] = "extract" /\ made[t] /\ at[t] + 1 \in Archive(t)
    /\ rootfs' = [rootfs EXCEPT ![at[t] + 1] = IF @ = t THEN "whole" ELSE @]
    /\ at' = [at EXCEPT ![t] = @ + 1]
    /\ made' = [made EXCEPT ![t] = FALSE]
    /\ UNCHANGED <<temp, local, job, source, code, outcomes, doings>>

(* A damaged archive, a full disk, a signal.                               *)
TarFails(t) == job[t] = "extract" /\ Fails(t, "wait")

TarEnds(t) ==
    /\ job[t] = "extract" /\ at[t] = Size
    /\ job' = [job EXCEPT ![t] = "wait"]
    /\ code' = [code EXCEPT ![t] = "zero"]
    /\ UNCHANGED <<rootfs, temp, local, source, at, made, outcomes, doings>>

(* Nobody reads what tar complains of: when the pipe is full tar waits,    *)
(* and so does the thread.                                                 *)
TarBlocks(t) ==
    /\ job[t] = "extract"
    /\ job' = [job EXCEPT ![t] = "blocked"]
    /\ UNCHANGED <<rootfs, temp, local, source, at, made, code, outcomes, doings>>

(* The exit of tar is collected: by process.waitFor, or, while the engine  *)
(* runs, by the tracer's waitpid(-1), and then the code is anything.  The  *)
(* thread goes on at Tells, and the engine may have stopped by then.       *)
waitFor(t, reaping) ==
    /\ job[t] = "wait"
    /\ job' = [job EXCEPT ![t] = "tell"]
    /\ \/ UNCHANGED <<code, outcomes>>
       \/ /\ reaping
          /\ code' \in {[code EXCEPT ![t] = c] : c \in {"zero", "other"}}
          /\ outcomes' = outcomes \cup {"lost"}
    /\ UNCHANGED <<rootfs, temp, local, source, at, made, doings>>

(* Mutant: only the files decide, not the exit code. *)
SucceedsByFiles(t) == isROMInstalled

Succeeds(t) == code[t] = "zero" /\ isROMInstalled

(* Mutant: an exception is logged and not passed on. *)
TellsSuccessOnly(t) ==
    /\ job[t] = "tell" /\ Succeeds(t)
    /\ job' = [job EXCEPT ![t] = "idle"]
    /\ outcomes' = outcomes \cup {"success"}
    /\ UNCHANGED <<rootfs, temp, local, source, at, made, code, doings>>

(* onSuccess or onError.                                                   *)
Tells(t) ==
    /\ job[t] = "tell"
    /\ job' = [job EXCEPT ![t] = "idle"]
    /\ outcomes' = outcomes \cup {IF Succeeds(t) THEN "success" ELSE "error"}
    /\ at' = [at EXCEPT ![t] = 0]
    /\ made' = [made EXCEPT ![t] = FALSE]
    /\ code' = [code EXCEPT ![t] = "none"]
    /\ source' = [source EXCEPT ![t] = "temp"]
    /\ rootfs' = [e \in Entries |-> IF rootfs[e] = t THEN "torn" ELSE rootfs[e]]
    /\ UNCHANGED <<temp, local, doings>>

(* The process dies, with its threads and their tars; the files stay.      *)
RomsDie ==
    /\ doings < Enough /\ doings' = doings + 1
    /\ job' = [t \in Threads |-> "idle"]
    /\ at' = [t \in Threads |-> 0]
    /\ made' = [t \in Threads |-> FALSE]
    /\ code' = [t \in Threads |-> "none"]
    /\ outcomes' = {}
    /\ source' = [t \in Threads |-> "temp"]
    /\ rootfs' = [e \in Entries |-> IF rootfs[e] \in Threads THEN "torn" ELSE rootfs[e]]
    /\ UNCHANGED <<temp, local>>

NetworkStep(t) == Connect(t) \/ Download(t)
Unpack(t, reaping) ==
    \/ TarCreates(t) \/ TarFills(t) \/ TarFails(t) \/ TarEnds(t) \/ TarBlocks(t)
    \/ waitFor(t, reaping) \/ Tells(t)

-----------------------------------------------------------------------------
(* Properties, which the runs of App check.                                *)

RomTypeOK ==
    /\ rootfs \in [Entries -> {"absent", "torn", "whole"} \cup Threads]
    /\ temp \subseteq Entries /\ local \subseteq Entries
    /\ job \in [Threads -> {"idle", "blocked"} \cup Network \cup Working]
    /\ source \in [Threads -> {"temp", "local"}]
    /\ at \in [Threads -> 0 .. Size] /\ made \in [Threads -> BOOLEAN]
    /\ code \in [Threads -> {"none", "zero", "other"}]
    /\ outcomes \subseteq {"success", "error", "lost"} /\ doings \in 0 .. Enough

(* When every installation since nothing was being installed has told its  *)
(* success, the root file system is complete, though they unpack into one  *)
(* directory, truncate each other's archive and replace each other's       *)
(* files.  It is not the case once the engine's waitpid has had a tar.     *)
SuccessTold == AllIdle /\ outcomes = {"success"} => Complete

(* An installation that has its archive ends by telling how, unless tar    *)
(* waits for somebody to read its complaints.                              *)
InstallEnds ==
    \A t \in Threads : job[t] \in Working ~> job[t] \in {"idle", "blocked"}
=============================================================================
