------------------------------ MODULE AppProofs ------------------------------
(***************************************************************************)
(* Theorems about App, for any number of instances, threads, entries of    *)
(* the archive and doings.                                                 *)
(***************************************************************************)
EXTENDS App, TLAPS

USE SizeAssumption, BoundAssumption, ActivityAssumption DEF Nobody

-----------------------------------------------------------------------------
(* The installations.                                                      *)

RomStep ==
    \E t \in Threads :
        \/ installROMFromLocalFile(t) \/ downloadAndInstallROM(t) \/ NetworkStep(t)
        \/ \E reaping \in BOOLEAN : Unpack(t, reaping)

(* A step of an installation, and a death of the process, keep the types   *)
(* of its variables.                                                       *)
LEMMA RomTypes ==
    ASSUME RomTypeOK, RomStep \/ RomsDie \/ UNCHANGED roms
    PROVE  RomTypeOK'
<1> USE DEF RomTypeOK, Entries, Network, Working
<1>1. CASE UNCHANGED roms
      BY <1>1 DEF roms, files, threads
<1>2. CASE RomsDie
      BY <1>2 DEF RomsDie
<1>3. CASE RomStep
  <2> SUFFICES ASSUME NEW t \in Threads, NEW reaping \in BOOLEAN,
                      \/ installROMFromLocalFile(t) \/ downloadAndInstallROM(t)
                      \/ NetworkStep(t) \/ Unpack(t, reaping)
               PROVE  RomTypeOK'
      BY <1>3 DEF RomStep
  <2>1. CASE installROMFromLocalFile(t)
    <3>1. /\ job' = [job EXCEPT ![t] = "extract"] /\ doings < Enough /\ doings' = doings + 1
          /\ outcomes' \subseteq outcomes
          /\ UNCHANGED <<rootfs, temp, local, at, made, code>>
          BY <2>1 DEF installROMFromLocalFile, Begin
    <3>2. source' = [source EXCEPT ![t] = "local"]
          BY <2>1 DEF installROMFromLocalFile
    <3> QED
        BY <3>1, <3>2
  <2>2. CASE downloadAndInstallROM(t)
    <3>1. /\ job' = [job EXCEPT ![t] = "connect"] /\ doings < Enough /\ doings' = doings + 1
          /\ outcomes' \subseteq outcomes
          /\ UNCHANGED <<rootfs, temp, local, at, made, code>>
          BY <2>2 DEF downloadAndInstallROM, Begin
    <3>2. source' = [source EXCEPT ![t] = "temp"]
          BY <2>2 DEF downloadAndInstallROM
    <3> QED
        BY <3>1, <3>2
  <2>3. CASE Fails(t, "tell")
        BY <2>3 DEF Fails
  <2>4. CASE Fails(t, "wait")
        BY <2>4 DEF Fails
  <2>5. CASE Connect(t)
        BY <2>3, <2>5 DEF Connect, Fails
  <2>6. CASE Download(t)
    <3>1. CASE at[t] < Size /\ job[t] = "download" /\ ~ Fails(t, "tell")
      <4>1. at[t] + 1 \in 1 .. Size /\ at[t] + 1 \in 0 .. Size
            BY <3>1
      <4>2. /\ temp' = temp \cup {at[t] + 1} /\ at' = [at EXCEPT ![t] = at[t] + 1]
            /\ UNCHANGED <<rootfs, local, source, made, code, outcomes, doings, job>>
            BY <2>6, <3>1 DEF Download
      <4> QED
          BY <4>1, <4>2
    <3>2. CASE at[t] = Size /\ ~ Fails(t, "tell")
      <4>1. /\ job' = [job EXCEPT ![t] = "extract"] /\ at' = [at EXCEPT ![t] = 0]
            /\ UNCHANGED <<rootfs, temp, local, source, made, code, outcomes, doings>>
            BY <2>6, <3>2 DEF Download
      <4> QED
          BY <4>1
    <3> QED
        BY <2>3, <2>6, <3>1, <3>2 DEF Download
  <2>7. CASE TarCreates(t)
        BY <2>7 DEF TarCreates
  <2>8. CASE TarFills(t)
    <3>1. at[t] + 1 \in 1 .. Size /\ at[t] + 1 \in 0 .. Size
      <4>1. Archive(t) \subseteq 1 .. Size
            BY DEF Archive
      <4> QED
          BY <2>8, <4>1 DEF TarFills
    <3>2. /\ at' = [at EXCEPT ![t] = at[t] + 1] /\ made' = [made EXCEPT ![t] = FALSE]
          /\ rootfs' = [rootfs EXCEPT ![at[t] + 1] =
                           IF rootfs[at[t] + 1] = t THEN "whole" ELSE rootfs[at[t] + 1]]
          /\ UNCHANGED <<temp, local, job, source, code, outcomes, doings>>
          BY <2>8 DEF TarFills
    <3>3. rootfs[at[t] + 1] \in {"absent", "torn", "whole"} \cup Threads
          BY <3>1
    <3>4. rootfs' \in [1 .. Size -> {"absent", "torn", "whole"} \cup Threads]
          BY <3>1, <3>2, <3>3
    <3>5. at' \in [Threads -> 0 .. Size]
          BY <3>1, <3>2
    <3> QED
        BY <3>2, <3>4, <3>5
  <2>9. CASE TarFails(t)
        BY <2>4, <2>9 DEF TarFails
  <2>10. CASE TarEnds(t)
        BY <2>10 DEF TarEnds
  <2>11. CASE TarBlocks(t)
        BY <2>11 DEF TarBlocks
  <2>12. CASE waitFor(t, reaping)
        BY <2>12 DEF waitFor
  <2>13. CASE Tells(t)
        BY <2>13 DEF Tells
  <2> QED
      BY <2>1, <2>2, <2>5, <2>6, <2>7, <2>8, <2>9, <2>10, <2>11, <2>12, <2>13
      DEF NetworkStep, Unpack
<1> QED
    BY <1>1, <1>2, <1>3

-----------------------------------------------------------------------------
(* What an installation that ended well leaves behind.  The file of an     *)
(* entry may be replaced by another tar's at any time, so the most that    *)
(* can be said of an entry a tar is through with is that it is Placed.     *)

Placed(e) == rootfs[e] = "whole" \/ rootfs[e] \in Threads

(* Nobody has told an error, and the engine has taken no exit code.        *)
Clean == outcomes \subseteq {"success"}

(* A thread that does nothing has no traces of what it did; one that       *)
(* downloads has created no file; the exit code zero is that of a tar that *)
(* is through, unless the engine has had it.                               *)
Settled ==
    \A t \in Threads :
        /\ job[t] = "idle" => at[t] = 0 /\ ~ made[t] /\ code[t] = "none"
        /\ job[t] \in Network => ~ made[t] /\ code[t] # "zero"
        /\ job[t] = "extract" => code[t] # "zero"
        /\ code[t] = "zero" => "lost" \in outcomes \/ at[t] = Size

(* A file that is there and not filled is that of the next entry of a tar. *)
Owned ==
    \A t \in Threads, e \in Entries :
        rootfs[e] = t => made[t] /\ e = at[t] + 1 /\ job[t] # "idle"

Passed ==
    Clean => \A t \in Threads, e \in Entries :
        /\ job[t] = "extract" \/ code[t] = "zero"
        /\ e <= at[t] \/ (made[t] /\ e = at[t] + 1)
        => Placed(e)

Told == Clean /\ "success" \in outcomes => \A e \in Entries : Placed(e)

FilesInv == Settled /\ Owned /\ Passed /\ Told

(* What t is through with: no more than before, or nothing.                *)
Keeps(t) ==
    /\ (at'[t] = at[t] /\ (made'[t] <=> made[t])) \/ (~ made[t] /\ ~ made'[t])
    /\ job[t] # "idle" => job'[t] # "idle"
    /\ (job'[t] = "extract" \/ code'[t] = "zero") /\ "lost" \notin outcomes' =>
          \/ at'[t] = 0 /\ ~ made'[t]
          \/ at'[t] = at[t] /\ (made'[t] <=> made[t]) /\ (job[t] = "extract" \/ code[t] = "zero")

(* A step that touches no file, and after which no thread claims to be     *)
(* through with more, keeps the invariant.                                 *)
LEMMA FilesKept ==
    ASSUME FilesInv, Settled', UNCHANGED rootfs, outcomes \subseteq outcomes',
           "success" \in outcomes' => "success" \in outcomes,
           \A t \in Threads : Keeps(t)
    PROVE  FilesInv'
<1> USE DEF FilesInv, Keeps
<1>1. Clean' => Clean
  BY DEF Clean
<1>2. \A e \in Entries : Placed(e)' <=> Placed(e)
  BY DEF Placed
<1>3. Owned'
  BY DEF Owned
<1>4. Passed'
  <2> SUFFICES ASSUME Clean', NEW t \in Threads, NEW e \in Entries,
                      job'[t] = "extract" \/ code'[t] = "zero",
                      e <= at'[t] \/ (made'[t] /\ e = at'[t] + 1)
               PROVE  Placed(e)'
    BY DEF Passed
  <2>1. "lost" \notin outcomes'
    BY DEF Clean
  <2>2. ~ (at'[t] = 0 /\ ~ made'[t])
    BY DEF Entries
  <2>3. QED BY <1>1, <1>2, <2>1, <2>2 DEF Passed
<1>5. Told'
  BY <1>1, <1>2 DEF Told
<1>6. QED BY <1>3, <1>4, <1>5

(* Every step of an installation, whatever the others are at.              *)
LEMMA FilesStep ==
    ASSUME RomTypeOK, FilesInv, RomStep \/ RomsDie \/ UNCHANGED <<files, threads>>
    PROVE  FilesInv'
<1> USE ThreadAssumption DEF RomTypeOK, FilesInv
<1>1. CASE UNCHANGED <<files, threads>>
  BY <1>1 DEF files, threads, Settled, Owned, Passed, Told, Placed, Clean
<1>2. CASE RomsDie
  <2>1. /\ \A t \in Threads : job'[t] = "idle" /\ at'[t] = 0 /\ ~ made'[t] /\ code'[t] = "none"
        /\ outcomes' = {}
        /\ \A e \in Entries : rootfs'[e] \notin Threads
    BY <1>2 DEF RomsDie
  <2>2. QED BY <2>1 DEF Settled, Owned, Passed, Told, Network
<1>3. CASE RomStep
  <2> SUFFICES ASSUME NEW t \in Threads, NEW reaping \in BOOLEAN,
                      \/ installROMFromLocalFile(t) \/ downloadAndInstallROM(t)
                      \/ NetworkStep(t) \/ Unpack(t, reaping)
               PROVE  FilesInv'
    BY <1>3 DEF RomStep
  <2>1. CASE installROMFromLocalFile(t) \/ downloadAndInstallROM(t)
    <3>1. PICK step \in {"extract", "connect"} : Begin(t, step)
      BY <2>1 DEF installROMFromLocalFile, downloadAndInstallROM
    <3>2. UNCHANGED <<rootfs, at, made, code>> /\ job[t] = "idle" /\ job'[t] = step
              /\ \A u \in Threads \ {t} : job'[u] = job[u]
      BY <3>1 DEF Begin
    <3>3. at[t] = 0 /\ ~ made[t] /\ code[t] = "none"
      BY <3>2 DEF Settled
    <3>4. CASE AllIdle
      <4>1. outcomes' = {}
        BY <3>1, <3>4 DEF Begin
      <4>2. \A u \in Threads : at[u] = 0 /\ ~ made[u] /\ code[u] = "none"
        BY <3>4 DEF AllIdle, Settled
      <4>3. Settled' /\ Owned'
        BY <3>2, <4>2 DEF Settled, Owned, Network
      <4>4. Passed' /\ Told'
        BY <3>2, <4>1, <4>2 DEF Passed, Told, Entries
      <4>5. QED BY <4>3, <4>4
    <3>5. CASE ~ AllIdle
      <4>1. outcomes' = outcomes
        BY <3>1, <3>5 DEF Begin
      <4>2. Settled'
        BY <3>2, <3>3, <4>1 DEF Settled, Network
      <4>3. \A u \in Threads : Keeps(u)
        BY <3>2, <3>3 DEF Keeps
      <4>4. QED BY <3>2, <4>1, <4>2, <4>3, FilesKept
    <3>6. QED BY <3>4, <3>5
  <2>2. CASE Fails(t, "tell") /\ job[t] \in Network
    <3>1. UNCHANGED <<rootfs, at, made, outcomes>> /\ job'[t] = "tell" /\ code'[t] = "other"
              /\ \A u \in Threads \ {t} : job'[u] = job[u] /\ code'[u] = code[u]
      BY <2>2 DEF Fails
    <3>2. Settled'
      BY <2>2, <3>1 DEF Settled, Network
    <3>3. \A u \in Threads : Keeps(u)
      BY <2>2, <3>1 DEF Keeps, Network
    <3>4. QED BY <3>1, <3>2, <3>3, FilesKept
  <2>3. CASE Connect(t) /\ ~ Fails(t, "tell")
    <3>1. UNCHANGED <<rootfs, at, made, code, outcomes>> /\ job'[t] = "download"
              /\ job[t] = "connect" /\ \A u \in Threads \ {t} : job'[u] = job[u]
      BY <2>3 DEF Connect
    <3>2. Settled'
      BY <3>1 DEF Settled, Network
    <3>3. \A u \in Threads : Keeps(u)
      BY <3>1 DEF Keeps
    <3>4. QED BY <3>1, <3>2, <3>3, FilesKept
  <2>4. CASE Download(t) /\ ~ Fails(t, "tell")
    <3>1. UNCHANGED <<rootfs, made, code, outcomes>> /\ job[t] = "download"
              /\ \A u \in Threads \ {t} : job'[u] = job[u] /\ at'[u] = at[u]
      BY <2>4 DEF Download
    <3>2. job'[t] = "download" \/ (job'[t] = "extract" /\ at'[t] = 0)
      BY <2>4 DEF Download
    <3>3. ~ made[t] /\ code[t] # "zero"
      BY <3>1 DEF Settled, Network
    <3>4. Settled'
      BY <3>1, <3>2, <3>3 DEF Settled, Network
    <3>5. \A u \in Threads : Keeps(u)
      BY <3>1, <3>2, <3>3 DEF Keeps
    <3>6. QED BY <3>1, <3>4, <3>5, FilesKept
  <2>5. CASE TarCreates(t)
    <3>1. UNCHANGED <<job, at, code, outcomes>> /\ job[t] = "extract" /\ made'[t] /\ ~ made[t]
              /\ \A u \in Threads \ {t} : made'[u] = made[u]
      BY <2>5 DEF TarCreates
    <3>2. at[t] + 1 \in Entries /\ rootfs'[at[t] + 1] = t
              /\ \A e \in Entries \ {at[t] + 1} : rootfs'[e] = rootfs[e]
      BY <2>5 DEF TarCreates, Entries
    <3>3. \A e \in Entries : Placed(e) => Placed(e)'
      BY <3>2 DEF Placed
    <3>4. Settled'
      BY <3>1 DEF Settled, Network
    <3>5. Owned'
      BY <3>1, <3>2 DEF Owned
    <3>6. Passed'
      <4> SUFFICES ASSUME Clean', NEW u \in Threads, NEW e \in Entries,
                          job'[u] = "extract" \/ code'[u] = "zero",
                          e <= at'[u] \/ (made'[u] /\ e = at'[u] + 1)
                   PROVE  Placed(e)'
        BY DEF Passed
      <4>1. CASE u = t /\ e = at[t] + 1
        BY <3>2, <4>1 DEF Placed
      <4>2. CASE ~ (u = t /\ e = at[t] + 1)
        BY <3>1, <3>3, <4>2 DEF Passed, Clean
      <4>3. QED BY <4>1, <4>2
    <3>7. Told'
      BY <3>1, <3>3 DEF Told, Clean
    <3>8. QED BY <3>4, <3>5, <3>6, <3>7
  <2>6. CASE TarFills(t)
    <3>1. UNCHANGED <<job, code, outcomes>> /\ job[t] = "extract" /\ made[t] /\ ~ made'[t]
              /\ at'[t] = at[t] + 1
              /\ \A u \in Threads \ {t} : made'[u] = made[u] /\ at'[u] = at[u]
      BY <2>6 DEF TarFills
    <3>2. rootfs' = [rootfs EXCEPT ![at[t] + 1] =
                        IF rootfs[at[t] + 1] = t THEN "whole" ELSE rootfs[at[t] + 1]]
      BY <2>6 DEF TarFills
    <3>3. \A e \in Entries : /\ rootfs'[e] = IF e = at[t] + 1 /\ rootfs[e] = t THEN "whole" ELSE rootfs[e]
                             /\ Placed(e) => Placed(e)'
      BY <3>2 DEF Placed
    <3>4. Settled'
      BY <3>1 DEF Settled, Network
    <3>5. Owned'
      <4> SUFFICES ASSUME NEW u \in Threads, NEW e \in Entries, rootfs'[e] = u
                   PROVE  made'[u] /\ e = at'[u] + 1 /\ job'[u] # "idle"
        BY DEF Owned
      <4>1. rootfs[e] = u /\ ~ (e = at[t] + 1 /\ u = t)
        BY <3>3
      <4>2. QED BY <3>1, <4>1 DEF Owned
    <3>6. Passed'
      <4> SUFFICES ASSUME Clean', NEW u \in Threads, NEW e \in Entries,
                          job'[u] = "extract" \/ code'[u] = "zero",
                          e <= at'[u] \/ (made'[u] /\ e = at'[u] + 1)
                   PROVE  Placed(e)'
        BY DEF Passed
      <4>1. e <= at[u] \/ (made[u] /\ e = at[u] + 1)
        <5>1. CASE u = t
          <6>1. e <= at[t] + 1 /\ at[t] \in 0 .. Size /\ e \in 1 .. Size
            BY <3>1, <5>1 DEF Entries
          <6>2. e <= at[t] \/ e = at[t] + 1
            BY <6>1
          <6>3. QED BY <3>1, <5>1, <6>2
        <5>2. CASE u # t
          BY <3>1, <5>2
        <5>3. QED BY <5>1, <5>2
      <4>2. QED BY <3>1, <3>3, <4>1 DEF Passed, Clean
    <3>7. Told'
      BY <3>1, <3>3 DEF Told, Clean
    <3>8. QED BY <3>4, <3>5, <3>6, <3>7
  <2>7. CASE TarFails(t) \/ TarEnds(t) \/ TarBlocks(t)
    <3>1. UNCHANGED <<rootfs, at, made, outcomes>> /\ job[t] = "extract"
              /\ job'[t] \in {"wait", "blocked"}
              /\ \A u \in Threads \ {t} : job'[u] = job[u] /\ code'[u] = code[u]
      BY <2>7 DEF TarFails, Fails, TarEnds, TarBlocks
    <3>2. code'[t] = "zero" => at[t] = Size \/ code[t] = "zero"
      BY <2>7 DEF TarFails, Fails, TarEnds, TarBlocks
    <3>3. Settled'
      BY <3>1, <3>2 DEF Settled, Network
    <3>4. \A u \in Threads : Keeps(u)
      BY <3>1, <3>2 DEF Keeps
    <3>5. QED BY <3>1, <3>3, <3>4, FilesKept
  <2>8. CASE waitFor(t, reaping)
    <3>1. UNCHANGED <<rootfs, at, made>> /\ job[t] = "wait" /\ job'[t] = "tell"
              /\ \A u \in Threads \ {t} : job'[u] = job[u] /\ code'[u] = code[u]
      BY <2>8 DEF waitFor
    <3>2. \/ UNCHANGED <<code, outcomes>>
          \/ outcomes' = outcomes \cup {"lost"}
      BY <2>8 DEF waitFor
    <3>3. Settled'
      BY <3>1, <3>2 DEF Settled, Network
    <3>4. outcomes \subseteq outcomes' /\ ("success" \in outcomes' => "success" \in outcomes)
      BY <3>2
    <3>5. \A u \in Threads : Keeps(u)
      <4>1. "lost" \notin outcomes' => UNCHANGED code
        BY <3>2
      <4>2. QED BY <3>1, <4>1 DEF Keeps
    <3>6. QED BY <3>1, <3>3, <3>4, <3>5, FilesKept
  <2>9. CASE Tells(t)
    <3>1. /\ job[t] = "tell" /\ job'[t] = "idle" /\ at'[t] = 0 /\ ~ made'[t] /\ code'[t] = "none"
          /\ \A u \in Threads \ {t} :
                job'[u] = job[u] /\ at'[u] = at[u] /\ made'[u] = made[u] /\ code'[u] = code[u]
          /\ outcomes' = outcomes \cup {IF Succeeds(t) THEN "success" ELSE "error"}
      BY <2>9 DEF Tells
    <3>2. \A e \in Entries : rootfs'[e] = IF rootfs[e] = t THEN "torn" ELSE rootfs[e]
      BY <2>9 DEF Tells
    <3>3. Clean' => Clean /\ code[t] = "zero" /\ at[t] = Size
      BY <3>1 DEF Clean, Succeeds, Settled
    <3>4. Clean' => \A e \in Entries : Placed(e)'
      <4> SUFFICES ASSUME Clean', NEW e \in Entries
                   PROVE  Placed(e)'
        OBVIOUS
      <4>1. Placed(e)
        BY <3>3 DEF Passed, Entries
      <4>2. rootfs[e] # t
        BY <3>3 DEF Owned, Entries
      <4>3. QED BY <3>2, <4>1, <4>2 DEF Placed
    <3>5. Settled'
      BY <3>1 DEF Settled, Network
    <3>6. Owned'
      BY <3>1, <3>2 DEF Owned
    <3>7. QED BY <3>4, <3>5, <3>6 DEF Passed, Told
  <2>10. QED
    BY <2>1, <2>2, <2>3, <2>4, <2>5, <2>6, <2>7, <2>8, <2>9
    DEF NetworkStep, Unpack, Connect, Download, Network
<1>4. QED BY <1>1, <1>2, <1>3

-----------------------------------------------------------------------------
(* The instances, the engine and the window.                               *)

(* As long as no two instances have existed at the same time, there is one *)
(* at most, and a surface is the one the display has taken.                *)
Alone == ~ overlap => \A a, b \in Activities : Exists(a) /\ Exists(b) => a = b

WindowTaken == ~ overlap => \A a \in surface : window = a

(* The button of an instance and its own idea of the machine differ only   *)
(* by what the end of an installation has put on the button.               *)
ButtonsHeld ==
    \A a \in Activities : a \in offersStop <=> mIsRunning[a] /\ a \notin relabelled

(* The inductive invariant without the types of the installations.         *)
AppTypeOK ==
    /\ state \in [Activities -> {"none", "live", "dying", "destroyed"}]
    /\ mIsRunning \in [Activities -> BOOLEAN]
    /\ offersStop \subseteq Activities /\ relabelled \subseteq Activities
    /\ asker \in [Threads -> Activities \cup {Nobody}]
    /\ surface \subseteq {a \in Activities : Exists(a)}
    /\ shown = Nobody \/ (shown \in Activities /\ state[shown] = "live")
    /\ foreground \in BOOLEAN /\ engine \in BOOLEAN /\ service \in BOOLEAN
    /\ sticky \in BOOLEAN /\ overlap \in BOOLEAN
    /\ forgotten \in Nat
    /\ window \in Activities \cup {Nobody} /\ references \in [Activities -> Nat]

AppInv ==
    AppTypeOK /\ Alone /\ ButtonsHeld /\ MachineOwned /\ StatusTrue /\ WindowHeld
    /\ WindowTaken

IInv == RomTypeOK /\ FilesInv /\ AppInv

(* A launch keeps the invariant: without another instance there is neither *)
(* an engine that runs nor a surface.                                      *)
LEMMA Create ==
    ASSUME AppInv, NEW a \in Activities, onCreate(a)
    PROVE  AppInv'
<1> USE DEF AppInv, Exists, machine, display
<1>1. AppTypeOK'
      BY DEF AppTypeOK, onCreate
<1>2. Alone'
      BY DEF AppTypeOK, Alone, onCreate
<1>3. MachineOwned'
      BY DEF AppTypeOK, MachineOwned, onCreate
<1>4. StatusTrue'
  <2>1. /\ shown' = a /\ mIsRunning'[a] = FALSE /\ a \notin offersStop'
        /\ UNCHANGED <<engine, service, sticky>>
        BY DEF AppTypeOK, onCreate
  <2>2. ~ overlap' => ~ engine
        BY DEF MachineOwned, onCreate
  <2>3. engine \in BOOLEAN
        BY DEF AppTypeOK
  <2>4. (engine => service) /\ (service => engine \/ sticky)
        BY DEF StatusTrue
  <2>5. engine = FALSE => (mIsRunning'[shown'] = engine')
        BY <2>1
  <2> QED
      BY <2>1, <2>2, <2>3, <2>4, <2>5 DEF StatusTrue
<1>5. WindowHeld' /\ WindowTaken'
      BY DEF AppTypeOK, WindowHeld, WindowTaken, onCreate
<1>6. ButtonsHeld'
      BY DEF AppTypeOK, ButtonsHeld, onCreate
<1> QED
    BY <1>1, <1>2, <1>3, <1>4, <1>5, <1>6

(* The end of an instance keeps it: who else is shown has overlapped.      *)
LEMMA Destroy ==
    ASSUME AppInv, NEW a \in Activities, onDestroy(a)
    PROVE  AppInv'
<1> USE DEF AppInv, Exists, buttons, display, StopMachine, StopEngine, StopService
<1>1. AppTypeOK'
      BY DEF AppTypeOK, onDestroy, machine
<1>2. Alone'
      BY DEF AppTypeOK, Alone, onDestroy
<1>3. MachineOwned'
      BY DEF AppTypeOK, MachineOwned, onDestroy, machine
<1>4. StatusTrue'
      BY DEF AppTypeOK, Alone, StatusTrue, onDestroy, machine
<1>5. WindowHeld' /\ WindowTaken'
      BY DEF AppTypeOK, WindowHeld, WindowTaken, onDestroy
<1>6. ButtonsHeld'
      BY DEF ButtonsHeld, buttons, onDestroy
<1> QED
    BY <1>1, <1>2, <1>3, <1>4, <1>5, <1>6

(* Home, back and a change of the configuration keep it.                   *)
LEMMA Leave ==
    ASSUME AppInv, Home \/ Finish
    PROVE  AppInv'
<1> USE DEF AppInv, Exists, buttons, machine, display
<1>1. AppTypeOK'
      BY DEF AppTypeOK, Home, Finish
<1>2. Alone'
      BY DEF AppTypeOK, Alone, Home, Finish
<1>3. MachineOwned'
      BY DEF AppTypeOK, MachineOwned, Home, Finish
<1>4. StatusTrue'
      BY DEF AppTypeOK, Alone, StatusTrue, Home, Finish
<1>5. WindowHeld' /\ WindowTaken'
      BY DEF AppTypeOK, WindowHeld, WindowTaken, Home, Finish
<1>6. ButtonsHeld'
      BY DEF ButtonsHeld, buttons, Home, Finish
<1> QED
    BY <1>1, <1>2, <1>3, <1>4, <1>5, <1>6

(* The death of the process, after which only the service comes back.      *)
LEMMA Death ==
    ASSUME AppInv, ProcessDies
    PROVE  AppInv'
<1> USE DEF AppInv, Exists, ProcessDies
<1>1. AppTypeOK' /\ Alone'
      BY DEF AppTypeOK, Alone
<1>2. MachineOwned' /\ StatusTrue'
      BY DEF AppTypeOK, MachineOwned, StatusTrue
<1>3. WindowHeld' /\ WindowTaken' /\ ButtonsHeld'
      BY DEF WindowHeld, WindowTaken, ButtonsHeld, AppTypeOK
<1> QED
    BY <1>1, <1>2, <1>3

(* A surface that comes, changes or goes: set_native_window drops the      *)
(* reference to the window there was after it has taken its own, and is    *)
(* right also when the two are the same.                                   *)
LEMMA Surface ==
    ASSUME AppInv, NEW a \in Activities,
           surfaceCreated(a) \/ surfaceChanged(a) \/ surfaceDestroyed(a)
    PROVE  AppInv'
<1> USE DEF AppInv, Exists, machine
<1>1. \A b \in Activities : /\ state'[b] # "none" => state'[b] = state[b]
                            /\ state[b] \in {"live", "dying"} => state'[b] = state[b]
      BY DEF AppTypeOK, surfaceCreated, surfaceChanged, surfaceDestroyed, activities
<1>2. UNCHANGED <<mIsRunning, offersStop, asker, relabelled, shown, foreground, overlap,
                  engine, forgotten, service, sticky>>
      BY DEF surfaceCreated, surfaceChanged, surfaceDestroyed, activities, buttons
<1>3. Alone' /\ ButtonsHeld' /\ MachineOwned' /\ StatusTrue'
      BY <1>1, <1>2 DEF Alone, ButtonsHeld, MachineOwned, StatusTrue
<1>4. CASE surfaceCreated(a) \/ surfaceChanged(a)
  <2>1. /\ a # Nobody /\ a = shown /\ set_native_window(a)
        /\ surface' = surface \cup {a} /\ UNCHANGED state
        BY <1>4 DEF surfaceCreated, surfaceChanged, activities, nativeSetSurface, AppTypeOK
  <2>2. \A b \in Activities :
            references[b] + (IF b = a THEN 1 ELSE 0) - (IF b = window THEN 1 ELSE 0)
                = IF b = a THEN 1 ELSE 0
        BY DEF WindowHeld
  <2>3. references' = [b \in Activities |-> IF b = a THEN 1 ELSE 0] /\ window' = a
        BY <2>1, <2>2 DEF set_native_window
  <2>4. AppTypeOK'
        BY <1>2, <2>1, <2>3 DEF AppTypeOK
  <2>5. WindowTaken'
        BY <1>2, <2>1, <2>3 DEF WindowTaken, Alone, AppTypeOK
  <2>6. WindowHeld'
        BY <1>2, <2>1, <2>3 DEF WindowHeld
  <2> QED
      BY <1>3, <2>4, <2>5, <2>6
<1>5. CASE surfaceDestroyed(a)
  <2>1. /\ a \in surface /\ surface' = surface \ {a} /\ release
        /\ state' = [state EXCEPT ![a] = IF @ = "destroyed" THEN "none" ELSE @]
        /\ a # shown \/ ~ foreground
        BY <1>5 DEF surfaceDestroyed, nativeSetSurface
  <2>2. references' = [b \in Activities |-> 0] /\ window' = Nobody
    <3>1. CASE window = Nobody
          BY <2>1, <3>1 DEF release, WindowHeld, AppTypeOK
    <3>2. CASE window # Nobody
      <4>1. window \in Activities /\ references[window] - 1 = 0
            BY <3>2 DEF WindowHeld, AppTypeOK
      <4>2. references' = [references EXCEPT ![window] = 0] /\ window' = Nobody
            BY <2>1, <3>2, <4>1 DEF release
      <4>3. \A b \in Activities : b # window => references[b] = 0
            BY DEF WindowHeld
      <4> QED
          BY <4>1, <4>2, <4>3 DEF AppTypeOK
    <3> QED
        BY <3>1, <3>2
  <2>3. ~ overlap => surface' = {}
        BY <2>1 DEF Alone, AppTypeOK
  <2>4. AppTypeOK'
    <3>1. state' \in [Activities -> {"none", "live", "dying", "destroyed"}]
          BY <2>1 DEF AppTypeOK
    <3>2. \A b \in surface' : b \in Activities /\ state'[b] # "none"
          BY <2>1 DEF AppTypeOK
    <3>3. shown' = Nobody \/ (shown' \in Activities /\ state'[shown'] = "live")
          BY <1>1, <1>2 DEF AppTypeOK
    <3> QED
        BY <1>2, <2>2, <3>1, <3>2, <3>3 DEF AppTypeOK
  <2>5. WindowTaken'
        BY <1>2, <2>3 DEF WindowTaken
  <2>6. WindowHeld'
        BY <1>2, <2>2, <2>3 DEF WindowHeld, AppTypeOK
  <2> QED
      BY <1>3, <2>4, <2>5, <2>6
<1> QED
    BY <1>4, <1>5

(* A click: an engine that runs while the shown instance has not started   *)
(* it belongs to another instance.                                         *)
LEMMA Click ==
    ASSUME AppInv, clickStart \/ clickStop
    PROVE  AppInv'
<1> USE DEF AppInv, Exists, Clicked, display, StartEngine, StartService,
            StopMachine, StopEngine, StopService
<1>1. AppTypeOK'
  <2>1. forgotten' = forgotten \/ forgotten' = forgotten + 1
        BY DEF clickStart, clickStop
  <2>2. forgotten' \in Nat
        BY <2>1 DEF AppTypeOK
  <2>3. engine' \in BOOLEAN
        BY DEF clickStart, clickStop
  <2>4. mIsRunning' \in [Activities -> BOOLEAN]
        BY DEF AppTypeOK, clickStart, clickStop
  <2>5. service' \in BOOLEAN /\ sticky' \in BOOLEAN
        BY DEF clickStart, clickStop
  <2>6. UNCHANGED <<state, asker, surface, shown, foreground, overlap, window,
                    references>>
        BY DEF clickStart, clickStop
  <2>7. offersStop' \subseteq Activities /\ relabelled' \subseteq Activities
        BY DEF AppTypeOK, clickStart, clickStop
  <2> QED
      BY <2>2, <2>3, <2>4, <2>5, <2>6, <2>7 DEF AppTypeOK
<1>2. Alone'
      BY DEF Alone, clickStart, clickStop
<1>3. MachineOwned'
  <2>1. CASE clickStop
        BY <2>1 DEF AppTypeOK, MachineOwned, clickStop
  <2>2. CASE clickStart
    <3>1. shown \in Activities /\ state[shown] = "live" /\ mIsRunning'[shown]
          BY <2>2 DEF AppTypeOK, clickStart
    <3>2. engine => overlap
          BY <2>2, <3>1 DEF MachineOwned, Alone, clickStart
    <3> QED
        BY <2>2, <3>1, <3>2 DEF AppTypeOK, MachineOwned, clickStart
  <2> QED
      BY <2>1, <2>2
<1>4. StatusTrue'
  <2>1. /\ shown \in Activities /\ shown' = shown /\ service' = engine'
        /\ mIsRunning'[shown] = engine' /\ shown \notin relabelled'
        BY DEF AppTypeOK, clickStart, clickStop
  <2>2. shown \in offersStop' <=> engine'
    <3>1. CASE clickStart
          BY <3>1 DEF clickStart
    <3>2. CASE clickStop
          BY <3>2 DEF clickStop
    <3> QED
        BY <3>1, <3>2
  <2> QED
      BY <2>1, <2>2 DEF StatusTrue
<1>5. WindowHeld' /\ WindowTaken'
      BY DEF WindowHeld, WindowTaken, clickStart, clickStop
<1>6. ButtonsHeld'
      BY DEF AppTypeOK, ButtonsHeld, clickStart, clickStop
<1> QED
    BY <1>1, <1>2, <1>3, <1>4, <1>5, <1>6

(* A step that leaves the instances, the engine and the display alone, and *)
(* of the buttons changes at most that of one instance, to "Start".        *)
LEMMA Untouched ==
    ASSUME AppInv, UNCHANGED <<activities, machine, display>>,
           asker' \in [Threads -> Activities \cup {Nobody}],
           \/ UNCHANGED <<offersStop, relabelled>>
           \/ \E a \in Activities \cup {Nobody} : ShowsStart(a)
    PROVE  AppInv'
<1> USE DEF AppInv, activities, machine, display
<1>1. AppTypeOK'
      BY DEF AppTypeOK, ShowsStart, Exists
<1>2. Alone' /\ MachineOwned' /\ WindowHeld' /\ WindowTaken'
      BY DEF Alone, MachineOwned, WindowHeld, WindowTaken, Exists
<1>3. ButtonsHeld'
      BY DEF AppTypeOK, ButtonsHeld, ShowsStart
<1>4. StatusTrue'
      BY DEF AppTypeOK, StatusTrue, ShowsStart
<1> QED
    BY <1>1, <1>2, <1>3, <1>4

(* The states a start of the app can find, whatever is installed.          *)
LEMMA Initially == Init => IInv
<1> SUFFICES ASSUME Init PROVE IInv
    OBVIOUS
<1>1. RomTypeOK
      BY DEF Init, RomInit, RomTypeOK, Entries, Network, Working
<1>2. AppTypeOK
      BY DEF Init, AppTypeOK, Exists
<1>6. Alone /\ ButtonsHeld
      BY DEF Init, Alone, ButtonsHeld, Exists
<1>3. MachineOwned /\ StatusTrue
      BY DEF Init, MachineOwned, StatusTrue
<1>4. WindowHeld /\ WindowTaken
      BY DEF Init, WindowHeld, WindowTaken
<1>5. Settled /\ Owned /\ Passed /\ Told
      BY ThreadAssumption DEF Init, RomInit, Settled, Owned, Passed, Told, Network
<1> QED
    BY <1>1, <1>2, <1>3, <1>4, <1>5, <1>6 DEF IInv, AppInv, FilesInv

(* Every step of the app, its installations included.                      *)
LEMMA Inductive == IInv /\ [Next]_vars => IInv'
<1> SUFFICES ASSUME IInv, [Next]_vars PROVE IInv'
    OBVIOUS
<1>1. ASSUME NEW a \in Activities,
             \/ onCreate(a) \/ onDestroy(a)
             \/ surfaceCreated(a) \/ surfaceChanged(a) \/ surfaceDestroyed(a)
      PROVE  IInv'
  <2>1. AppInv'
        BY <1>1, Create, Destroy, Surface DEF IInv
  <2>2. RomTypeOK'
    <3>1. CASE onCreate(a)
          BY <3>1 DEF onCreate, IInv, RomTypeOK, files, threads
    <3>2. CASE ~ onCreate(a)
      <4>1. UNCHANGED roms
            BY <1>1, <3>2 DEF onDestroy, surfaceCreated, surfaceChanged, surfaceDestroyed
      <4> QED
          BY <4>1, RomTypes DEF IInv
    <3> QED
        BY <3>1, <3>2
  <2>3. UNCHANGED <<files, threads>>
        BY <1>1 DEF onCreate, onDestroy, surfaceCreated, surfaceChanged, surfaceDestroyed,
           roms
  <2> QED
      BY <2>1, <2>2, <2>3, FilesStep DEF IInv
<1>2. CASE Home \/ Finish
  <2>1. UNCHANGED roms
        BY <1>2 DEF Home, Finish
  <2> QED
      BY <1>2, <2>1, Leave, RomTypes, FilesStep DEF IInv, roms
<1>3. CASE ProcessDies
  <2>1. RomsDie
        BY <1>3 DEF ProcessDies
  <2> QED
      BY <1>3, <2>1, Death, RomTypes, FilesStep DEF IInv
<1>4. CASE clickStart \/ clickStop
  <2>1. UNCHANGED roms
        BY <1>4 DEF clickStart, clickStop
  <2> QED
      BY <1>4, <2>1, Click, RomTypes, FilesStep DEF IInv, roms
<1>5. ASSUME NEW t \in Threads, clickInstall(t) \/ Installation(t) \/ Downloading(t)
      PROVE  IInv'
  <2>1. UNCHANGED <<activities, machine, display>>
        BY <1>5 DEF clickInstall, Installation, Downloading
  <2>4. asker' \in [Threads -> Activities \cup {Nobody}]
        BY <1>5 DEF clickInstall, Installation, Downloading, buttons, Clicked, IInv,
           AppInv, AppTypeOK
  <2>5. \/ UNCHANGED <<offersStop, relabelled>>
        \/ \E a \in Activities \cup {Nobody} : ShowsStart(a)
        BY <1>5 DEF clickInstall, Installation, Downloading, buttons, IInv, AppInv,
           AppTypeOK
  <2>2. (engine \/ forgotten > 0) \in BOOLEAN
        BY DEF IInv, AppInv, AppTypeOK
  <2>3. RomStep
        BY <1>5, <2>2 DEF clickInstall, Installation, Downloading, RomStep
  <2> QED
      BY <2>1, <2>3, <2>4, <2>5, Untouched, RomTypes, FilesStep DEF IInv
<1>6. CASE UNCHANGED vars
  <2>1. /\ UNCHANGED <<activities, machine, display>> /\ UNCHANGED roms
        /\ UNCHANGED <<offersStop, relabelled>>
        /\ asker' \in [Threads -> Activities \cup {Nobody}]
        BY <1>6 DEF vars, buttons, IInv, AppInv, AppTypeOK
  <2> QED
      BY <1>6, <2>1, Untouched, RomTypes, FilesStep DEF IInv, roms
<1> QED
    BY <1>1, <1>2, <1>3, <1>4, <1>5, <1>6 DEF Next

(* So the invariant always holds. *)
LEMMA Invariant == Spec => []IInv
BY Initially, Inductive, PTL DEF Spec

(* The variables have their types: what is shown is a live instance, and   *)
(* a surface belongs to one that is not yet gone.                          *)
THEOREM AppTypes == Spec => []TypeOK
<1>1. IInv => TypeOK
      BY DEF IInv, AppInv, AppTypeOK, TypeOK
<1> QED
    BY Invariant, <1>1, PTL

(* Installations that have all told success have left a complete root file *)
(* system, however many there were and whatever they did to each other's   *)
(* files and archive, unless the engine's waitpid has had a tar.           *)
THEOREM SuccessIsTrue == Spec => []SuccessTold
<1>1. IInv => SuccessTold
      BY DEF IInv, FilesInv, Told, Clean, Owned, Placed, SuccessTold, AllIdle, Complete
<1> QED
    BY Invariant, <1>1, PTL

(* A running engine has an instance that will stop it, however many        *)
(* instances there are.                                                    *)
THEOREM EngineOwned == Spec => []MachineOwned
<1>1. IInv => MachineOwned
      BY DEF IInv, AppInv
<1> QED
    BY Invariant, <1>1, PTL

(* For one instance at a time a click stops exactly an engine that runs,   *)
(* the button says so unless the end of an installation has relabelled it, *)
(* and the notification is there for a running engine only.                *)
THEOREM StatusIsTrue == Spec => []StatusTrue
<1>1. IInv => StatusTrue
      BY DEF IInv, AppInv
<1> QED
    BY Invariant, <1>1, PTL

(* The display holds one reference, to a window whose surface exists.      *)
THEOREM OneWindowHeld == Spec => []WindowHeld
<1>1. IInv => WindowHeld
      BY DEF IInv, AppInv
<1> QED
    BY Invariant, <1>1, PTL
=============================================================================
