----------------------------- MODULE EngineProofs -----------------------------
(***************************************************************************)
(* Theorems about EngineLifecycle, for any number of starts and either     *)
(* program.  What the proof needs of StartApp, StopApp, StopCli and Unwind *)
(* is what they contain and that they are Orderly; the rest is about what  *)
(* is still to do of them.                                                 *)
(***************************************************************************)
EXTENDS EngineLifecycle, SequenceTheorems, TLAPS

Services == {"prop", "dns", "audio"}

(* What the tracer uses of the objects. *)
Traced == {"dispatcher", "tree", "resolver", "binder", "fb"}

StartSteps == {New(o) : o \in Objects} \cup {Run}
StopSteps  == {Stop(o) : o \in Services} \cup {Delete(o) : o \in Objects} \cup {KillAll, Join}
Steps      == StartSteps \cup StopSteps

(* A step h may come before those in after.                                *)
Fits(h, after) ==
    /\ KillAll \notin after
    /\ h = Run => after = {}
    /\ h \in after => \E o \in Services : h = Stop(o)
    /\ h = New("gralloc") => New("fb") \in after
    /\ h = Delete("fb") => Delete("gralloc") \in after
    /\ \A o \in Services : h = Stop(o) => Delete(o) \in after
    /\ h = Join => {Delete(o) : o \in Traced} \subseteq after

After(s, k) == {s[j] : j \in k + 1 .. Len(s)}
Orderly(s)  == s \in Seq(Steps) /\ \A k \in 1 .. Len(s) : Fits(s[k], After(s, k))

Left == ToSet(todo)

-----------------------------------------------------------------------------
(* The inductive invariant.  Before the start and after the stop.          *)
AtRest ==
    upc \in {"idle", "ended"} =>
        /\ todo = <<>> /\ objects = {} /\ ~ tracked
        /\ prop_phase = "idle" /\ dns_phase = "idle" /\ audio_opc = "idle"
        /\ thread_phase = "none"

(* An object exists once it has been made, or its init has begun; the      *)
(* thread comes last.                                                      *)
Starting ==
    upc = "starting" =>
        /\ Left \subseteq StartSteps
        /\ Left # {} => Run \in Left /\ thread_phase = "none" /\ ~ tracked
        /\ \A o \in Passive : o \in objects <=> New(o) \notin Left
        /\ "prop" \in objects <=> prop_phase # "idle"
        /\ "dns" \in objects <=> dns_phase # "idle"
        /\ "audio" \in objects <=> audio_opc # "idle"
        /\ IF New("prop") \in Left THEN prop_phase \in {"idle", "starting"} ELSE prop_phase = "up"
        /\ IF New("dns") \in Left THEN dns_phase \in {"idle", "starting"} ELSE dns_phase = "up"
        /\ IF New("audio") \in Left THEN audio_opc \in {"idle"} \cup Audio!Starting
           ELSE audio_opc = "up"

InService == prop_phase = "up" /\ dns_phase = "up" /\ audio_opc = "up"

AllUp == upc = "up" => todo = <<>> /\ objects = Objects /\ InService

(* An object exists until it has been deleted, a thread until it has been  *)
(* joined.  After kill_all the guest is dead, unless it has escaped.       *)
Halting ==
    upc = "stopping" =>
        /\ Left \subseteq StopSteps
        /\ \A o \in Objects : o \in objects <=> Delete(o) \in Left
        /\ prop_phase # "starting" /\ dns_phase # "starting" /\ audio_opc \notin Audio!Starting
        /\ prop_phase # "idle" => Stop("prop") \in Left
        /\ dns_phase # "idle" => Stop("dns") \in Left
        /\ audio_opc # "idle" => Stop("audio") \in Left
        /\ thread_phase # "none" => Join \in Left
        /\ tracked => Delete("tree") \in Left
        /\ IF KillAll \in Left THEN InService
           ELSE escaped \/ thread_phase = "none" \/ (~ alive /\ thread_phase # "entry")

(* The audio thread: what init_audio opens is there until stop closes it,  *)
(* and the thread is in its loop while the flag is set.                    *)
AudioOwned ==
    /\ audio_open <=> \/ audio_opc \in Audio!Starting \cup {"stop_close"}
                      \/ audio_opc = "up" /\ audio_running
    /\ audio_fd = "fd" <=> audio_open \/ audio_opc = "stop_forget"
    /\ audio_stream = "closed" <=> audio_opc = "stop_null"
    /\ audio_opc \in {"idle", "init_stream", "stop_join"} => audio_stream = "null"
    /\ audio_opc \in {"idle"} \cup Audio!Starting => audio_wpc = "none"
    /\ IF audio_running THEN audio_opc = "up" /\ audio_wpc \notin {"none", "exited"}
       ELSE audio_opc = "up" => audio_wpc = "none"

(* A late use ends what the thread may still do of the kind.               *)
AudioLate ==
    /\ audio_reads \in {0, 1} /\ audio_writes \in {0, 1}
    /\ audio_opc \in Audio!Starting => audio_reads = 0 /\ audio_writes = 0
    /\ audio_running /\ audio_wpc = "write" => audio_stream = "open"
    /\ audio_reads = 1 => ~ audio_running /\ audio_wpc \notin {"test", "read"}
    /\ audio_writes = 1 => ~ audio_running /\ audio_wpc \notin {"test", "read", "pcm", "write"}

IInv == TypeOK /\ Orderly(todo) /\ AtRest /\ Starting /\ AllUp /\ Halting
        /\ AudioOwned /\ AudioLate

-----------------------------------------------------------------------------
(* The steps of the programs are different ones.                           *)
LEMMA StepKinds ==
    /\ \A o, p : /\ New(o) = New(p) <=> o = p
                 /\ Stop(o) = Stop(p) <=> o = p
                 /\ Delete(o) = Delete(p) <=> o = p
                 /\ New(o) # Stop(p) /\ New(o) # Delete(p) /\ Stop(o) # Delete(p)
    /\ \A o : /\ Run # New(o) /\ Run # Stop(o) /\ Run # Delete(o)
              /\ KillAll # New(o) /\ KillAll # Stop(o) /\ KillAll # Delete(o)
              /\ Join # New(o) /\ Join # Stop(o) /\ Join # Delete(o)
    /\ Run # KillAll /\ Run # Join /\ KillAll # Join
BY DEF New, Stop, Delete, Run, KillAll, Join

(* What is left of an orderly program is orderly. *)
LEMMA Rests ==
    ASSUME NEW s, Orderly(s), s # <<>>
    PROVE  /\ Head(s) \in Steps /\ Orderly(Tail(s))
           /\ ToSet(s) = {Head(s)} \cup ToSet(Tail(s))
           /\ Fits(Head(s), ToSet(Tail(s)))
<1> DEFINE t == Tail(s)
<1>1. /\ s \in Seq(Steps) /\ t \in Seq(Steps) /\ Len(s) \in Nat /\ Len(t) = Len(s) - 1
      /\ Head(s) \in Steps /\ Head(s) = s[1] /\ Len(s) > 0
      /\ \A i \in 1 .. Len(t) : t[i] = s[i + 1]
      BY HeadTailProperties, EmptySeq DEF Orderly
<1>2. DOMAIN s = 1 .. Len(s) /\ DOMAIN t = 1 .. Len(t)
      BY <1>1
<1> HIDE DEF t
<1>3. \A k \in 0 .. Len(t) : After(t, k) = After(s, k + 1)
  <2> SUFFICES ASSUME NEW k \in 0 .. Len(t) PROVE After(t, k) = After(s, k + 1)
      OBVIOUS
  <2>1. \A j \in k + 1 .. Len(t) : j + 1 \in k + 2 .. Len(s) /\ t[j] = s[j + 1]
        BY <1>1
  <2>2. \A j \in k + 2 .. Len(s) : j - 1 \in k + 1 .. Len(t) /\ s[j] = t[j - 1]
        BY <1>1
  <2>3. \A e : e \in After(t, k) => e \in After(s, k + 1)
        BY <2>1, <1>1 DEF After
  <2>4. \A e : e \in After(s, k + 1) => e \in After(t, k)
        BY <2>2, <1>1 DEF After
  <2> QED
      BY <2>3, <2>4
<1>4. ToSet(t) = After(t, 0) /\ ToSet(s) = After(s, 0)
      BY <1>2, <1>1 DEF ToSet, After
<1>5. After(s, 0) = {s[1]} \cup After(s, 1)
      BY <1>1 DEF After
<1>6. Fits(Head(s), ToSet(t))
      BY <1>1, <1>3, <1>4 DEF Orderly
<1>7. ASSUME NEW k \in 1 .. Len(t) PROVE Fits(t[k], After(t, k))
      BY <1>1, <1>3 DEF Orderly
<1> QED
    BY <1>1, <1>3, <1>4, <1>5, <1>6, <1>7 DEF t, Orderly

(* Of two steps of an orderly program the second is left as long as the    *)
(* first is.                                                               *)
LEMMA Sequel ==
    ASSUME NEW s, Orderly(s)
    PROVE  /\ New("gralloc") \in ToSet(s) => New("fb") \in ToSet(s)
           /\ Delete("fb") \in ToSet(s) => Delete("gralloc") \in ToSet(s)
           /\ \A o \in Services : Stop(o) \in ToSet(s) => Delete(o) \in ToSet(s)
           /\ Join \in ToSet(s) => {Delete(o) : o \in Traced} \subseteq ToSet(s)
<1>1. s \in Seq(Steps) /\ DOMAIN s = 1 .. Len(s) /\ Len(s) \in Nat
      BY DEF Orderly
<1>2. ASSUME NEW h \in ToSet(s)
      PROVE  \E a \in SUBSET ToSet(s) : Fits(h, a)
  <2>1. PICK k \in 1 .. Len(s) : h = s[k]
        BY <1>1 DEF ToSet
  <2>2. Fits(h, After(s, k))
        BY <2>1 DEF Orderly
  <2>3. After(s, k) \subseteq ToSet(s)
        BY <1>1 DEF After, ToSet
  <2> QED
      BY <2>2, <2>3
<1> QED
    BY <1>2 DEF Fits

(* The start makes every object and then runs the thread. *)
LEMMA StartProgram ==
    Orderly(StartApp) /\ ToSet(StartApp) = StartSteps
<1>1. /\ StartApp \in Seq(Steps) /\ Len(StartApp) = 11 /\ DOMAIN StartApp = 1 .. 11
      BY DEF StartApp, Steps, StartSteps, Objects, Passive
<1>2. ToSet(StartApp) = StartSteps
      BY <1>1 DEF ToSet, StartSteps, StartApp, Objects, Passive
<1>3. /\ StartApp[1] = New("resolver") /\ StartApp[2] = New("tree") /\ StartApp[3] = New("prop")
      /\ StartApp[4] = New("dns") /\ StartApp[5] = New("binder") /\ StartApp[6] = New("audio")
      /\ StartApp[7] = New("input") /\ StartApp[8] = New("gralloc") /\ StartApp[9] = New("fb")
      /\ StartApp[10] = New("dispatcher") /\ StartApp[11] = Run
      BY DEF StartApp
<1>4. ASSUME NEW k \in 1 .. 11 PROVE Fits(StartApp[k], After(StartApp, k))
  <2>1. StartApp[k] = Run => k = 11
        BY <1>3, StepKinds
  <2>2. \A j \in k + 1 .. 11 : StartApp[j] # StartApp[k]
        BY <1>3, StepKinds
  <2>3. StartApp[k] = New("gralloc") => k = 8
        BY <1>3, StepKinds
  <2>4. \A j \in 1 .. 11 : StartApp[j] \in StartSteps
        BY <1>1, <1>2 DEF ToSet
  <2>5. ASSUME NEW h \in StartSteps
        PROVE  h # Join /\ h # KillAll /\ \A o : h # Stop(o) /\ h # Delete(o)
    <3>1. h = Run \/ \E p \in Objects : h = New(p)
          BY DEF StartSteps
    <3> QED
        BY <3>1, StepKinds
  <2>6. New("fb") \in After(StartApp, 8)
        BY <1>1, <1>3 DEF After
  <2>7. k = 11 => After(StartApp, k) = {}
        BY <1>1 DEF After
  <2>8. StartApp[k] \notin After(StartApp, k) /\ KillAll \notin After(StartApp, k)
        BY <1>1, <2>2, <2>4, <2>5 DEF After
  <2>9. StartApp[k] # Delete("fb") /\ StartApp[k] # Join /\ \A o : StartApp[k] # Stop(o)
        BY <2>4, <2>5
  <2> QED
      BY <2>1, <2>3, <2>6, <2>7, <2>8, <2>9 DEF Fits
<1> QED
    BY <1>1, <1>2, <1>4 DEF Orderly
(* The stop of the app kills, stops each service and deletes every object. *)
LEMMA StopProgram ==
    Orderly(StopApp) /\ ToSet(StopApp) = StopSteps
<1>1. /\ StopApp \in Seq(Steps) /\ Len(StopApp) = 15 /\ DOMAIN StopApp = 1 .. 15
      BY DEF StopApp, Steps, StopSteps, Objects, Passive, Services
<1>2. ToSet(StopApp) = StopSteps
      BY <1>1 DEF ToSet, StopSteps, StopApp, Objects, Passive, Services
<1>3. /\ StopApp[1] = KillAll /\ StopApp[2] = Stop("prop") /\ StopApp[3] = Delete("prop")
      /\ StopApp[4] = Stop("dns") /\ StopApp[5] = Delete("dns") /\ StopApp[6] = Stop("audio")
      /\ StopApp[7] = Delete("audio") /\ StopApp[8] = Join /\ StopApp[9] = Delete("dispatcher")
      /\ StopApp[10] = Delete("tree") /\ StopApp[11] = Delete("resolver")
      /\ StopApp[12] = Delete("binder") /\ StopApp[13] = Delete("input")
      /\ StopApp[14] = Delete("fb") /\ StopApp[15] = Delete("gralloc")
      BY DEF StopApp
<1>4. ASSUME NEW k \in 1 .. 15 PROVE Fits(StopApp[k], After(StopApp, k))
  <2>1. \A j \in k + 1 .. 15 : StopApp[j] # StopApp[k] /\ StopApp[j] # KillAll
        BY <1>3, StepKinds
  <2>2. StopApp[k] # Run /\ \A o : StopApp[k] # New(o)
        BY <1>3, StepKinds
  <2>3. /\ StopApp[k] = Stop("prop") => k = 2
        /\ StopApp[k] = Stop("dns") => k = 4
        /\ StopApp[k] = Stop("audio") => k = 6
        /\ StopApp[k] = Join => k = 8
        /\ StopApp[k] = Delete("fb") => k = 14
        BY <1>3, StepKinds
  <2>4. StopApp[k] \notin After(StopApp, k) /\ KillAll \notin After(StopApp, k)
        BY <1>1, <2>1 DEF After
  <2>5. /\ k = 2 => Delete("prop") \in After(StopApp, k)
        /\ k = 4 => Delete("dns") \in After(StopApp, k)
        /\ k = 6 => Delete("audio") \in After(StopApp, k)
        /\ k = 14 => Delete("gralloc") \in After(StopApp, k)
        /\ k = 8 => {Delete(o) : o \in Traced} \subseteq After(StopApp, k)
        BY <1>1, <1>3 DEF After, Traced
  <2> QED
      BY <2>2, <2>3, <2>4, <2>5 DEF Fits, Services
<1> QED
    BY <1>1, <1>2, <1>4 DEF Orderly

(* So does the unwinding of main, whose thread is its own.  *)
LEMMA UnwindProgram ==
    Orderly(Unwind) /\ ToSet(Unwind) = StopSteps \ {KillAll, Join}
<1>1. /\ Unwind \in Seq(Steps) /\ Len(Unwind) = 13 /\ DOMAIN Unwind = 1 .. 13
      BY DEF Unwind, Steps, StopSteps, Objects, Passive, Services
<1>2. ToSet(Unwind) = {Stop(o) : o \in Services} \cup {Delete(o) : o \in Objects}
      BY <1>1 DEF ToSet, Unwind, Objects, Passive, Services
<1>3. ToSet(Unwind) = StopSteps \ {KillAll, Join}
      BY <1>2, StepKinds DEF StopSteps
<1>4. /\ Unwind[1] = Delete("dispatcher") /\ Unwind[2] = Delete("fb")
      /\ Unwind[3] = Delete("gralloc") /\ Unwind[4] = Delete("input")
      /\ Unwind[5] = Stop("audio") /\ Unwind[6] = Delete("audio") /\ Unwind[7] = Delete("binder")
      /\ Unwind[8] = Stop("dns") /\ Unwind[9] = Delete("dns") /\ Unwind[10] = Stop("prop")
      /\ Unwind[11] = Delete("prop") /\ Unwind[12] = Delete("tree")
      /\ Unwind[13] = Delete("resolver")
      BY DEF Unwind
<1>5. ASSUME NEW k \in 1 .. 13 PROVE Fits(Unwind[k], After(Unwind, k))
  <2>1. \A j \in k + 1 .. 13 : Unwind[j] # Unwind[k] /\ Unwind[j] # KillAll
        BY <1>4, StepKinds
  <2>2. Unwind[k] # Run /\ Unwind[k] # Join /\ \A o : Unwind[k] # New(o)
        BY <1>4, StepKinds
  <2>3. /\ Unwind[k] = Stop("prop") => k = 10
        /\ Unwind[k] = Stop("dns") => k = 8
        /\ Unwind[k] = Stop("audio") => k = 5
        /\ Unwind[k] = Delete("fb") => k = 2
        BY <1>4, StepKinds
  <2>4. Unwind[k] \notin After(Unwind, k) /\ KillAll \notin After(Unwind, k)
        BY <1>1, <2>1 DEF After
  <2>5. /\ k = 10 => Delete("prop") \in After(Unwind, k)
        /\ k = 8 => Delete("dns") \in After(Unwind, k)
        /\ k = 5 => Delete("audio") \in After(Unwind, k)
        /\ k = 2 => Delete("gralloc") \in After(Unwind, k)
        BY <1>1, <1>4 DEF After
  <2> QED
      BY <2>2, <2>3, <2>4, <2>5 DEF Fits, Services
<1> QED
    BY <1>1, <1>3, <1>5 DEF Orderly

(* A program with one more step before it. *)
LEMMA Longer ==
    ASSUME NEW s, Orderly(s), NEW h \in Steps, Fits(h, ToSet(s))
    PROVE  Orderly(<<h>> \o s) /\ ToSet(<<h>> \o s) = {h} \cup ToSet(s)
<1> DEFINE t == <<h>> \o s
<1>1. /\ s \in Seq(Steps) /\ <<h>> \in Seq(Steps) /\ Len(<<h>>) = 1 /\ <<h>>[1] = h
      BY DEF Orderly
<1>2. /\ t \in Seq(Steps) /\ Len(t) = Len(s) + 1 /\ Len(s) \in Nat
      /\ t[1] = h /\ \A i \in 1 .. Len(s) : t[i + 1] = s[i]
      BY <1>1, ConcatProperties
<1>3. DOMAIN t = 1 .. Len(t) /\ DOMAIN s = 1 .. Len(s)
      BY <1>1, <1>2
<1> HIDE DEF t
<1>4. ASSUME NEW k \in 0 .. Len(s) PROVE After(t, k + 1) = After(s, k)
  <2>1. \A j \in k + 1 .. Len(s) : j + 1 \in k + 2 .. Len(t) /\ t[j + 1] = s[j]
        BY <1>2
  <2>2. \A j \in k + 2 .. Len(t) : j - 1 \in k + 1 .. Len(s) /\ t[j] = s[j - 1]
        BY <1>2
  <2>3. ASSUME NEW e \in After(s, k) PROVE e \in After(t, k + 1)
    <3>1. PICK j \in k + 1 .. Len(s) : e = s[j]
          BY DEF After
    <3>2. j + 1 \in k + 1 + 1 .. Len(t) /\ e = t[j + 1]
          BY <2>1, <3>1, <1>2
    <3> QED
        BY <3>2 DEF After
  <2>4. \A e : e \in After(t, k + 1) => e \in After(s, k)
        BY <2>2, <1>2 DEF After
  <2> QED
      BY <2>3, <2>4
<1>5. ToSet(s) = After(s, 0) /\ ToSet(t) = After(t, 0) /\ After(t, 0) = {t[1]} \cup After(t, 1)
      BY <1>2, <1>3 DEF ToSet, After
<1>6. After(t, 1) = ToSet(s)
      BY <1>2, <1>4, <1>5
<1>7. ASSUME NEW k \in 1 .. Len(t) PROVE Fits(t[k], After(t, k))
  <2>1. CASE k = 1
        BY <1>2, <1>6, <2>1
  <2>2. CASE k # 1
    <3>1. k - 1 \in 1 .. Len(s) /\ t[k] = s[k - 1]
          BY <1>2, <2>2
    <3>2. After(t, k) = After(s, k - 1)
          BY <1>2, <1>4, <3>1
    <3> QED
        BY <3>1, <3>2 DEF Orderly
  <2> QED
      BY <2>1, <2>2
<1> QED
    BY <1>2, <1>5, <1>6, <1>7 DEF Orderly, t

(* main stops the services first, and again when it unwinds. *)
LEMMA CliProgram ==
    Orderly(StopCli) /\ ToSet(StopCli) = StopSteps \ {KillAll, Join}
<1> DEFINE s1 == <<Stop("audio")>> \o Unwind
           s2 == <<Stop("dns")>> \o s1
           s3 == <<Stop("prop")>> \o s2
<1>1. StopCli = s3
      BY DEF StopCli, Unwind
<1>2. ASSUME NEW o \in Services
      PROVE  Stop(o) \in Steps /\ Fits(Stop(o), ToSet(Unwind)) /\ Stop(o) \in ToSet(Unwind)
      BY UnwindProgram, StepKinds DEF Fits, Steps, StopSteps, Services, Objects, Passive
<1>3. Orderly(s1) /\ ToSet(s1) = ToSet(Unwind)
      BY <1>2, Longer, UnwindProgram DEF Services
<1> HIDE DEF s1
<1>4. Orderly(s2) /\ ToSet(s2) = ToSet(Unwind)
      BY <1>2, <1>3, Longer DEF Services
<1> HIDE DEF s2
<1>5. Orderly(s3) /\ ToSet(s3) = ToSet(Unwind)
      BY <1>2, <1>4, Longer DEF Services
<1> QED
    BY <1>1, <1>5, UnwindProgram
-----------------------------------------------------------------------------
(* The audio thread and its owner keep what is said of them. *)
AudioInv == Audio!TypeOK /\ AudioOwned /\ AudioLate

(* What the thread of the sound does to its own state. *)
LEMMA AudioStep ==
    ASSUME AudioInv, Audio!Next \/ UNCHANGED audio
    PROVE  AudioInv'
<1> USE DEF AudioInv, AudioOwned, AudioLate, Audio!TypeOK, Audio!Starting, Audio!Stopping,
            Audio!owner, Audio!worker
<1>1. CASE Audio!OpenFifo
  <2>1. ~ audio_running /\ audio_running' = audio_running /\ audio_wpc' = audio_wpc
        BY <1>1 DEF Audio!OpenFifo
  <2>2. CASE audio_opc' = "init_stream"
        BY <1>1, <2>1, <2>2 DEF Audio!OpenFifo
  <2>3. CASE audio_opc' = "up"
        BY <1>1, <2>1, <2>3 DEF Audio!OpenFifo
  <2> QED
      BY <1>1, <2>2, <2>3 DEF Audio!OpenFifo
<1>2. CASE Audio!OwnerInit
  <2>1. CASE Audio!init_aaudio
        BY <2>1 DEF Audio!init_aaudio
  <2>2. CASE Audio!StartThread
        BY <2>2 DEF Audio!StartThread
  <2> QED
      BY <1>2, <2>1, <2>2 DEF Audio!OwnerInit
<1>3. CASE Audio!StopFlag
      BY <1>3 DEF Audio!StopFlag
<1>4. CASE Audio!OwnerStop
  <2>1. CASE Audio!StopClose
        BY <2>1 DEF Audio!StopClose
  <2>2. CASE Audio!StopForget
        BY <2>2 DEF Audio!StopForget
  <2>3. CASE Audio!CloseStream
        BY <2>3 DEF Audio!CloseStream
  <2>4. CASE Audio!ForgetStream
        BY <2>4 DEF Audio!ForgetStream
  <2>5. CASE Audio!StopJoin
        BY <2>5 DEF Audio!StopJoin
  <2> QED
      BY <1>4, <2>1, <2>2, <2>3, <2>4, <2>5 DEF Audio!OwnerStop
<1>5. CASE Audio!audio_loop
  <2>1. CASE Audio!LoopCheck
        BY <2>1 DEF Audio!LoopCheck
  <2>2. CASE Audio!LoopTest
        BY <2>2 DEF Audio!LoopTest
  <2>3. CASE Audio!ReadFifo
        BY <2>3 DEF Audio!ReadFifo
  <2>4. CASE Audio!write_pcm
        BY <2>4 DEF Audio!write_pcm
  <2>5. CASE Audio!WriteStream
        BY <2>5 DEF Audio!WriteStream
  <2> QED
      BY <1>5, <2>1, <2>2, <2>3, <2>4, <2>5 DEF Audio!audio_loop
<1>6. CASE UNCHANGED audio
      BY <1>6 DEF audio
<1> QED
    BY <1>1, <1>2, <1>3, <1>4, <1>5, <1>6 DEF Audio!Next
-----------------------------------------------------------------------------
(* What a step that is done leaves of the program.                         *)
LEMMA DoneStep ==
    ASSUME Orderly(todo), NEW h, Doing(h)
    PROVE  /\ h \in Left
           /\ Done => Orderly(todo)' /\ Left = {h} \cup Left' /\ Fits(h, Left')
BY Rests DEF Doing, Done, Left

(* Nothing is left of an empty program, and nothing else is empty. *)
LEMMA Emptied ==
    ASSUME Orderly(todo)
    PROVE  Left = {} <=> todo = <<>>
<1>1. todo # <<>> => Left # {}
      BY Rests DEF Left
<1>2. ToSet(<<>>) = {}
      BY DEF ToSet
<1> QED
    BY <1>1, <1>2 DEF Left

(* A sequence of no steps is in order. *)
LEMMA EmptyProgram == Orderly(<<>>)
BY DEF Orderly

(* The beginnings and the ends of the operations. *)
LEMMA OperationStep ==
    ASSUME IInv, nativeStartVM \/ nativeStopVM \/ mainStops \/ Finish
    PROVE  IInv'
<1> USE DEF IInv, driver, prop, dns, audio, tracer
<1>1. AudioInv'
  <2>1. UNCHANGED audio
        BY DEF nativeStartVM, nativeStopVM, mainStops, Finish
  <2> QED
      BY <2>1, AudioStep DEF AudioInv, TypeOK
<1>2. CASE nativeStartVM
  <2>1. Orderly(todo)' /\ Left' = StartSteps /\ Left' # {}
        BY <1>2, StartProgram DEF nativeStartVM, Left, StartSteps
  <2>2. TypeOK'
    <3>1. starts' \in 0 .. MaxStarts
          BY <1>2, StartsAssumption DEF nativeStartVM, TypeOK
    <3> QED
        BY <1>1, <1>2, <3>1 DEF nativeStartVM, TypeOK, AudioInv
  <2>3. AtRest' /\ AllUp' /\ Halting'
        BY <1>2 DEF nativeStartVM, AtRest, AllUp, Halting
  <2>4. Starting'
    <3>1. Run \in Left' /\ \A o \in Objects : New(o) \in Left'
          BY <2>1 DEF StartSteps
    <3>2. objects' = {} /\ ~ tracked' /\ thread_phase' = "none"
          BY <1>2 DEF nativeStartVM, AtRest
    <3>3. prop_phase' = "idle" /\ dns_phase' = "idle" /\ audio_opc' = "idle"
          BY <1>2 DEF nativeStartVM, AtRest
    <3> QED
        BY <2>1, <3>1, <3>2, <3>3 DEF Starting, Objects
  <2> QED
      BY <1>1, <2>1, <2>2, <2>3, <2>4 DEF AudioInv
<1>3. CASE nativeStopVM
  <2>1. Orderly(todo)' /\ Left' = StopSteps
        BY <1>3, StopProgram DEF nativeStopVM, Left
  <2>2. TypeOK'
        BY <1>1, <1>3 DEF nativeStopVM, TypeOK, AudioInv
  <2>3. AtRest' /\ AllUp' /\ Starting'
        BY <1>3 DEF nativeStopVM, AtRest, AllUp, Starting
  <2>4. Halting'
    <3>1. /\ KillAll \in Left' /\ Join \in Left' /\ \A o \in Objects : Delete(o) \in Left'
          /\ \A o \in Services : Stop(o) \in Left'
          BY <2>1 DEF StopSteps
    <3>2. objects' = Objects /\ InService'
          BY <1>3 DEF nativeStopVM, AllUp, InService
    <3> QED
        BY <2>1, <3>1, <3>2 DEF Halting, InService, Services, Objects, Passive, Audio!Starting
  <2> QED
      BY <1>1, <2>1, <2>2, <2>3, <2>4 DEF AudioInv
<1>4. CASE mainStops
  <2>1. Orderly(todo)' /\ Left' = StopSteps \ {KillAll, Join}
        BY <1>4, CliProgram, UnwindProgram DEF mainStops, Left
  <2>2. TypeOK'
        BY <1>1, <1>4 DEF mainStops, TypeOK, AudioInv
  <2>3. AtRest' /\ AllUp' /\ Starting'
        BY <1>4 DEF mainStops, AtRest, AllUp, Starting
  <2>4. /\ \A o \in Objects : Delete(o) \in Left'
        /\ \A o \in Services : Stop(o) \in Left'
        /\ KillAll \notin Left' /\ Left' \subseteq StopSteps
        BY <2>1, StepKinds DEF StopSteps
  <2>5. Halting'
    <3>1. objects' = Objects /\ InService' /\ thread_phase' = "none"
          BY <1>4 DEF mainStops, AllUp, InService
    <3> QED
        BY <2>4, <3>1 DEF Halting, InService, Services, Objects, Passive, Audio!Starting
  <2> QED
      BY <1>1, <2>1, <2>2, <2>3, <2>5 DEF AudioInv
<1>5. CASE Finish
  <2>1. Left = {} /\ UNCHANGED <<todo, Left>>
        BY <1>5, Emptied DEF Finish, Left
  <2>2. TypeOK'
        BY <1>1, <1>5 DEF Finish, TypeOK, AudioInv
  <2>3. AtRest'
    <3>1. CASE upc = "starting"
          BY <1>5, <3>1 DEF Finish, AtRest
    <3>2. CASE upc = "stopping"
      <4>1. objects = {}
            BY <2>1, <3>2 DEF Halting, TypeOK
      <4>2. prop_phase = "idle" /\ dns_phase = "idle" /\ audio_opc = "idle"
            BY <2>1, <3>2 DEF Halting
      <4>3. thread_phase = "none" /\ ~ tracked
            BY <2>1, <3>2 DEF Halting
      <4> QED
          BY <1>5, <4>1, <4>2, <4>3 DEF Finish, AtRest
    <3> QED
        BY <1>5, <3>1, <3>2 DEF Finish
  <2>4. AllUp'
    <3>1. CASE upc = "starting"
      <4>1. InService
            BY <2>1, <3>1 DEF Starting, InService
      <4>2. objects = Objects
            BY <2>1, <3>1, <4>1 DEF Starting, InService, Objects, TypeOK
      <4> QED
          BY <1>5, <4>1, <4>2 DEF Finish, AllUp, InService
    <3>2. CASE upc = "stopping"
          BY <1>5, <3>2 DEF Finish, AllUp
    <3> QED
        BY <1>5, <3>1, <3>2 DEF Finish
  <2>5. Starting' /\ Halting'
        BY <1>5 DEF Finish, Starting, Halting
  <2> QED
      BY <1>1, <2>1, <2>2, <2>3, <2>4, <2>5 DEF AudioInv
<1> QED
    BY <1>2, <1>3, <1>4, <1>5
(* A step of a program tells which program it is.                          *)
LEMMA WhichProgram ==
    ASSUME IInv, NEW h, Doing(h)
    PROVE  /\ h \in StartSteps => upc = "starting"
           /\ h \in StopSteps => upc = "stopping"
<1>1. upc \in {"starting", "stopping"}
      BY DEF IInv, TypeOK, AtRest, AllUp, Doing
<1>2. StartSteps \cap StopSteps = {}
  <2> SUFFICES ASSUME NEW e \in StartSteps, e \in StopSteps PROVE FALSE
      OBVIOUS
  <2>1. e = Run \/ \E o \in Objects : e = New(o)
        BY DEF StartSteps
  <2>2. \/ e \in {KillAll, Join} \/ \E o \in Services : e = Stop(o)
        \/ \E o \in Objects : e = Delete(o)
        BY DEF StopSteps
  <2> QED
      BY <2>1, <2>2, StepKinds
<1>3. h \in Left
      BY DoneStep DEF IInv
<1> QED
    BY <1>1, <1>2, <1>3 DEF IInv, Starting, Halting

(* The start makes an object without a thread. *)
LEMMA NewPassiveStep ==
    ASSUME IInv, NewPassive
    PROVE  IInv'
<1> USE DEF IInv
<1>1. PICK o \in Passive :
        /\ Doing(New(o)) /\ Done
        /\ objects' = objects \cup {o}
        /\ UNCHANGED <<program, upc, escaped, starts, prop, dns, audio, tracer>>
      BY DEF NewPassive
<1>2. upc = "starting" /\ upc' = "starting"
      BY <1>1, WhichProgram DEF StartSteps, Objects
<1>3. /\ Orderly(todo)' /\ Left = {New(o)} \cup Left' /\ New(o) \notin Left'
  <2>1. Orderly(todo)' /\ Left = {New(o)} \cup Left' /\ Fits(New(o), Left')
        BY <1>1, DoneStep
  <2> QED
      BY <2>1, StepKinds DEF Fits
<1>4. Left' \subseteq StartSteps /\ Run \in Left' /\ thread_phase = "none" /\ ~ tracked
      BY <1>2, <1>3, StepKinds DEF Starting
<1>5. \A p \in Objects : p # o => (New(p) \in Left <=> New(p) \in Left')
      BY <1>3, StepKinds
<1>6. TypeOK' /\ AudioInv'
  <2>1. AudioInv'
        BY <1>1, AudioStep DEF AudioInv, TypeOK
  <2>2. objects' \subseteq Objects
        BY <1>1 DEF TypeOK, Objects
  <2> QED
      BY <1>1, <2>1, <2>2 DEF TypeOK, AudioInv, prop, dns, tracer
<1>7. Starting'
  <2>1. \A p \in Passive : p \in objects' <=> New(p) \notin Left'
        BY <1>1, <1>2, <1>3, <1>5 DEF Starting, Objects
  <2>2. \A p \in Services : /\ p \in objects <=> p \in objects'
                            /\ New(p) \in Left <=> New(p) \in Left'
        BY <1>1, <1>5 DEF Services, Passive, Objects
  <2>3. UNCHANGED <<prop_phase, dns_phase, audio_opc, thread_phase, tracked>>
        BY <1>1 DEF prop, dns, audio, tracer
  <2> QED
      BY <1>2, <1>4, <2>1, <2>2, <2>3 DEF Starting, Services
<1>8. AtRest' /\ AllUp' /\ Halting'
      BY <1>2 DEF AtRest, AllUp, Halting
<1> QED
    BY <1>3, <1>6, <1>7, <1>8 DEF AudioInv
(* The start makes the property service: its init begins, and is done. *)
LEMMA NewPropStep ==
    ASSUME IInv, NewProp
    PROVE  IInv'
<1> USE DEF IInv
<1>1. /\ Doing(New("prop"))
      /\ \/ Prop!Begin /\ objects' = objects \cup {"prop"} /\ UNCHANGED todo
         \/ Prop!Started /\ Done /\ UNCHANGED objects
      /\ UNCHANGED <<program, upc, escaped, starts, dns, audio, tracer>>
      BY DEF NewProp
<1>2. upc = "starting" /\ upc' = "starting" /\ New("prop") \in Left
      BY <1>1, WhichProgram, DoneStep DEF StartSteps, Objects
<1>3. TypeOK' /\ AudioInv'
  <2>1. AudioInv'
        BY <1>1, AudioStep DEF AudioInv, TypeOK
  <2>2. objects' \subseteq Objects
        BY <1>1 DEF TypeOK, Objects
  <2> QED
      BY <1>1, <2>1, <2>2 DEF TypeOK, AudioInv, dns, tracer, Prop!Begin, Prop!Started
<1>4. UNCHANGED <<dns_phase, audio_opc, thread_phase, tracked>>
      BY <1>1 DEF dns, audio, tracer
<1>5. AtRest' /\ AllUp' /\ Halting'
      BY <1>2 DEF AtRest, AllUp, Halting
<1>6. CASE Prop!Begin /\ objects' = objects \cup {"prop"} /\ UNCHANGED todo
  <2>1. Left' = Left /\ Orderly(todo)' /\ prop_phase' = "starting"
        BY <1>6 DEF Left, Prop!Begin
  <2>2. \A o \in Objects : o # "prop" => (o \in objects <=> o \in objects')
        BY <1>6
  <2>3. Starting'
        BY <1>2, <1>4, <1>6, <2>1, <2>2 DEF Starting, Objects, Passive
  <2> QED
      BY <1>3, <1>5, <2>1, <2>3 DEF AudioInv
<1>7. CASE Prop!Started /\ Done /\ UNCHANGED objects
  <2>1. Orderly(todo)' /\ Left = {New("prop")} \cup Left' /\ New("prop") \notin Left'
    <3>1. Orderly(todo)' /\ Left = {New("prop")} \cup Left' /\ Fits(New("prop"), Left')
          BY <1>1, <1>7, DoneStep
    <3> QED
        BY <3>1, StepKinds DEF Fits
  <2>2. Left' \subseteq StartSteps /\ Run \in Left' /\ thread_phase = "none" /\ ~ tracked
        BY <1>2, <2>1, StepKinds DEF Starting
  <2>3. \A o \in Objects : o # "prop" => (New(o) \in Left <=> New(o) \in Left')
        BY <2>1, StepKinds
  <2>4. prop_phase = "starting" /\ prop_phase' = "up"
        BY <1>7 DEF Prop!Started
  <2>5. Starting'
        BY <1>2, <1>4, <1>7, <2>1, <2>2, <2>3, <2>4 DEF Starting, Objects, Passive
  <2> QED
      BY <1>3, <1>5, <2>1, <2>5 DEF AudioInv
<1> QED
    BY <1>1, <1>6, <1>7

(* The start makes the DNS proxy: its init begins, and is done. *)
LEMMA NewDnsStep ==
    ASSUME IInv, NewDns
    PROVE  IInv'
<1> USE DEF IInv
<1>1. /\ Doing(New("dns"))
      /\ \/ Dns!Begin /\ objects' = objects \cup {"dns"} /\ UNCHANGED todo
         \/ Dns!Started /\ Done /\ UNCHANGED objects
      /\ UNCHANGED <<program, upc, escaped, starts, prop, audio, tracer>>
      BY DEF NewDns
<1>2. upc = "starting" /\ upc' = "starting" /\ New("dns") \in Left
      BY <1>1, WhichProgram, DoneStep DEF StartSteps, Objects
<1>3. TypeOK' /\ AudioInv'
  <2>1. AudioInv'
        BY <1>1, AudioStep DEF AudioInv, TypeOK
  <2>2. objects' \subseteq Objects
        BY <1>1 DEF TypeOK, Objects
  <2> QED
      BY <1>1, <2>1, <2>2 DEF TypeOK, AudioInv, prop, tracer, Dns!Begin, Dns!Started
<1>4. UNCHANGED <<prop_phase, audio_opc, thread_phase, tracked>>
      BY <1>1 DEF prop, audio, tracer
<1>5. AtRest' /\ AllUp' /\ Halting'
      BY <1>2 DEF AtRest, AllUp, Halting
<1>6. CASE Dns!Begin /\ objects' = objects \cup {"dns"} /\ UNCHANGED todo
  <2>1. Left' = Left /\ Orderly(todo)' /\ dns_phase' = "starting"
        BY <1>6 DEF Left, Dns!Begin
  <2>2. \A o \in Objects : o # "dns" => (o \in objects <=> o \in objects')
        BY <1>6
  <2>3. Starting'
        BY <1>2, <1>4, <1>6, <2>1, <2>2 DEF Starting, Objects, Passive
  <2> QED
      BY <1>3, <1>5, <2>1, <2>3 DEF AudioInv
<1>7. CASE Dns!Started /\ Done /\ UNCHANGED objects
  <2>1. Orderly(todo)' /\ Left = {New("dns")} \cup Left' /\ New("dns") \notin Left'
    <3>1. Orderly(todo)' /\ Left = {New("dns")} \cup Left' /\ Fits(New("dns"), Left')
          BY <1>1, <1>7, DoneStep
    <3> QED
        BY <3>1, StepKinds DEF Fits
  <2>2. Left' \subseteq StartSteps /\ Run \in Left' /\ thread_phase = "none" /\ ~ tracked
        BY <1>2, <2>1, StepKinds DEF Starting
  <2>3. \A o \in Objects : o # "dns" => (New(o) \in Left <=> New(o) \in Left')
        BY <2>1, StepKinds
  <2>4. dns_phase = "starting" /\ dns_phase' = "up"
        BY <1>7 DEF Dns!Started
  <2>5. Starting'
        BY <1>2, <1>4, <1>7, <2>1, <2>2, <2>3, <2>4 DEF Starting, Objects, Passive
  <2> QED
      BY <1>3, <1>5, <2>1, <2>5 DEF AudioInv
<1> QED
    BY <1>1, <1>6, <1>7

(* The start makes the audio device, in the steps of init_audio. *)
LEMMA NewAudioStep ==
    ASSUME IInv, NewAudio
    PROVE  IInv'
<1> USE DEF IInv
<1>1. /\ Doing(New("audio"))
      /\ \/ Audio!OpenFifo /\ objects' = objects \cup {"audio"}
         \/ Audio!OwnerInit /\ UNCHANGED objects
      /\ IF audio_opc' = "up" THEN Done ELSE UNCHANGED todo
      /\ UNCHANGED <<program, upc, escaped, starts, prop, dns, tracer>>
      BY DEF NewAudio
<1>2. upc = "starting" /\ upc' = "starting" /\ New("audio") \in Left
      BY <1>1, WhichProgram, DoneStep DEF StartSteps, Objects
<1>3. TypeOK' /\ AudioInv'
  <2>1. AudioInv'
        BY <1>1, AudioStep DEF AudioInv, TypeOK, Audio!Next
  <2>2. objects' \subseteq Objects
        BY <1>1 DEF TypeOK, Objects
  <2> QED
      BY <1>1, <2>1, <2>2 DEF TypeOK, AudioInv, prop, dns, tracer
<1>4. UNCHANGED <<prop_phase, dns_phase, thread_phase, tracked>>
      BY <1>1 DEF prop, dns, tracer
<1>5. AtRest' /\ AllUp' /\ Halting'
      BY <1>2 DEF AtRest, AllUp, Halting
<1>6. /\ audio_opc' # "idle" /\ audio_opc' \in {"up"} \cup Audio!Starting
      /\ "audio" \in objects'
  <2>1. "audio" \in objects <=> audio_opc # "idle"
        BY <1>2 DEF Starting
  <2> QED
      BY <1>1, <2>1 DEF Audio!OpenFifo, Audio!OwnerInit, Audio!init_aaudio, Audio!StartThread,
         Audio!Starting
<1>7. \A o \in Objects : o # "audio" => (o \in objects <=> o \in objects')
      BY <1>1
<1>8. CASE audio_opc' # "up"
  <2>1. Left' = Left /\ Orderly(todo)'
        BY <1>1, <1>8 DEF Left
  <2>2. Starting'
        BY <1>2, <1>4, <1>6, <1>7, <1>8, <2>1 DEF Starting, Objects, Passive
  <2> QED
      BY <1>3, <1>5, <2>1, <2>2 DEF AudioInv
<1>9. CASE audio_opc' = "up"
  <2>1. Orderly(todo)' /\ Left = {New("audio")} \cup Left' /\ New("audio") \notin Left'
    <3>1. Orderly(todo)' /\ Left = {New("audio")} \cup Left' /\ Fits(New("audio"), Left')
          BY <1>1, <1>9, DoneStep
    <3> QED
        BY <3>1, StepKinds DEF Fits
  <2>2. Left' \subseteq StartSteps /\ Run \in Left' /\ thread_phase = "none" /\ ~ tracked
        BY <1>2, <2>1, StepKinds DEF Starting
  <2>3. \A o \in Objects : o # "audio" => (New(o) \in Left <=> New(o) \in Left')
        BY <2>1, StepKinds
  <2>4. Starting'
        BY <1>2, <1>4, <1>6, <1>7, <1>9, <2>1, <2>2, <2>3 DEF Starting, Objects, Passive
  <2> QED
      BY <1>3, <1>5, <2>1, <2>4 DEF AudioInv
<1> QED
    BY <1>8, <1>9

(* The thread starts last, on all that it uses. *)
LEMMA RunThreadStep ==
    ASSUME IInv, RunThread
    PROVE  IInv'
<1> USE DEF IInv
<1>1. /\ Doing(Run) /\ Done
      /\ thread_phase' = "entry" /\ tracked' = FALSE /\ alive' = FALSE
      /\ UNCHANGED <<program, upc, objects, escaped, starts, prop, dns, audio>>
      BY DEF RunThread
<1>2. upc = "starting" /\ upc' = "starting"
      BY <1>1, WhichProgram DEF StartSteps
<1>3. Orderly(todo)' /\ Left = {Run} /\ Left' = {}
      BY <1>1, DoneStep DEF Fits
<1>4. TypeOK' /\ AudioInv'
  <2>1. AudioInv'
        BY <1>1, AudioStep DEF AudioInv, TypeOK
  <2> QED
      BY <1>1, <2>1 DEF TypeOK, AudioInv, prop, dns
<1>5. AtRest' /\ AllUp' /\ Halting'
      BY <1>2 DEF AtRest, AllUp, Halting
<1>6. \A o : New(o) \notin Left
      BY <1>3, StepKinds
<1>7. Starting'
      BY <1>1, <1>2, <1>3, <1>6 DEF Starting, prop, dns, audio
<1> QED
    BY <1>3, <1>4, <1>5, <1>7 DEF AudioInv
(* The stop ends the property service: the flag, and the join if there is a thread.  *)
LEMMA StopPropStep ==
    ASSUME IInv, StopProp
    PROVE  IInv'
<1> USE DEF IInv
<1>1. /\ Doing(Stop("prop"))
      /\ \/ Prop!Stop /\ UNCHANGED todo
         \/ Prop!Join /\ Done
         \/ prop_phase = "idle" /\ Done /\ UNCHANGED prop
      /\ UNCHANGED <<program, upc, objects, escaped, starts, dns, audio, tracer>>
      BY DEF StopProp
<1>2. upc = "stopping" /\ upc' = "stopping" /\ Stop("prop") \in Left
      BY <1>1, WhichProgram, DoneStep DEF StopSteps, Services
<1>3. KillAll \notin Left
      BY <1>1, Rests, StepKinds DEF Left, Doing, Fits
<1>4. TypeOK' /\ AudioInv'
  <2>1. AudioInv'
        BY <1>1, AudioStep DEF AudioInv, TypeOK
  <2> QED
      BY <1>1, <2>1 DEF TypeOK, AudioInv, prop, dns, tracer, Prop!Stop, Prop!Join
<1>5. UNCHANGED <<dns_phase, audio_opc, thread_phase, tracked, alive, escaped, objects>>
      BY <1>1 DEF dns, audio, tracer
<1>6. AtRest' /\ AllUp' /\ Starting'
      BY <1>2 DEF AtRest, AllUp, Starting
<1>7. CASE Prop!Stop /\ UNCHANGED todo
  <2>1. Left' = Left /\ Orderly(todo)' /\ prop_phase' = "stopping"
        BY <1>7 DEF Left, Prop!Stop
  <2>2. Halting'
        BY <1>2, <1>3, <1>5, <2>1 DEF Halting
  <2> QED
      BY <1>4, <1>6, <2>1, <2>2 DEF AudioInv
<1>8. CASE Done /\ prop_phase' = "idle"
  <2>1. Orderly(todo)' /\ Left = {Stop("prop")} \cup Left'
        BY <1>1, <1>8, DoneStep
  <2>2. \A h : h # Stop("prop") => (h \in Left <=> h \in Left')
        BY <2>1
  <2>3. /\ \A o \in Objects : o \in objects' <=> Delete(o) \in Left'
        /\ Stop("dns") \in Left => Stop("dns") \in Left'
        /\ Stop("audio") \in Left => Stop("audio") \in Left'
        /\ Join \in Left => Join \in Left'
        /\ Delete("tree") \in Left => Delete("tree") \in Left'
        /\ Left' \subseteq StopSteps /\ KillAll \notin Left'
        BY <1>2, <1>3, <1>5, <2>1, <2>2, StepKinds DEF Halting
  <2>4. Halting'
        BY <1>2, <1>3, <1>5, <1>8, <2>3 DEF Halting
  <2> QED
      BY <1>4, <1>6, <2>1, <2>4 DEF AudioInv
<1> QED
    BY <1>1, <1>7, <1>8 DEF Prop!Join, prop

(* The stop ends the DNS proxy: the flag, and the join if there is a thread.  *)
LEMMA StopDnsStep ==
    ASSUME IInv, StopDns
    PROVE  IInv'
<1> USE DEF IInv
<1>1. /\ Doing(Stop("dns"))
      /\ \/ Dns!Stop /\ UNCHANGED todo
         \/ Dns!Join /\ Done
         \/ dns_phase = "idle" /\ Done /\ UNCHANGED dns
      /\ UNCHANGED <<program, upc, objects, escaped, starts, prop, audio, tracer>>
      BY DEF StopDns
<1>2. upc = "stopping" /\ upc' = "stopping" /\ Stop("dns") \in Left
      BY <1>1, WhichProgram, DoneStep DEF StopSteps, Services
<1>3. KillAll \notin Left
      BY <1>1, Rests, StepKinds DEF Left, Doing, Fits
<1>4. TypeOK' /\ AudioInv'
  <2>1. AudioInv'
        BY <1>1, AudioStep DEF AudioInv, TypeOK
  <2> QED
      BY <1>1, <2>1 DEF TypeOK, AudioInv, prop, dns, tracer, Dns!Stop, Dns!Join
<1>5. UNCHANGED <<prop_phase, audio_opc, thread_phase, tracked, alive, escaped, objects>>
      BY <1>1 DEF prop, audio, tracer
<1>6. AtRest' /\ AllUp' /\ Starting'
      BY <1>2 DEF AtRest, AllUp, Starting
<1>7. CASE Dns!Stop /\ UNCHANGED todo
  <2>1. Left' = Left /\ Orderly(todo)' /\ dns_phase' = "stopping"
        BY <1>7 DEF Left, Dns!Stop
  <2>2. Halting'
        BY <1>2, <1>3, <1>5, <2>1 DEF Halting
  <2> QED
      BY <1>4, <1>6, <2>1, <2>2 DEF AudioInv
<1>8. CASE Done /\ dns_phase' = "idle"
  <2>1. Orderly(todo)' /\ Left = {Stop("dns")} \cup Left'
        BY <1>1, <1>8, DoneStep
  <2>2. \A h : h # Stop("dns") => (h \in Left <=> h \in Left')
        BY <2>1
  <2>3. /\ \A o \in Objects : o \in objects' <=> Delete(o) \in Left'
        /\ Stop("prop") \in Left => Stop("prop") \in Left'
        /\ Stop("audio") \in Left => Stop("audio") \in Left'
        /\ Join \in Left => Join \in Left'
        /\ Delete("tree") \in Left => Delete("tree") \in Left'
        /\ Left' \subseteq StopSteps /\ KillAll \notin Left'
        BY <1>2, <1>3, <1>5, <2>1, <2>2, StepKinds DEF Halting
  <2>4. Halting'
        BY <1>2, <1>3, <1>5, <1>8, <2>3 DEF Halting
  <2> QED
      BY <1>4, <1>6, <2>1, <2>4 DEF AudioInv
<1> QED
    BY <1>1, <1>7, <1>8 DEF Dns!Join, dns

(* The stop ends the audio device, in the steps of its stop. *)
LEMMA StopAudioStep ==
    ASSUME IInv, StopAudio
    PROVE  IInv'
<1> USE DEF IInv
<1>1. /\ Doing(Stop("audio"))
      /\ \/ Audio!StopFlag \/ Audio!OwnerStop
         \/ audio_opc = "idle" /\ UNCHANGED audio
      /\ IF audio_opc' = "idle" THEN Done ELSE UNCHANGED todo
      /\ UNCHANGED <<program, upc, objects, escaped, starts, prop, dns, tracer>>
      BY DEF StopAudio
<1>2. upc = "stopping" /\ upc' = "stopping" /\ Stop("audio") \in Left
      BY <1>1, WhichProgram, DoneStep DEF StopSteps, Services
<1>3. KillAll \notin Left
      BY <1>1, Rests, StepKinds DEF Left, Doing, Fits
<1>4. TypeOK' /\ AudioInv'
  <2>1. AudioInv'
        BY <1>1, AudioStep DEF AudioInv, TypeOK, Audio!Next
  <2> QED
      BY <1>1, <2>1 DEF TypeOK, AudioInv, prop, dns, tracer
<1>5. UNCHANGED <<prop_phase, dns_phase, thread_phase, tracked, alive, escaped, objects>>
      BY <1>1 DEF prop, dns, tracer
<1>6. AtRest' /\ AllUp' /\ Starting'
      BY <1>2 DEF AtRest, AllUp, Starting
<1>7. audio_opc' \notin Audio!Starting
      BY <1>1, <1>2 DEF Halting, audio, Audio!StopFlag, Audio!OwnerStop, Audio!StopClose,
         Audio!StopForget, Audio!CloseStream, Audio!ForgetStream, Audio!StopJoin, Audio!Starting
<1>8. CASE audio_opc' # "idle"
  <2>1. Left' = Left /\ Orderly(todo)'
        BY <1>1, <1>8 DEF Left
  <2>2. Halting'
        BY <1>2, <1>3, <1>5, <1>7, <2>1 DEF Halting
  <2> QED
      BY <1>4, <1>6, <2>1, <2>2 DEF AudioInv
<1>9. CASE audio_opc' = "idle"
  <2>1. Orderly(todo)' /\ Left = {Stop("audio")} \cup Left'
        BY <1>1, <1>9, DoneStep
  <2>2. \A h : h # Stop("audio") => (h \in Left <=> h \in Left')
        BY <2>1
  <2>3. /\ \A o \in Objects : o \in objects' <=> Delete(o) \in Left'
        /\ Stop("prop") \in Left => Stop("prop") \in Left'
        /\ Stop("dns") \in Left => Stop("dns") \in Left'
        /\ Join \in Left => Join \in Left'
        /\ Delete("tree") \in Left => Delete("tree") \in Left'
        /\ Left' \subseteq StopSteps /\ KillAll \notin Left'
        BY <1>2, <1>3, <1>5, <2>1, <2>2, StepKinds DEF Halting
  <2>4. Halting'
        BY <1>2, <1>3, <1>5, <1>7, <1>9, <2>3 DEF Halting
  <2> QED
      BY <1>4, <1>6, <2>1, <2>4 DEF AudioInv
<1> QED
    BY <1>8, <1>9

(* An object is deleted when its service, and the tracer, are done with it. *)
LEMMA DeleteStep ==
    ASSUME IInv, DeleteObject
    PROVE  IInv'
<1> USE DEF IInv
<1>1. PICK o \in Objects :
        /\ Doing(Delete(o)) /\ Done
        /\ objects' = objects \ {o}
        /\ IF o = "tree" THEN Tracer!KillAll ELSE UNCHANGED tracer
        /\ UNCHANGED <<program, upc, escaped, starts, prop, dns, audio>>
      BY DEF DeleteObject
<1>2. upc = "stopping" /\ upc' = "stopping"
      BY <1>1, WhichProgram DEF StopSteps
<1>3. /\ Orderly(todo)' /\ Left = {Delete(o)} \cup Left' /\ Delete(o) \notin Left'
      /\ KillAll \notin Left'
  <2>1. Orderly(todo)' /\ Left = {Delete(o)} \cup Left' /\ Fits(Delete(o), Left')
        BY <1>1, DoneStep
  <2> QED
      BY <2>1, StepKinds DEF Fits
<1>4. /\ thread_phase' = thread_phase /\ alive' \in BOOLEAN /\ tracked' \in BOOLEAN
      /\ alive' => alive
      /\ tracked' => tracked
      /\ o = "tree" => ~ tracked'
      BY <1>1 DEF tracer, Tracer!KillAll, TypeOK
<1>5. TypeOK' /\ AudioInv'
  <2>1. AudioInv'
        BY <1>1, AudioStep DEF AudioInv, TypeOK
  <2> QED
      BY <1>1, <1>4, <2>1 DEF TypeOK, AudioInv, prop, dns
<1>6. AtRest' /\ AllUp' /\ Starting'
      BY <1>2 DEF AtRest, AllUp, Starting
<1>7. Halting'
  <2>1. \A h : h # Delete(o) => (h \in Left <=> h \in Left')
        BY <1>3
  <2>2. \A p \in Objects : p \in objects' <=> Delete(p) \in Left'
        BY <1>1, <1>2, <1>3, <2>1, StepKinds DEF Halting
  <2>3. /\ \A p \in Services : Stop(p) \in Left => Stop(p) \in Left'
        /\ Join \in Left => Join \in Left'
        /\ KillAll \notin Left
        /\ Left' \subseteq StopSteps
        BY <1>2, <1>3, <2>1, StepKinds DEF Halting
  <2>4. ASSUME tracked' PROVE Delete("tree") \in Left'
    <3>1. tracked /\ o # "tree"
          BY <1>4, <2>4
    <3>2. Delete("tree") \in Left
          BY <1>2, <3>1 DEF Halting
    <3> QED
        BY <2>1, <3>1, <3>2, StepKinds
  <2>5. escaped \/ thread_phase' = "none" \/ (~ alive' /\ thread_phase' # "entry")
    <3>1. escaped \/ thread_phase = "none" \/ (~ alive /\ thread_phase # "entry")
          BY <1>2, <2>3 DEF Halting
    <3>2. ~ alive => ~ alive'
          BY <1>4
    <3>3. CASE escaped
          BY <3>3
    <3>4. CASE thread_phase = "none"
          BY <1>4, <3>4
    <3>5. CASE ~ alive /\ thread_phase # "entry"
          BY <1>4, <3>2, <3>5
    <3> QED
        BY <3>1, <3>3, <3>4, <3>5
  <2>6. UNCHANGED <<prop_phase, dns_phase, audio_opc, escaped>>
        BY <1>1 DEF prop, dns, audio
  <2> QED
      BY <1>2, <1>3, <1>4, <2>2, <2>3, <2>4, <2>5, <2>6 DEF Halting, Services
<1> QED
    BY <1>3, <1>5, <1>6, <1>7 DEF AudioInv

(* kill_all leaves the guest dead, or escaped. *)
LEMMA KillStep ==
    ASSUME IInv, Kill
    PROVE  IInv'
<1> USE DEF IInv
<1>1. /\ Doing(KillAll) /\ Done
      /\ Tracer!KillAll
      /\ escaped' = (alive' \/ thread_phase = "entry")
      /\ UNCHANGED <<program, upc, objects, starts, prop, dns, audio>>
      BY DEF Kill
<1>2. upc = "stopping" /\ upc' = "stopping"
      BY <1>1, WhichProgram DEF StopSteps
<1>3. Orderly(todo)' /\ Left = {KillAll} \cup Left' /\ KillAll \notin Left'
      BY <1>1, DoneStep DEF Fits
<1>4. /\ thread_phase' = thread_phase /\ alive' \in BOOLEAN /\ tracked' = FALSE
      /\ escaped' \in BOOLEAN
      /\ escaped' \/ (~ alive' /\ thread_phase' # "entry")
      BY <1>1 DEF Tracer!KillAll, TypeOK
<1>5. TypeOK' /\ AudioInv'
  <2>1. AudioInv'
        BY <1>1, AudioStep DEF AudioInv, TypeOK
  <2>2. tracked' \in BOOLEAN
        BY <1>4
  <2> QED
      BY <1>1, <1>4, <2>1, <2>2 DEF TypeOK, AudioInv, prop, dns
<1>6. AtRest' /\ AllUp' /\ Starting'
      BY <1>2 DEF AtRest, AllUp, Starting
<1>7. Halting'
  <2>1. \A h : h # KillAll => (h \in Left <=> h \in Left')
        BY <1>3
  <2>2. /\ \A p \in Objects : p \in objects' <=> Delete(p) \in Left'
        /\ \A p \in Services : Stop(p) \in Left => Stop(p) \in Left'
        /\ Join \in Left => Join \in Left'
        /\ Left' \subseteq StopSteps
        BY <1>1, <1>2, <1>3, <2>1, StepKinds DEF Halting
  <2>3. UNCHANGED <<prop_phase, dns_phase, audio_opc>>
        BY <1>1 DEF prop, dns, audio
  <2> QED
      BY <1>2, <1>3, <1>4, <2>2, <2>3 DEF Halting, Services
<1> QED
    BY <1>3, <1>5, <1>6, <1>7 DEF AudioInv

(* The thread is joined before what it uses is deleted. *)
LEMMA JoinStep ==
    ASSUME IInv, JoinThread
    PROVE  IInv'
<1> USE DEF IInv
<1>1. /\ Doing(Join) /\ Done
      /\ thread_phase' = "none"
      /\ UNCHANGED <<program, upc, objects, escaped, starts, tracked, alive, prop, dns, audio>>
      BY DEF JoinThread
<1>2. upc = "stopping" /\ upc' = "stopping"
      BY <1>1, WhichProgram DEF StopSteps
<1>3. Orderly(todo)' /\ Left = {Join} \cup Left' /\ KillAll \notin Left'
      BY <1>1, DoneStep DEF Fits
<1>4. TypeOK' /\ AudioInv'
  <2>1. AudioInv'
        BY <1>1, AudioStep DEF AudioInv, TypeOK
  <2> QED
      BY <1>1, <2>1 DEF TypeOK, AudioInv, prop, dns
<1>5. AtRest' /\ AllUp' /\ Starting'
      BY <1>2 DEF AtRest, AllUp, Starting
<1>6. Halting'
  <2>1. \A h : h # Join => (h \in Left <=> h \in Left')
        BY <1>3
  <2>2. /\ \A p \in Objects : p \in objects' <=> Delete(p) \in Left'
        /\ \A p \in Services : Stop(p) \in Left => Stop(p) \in Left'
        /\ Delete("tree") \in Left => Delete("tree") \in Left'
        /\ Left' \subseteq StopSteps
        BY <1>1, <1>2, <1>3, <2>1, StepKinds DEF Halting
  <2>3. UNCHANGED <<prop_phase, dns_phase, audio_opc>>
        BY <1>1 DEF prop, dns, audio
  <2> QED
      BY <1>1, <1>2, <1>3, <2>2, <2>3 DEF Halting, Services
<1> QED
    BY <1>3, <1>4, <1>5, <1>6 DEF AudioInv
(* The worker of a service and its clients leave the owner alone. *)
LEMMA ServiceWorkerStep ==
    /\ Prop!WorkerStep \/ Prop!Resume => prop_phase' = prop_phase
    /\ Dns!WorkerStep \/ Dns!Resume => dns_phase' = dns_phase
    /\ Audio!audio_loop => audio_opc' = audio_opc
BY DEF Prop!WorkerStep, Prop!Wait, Prop!Refused, Prop!Exit, Prop!Resume,
       Dns!WorkerStep, Dns!Wait, Dns!Refused, Dns!Exit, Dns!Resume,
       Audio!audio_loop, Audio!LoopCheck, Audio!LoopTest, Audio!ReadFifo, Audio!write_pcm,
       Audio!WriteStream, Audio!owner

(* The steps of the other threads, of the guest and of its clients.        *)
Others == PropWorker \/ DnsWorker \/ AudioWorker \/ TracerStep \/ GuestEnds \/ Client

(* The steps of the other threads keep the invariant. *)
LEMMA OtherStep ==
    ASSUME IInv, Others \/ UNCHANGED vars
    PROVE  IInv'
<1> USE DEF IInv
<1>1. UNCHANGED <<program, upc, todo, objects, escaped, starts>>
      BY DEF Others, PropWorker, DnsWorker, AudioWorker, TracerStep, GuestEnds, Client, driver, vars
<1>2. UNCHANGED <<prop_phase, dns_phase, audio_opc>>
      BY ServiceWorkerStep DEF Others, PropWorker, DnsWorker, AudioWorker, TracerStep, GuestEnds,
         Client, prop, dns, audio, vars
<1>3. Left' = Left /\ Orderly(todo)'
      BY <1>1 DEF Left
<1>4. AudioInv'
  <2>1. Audio!audio_loop \/ UNCHANGED audio
        BY DEF Others, PropWorker, DnsWorker, AudioWorker, TracerStep, GuestEnds, Client, vars
  <2> QED
      BY <2>1, AudioStep DEF AudioInv, TypeOK, Audio!Next
<1>5. CASE UNCHANGED tracer
  <2>1. /\ prop_worker' \in {"none", "busy", "waiting", "leaving", "exited"}
        /\ prop_worker' # "none" => prop_worker # "none"
        BY DEF Others, PropWorker, DnsWorker, AudioWorker, TracerStep, GuestEnds,
           Client, prop, TypeOK, vars, Prop!WorkerStep, Prop!Wait, Prop!Refused, Prop!Exit, Prop!Resume
  <2>2. /\ dns_worker' \in {"none", "busy", "waiting", "leaving", "exited"}
        /\ dns_worker' # "none" => dns_worker # "none"
        BY DEF Others, PropWorker, DnsWorker, AudioWorker, TracerStep, GuestEnds,
           Client, dns, TypeOK, vars, Dns!WorkerStep, Dns!Wait, Dns!Refused, Dns!Exit, Dns!Resume
  <2>3. TypeOK'
        BY <1>1, <1>2, <1>4, <1>5, <2>1, <2>2 DEF TypeOK, AudioInv, tracer
  <2>4. AtRest' /\ AllUp' /\ Starting'
        BY <1>1, <1>2, <1>3, <1>5 DEF AtRest, AllUp, Starting, InService, tracer
  <2>5. Halting'
        BY <1>1, <1>2, <1>3, <1>5 DEF Halting, InService, tracer
  <2> QED
      BY <1>3, <1>4, <2>3, <2>4, <2>5 DEF AudioInv
<1>6. CASE TracerStep \/ GuestEnds
  <2>1. UNCHANGED <<prop, dns>>
        BY <1>6 DEF TracerStep, GuestEnds
  <2>2. /\ thread_phase' \in {"none", "entry", "failed", "spawning", "looping", "done"}
        /\ tracked' \in BOOLEAN /\ alive' \in BOOLEAN
        /\ thread_phase' = "none" <=> thread_phase = "none"
        /\ thread_phase' = "entry" => thread_phase = "entry"
        /\ thread_phase = "none" => tracked' = tracked
        /\ thread_phase # "entry" => (alive' => alive)
    <3> USE DEF Tracer!ThreadStep, Tracer!Fork, Tracer!Add, Tracer!Track, Tracer!Untrack,
                Tracer!Leave, Tracer!GuestEnds
    <3>1. /\ thread_phase' \in {"none", "entry", "failed", "spawning", "looping", "done"}
          /\ thread_phase' = "none" <=> thread_phase = "none"
          /\ thread_phase' = "entry" => thread_phase = "entry"
          BY <1>6 DEF TypeOK, TracerStep, GuestEnds
    <3>2. tracked' \in BOOLEAN /\ (thread_phase = "none" => tracked' = tracked)
          BY <1>6 DEF TypeOK, TracerStep, GuestEnds
    <3>3. alive' \in BOOLEAN
          BY <1>6 DEF TypeOK, TracerStep, GuestEnds
    <3>4. thread_phase # "entry" => alive' = alive \/ alive' = FALSE
          BY <1>6 DEF TracerStep, GuestEnds
    <3>5. thread_phase # "entry" => (alive' => alive)
          BY <3>4
    <3> QED
        BY <3>1, <3>2, <3>3, <3>5
  <2>3. TypeOK'
        BY <1>1, <1>2, <1>4, <2>1, <2>2 DEF TypeOK, AudioInv, prop, dns
  <2>4. AtRest' /\ AllUp' /\ Starting'
        BY <1>1, <1>2, <1>3, <2>2 DEF AtRest, AllUp, Starting, InService
  <2>5. Halting'
        BY <1>1, <1>2, <1>3, <2>2, Sequel DEF Halting, InService, Left, Traced
  <2> QED
      BY <1>3, <1>4, <2>3, <2>4, <2>5 DEF AudioInv
<1> QED
    BY <1>5, <1>6 DEF Others, PropWorker, DnsWorker, AudioWorker, Client, vars

(* So every step keeps it. *)
LEMMA Inductive ==
    ASSUME IInv, [Next]_vars
    PROVE  IInv'
<1>1. CASE nativeStartVM \/ nativeStopVM \/ mainStops \/ Finish
      BY <1>1, OperationStep
<1>2. CASE Step
      BY <1>2, NewPassiveStep, NewPropStep, NewDnsStep, NewAudioStep, RunThreadStep, KillStep,
         StopPropStep, StopDnsStep, StopAudioStep, JoinStep, DeleteStep DEF Step
<1>3. CASE Others \/ UNCHANGED vars
      BY <1>3, OtherStep
<1> QED
    BY <1>1, <1>2, <1>3 DEF Next, Others

(* Nothing runs at first. *)
LEMMA Initially ==
    ASSUME Init
    PROVE  IInv
<1>1. TypeOK
  <2>1. starts \in 0 .. MaxStarts
        BY StartsAssumption DEF Init
  <2>2. Audio!TypeOK
        BY DEF Init, Audio!Init, Audio!TypeOK
  <2> QED
      BY <2>1, <2>2 DEF Init, TypeOK, Prop!Init, Dns!Init
<1>2. AtRest /\ AllUp /\ Starting /\ Halting
      BY DEF Init, AtRest, AllUp, Starting, Halting, Prop!Init, Dns!Init, Audio!Init
<1>3. AudioOwned /\ AudioLate
      BY DEF Init, AudioOwned, AudioLate, Audio!Init, Audio!Starting
<1> QED
    BY <1>1, <1>2, <1>3, EmptyProgram DEF Init, IInv

(* So the invariant always holds. *)
LEMMA Invariant == Spec => []IInv
BY Initially, Inductive, PTL DEF Spec

-----------------------------------------------------------------------------
(* What it implies of a state. *)

(* A thread that runs has not been joined, and what it uses goes later.    *)
LEMMA OwnersLive ==
    ASSUME IInv
    PROVE  NoUseAfterDelete
<1> USE DEF IInv
<1>1. /\ upc \in {"idle", "starting", "up", "stopping", "ended"} /\ objects \subseteq Objects
      /\ PropRuns => prop_phase \in {"up", "stopping"}
      /\ DnsRuns => dns_phase \in {"up", "stopping"}
      BY DEF TypeOK, PropRuns, DnsRuns
<1>2. AudioRuns => audio_opc # "idle"
      BY DEF AudioRuns, AudioOwned
<1>3. TracerRuns => thread_phase # "none"
      BY DEF TracerRuns
<1>4. CASE upc \in {"idle", "ended"}
      BY <1>1, <1>2, <1>3, <1>4 DEF AtRest, NoUseAfterDelete
<1>5. CASE upc = "up"
      BY <1>5 DEF AllUp, NoUseAfterDelete, Objects, Passive
<1>6. CASE upc = "starting"
  <2>1. thread_phase # "none" => Left = {}
        BY <1>6 DEF Starting
  <2>2. TracerRuns => {"dispatcher", "tree", "resolver", "binder", "fb"} \subseteq objects
        BY <1>3, <1>6, <2>1 DEF Starting, Passive
  <2>3. "fb" \in objects => "gralloc" \in objects
        BY <1>6, Sequel DEF Starting, Passive, Left
  <2> QED
      BY <1>1, <1>2, <1>6, <2>2, <2>3 DEF Starting, NoUseAfterDelete
<1>7. CASE upc = "stopping"
  <2>1. \A o \in Services : Stop(o) \in Left => o \in objects
        BY <1>7, Sequel DEF Halting, Left, Services, Objects
  <2>2. Join \in Left => {"dispatcher", "tree", "resolver", "binder", "fb"} \subseteq objects
    <3>1. \A o \in Traced : Join \in Left => Delete(o) \in Left
          BY Sequel DEF Left
    <3> QED
        BY <1>7, <3>1 DEF Halting, Traced, Objects, Passive
  <2>3. "fb" \in objects => "gralloc" \in objects
        BY <1>7, Sequel DEF Halting, Objects, Passive, Left
  <2>4. /\ prop_phase # "idle" => "prop" \in objects
        /\ dns_phase # "idle" => "dns" \in objects
        /\ audio_opc # "idle" => "audio" \in objects
        BY <1>7, <2>1 DEF Halting, Services
  <2> QED
      BY <1>1, <1>2, <1>3, <1>7, <2>2, <2>3, <2>4 DEF Halting, NoUseAfterDelete
<1> QED
    BY <1>1, <1>4, <1>5, <1>6, <1>7

(* What is at rest has nothing left. *)
LEMMA NothingLeft ==
    ASSUME IInv
    PROVE  CleanedUp
<1> SUFFICES ASSUME upc \in {"idle", "ended"}
             PROVE  /\ objects = {} /\ ~ tracked
                    /\ prop = <<"idle", "none">> /\ dns = <<"idle", "none">>
                    /\ audio_opc = "idle" /\ audio_wpc = "none" /\ ~ audio_open
                    /\ audio_stream = "null" /\ thread_phase = "none"
    BY DEF CleanedUp
<1>1. /\ objects = {} /\ ~ tracked /\ prop_phase = "idle" /\ dns_phase = "idle"
      /\ audio_opc = "idle" /\ thread_phase = "none"
      BY DEF IInv, AtRest
<1>2. prop_worker = "none" /\ dns_worker = "none"
      BY <1>1 DEF IInv, TypeOK
<1>3. audio_wpc = "none" /\ ~ audio_open /\ audio_stream = "null"
      BY <1>1 DEF IInv, AudioOwned, Audio!Starting
<1> QED
    BY <1>1, <1>2, <1>3 DEF prop, dns

(* The guest is alive from the end of the start to kill_all. *)
LEMMA ServedAlive ==
    ASSUME IInv
    PROVE  ServedWhileTraced
<1> SUFFICES ASSUME TracerRuns, alive, ~ escaped PROVE InService
    BY DEF ServedWhileTraced, InService
<1>1. thread_phase # "none"
      BY DEF TracerRuns
<1>2. CASE upc = "starting"
      BY <1>1, <1>2 DEF IInv, Starting, InService
<1>3. CASE upc = "stopping"
      BY <1>1, <1>3 DEF IInv, Halting
<1> QED
    BY <1>1, <1>2, <1>3 DEF IInv, TypeOK, AtRest, AllUp

-----------------------------------------------------------------------------
(* TypeOK: the parts of the engine stay within their states, and a worker  *)
(* of a service exists only between its start and its join.                *)
THEOREM EngineTypes == Spec => []TypeOK
BY Invariant, PTL DEF IInv

(* NoUseAfterDelete: no thread runs on an object that nativeStopVM, or the *)
(* unwinding of main, has deleted, whenever the stop comes.                *)
THEOREM NothingFreedInUse == Spec => []NoUseAfterDelete
<1>1. IInv => NoUseAfterDelete
      BY OwnersLive
<1> QED
    BY <1>1, Invariant, PTL

(* CleanedUp: a stop, and the end of main, leave no object, no thread and  *)
(* no entry of the tree behind.                                            *)
THEOREM StopLeavesNothing == Spec => []CleanedUp
<1>1. IInv => CleanedUp
      BY NothingLeft
<1> QED
    BY <1>1, Invariant, PTL

(* ServedWhileTraced: while a traced task is alive its services are up,    *)
(* unless kill_all has missed it.                                          *)
THEOREM GuestServed == Spec => []ServedWhileTraced
<1>1. IInv => ServedWhileTraced
      BY ServedAlive
<1> QED
    BY <1>1, Invariant, PTL

(* OneLateUse: the audio thread uses what stop has closed under it once at *)
(* most of either, in each start of the engine.                            *)
THEOREM AudioUsesOnce == Spec => []OneLateUse
<1>1. IInv => OneLateUse
      BY DEF IInv, AudioLate, OneLateUse, Audio!OneLateUse
<1> QED
    BY <1>1, Invariant, PTL
===============================================================================
