----------------------------- MODULE InputProofs -----------------------------
(***************************************************************************)
(* Proofs about VirtualInput, for any coordinates, size of the FIFO and    *)
(* number of touches and starts.  What makes the invariant inductive is    *)
(* what the guest is going to believe: the states its slot goes through    *)
(* while it reads what is in the FIFO (Course), of which the last one and  *)
(* the events still to be written add up to where the pointer is (Ready).  *)
(***************************************************************************)
EXTENDS VirtualInput, SequenceTheorems, TLAPS

(* The events that can be in a frame for a pointer at p, and in the FIFO.  *)
Saying(p)  == {Slot, Major, Syn, Event("ID", p.id), Event("TOUCH", p.id),
               Event("X", p.x), Event("Y", p.y)}
FifoEvents == {Slot, Major} \cup [type : {"ID", "TOUCH"}, value : BOOLEAN]
                  \cup [type : {"X", "Y"}, value : Coords \cup {"none"}] \cup SynEvents

(* The slot after an event has been read. *)
Reads(s, e) == CASE e.type = "ID"    -> [s EXCEPT !.id = e.value]
                 [] e.type = "X"     -> [s EXCEPT !.x = e.value]
                 [] e.type = "Y"     -> [s EXCEPT !.y = e.value]
                 [] e.type = "TOUCH" -> [s EXCEPT !.touch = e.value]
                 [] OTHER -> s

Shows(s, p) == /\ s.id = p.id /\ s.touch = p.id
               /\ p # Up => s.x = p.x /\ s.y = p.y

(* An event of this type is still to be written. *)
Pending(type) == \E i \in 1 .. Len(todo) : todo[i].type = type

Ready(s) ==
    known /\ (whole \/ todo = <<>>) =>
        /\ s.id = finger.id \/ Pending("ID")
        /\ s.touch = finger.id \/ Pending("TOUCH")
        /\ finger # Up => (s.x = finger.x \/ Pending("X")) /\ (s.y = finger.y \/ Pending("Y"))

(* s is what the slot goes through while the FIFO is read. *)
Course(s) ==
    /\ s \in [1 .. Len(fifo) + 1 -> SlotStates]
    /\ s[1] = slot
    /\ \A i \in 1 .. Len(fifo) :
          /\ s[i + 1] = Reads(s[i], fifo[i])
          /\ fifo[i].type = "SYN" /\ fifo[i].known => Shows(s[i], fifo[i].at)
    /\ device = "open" => Ready(s[Len(fifo) + 1])

(* A frame ends with its only SYN. *)
Framed ==
    /\ fifo \in Seq(FifoEvents) /\ todo \in Seq(Saying(finger))
    /\ \A i \in 1 .. Len(todo) : todo[i].type = "SYN" <=> i = Len(todo)

Believed == \E s \in [1 .. Len(fifo) + 1 -> SlotStates] : Course(s)

IInv == TypeOK /\ Framed /\ SeenIsReal /\ Believed

-----------------------------------------------------------------------------
(* What is assumed of the constants. *)
LEMMA Consts ==
    /\ Capacity \in Nat /\ Capacity >= 1 /\ MaxTouches \in Nat /\ MaxStarts \in Nat
    /\ "none" \notin Coords
BY CapacityAssumption, TouchAssumption, CoordAssumption

(* An event the guest reads is a legal change of its slot. *)
LEMMA ReadsType ==
    ASSUME NEW s \in SlotStates, NEW e \in FifoEvents
    PROVE  Reads(s, e) \in SlotStates
<1>1. CASE e \in [type : {"ID", "TOUCH"}, value : BOOLEAN]
  BY <1>1 DEF Reads, SlotStates
<1>2. CASE e \in [type : {"X", "Y"}, value : Coords \cup {"none"}]
  BY <1>2 DEF Reads, SlotStates
<1>3. CASE e \in {Slot, Major} \cup SynEvents
  BY <1>3 DEF Reads, Slot, Major, SynEvents
<1>4. QED BY <1>1, <1>2, <1>3 DEF FifoEvents

(* Where the pointer is, is where it touches or nowhere. *)
LEMMA FingerType ==
    ASSUME NEW p \in Contact \cup {Up}
    PROVE  /\ p.id \in BOOLEAN /\ p.x \in Coords \cup {"none"} /\ p.y \in Coords \cup {"none"}
           /\ p # Up => p.id = TRUE
           /\ p \in Contact => p # Up
<1>1. CASE p = Up
  <2>1. p.id = FALSE /\ p.x = "none" /\ p.y = "none"
    BY <1>1 DEF Up
  <2>2. p \notin Contact
    <3>1. ASSUME NEW c \in Coords, p = [id |-> TRUE, x |-> c, y |-> c] PROVE FALSE
      <4>1. p.x \in Coords
        BY <3>1
      <4>2. QED BY <2>1, <4>1, Consts
    <3>2. QED BY <3>1 DEF Contact
  <2>3. QED BY <1>1, <2>1, <2>2
<1>2. CASE p # Up
  <2>1. PICK c \in Coords : p = [id |-> TRUE, x |-> c, y |-> c]
    BY <1>2 DEF Contact
  <2>2. p.id = TRUE /\ p.x \in Coords /\ p.y \in Coords
    BY <2>1
  <2>3. QED BY <1>2, <2>2
<1>3. QED BY <1>1, <1>2

(* What is sent of an event of a frame can be read. *)
LEMMA SentType ==
    ASSUME TypeOK, NEW e \in Saying(finger)
    PROVE  /\ Sent(e) \in FifoEvents
           /\ e.type = "SYN" => Sent(e) = [type |-> "SYN", at |-> finger, known |-> known /\ whole]
           /\ e.type # "SYN" => Sent(e) = e
           /\ e.type \in {"SLOT", "MAJOR", "SYN", "ID", "TOUCH", "X", "Y"}
           /\ e.type \in {"ID", "TOUCH"} => e.value = finger.id
           /\ e.type = "X" => e.value = finger.x
           /\ e.type = "Y" => e.value = finger.y
<1>1. finger \in Contact \cup {Up} /\ whole \in BOOLEAN /\ known \in BOOLEAN
  BY DEF TypeOK
<1>2. finger.id \in BOOLEAN /\ finger.x \in Coords \cup {"none"} /\ finger.y \in Coords \cup {"none"}
  BY <1>1, FingerType
<1>3. CASE e = Syn
  <2>1. Sent(e) = [type |-> "SYN", at |-> finger, known |-> known /\ whole]
    BY <1>3 DEF Sent
  <2>2. (known /\ whole) \in BOOLEAN
    OBVIOUS
  <2>3. Sent(e) \in SynEvents
    BY <1>1, <2>1, <2>2 DEF SynEvents
  <2>4. QED BY <1>3, <2>1, <2>3 DEF FifoEvents, Syn
<1>4. CASE e \in {Slot, Major}
  BY <1>4 DEF Sent, Slot, Major, Syn, FifoEvents
<1>5. CASE e \in {Event("ID", finger.id), Event("TOUCH", finger.id)}
  BY <1>2, <1>5 DEF Sent, Event, Syn, FifoEvents
<1>6. CASE e \in {Event("X", finger.x), Event("Y", finger.y)}
  BY <1>2, <1>6 DEF Sent, Event, Syn, FifoEvents
<1>7. QED BY <1>3, <1>4, <1>5, <1>6 DEF Saying

(* A sequence with one element before it and one behind. *)
LEMMA Wrap ==
    ASSUME NEW S, NEW a \in S, NEW b \in S, NEW m \in Seq(S), NEW F, F = <<a>> \o m \o <<b>>
    PROVE  /\ F \in Seq(S) /\ Len(m) \in Nat /\ Len(F) = Len(m) + 2
           /\ F[1] = a /\ F[Len(m) + 2] = b
           /\ \A i \in 1 .. Len(m) : F[i + 1] = m[i]
<1>1. <<a>> \in Seq(S) /\ <<b>> \in Seq(S) /\ Len(<<a>>) = 1 /\ Len(<<b>>) = 1
          /\ <<a>>[1] = a /\ <<b>>[1] = b
  OBVIOUS
<1>2. Len(m) \in Nat
  BY LenProperties
<1> DEFINE G == <<a>> \o m
<1>3. G \in Seq(S) /\ Len(G) = 1 + Len(m)
          /\ \A i \in 1 .. 1 + Len(m) : G[i] = IF i <= 1 THEN <<a>>[i] ELSE m[i - 1]
  BY <1>1, ConcatProperties
<1>4. F = G \o <<b>>
  OBVIOUS
<1> HIDE DEF G
<1>5. F \in Seq(S) /\ Len(F) = Len(G) + 1
          /\ \A i \in 1 .. Len(G) + 1 : F[i] = IF i <= Len(G) THEN G[i] ELSE <<b>>[i - Len(G)]
  BY <1>1, <1>3, <1>4, ConcatProperties
<1>6. F[1] = a
  <2>1. F[1] = G[1] /\ G[1] = <<a>>[1]
    BY <1>2, <1>3, <1>5
  <2>2. QED BY <1>1, <2>1
<1>7. F[Len(m) + 2] = b
  <2>1. F[Len(m) + 2] = <<b>>[1]
    BY <1>2, <1>3, <1>5
  <2>2. QED BY <1>1, <2>1
<1>8. \A i \in 1 .. Len(m) : F[i + 1] = m[i]
  BY <1>2, <1>3, <1>5
<1>9. QED BY <1>2, <1>3, <1>5, <1>6, <1>7, <1>8

(* The frames: what they say is true of p, they end with their only SYN,   *)
(* and those that begin or end a contact say all there is to say.          *)
LEMMA FrameType ==
    ASSUME NEW a \in Actions, NEW p \in Contact \cup {Up}, Gesture(a, p), NEW F, F = Frame(a, p)
    PROVE  /\ F \in Seq(Saying(p)) /\ F # <<>>
           /\ \A i \in 1 .. Len(F) : F[i].type = "SYN" <=> i = Len(F)
           /\ a = "DOWN" => \A t \in {"ID", "TOUCH", "X", "Y"} : \E i \in 1 .. Len(F) : F[i].type = t
           /\ a = "MOVE" => \A t \in {"X", "Y"} : \E i \in 1 .. Len(F) : F[i].type = t
           /\ a \in {"UP", "CANCEL"} => \A t \in {"ID", "TOUCH"} : \E i \in 1 .. Len(F) : F[i].type = t
<1>s. Slot \in Saying(p) /\ Syn \in Saying(p) /\ Slot.type = "SLOT" /\ Syn.type = "SYN"
  BY DEF Saying, Slot, Syn
<1>1. ASSUME NEW m \in Seq(Saying(p)), F = <<Slot>> \o m \o <<Syn>>,
             \A i \in 1 .. Len(m) : m[i].type # "SYN"
      PROVE  /\ F \in Seq(Saying(p)) /\ F # <<>>
             /\ \A i \in 1 .. Len(F) : F[i].type = "SYN" <=> i = Len(F)
             /\ \A i \in 1 .. Len(m) : i + 1 \in 1 .. Len(F) /\ F[i + 1].type = m[i].type
  <2>1. /\ F \in Seq(Saying(p)) /\ Len(m) \in Nat /\ Len(F) = Len(m) + 2
        /\ F[1] = Slot /\ F[Len(m) + 2] = Syn
        /\ \A i \in 1 .. Len(m) : F[i + 1] = m[i]
    BY <1>1, <1>s, Wrap
  <2>2. F # <<>>
    BY <2>1
  <2>3. ASSUME NEW i \in 1 .. Len(F), i # Len(F) PROVE F[i].type # "SYN"
    <3>1. CASE i = 1
      BY <1>s, <2>1, <3>1
    <3>2. CASE i # 1
      <4>1. i - 1 \in 1 .. Len(m)
        BY <2>1, <2>3, <3>2
      <4>2. F[(i - 1) + 1] = m[i - 1] /\ (i - 1) + 1 = i
        BY <2>1, <4>1
      <4>3. QED BY <1>1, <4>1, <4>2
    <3>3. QED BY <3>1, <3>2
  <2>4. F[Len(F)].type = "SYN"
    BY <1>s, <2>1
  <2>5. QED BY <2>1, <2>2, <2>3, <2>4
<1>2. CASE a = "DOWN"
  <2> DEFINE m == <<Event("ID", TRUE), Event("X", p.x), Event("Y", p.y), Major,
                    Event("TOUCH", TRUE)>>
  <2>1. p.id = TRUE
    BY <1>2, FingerType DEF Gesture
  <2>2. F = <<Slot>> \o m \o <<Syn>>
    BY <1>2 DEF Frame
  <2>3. m \in Seq(Saying(p)) /\ Len(m) = 5
    <3>1. Event("ID", TRUE) = Event("ID", p.id) /\ Event("TOUCH", TRUE) = Event("TOUCH", p.id)
      BY <2>1
    <3>2. Event("ID", TRUE) \in Saying(p) /\ Event("TOUCH", TRUE) \in Saying(p)
      BY <3>1 DEF Saying
    <3>3. Event("X", p.x) \in Saying(p) /\ Event("Y", p.y) \in Saying(p) /\ Major \in Saying(p)
      BY DEF Saying
    <3>4. ASSUME NEW S, NEW e1 \in S, NEW e2 \in S, NEW e3 \in S, NEW e4 \in S, NEW e5 \in S
          PROVE  <<e1, e2, e3, e4, e5>> \in Seq(S) /\ Len(<<e1, e2, e3, e4, e5>>) = 5
      OBVIOUS
    <3>5. QED BY <3>2, <3>3, <3>4, Zenon
  <2>4. m[1].type = "ID" /\ m[2].type = "X" /\ m[3].type = "Y" /\ m[4].type = "MAJOR"
            /\ m[5].type = "TOUCH"
    BY DEF Event, Major
  <2> HIDE DEF m
  <2>5. \A i \in 1 .. Len(m) : m[i].type # "SYN"
    BY <2>3, <2>4
  <2>6. /\ F \in Seq(Saying(p)) /\ F # <<>>
        /\ \A i \in 1 .. Len(F) : F[i].type = "SYN" <=> i = Len(F)
        /\ \A i \in 1 .. Len(m) : i + 1 \in 1 .. Len(F) /\ F[i + 1].type = m[i].type
    BY <1>1, <2>2, <2>3, <2>5
  <2>7. /\ {2, 3, 4, 6} \subseteq 1 .. Len(F)
        /\ F[2].type = "ID" /\ F[3].type = "X" /\ F[4].type = "Y" /\ F[6].type = "TOUCH"
    BY <2>3, <2>4, <2>6
  <2>8. QED BY <1>2, <2>6, <2>7
<1>3. CASE a = "MOVE"
  <2> DEFINE m == <<Event("X", p.x), Event("Y", p.y)>>
  <2>1. F = <<Slot>> \o m \o <<Syn>>
    BY <1>3 DEF Frame
  <2>2. m \in Seq(Saying(p)) /\ Len(m) = 2
    BY DEF Saying
  <2>3. m[1].type = "X" /\ m[2].type = "Y"
    BY DEF Event
  <2> HIDE DEF m
  <2>4. \A i \in 1 .. Len(m) : m[i].type # "SYN"
    BY <2>2, <2>3
  <2>5. /\ F \in Seq(Saying(p)) /\ F # <<>>
        /\ \A i \in 1 .. Len(F) : F[i].type = "SYN" <=> i = Len(F)
        /\ \A i \in 1 .. Len(m) : i + 1 \in 1 .. Len(F) /\ F[i + 1].type = m[i].type
    BY <1>1, <2>1, <2>2, <2>4
  <2>6. {2, 3} \subseteq 1 .. Len(F) /\ F[2].type = "X" /\ F[3].type = "Y"
    BY <2>2, <2>3, <2>5
  <2>7. QED BY <1>3, <2>5, <2>6
<1>4. CASE a \in {"UP", "CANCEL"}
  <2> DEFINE m == <<Event("ID", FALSE), Event("TOUCH", FALSE)>>
  <2>1. p.id = FALSE
    BY <1>4 DEF Gesture, Up
  <2>2. F = <<Slot>> \o m \o <<Syn>>
    BY <1>4 DEF Frame
  <2>3. m \in Seq(Saying(p)) /\ Len(m) = 2
    <3>1. Event("ID", FALSE) = Event("ID", p.id) /\ Event("TOUCH", FALSE) = Event("TOUCH", p.id)
      BY <2>1
    <3>2. Event("ID", FALSE) \in Saying(p) /\ Event("TOUCH", FALSE) \in Saying(p)
      BY <3>1 DEF Saying
    <3>3. ASSUME NEW S, NEW e1 \in S, NEW e2 \in S
          PROVE  <<e1, e2>> \in Seq(S) /\ Len(<<e1, e2>>) = 2
      OBVIOUS
    <3>4. QED BY <3>2, <3>3, Zenon
  <2>4. m[1].type = "ID" /\ m[2].type = "TOUCH"
    BY DEF Event
  <2> HIDE DEF m
  <2>5. \A i \in 1 .. Len(m) : m[i].type # "SYN"
    BY <2>3, <2>4
  <2>6. /\ F \in Seq(Saying(p)) /\ F # <<>>
        /\ \A i \in 1 .. Len(F) : F[i].type = "SYN" <=> i = Len(F)
        /\ \A i \in 1 .. Len(m) : i + 1 \in 1 .. Len(F) /\ F[i + 1].type = m[i].type
    BY <1>1, <2>2, <2>3, <2>5
  <2>7. {2, 3} \subseteq 1 .. Len(F) /\ F[2].type = "ID" /\ F[3].type = "TOUCH"
    BY <2>3, <2>4, <2>6
  <2>8. QED BY <1>4, <2>6, <2>7
<1>5. CASE a = "OTHER"
  <2>1. F = <<Slot>> \o <<>> \o <<Syn>>
    BY <1>5 DEF Frame
  <2>2. <<>> \in Seq(Saying(p)) /\ Len(<<>>) = 0
    BY EmptySeq
  <2>3. /\ F \in Seq(Saying(p)) /\ F # <<>>
        /\ \A i \in 1 .. Len(F) : F[i].type = "SYN" <=> i = Len(F)
    <3>1. \A i \in 1 .. Len(<<>>) : <<>>[i].type # "SYN"
      BY <2>2
    <3>2. QED BY <1>1, <2>1, <2>2, <3>1
  <2>4. QED BY <1>5, <2>3
<1>6. QED BY <1>2, <1>3, <1>4, <1>5 DEF Actions

-----------------------------------------------------------------------------
(* A start of the engine brings a guest that has seen nothing, a stop      *)
(* takes away what nobody has read.                                        *)
LEMMA StartStop ==
    ASSUME IInv, init_device \/ close_device
    PROVE  IInv'
<1> USE Consts DEF IInv
<1>1. fifo' = <<>> /\ UNCHANGED <<finger, todo, whole, touches>> /\ todo = <<>>
  BY DEF init_device, close_device
<1>2. Len(<<>>) = 0 /\ <<>> \in Seq(FifoEvents)
  BY EmptySeq
<1>3. slot' \in SlotStates /\ view' \in SlotStates /\ judged' \in SynEvents \cup {None}
  <2>1. Untouched \in SlotStates
    BY DEF Untouched, SlotStates
  <2>2. CASE init_device
    BY <2>1, <2>2 DEF init_device
  <2>3. CASE close_device
    BY <2>3 DEF close_device, guest, TypeOK
  <2>4. QED BY <2>2, <2>3
<1>4. TypeOK'
  <2>0. known' \in BOOLEAN
    BY DEF init_device, close_device, TypeOK
  <2>1. device' \in {"none", "open", "failed"} /\ starts' \in 0 .. MaxStarts
    BY DEF init_device, close_device, TypeOK
  <2>2. Len(fifo') <= Capacity
    BY <1>1, <1>2
  <2>3. QED BY <1>1, <1>3, <2>0, <2>1, <2>2 DEF TypeOK
<1>5. Framed'
  BY <1>1, <1>2 DEF Framed
<1>6. SeenIsReal'
  <2>1. CASE init_device
    <3>1. judged' = None
      BY <2>1 DEF init_device
    <3>2. QED BY <3>1 DEF SeenIsReal
  <2>2. CASE close_device
    BY <2>2 DEF close_device, guest, SeenIsReal
  <2>3. QED BY <2>1, <2>2
<1>7. Believed'
  <2>1. PICK t : t = [i \in 1 .. 1 |-> slot']
    OBVIOUS
  <2>2. t \in [1 .. 1 -> SlotStates] /\ t[1] = slot'
    BY <1>3, <2>1
  <2>3. ASSUME device' = "open" PROVE Ready(t[1])'
    <3>1. init_device
      BY <2>3 DEF init_device, close_device
    <3>2. known' = (finger = Up) /\ t[1] = Untouched
      BY <2>2, <3>1 DEF init_device
    <3>3. CASE finger = Up
      BY <1>1, <3>2, <3>3 DEF Ready, Untouched, Up
    <3>4. CASE finger # Up
      BY <3>2, <3>4 DEF Ready
    <3>5. QED BY <3>3, <3>4
  <2>4. Len(fifo') = 0
    BY <1>1, <1>2
  <2>5. Course(t)'
    BY <2>2, <2>3, <2>4 DEF Course
  <2>6. QED BY <2>2, <2>4, <2>5 DEF Believed
<1>8. QED BY <1>4, <1>5, <1>6, <1>7

(* A frame begins: what it does not say the guest has seen already, or it  *)
(* is not said to know.                                                    *)
LEMMA Touches ==
    ASSUME IInv, NEW a \in Actions, NEW p \in Contact \cup {Up}, onTouchEvent(a, p)
    PROVE  IInv'
<1> USE Consts DEF IInv
<1>1. UNCHANGED <<device, fifo, slot, view, judged, starts>> /\ todo = <<>> /\ finger' = p
          /\ Gesture(a, p) /\ touches' \in 0 .. MaxTouches
  BY DEF onTouchEvent, guest, TypeOK
<1>2. ~ Pending("ID") /\ ~ Pending("TOUCH") /\ ~ Pending("X") /\ ~ Pending("Y")
  BY <1>1, EmptySeq DEF Pending
<1>3. known' \in BOOLEAN /\ whole' \in BOOLEAN
  BY DEF onTouchEvent, TypeOK
<1>4. TypeOK'
  <2>1. todo' # <<>> => device = "open"
    BY <1>1 DEF onTouchEvent
  <2>2. QED BY <1>1, <1>3, <2>1 DEF TypeOK
<1>5. SeenIsReal'
  BY <1>1 DEF SeenIsReal
<1>6. PICK t \in [1 .. Len(fifo) + 1 -> SlotStates] : Course(t)
  BY DEF Believed
<1>7. CASE device = "open"
  <2>1. todo' = Frame(a, p) /\ (known' => known \/ a \in {"DOWN", "UP", "CANCEL"})
    BY <1>7 DEF onTouchEvent
  <2>2. /\ todo' \in Seq(Saying(p)) /\ todo' # <<>>
        /\ \A i \in 1 .. Len(todo') : todo'[i].type = "SYN" <=> i = Len(todo')
        /\ a = "DOWN" => Pending("ID")' /\ Pending("TOUCH")' /\ Pending("X")' /\ Pending("Y")'
        /\ a = "MOVE" => Pending("X")' /\ Pending("Y")'
        /\ a \in {"UP", "CANCEL"} => Pending("ID")' /\ Pending("TOUCH")'
    BY <1>1, <2>1, FrameType DEF Pending
  <2>3. Framed'
    BY <1>1, <2>2 DEF Framed
  <2>4. ASSUME NEW s, Ready(s) PROVE Ready(s)'
    <3>1. known => /\ s.id = finger.id /\ s.touch = finger.id
                   /\ finger # Up => s.x = finger.x /\ s.y = finger.y
      BY <1>1, <1>2, <2>4 DEF Ready
    <3>2. CASE a = "DOWN"
      BY <2>2, <3>2 DEF Ready
    <3>3. CASE a = "MOVE"
      <4>1. finger # Up /\ p \in Contact
        BY <1>1, <3>3 DEF Gesture
      <4>2. p.id = TRUE /\ finger.id = TRUE
        BY <4>1, FingerType DEF TypeOK
      <4>3. known' => s.id = p.id /\ s.touch = p.id
        BY <2>1, <3>1, <3>3, <4>2
      <4>4. QED BY <1>1, <2>2, <3>3, <4>3 DEF Ready
    <3>4. CASE a \in {"UP", "CANCEL"}
      <4>1. p = Up
        BY <1>1, <3>4 DEF Gesture
      <4>2. QED BY <1>1, <2>2, <3>4, <4>1 DEF Ready
    <3>5. CASE a = "OTHER"
      <4>1. p = finger
        BY <1>1, <3>5 DEF Gesture
      <4>2. QED BY <1>1, <2>1, <3>1, <3>5, <4>1 DEF Ready
    <3>6. QED BY <3>2, <3>3, <3>4, <3>5 DEF Actions
  <2>5. Course(t)'
    <3>1. t[Len(fifo) + 1]' = t[Len(fifo) + 1]
      BY <1>1
    <3>2. Ready(t[Len(fifo) + 1])
      BY <1>6, <1>7 DEF Course
    <3>3. PICK s : s = t[Len(fifo) + 1]
      OBVIOUS
    <3>4. Ready(s)'
      BY <2>4, <3>2, <3>3
    <3>5. QED BY <1>1, <1>6, <3>1, <3>3, <3>4 DEF Course
  <2>6. QED BY <1>1, <1>4, <1>5, <1>6, <2>3, <2>5 DEF Believed
<1>8. CASE device # "open"
  <2>1. todo' = <<>>
    BY <1>1, <1>8 DEF onTouchEvent
  <2>2. Framed'
    BY <1>1, <2>1, EmptySeq DEF Framed
  <2>3. Course(t)'
    BY <1>1, <1>6, <1>8 DEF Course
  <2>4. QED BY <1>1, <1>4, <1>5, <1>6, <2>2, <2>3 DEF Believed
<1>9. QED BY <1>7, <1>8

(* An event is written or lost.  What is lost and says something makes the *)
(* frame one that the guest is not said to know.                           *)
LEMMA Writes ==
    ASSUME IInv, write_event
    PROVE  IInv'
<1> USE Consts DEF IInv
<1> DEFINE e == Head(todo)
<1>1. UNCHANGED <<device, finger, slot, view, judged, touches, starts>> /\ todo # <<>>
          /\ todo' = Tail(todo) /\ device = "open"
  BY DEF write_event, guest, TypeOK
<1>2. /\ e \in Saying(finger) /\ e = todo[1] /\ Len(todo) \in Nat \ {0}
      /\ Tail(todo) \in Seq(Saying(finger)) /\ Len(Tail(todo)) = Len(todo) - 1
      /\ \A i \in 1 .. Len(todo) - 1 : Tail(todo)[i] = todo[i + 1]
  BY <1>1, HeadTailProperties, EmptySeq DEF Framed
<1>3. /\ e.type \in {"SLOT", "MAJOR", "SYN", "ID", "TOUCH", "X", "Y"}
      /\ e.type = "SYN" <=> Len(todo) = 1
  <2>1. e.type \in {"SLOT", "MAJOR", "SYN", "ID", "TOUCH", "X", "Y"}
    BY <1>2, SentType
  <2>2. 1 \in 1 .. Len(todo)
    BY <1>2
  <2>3. todo[1].type = "SYN" <=> 1 = Len(todo)
    BY <2>2 DEF Framed
  <2>4. QED BY <1>2, <2>1, <2>3
<1>4. /\ whole' = whole \/ whole' = (whole /\ e.type \in {"SLOT", "MAJOR", "SYN"})
      /\ known' = (known /\ whole) \/ known' = known
  BY DEF write_event
<1>5. known' \in BOOLEAN /\ whole' \in BOOLEAN
  BY <1>4 DEF TypeOK
<1>6. Len(fifo) \in Nat /\ Len(fifo) + 1 \in 1 .. Len(fifo) + 1
  BY LenProperties DEF Framed
<1>7. Framed' /\ TypeOK'
  <2>1. /\ fifo' \in Seq(FifoEvents) /\ Len(fifo') <= Capacity
    <3>1. CASE Len(fifo) < Capacity
      <4>1. fifo' = Append(fifo, Sent(e)) /\ Sent(e) \in FifoEvents
        BY <1>2, <3>1, SentType DEF write_event
      <4>2. QED BY <1>6, <3>1, <4>1, AppendProperties DEF Framed
    <3>2. CASE ~ (Len(fifo) < Capacity)
      BY <3>2 DEF write_event, Framed, TypeOK
    <3>3. QED BY <3>1, <3>2
  <2>2. todo' \in Seq(Saying(finger'))
            /\ \A i \in 1 .. Len(todo') : todo'[i].type = "SYN" <=> i = Len(todo')
    <3>1. finger' = finger /\ todo' \in Seq(Saying(finger)) /\ Len(todo') = Len(todo) - 1
      BY <1>1, <1>2
    <3>2. Saying(finger') = Saying(finger)
      BY <3>1
    <3>3. ASSUME NEW i \in 1 .. Len(todo')
          PROVE  todo'[i].type = "SYN" <=> i = Len(todo')
      <4>1. i + 1 \in 1 .. Len(todo) /\ todo'[i] = todo[i + 1] /\ (i + 1 = Len(todo) <=> i = Len(todo'))
        BY <1>1, <1>2, <3>1
      <4>2. todo[i + 1].type = "SYN" <=> i + 1 = Len(todo)
        BY <4>1 DEF Framed
      <4>3. QED BY <4>1, <4>2
    <3>4. QED BY <3>1, <3>2, <3>3
  <2>3. TypeOK'
    BY <1>1, <1>5, <2>1 DEF TypeOK
  <2>4. QED BY <2>1, <2>2, <2>3 DEF Framed
<1>8. SeenIsReal'
  BY <1>1 DEF SeenIsReal
<1>9. \A x \in {"ID", "TOUCH", "X", "Y"} : Pending(x) => e.type = x \/ Pending(x)'
  <2> SUFFICES ASSUME NEW x \in {"ID", "TOUCH", "X", "Y"}, Pending(x), e.type # x
               PROVE  Pending(x)'
    OBVIOUS
  <2>1. PICK i \in 1 .. Len(todo) : todo[i].type = x
    BY DEF Pending
  <2>2. i # 1
    BY <1>2, <2>1
  <2>3. i - 1 \in 1 .. Len(todo') /\ todo'[i - 1] = todo[i]
    BY <1>1, <1>2, <2>2
  <2>4. QED BY <2>1, <2>3 DEF Pending
<1>10. known' /\ (whole' \/ todo' = <<>>) => known /\ whole
  <2>1. CASE todo' = <<>>
    <3>1. Len(todo) = 1
      <4>1. Len(todo') = 0
        BY <2>1, EmptySeq
      <4>2. QED BY <1>1, <1>2, <4>1
    <3>2. known' = (known /\ whole)
      BY <3>1 DEF write_event
    <3>3. QED BY <3>2
  <2>2. CASE todo' # <<>>
    BY <1>4, <2>2
  <2>3. QED BY <2>1, <2>2
<1>11. PICK s \in [1 .. Len(fifo) + 1 -> SlotStates] : Course(s)
  BY DEF Believed
<1>12. PICK last : last = s[Len(fifo) + 1]
  OBVIOUS
<1>13. last \in SlotStates /\ Ready(last)
  BY <1>1, <1>6, <1>11, <1>12 DEF Course
<1>14. CASE ~ (Len(fifo) < Capacity)
  <2>1. fifo' = fifo /\ whole' = (whole /\ e.type \in {"SLOT", "MAJOR", "SYN"})
    BY <1>14 DEF write_event
  <2>2. known' /\ (whole' \/ todo' = <<>>) => e.type \in {"SLOT", "MAJOR", "SYN"}
    <3>1. CASE todo' = <<>>
      <4>1. Len(todo) = 1
        <5>1. Len(todo') = 0
          BY <3>1, EmptySeq
        <5>2. QED BY <1>1, <1>2, <5>1
      <4>2. QED BY <1>3, <4>1
    <3>2. CASE todo' # <<>>
      BY <2>1, <3>2
    <3>3. QED BY <3>1, <3>2
  <2>3. Ready(last)'
    BY <1>1, <1>9, <1>10, <1>13, <2>2 DEF Ready
  <2>4. Course(s)'
    BY <1>1, <1>11, <1>12, <2>1, <2>3 DEF Course
  <2>5. QED BY <1>7, <1>8, <1>11, <2>1, <2>4 DEF Believed
<1>15. CASE Len(fifo) < Capacity
  <2>1. fifo' = Append(fifo, Sent(e)) /\ whole' = whole /\ Sent(e) \in FifoEvents
    BY <1>2, <1>15, SentType DEF write_event
  <2>2. Len(fifo') = Len(fifo) + 1 /\ fifo'[Len(fifo) + 1] = Sent(e)
            /\ \A i \in 1 .. Len(fifo) : fifo'[i] = fifo[i]
    BY <2>1, <1>6, AppendProperties DEF Framed
  <2>3. PICK t : t = [i \in 1 .. Len(fifo) + 2 |->
                         IF i = Len(fifo) + 2 THEN Reads(last, Sent(e)) ELSE s[i]]
    OBVIOUS
  <2>4. t \in [1 .. Len(fifo) + 2 -> SlotStates]
    <3>1. Reads(last, Sent(e)) \in SlotStates
      BY <1>13, <2>1, ReadsType
    <3>2. QED BY <1>6, <1>11, <2>3, <3>1
  <2>5. /\ t[Len(fifo) + 2] = Reads(last, Sent(e))
        /\ \A i \in 1 .. Len(fifo) + 1 : t[i] = s[i]
    BY <1>6, <2>3
  <2>6. PICK new : new = Reads(last, Sent(e))
    OBVIOUS
  <2>7. Ready(new)'
    <3> SUFFICES ASSUME known', whole' \/ todo' = <<>>
                 PROVE  /\ new.id = finger.id \/ Pending("ID")'
                        /\ new.touch = finger.id \/ Pending("TOUCH")'
                        /\ finger # Up => /\ new.x = finger.x \/ Pending("X")'
                                          /\ new.y = finger.y \/ Pending("Y")'
      BY <1>1 DEF Ready
    <3>1. /\ last.id = finger.id \/ Pending("ID")
          /\ last.touch = finger.id \/ Pending("TOUCH")
          /\ finger # Up => (last.x = finger.x \/ Pending("X")) /\ (last.y = finger.y \/ Pending("Y"))
      BY <1>10, <1>13 DEF Ready
    <3>2. /\ e.type # "ID" => new.id = last.id
          /\ e.type # "TOUCH" => new.touch = last.touch
          /\ e.type # "X" => new.x = last.x
          /\ e.type # "Y" => new.y = last.y
      <4>1. Sent(e).type = e.type
        BY <1>2, SentType
      <4>2. QED BY <1>13, <2>6, <4>1 DEF Reads, SlotStates
    <3>3. /\ e.type = "ID" => new.id = finger.id
          /\ e.type = "TOUCH" => new.touch = finger.id
          /\ e.type = "X" => new.x = finger.x
          /\ e.type = "Y" => new.y = finger.y
      <4>1. e.type # "SYN" => Sent(e) = e
        BY <1>2, SentType
      <4>2. /\ e.type \in {"ID", "TOUCH"} => e.value = finger.id
            /\ e.type = "X" => e.value = finger.x
            /\ e.type = "Y" => e.value = finger.y
        BY <1>2, SentType
      <4>3. QED BY <1>13, <2>6, <4>1, <4>2 DEF Reads, SlotStates
    <3>4. QED BY <1>9, <3>1, <3>2, <3>3
  <2>8. ASSUME Sent(e).type = "SYN", Sent(e).known
        PROVE  Shows(last, Sent(e).at)
    <3>1. e.type = "SYN" /\ Sent(e) = [type |-> "SYN", at |-> finger, known |-> known /\ whole]
      BY <1>2, <2>8, SentType
    <3>2. known /\ whole /\ Sent(e).at = finger
      <4>1. Sent(e).known = (known /\ whole)
        BY <3>1
      <4>2. Sent(e).at = finger
        BY <3>1
      <4>3. known /\ whole
        BY <2>8, <4>1
      <4>4. QED BY <4>2, <4>3
    <3>3. ~ Pending("ID") /\ ~ Pending("TOUCH") /\ ~ Pending("X") /\ ~ Pending("Y")
      BY <1>2, <1>3, <3>1 DEF Pending
    <3>4. QED BY <1>13, <3>2, <3>3 DEF Ready, Shows
  <2>9. Course(t)'
    <3>1. t \in [1 .. Len(fifo') + 1 -> SlotStates] /\ t[1] = slot'
      BY <1>1, <1>6, <1>11, <2>2, <2>4, <2>5 DEF Course
    <3>2. ASSUME NEW i \in 1 .. Len(fifo')
          PROVE  /\ t[i + 1] = Reads(t[i], fifo'[i])
                 /\ fifo'[i].type = "SYN" /\ fifo'[i].known => Shows(t[i], fifo'[i].at)
      <4>1. CASE i = Len(fifo) + 1
        <5>1. i + 1 = Len(fifo) + 2 /\ t[i] = last /\ fifo'[i] = Sent(e)
          BY <1>6, <1>12, <2>2, <2>5, <4>1
        <5>2. QED BY <2>5, <2>8, <5>1
      <4>2. CASE i # Len(fifo) + 1
        <5>1. i \in 1 .. Len(fifo) /\ i + 1 \in 1 .. Len(fifo) + 1 /\ i \in 1 .. Len(fifo) + 1
          BY <1>6, <2>2, <4>2
        <5>2. t[i] = s[i] /\ t[i + 1] = s[i + 1] /\ fifo'[i] = fifo[i]
          BY <2>2, <2>5, <5>1
        <5>3. QED BY <1>11, <5>1, <5>2 DEF Course
      <4>3. QED BY <4>1, <4>2
    <3>3. t[Len(fifo') + 1] = new
      BY <1>6, <2>2, <2>5, <2>6
    <3>4. QED BY <2>7, <3>1, <3>2, <3>3 DEF Course
  <2>10. t \in [1 .. Len(fifo') + 1 -> SlotStates]
    BY <2>9 DEF Course
  <2>11. QED BY <1>7, <1>8, <2>9, <2>10 DEF Believed
<1>16. QED BY <1>14, <1>15

(* The guest goes one step of its course, and at a SYN believes what it    *)
(* shows.                                                                  *)
LEMMA Guest ==
    ASSUME IInv, GuestReads
    PROVE  IInv'
<1> USE Consts DEF IInv
<1> DEFINE e == Head(fifo)
<1>1. UNCHANGED <<device, finger, todo, touches, starts, whole, known>> /\ fifo # <<>>
          /\ fifo' = Tail(fifo) /\ device = "open"
  BY DEF GuestReads, screen
<1>2. /\ e \in FifoEvents /\ e = fifo[1] /\ Len(fifo) \in Nat \ {0}
      /\ Tail(fifo) \in Seq(FifoEvents) /\ Len(Tail(fifo)) = Len(fifo) - 1
      /\ \A i \in 1 .. Len(fifo) - 1 : Tail(fifo)[i] = fifo[i + 1]
  BY <1>1, HeadTailProperties, EmptySeq DEF Framed
<1>3. slot' = Reads(slot, e) /\ slot' \in SlotStates
  <2>1. slot' = Reads(slot, e)
    BY DEF GuestReads, Reads
  <2>2. QED BY <1>2, <2>1, ReadsType DEF TypeOK
<1>4. /\ e.type = "SYN" => view' = slot /\ judged' = e
      /\ e.type # "SYN" => view' = view /\ judged' = judged
  BY DEF GuestReads
<1>5. e.type = "SYN" => e \in SynEvents
  <2>1. \A x \in [type : {"ID", "TOUCH"}, value : BOOLEAN]
                     \cup [type : {"X", "Y"}, value : Coords \cup {"none"}] \cup {Slot, Major} :
            x.type # "SYN"
    BY DEF Slot, Major
  <2>2. QED BY <1>2, <2>1 DEF FifoEvents
<1>6. TypeOK' /\ Framed'
  <2>1. view' \in SlotStates /\ judged' \in SynEvents \cup {None}
    BY <1>4, <1>5 DEF TypeOK
  <2>2. Len(fifo') <= Capacity
    BY <1>1, <1>2 DEF TypeOK
  <2>3. TypeOK'
    BY <1>1, <1>3, <2>1, <2>2 DEF TypeOK
  <2>4. QED BY <1>1, <1>2, <2>3 DEF Framed
<1>7. PICK s \in [1 .. Len(fifo) + 1 -> SlotStates] : Course(s)
  BY DEF Believed
<1>8. SeenIsReal'
  <2>1. CASE e.type = "SYN"
    <3>1. e.known => Shows(slot, e.at)
      BY <1>2, <1>7, <2>1 DEF Course
    <3>2. QED BY <1>4, <2>1, <3>1 DEF Shows, SeenIsReal
  <2>2. CASE e.type # "SYN"
    BY <1>4, <2>2 DEF SeenIsReal
  <2>3. QED BY <2>1, <2>2
<1>9. PICK t : t = [i \in 1 .. Len(fifo) |-> s[i + 1]]
  OBVIOUS
<1>10. t \in [1 .. Len(fifo) -> SlotStates] /\ \A i \in 1 .. Len(fifo) : t[i] = s[i + 1]
  BY <1>2, <1>7, <1>9
<1>11. Len(fifo') = Len(fifo) - 1 /\ Len(fifo') + 1 = Len(fifo)
  BY <1>1, <1>2
<1>12. Course(t)'
  <2>1. t[1] = slot'
    BY <1>2, <1>3, <1>7, <1>10 DEF Course
  <2>2. ASSUME NEW i \in 1 .. Len(fifo')
        PROVE  /\ t[i + 1] = Reads(t[i], fifo'[i])
               /\ fifo'[i].type = "SYN" /\ fifo'[i].known => Shows(t[i], fifo'[i].at)
    <3>1. i + 1 \in 1 .. Len(fifo) /\ i \in 1 .. Len(fifo)
      BY <1>2, <1>11
    <3>2. t[i] = s[i + 1] /\ t[i + 1] = s[(i + 1) + 1] /\ fifo'[i] = fifo[i + 1]
      BY <1>1, <1>2, <1>10, <1>11, <3>1
    <3>3. QED BY <1>7, <3>1, <3>2 DEF Course
  <2>3. PICK last : last = s[Len(fifo) + 1]
    OBVIOUS
  <2>4. Ready(last)'
    <3>1. Ready(last)
      BY <1>1, <1>7, <2>3 DEF Course
    <3>2. QED BY <1>1, <3>1 DEF Ready, Pending
  <2>5. t[Len(fifo') + 1] = last
    <3>1. Len(fifo) \in 1 .. Len(fifo)
      BY <1>2
    <3>2. QED BY <1>10, <1>11, <2>3, <3>1
  <2>6. t \in [1 .. Len(fifo') + 1 -> SlotStates]
    BY <1>10, <1>11
  <2>7. QED BY <2>1, <2>2, <2>4, <2>5, <2>6 DEF Course
<1>13. QED BY <1>6, <1>8, <1>10, <1>11, <1>12 DEF Believed

(* The invariant is inductive. *)
LEMMA Initially == Init => IInv
<1> SUFFICES ASSUME Init PROVE IInv
  OBVIOUS
<1> USE Consts
<1>1. Untouched \in SlotStates
  BY DEF Untouched, SlotStates
<1>2. /\ fifo = <<>> /\ todo = <<>> /\ Len(fifo) = 0 /\ Len(todo) = 0
      /\ slot = Untouched /\ view = Untouched /\ device = "none" /\ judged = None
  BY EmptySeq DEF Init
<1>3. TypeOK
  BY <1>1, <1>2 DEF Init, TypeOK
<1>4. Framed
  BY <1>2, EmptySeq DEF Framed
<1>5. SeenIsReal
  BY <1>2 DEF SeenIsReal
<1>6. Believed
  <2>1. PICK t : t = [i \in 1 .. 1 |-> Untouched]
    OBVIOUS
  <2>2. t \in [1 .. 1 -> SlotStates] /\ t[1] = Untouched
    BY <1>1, <2>1
  <2>3. Course(t)
    BY <1>2, <2>2 DEF Course
  <2>4. QED BY <1>2, <2>2, <2>3 DEF Believed
<1>7. QED BY <1>3, <1>4, <1>5, <1>6 DEF IInv

(* Every step keeps the invariant. *)
LEMMA Inductive == IInv /\ [Next]_vars => IInv'
<1> SUFFICES ASSUME IInv, [Next]_vars PROVE IInv'
  OBVIOUS
<1>1. CASE init_device \/ close_device
  BY <1>1, StartStop
<1>2. CASE UserTouches
  BY <1>2, Touches DEF UserTouches
<1>3. CASE write_event
  BY <1>3, Writes
<1>4. CASE GuestReads
  BY <1>4, Guest
<1>5. CASE UNCHANGED vars
  <2>1. UNCHANGED <<device, finger, todo, touches, starts, slot, view, judged, fifo, whole, known>>
    BY <1>5 DEF vars, screen, guest
  <2>2. TypeOK' /\ SeenIsReal' /\ Framed'
    BY <2>1 DEF IInv, TypeOK, SeenIsReal, Framed
  <2>3. PICK s \in [1 .. Len(fifo) + 1 -> SlotStates] : Course(s)
    BY DEF IInv, Believed
  <2>4. Course(s)'
    <3>1. PICK last : last = s[Len(fifo) + 1]
      OBVIOUS
    <3>2. device = "open" => Ready(last)
      BY <2>3, <3>1 DEF Course
    <3>3. device' = "open" => Ready(last)'
      BY <2>1, <3>2 DEF Ready, Pending
    <3>4. s[Len(fifo') + 1] = last
      BY <2>1, <3>1
    <3>5. QED BY <2>1, <2>3, <3>3, <3>4 DEF Course
  <2>5. QED BY <2>1, <2>2, <2>3, <2>4 DEF IInv, Believed
<1>6. QED BY <1>1, <1>2, <1>3, <1>4, <1>5 DEF Next

(* So it always holds. *)
LEMMA Always == Spec => []IInv
BY Initially, Inductive, PTL DEF Spec

-----------------------------------------------------------------------------
(* Every event in the FIFO, the guest's slot and what it believes are of   *)
(* the kinds the code knows, the FIFO never holds more than it can, and    *)
(* events are under way only while the device is open.                     *)
THEOREM InputTypes == Spec => []TypeOK
<1>1. IInv => TypeOK
  BY DEF IInv
<1>2. QED BY <1>1, Always, PTL

(* Of a frame the guest can know, it sees where the pointer was when the   *)
(* frame was sent, whatever was lost before the pointer last went down or  *)
(* up and however often the engine was restarted.                          *)
THEOREM TouchSeen == Spec => []SeenIsReal
<1>1. IInv => SeenIsReal
  BY DEF IInv
<1>2. QED BY <1>1, Always, PTL
=============================================================================
