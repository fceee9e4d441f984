---------------------------- MODULE VirtualInput ----------------------------
(***************************************************************************)
(* The touch screen: VMSurfaceView.onTouchEvent hands every MotionEvent to *)
(* VirtualInput::send_touch on the UI thread, which writes a frame of      *)
(* input events to a FIFO of the rootfs, one write each.  The FIFO is      *)
(* non-blocking and an event for which it has no room is gone.  The guest  *)
(* reads it when it likes and takes over what it has read at a SYN_REPORT. *)
(*                                                                         *)
(* The engine gets one pointer, always in slot 0.  The coordinates of an   *)
(* event other than DOWN and MOVE are not passed on.  A SYN carries here,  *)
(* for the properties, where the pointer was and whether the guest can     *)
(* know it.                                                                *)
(***************************************************************************)
EXTENDS Naturals, Sequences

CONSTANTS
    Coords,     \* the values of a coordinate; the pointer moves on the diagonal,
                \* where coordinates of two events do not fit together
    Capacity,   \* events the FIFO holds
    MaxTouches, \* bound: events of the touch screen
    MaxStarts   \* bound: starts of the engine

ASSUME CapacityAssumption == Capacity \in Nat \ {0}
ASSUME TouchAssumption == MaxTouches \in Nat /\ MaxStarts \in Nat
ASSUME CoordAssumption == Coords # {} /\ "none" \notin Coords

VARIABLES
    device,   \* "none" (g_input is null), "open", or "failed" (fifo_fd is -1)
    finger,   \* where pointer 0 is, or Up
    todo,     \* the events of the frame that send_touch has still to write
    fifo,     \* the events in the FIFO
    slot,     \* what the guest has read, and
    view,     \* what it believes since the last SYN
    whole,    \* every event of the present frame that says something got through
    known,    \* so did all since the last frame that says where the pointer is
    judged,   \* the last SYN the guest has read, or None
    touches, starts

screen == <<device, finger, todo, touches, starts>>
guest  == <<slot, view, judged>>
vars   == <<screen, fifo, guest, whole, known>>

Up      == [id |-> FALSE, x |-> "none", y |-> "none"]
Contact == {[id |-> TRUE, x |-> c, y |-> c] : c \in Coords}
Actions == {"DOWN", "UP", "MOVE", "CANCEL", "OTHER"}
None    == [type |-> "none"]

Event(t, v) == [type |-> t, value |-> v]
Slot  == [type |-> "SLOT"]
Major == [type |-> "MAJOR"]
Syn   == [type |-> "SYN"]

Untouched == [id |-> FALSE, touch |-> FALSE, x |-> "none", y |-> "none"]

Init ==
    /\ device = "none" /\ finger = Up /\ todo = <<>> /\ fifo = <<>>
    /\ slot = Untouched /\ view = Untouched
    /\ whole = TRUE /\ known = TRUE /\ judged = None
    /\ touches = 0 /\ starts = 0

-----------------------------------------------------------------------------
(* The engine starts and stops, with a guest of its own each time.         *)

(* init_device; the FIFO cannot always be made or opened.                  *)
init_device ==
    /\ device = "none" /\ todo = <<>> /\ starts < MaxStarts
    /\ device' \in {"open", "failed"}
    /\ starts' = starts + 1
    /\ fifo' = <<>> /\ slot' = Untouched /\ view' = Untouched /\ judged' = None
    /\ known' = (finger = Up)
    /\ UNCHANGED <<finger, todo, whole, touches>>

(* Mutant: the member is reset, the descriptor stays open. *)
CloseLeaks ==
    /\ device # "none" /\ todo = <<>>
    /\ device' = "none"
    /\ UNCHANGED <<finger, todo, fifo, guest, whole, known, touches, starts>>

(* The last descriptor goes, and with it what nobody has read.             *)
close_device ==
    /\ device # "none" /\ todo = <<>>
    /\ device' = "none" /\ fifo' = <<>>
    /\ UNCHANGED <<finger, todo, guest, whole, known, touches, starts>>

-----------------------------------------------------------------------------
(* send_touch.                                                             *)

(* Mutant: ACTION_CANCEL is no case of the switch. *)
FrameNoCancel(a, p) ==
    <<Slot>> \o
    (CASE a = "DOWN" -> <<Event("ID", TRUE), Event("X", p.x), Event("Y", p.y),
                          Major, Event("TOUCH", TRUE)>>
       [] a = "MOVE" -> <<Event("X", p.x), Event("Y", p.y)>>
       [] a = "UP" -> <<Event("ID", FALSE), Event("TOUCH", FALSE)>>
       [] OTHER -> <<>>) \o <<Syn>>

Frame(a, p) ==
    <<Slot>> \o
    (CASE a = "DOWN" -> <<Event("ID", TRUE), Event("X", p.x), Event("Y", p.y),
                          Major, Event("TOUCH", TRUE)>>
       [] a = "MOVE" -> <<Event("X", p.x), Event("Y", p.y)>>
       [] a \in {"UP", "CANCEL"} -> <<Event("ID", FALSE), Event("TOUCH", FALSE)>>
       [] OTHER -> <<>>) \o <<Syn>>

(* A gesture begins with DOWN and ends with UP or CANCEL.                  *)
Gesture(a, p) ==
    CASE a = "DOWN" -> finger = Up /\ p \in Contact
      [] a = "MOVE" -> finger # Up /\ p \in Contact
      [] a \in {"UP", "CANCEL"} -> finger # Up /\ p = Up
      [] OTHER -> finger # Up /\ p = finger

(* onTouchEvent and nativeSendTouchEvent.  Without a device nothing is     *)
(* written.                                                                *)
onTouchEvent(a, p) ==
    /\ todo = <<>> /\ touches < MaxTouches /\ Gesture(a, p)
    /\ touches' = touches + 1
    /\ finger' = p
    /\ IF device = "open"
       THEN /\ todo' = Frame(a, p)
            /\ whole' = TRUE
            /\ known' = (known \/ a \in {"DOWN", "UP", "CANCEL"})
       ELSE /\ known' = FALSE
            /\ UNCHANGED <<todo, whole>>
    /\ UNCHANGED <<device, fifo, guest, starts>>

Sent(e) == IF e = Syn THEN [type |-> "SYN", at |-> finger, known |-> known /\ whole]
           ELSE e

(* write_event: the result of the write is not looked at.  A lost SLOT or  *)
(* TOUCH_MAJOR says nothing new, and the next SYN stands in for a lost one.*)
write_event ==
    /\ todo # <<>>
    /\ todo' = Tail(todo)
    /\ LET e == Head(todo) IN
       IF Len(fifo) < Capacity
       THEN fifo' = Append(fifo, Sent(e)) /\ UNCHANGED whole
       ELSE /\ whole' = (whole /\ e.type \in {"SLOT", "MAJOR", "SYN"})
            /\ UNCHANGED fifo
    /\ known' = IF Len(todo) = 1 THEN known /\ whole ELSE known
    /\ UNCHANGED <<device, finger, guest, touches, starts>>

-----------------------------------------------------------------------------
(* The guest reads an event.                                               *)
GuestReads ==
    /\ device = "open" /\ fifo # <<>>
    /\ fifo' = Tail(fifo)
    /\ LET e == Head(fifo) IN
       /\ slot' = CASE e.type = "ID"    -> [slot EXCEPT !.id = e.value]
                    [] e.type = "X"     -> [slot EXCEPT !.x = e.value]
                    [] e.type = "Y"     -> [slot EXCEPT !.y = e.value]
                    [] e.type = "TOUCH" -> [slot EXCEPT !.touch = e.value]
                    [] OTHER -> slot
       /\ IF e.type = "SYN" THEN view' = slot /\ judged' = e
          ELSE UNCHANGED <<view, judged>>
    /\ UNCHANGED <<screen, whole, known>>

UserTouches == \E a \in Actions, p \in Contact \cup {Up} : onTouchEvent(a, p)

Next == init_device \/ close_device \/ UserTouches \/ write_event \/ GuestReads

Spec == Init /\ [][Next]_vars

-----------------------------------------------------------------------------
(* Properties.                                                             *)

SynEvents  == [type : {"SYN"}, at : Contact \cup {Up}, known : BOOLEAN]
SlotStates == [id : BOOLEAN, touch : BOOLEAN, x : Coords \cup {"none"}, y : Coords \cup {"none"}]

(* Type invariant; events are under way only while the device is open.     *)
TypeOK ==
    /\ device \in {"none", "open", "failed"} /\ finger \in Contact \cup {Up}
    /\ Len(fifo) <= Capacity /\ (todo # <<>> \/ fifo # <<>> => device = "open")
    /\ slot \in SlotStates /\ view \in SlotStates
    /\ whole \in BOOLEAN /\ known \in BOOLEAN
    /\ judged \in SynEvents \cup {None}
    /\ touches \in 0 .. MaxTouches /\ starts \in 0 .. MaxStarts

(* When the guest takes over a report, what it sees is where the pointer   *)
(* was when that report was sent: the contact, both coordinates and the    *)
(* button together, unless the FIFO has lost an event that says so since   *)
(* the pointer last went down or up.  Whatever was lost before that, in a  *)
(* frame of which some events got through too, a restart of the engine in  *)
(* the middle of a gesture included, leaves no trace.                      *)
SeenIsReal ==
    judged # None /\ judged.known =>
        /\ view.id = judged.at.id /\ view.touch = judged.at.id
        /\ judged.at # Up => view.x = judged.at.x /\ view.y = judged.at.y
=============================================================================
