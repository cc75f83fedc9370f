-------------------------------- MODULE SideARQ --------------------------------
(***************************************************************************)
(* The Go-Back-N protocol of Examples/ARQ: a Sender (Transmitter, AckMonitor,  *)
(* sliding window) and a Recipient (Receiver, Acknowledger) joined by two      *)
(* links that damage packets (setFaultRate, FT_LEVEL2: a damaged packet        *)
(* triggers no EOT).                                                          *)
(*                                                                         *)
(* Time is abstract: a timeout longer than zero may go off at any moment after  *)
(* it is set, so `late' says of each entry of the window whether its time       *)
(* stamp is older than Timeout.  A packet enters a link when its transmission   *)
(* is stopped, as no other event of it is awaited.  Packets are numbered in     *)
(* the order in which getPacket delivers them; these numbers (the contents of   *)
(* the packets) and the fields `pkt', `upto' and `acked' are never tested.      *)
(***************************************************************************)
EXTENDS Integers, Sequences

CONSTANTS
  WS,        \* window size
  MLimit,    \* bound: messages, of one packet each
  Capacity   \* bound: packets that fit in a link

ASSUME ARQAssumption ==
  WS \in Nat \ {0} /\ MLimit \in Nat /\ Capacity \in Nat \ {0}

VARIABLES
  arrived,   \* messages that have arrived at the Sender
  accepted,  \* those taken by getPacket
  released,  \* packets released, in order
  received,  \* packets received by the upper layer, in order
  \* Transmitter
  xstate,    \* the state at which it is restarted ...
  xwaits,    \* ... and the events that do it
  xsignal,   \* a signal is pending
  NFrames, Current, OldAck, LastAck, Outgoing,
  storage, late, start,  \* SlidingWindow
  OF,        \* buffer of the current frame
  acked,     \* history: the packets covered by LastAck
  \* Acknowledger and Receiver
  astate, asignal, LastReceived, Expected,
  ACK,       \* the acknowledgement, with the number of packets it covers
  link1, link2

client   == <<arrived, accepted, released>>
window   == <<storage, late, start, NFrames, Current, OldAck, Outgoing, OF>>
xm       == <<xstate, xwaits>>
monitor  == <<xsignal, LastAck, acked>>
acker    == <<astate, asignal, LastReceived, Expected, ACK, received>>
vars     == <<client, window, xm, monitor, acker, link1, link2>>

Slots == 0 .. WS - 1

-----------------------------------------------------------------------------
(* Serial numbers 0 .. WS                                                  *)

\* Fault: as many numbers as there are frames in the window.
next_Short(sn) == (sn + 1) % WS

next(sn) == (sn + 1) % (WS + 1)

\* Fault: the mark is a number that no frame can have, as its comment asks for.
Mark_Invalid == -1

\* The acknowledged number before there is one, for both parties.
Mark == WS

(* SlidingWindow                                                           *)

\* Fault: positions are counted from the beginning of the storage.
slot_Fixed(pos) == pos % WS

slot(pos) == (start + pos) % WS

Init ==
  /\ arrived = 0 /\ accepted = 0 /\ released = <<>> /\ received = <<>>
  /\ xstate = "WakeUp" /\ xwaits = {"now"} /\ xsignal = FALSE
  /\ NFrames = 0 /\ Current = 0 /\ Outgoing = 0
  /\ OldAck = Mark /\ LastAck = Mark /\ acked = 0
  /\ storage = [s \in Slots |-> [SN |-> 0, pkt |-> 0]]
  /\ late = [s \in Slots |-> FALSE] /\ start = 0
  /\ OF = [SN |-> 0, pkt |-> 0]
  /\ astate = "WaitSignal" /\ asignal = FALSE
  /\ LastReceived = WS /\ Expected = 0
  /\ ACK = [SN |-> WS, upto |-> 0]
  /\ link1 = <<>> /\ link2 = <<>>

-----------------------------------------------------------------------------
(* The environment: messages arrive, time passes                            *)

Arrive ==
  /\ arrived < MLimit
  /\ arrived' = arrived + 1
  /\ UNCHANGED <<accepted, released, window, xm, monitor, acker, link1, link2>>

\* The time stamp of a position of the window becomes older than Timeout.
GetLate(pos) ==
  /\ pos < NFrames /\ ~late[slot(pos)]
  /\ ~(xstate = "XDone" /\ pos = Current)
  /\ late' = [late EXCEPT ![slot(pos)] = TRUE]
  /\ UNCHANGED <<client, storage, start, NFrames, Current, OldAck, Outgoing, OF,
                 xm, monitor, acker, link1, link2>>

-----------------------------------------------------------------------------
(* Transmitter                                                             *)

\* One of the awaited events has occurred.
Woken ==
  /\ xstate = "WakeUp"
  /\ \/ "now" \in xwaits
     \/ "SIGNAL" \in xwaits /\ xsignal
     \/ "Timer" \in xwaits /\ late[slot(0)]
     \/ "ARRIVAL" \in xwaits /\ arrived > accepted

\* Frames of the window up to the first one with the acknowledged number.
covered == {k \in 1 .. NFrames : storage[slot(k - 1)].SN = LastAck
                                   /\ \A j \in 1 .. k - 1 : storage[slot(j - 1)].SN # LastAck}

NewAck == NFrames > 0 /\ LastAck # OldAck

\* Current after the window has slid by k frames.
current(k) == IF Current > k THEN Current - k ELSE 0

\* WakeUp, a new acknowledgement: release the frames up to the acknowledged one
\* and start again.
Advance ==
  /\ Woken /\ NewAck
  /\ \E k \in covered :
       /\ released' = released \o [i \in 1 .. k |-> storage[slot(i - 1)].pkt]
       /\ OF' = storage[slot(k - 1)]
       /\ NFrames' = NFrames - k
       /\ start' = (start + k) % WS
       /\ Current' = current(k)
  /\ OldAck' = LastAck
  /\ xwaits' = {"now"} /\ xsignal' = FALSE
  /\ UNCHANGED <<arrived, accepted, storage, late, Outgoing, xstate,
                 LastAck, acked, acker, link1, link2>>

\* The position to be sent, after the check for a timeout of the first frame.
position == IF NFrames > 0 /\ late[slot(0)] THEN 0 ELSE Current

\* WakeUp, no new acknowledgement: a frame of the window is sent again.
Retransmit ==
  /\ Woken /\ ~NewAck
  /\ position < NFrames
  /\ Current' = position
  /\ OF' = storage[slot(position)]
  /\ xstate' = "XDone" /\ xwaits' = {"TRANSFER"} /\ xsignal' = FALSE
  /\ UNCHANGED <<client, storage, late, start, NFrames, OldAck, Outgoing,
                 LastAck, acked, acker, link1, link2>>

\* Behind the window: nothing of it is to be sent.
Behind == Woken /\ ~NewAck /\ position >= NFrames

\* Fault: the window takes one frame more than it holds numbers for.
Room_Over == NFrames <= WS

Room == NFrames < WS

\* WakeUp, a new frame is acquired, added to the window and sent.
SendNew ==
  /\ Behind /\ Room /\ arrived > accepted
  /\ accepted' = accepted + 1
  /\ OF' = [SN |-> Outgoing, pkt |-> accepted + 1]
  /\ Outgoing' = next(Outgoing)
  /\ Current' = NFrames
  /\ storage' = [storage EXCEPT ![slot(NFrames)] = OF']
  /\ NFrames' = NFrames + 1
  /\ xstate' = "XDone" /\ xwaits' = {"TRANSFER"} /\ xsignal' = FALSE
  /\ UNCHANGED <<arrived, released, late, start, OldAck,
                 LastAck, acked, acker, link1, link2>>

\* Fault: no alarm clock for the first frame of the window.
events_NoTimer ==
  (IF Room THEN {"ARRIVAL"} ELSE {}) \cup (IF NFrames > 0 THEN {"SIGNAL"} ELSE {})

\* The events awaited when there is nothing to be sent.
events ==
  (IF Room THEN {"ARRIVAL"} ELSE {})
    \cup (IF NFrames > 0 THEN {"Timer", "SIGNAL"} ELSE {})

\* WakeUp, nothing to be sent.
Rest ==
  /\ Behind /\ ~(Room /\ arrived > accepted)
  /\ Current' = position
  /\ xwaits' = events /\ xsignal' = FALSE
  /\ UNCHANGED <<client, storage, late, start, NFrames, OldAck, Outgoing, OF,
                 xstate, LastAck, acked, acker, link1, link2>>

\* XDone: the transmission is stopped, and the frame is stamped.
XDone ==
  /\ xstate = "XDone" /\ Len(link1) < Capacity
  /\ link1' = Append(link1, OF)
  /\ late' = [late EXCEPT ![slot(Current)] = FALSE]
  /\ Current' = Current + 1
  /\ xstate' = "WakeUp" /\ xwaits' = {"now"}
  /\ UNCHANGED <<client, storage, start, NFrames, OldAck, Outgoing, OF,
                 monitor, acker, link2>>

-----------------------------------------------------------------------------
(* AckMonitor                                                              *)

\* NextAck: an acknowledgement has been received.
NextAck ==
  /\ link2 # <<>>
  /\ link2' = Tail(link2)
  /\ IF Head(link2).SN # OldAck
     THEN LastAck' = Head(link2).SN /\ acked' = Head(link2).upto /\ xsignal' = TRUE
     ELSE UNCHANGED monitor
  /\ UNCHANGED <<client, window, xm, acker, link1>>

-----------------------------------------------------------------------------
(* Receiver                                                                *)

\* Fault: a frame is received whatever its number.
Wanted_Any(frame) == TRUE

Wanted(frame) == frame.SN = Expected

\* NewFrame, with Acknowledger::nextSN.
NewFrame ==
  /\ link1 # <<>>
  /\ link1' = Tail(link1)
  /\ IF Wanted(Head(link1))
     THEN /\ received' = Append(received, Head(link1).pkt)
          /\ LastReceived' = Expected
          /\ Expected' = next(Expected)
          /\ asignal' = TRUE
     ELSE UNCHANGED <<received, LastReceived, Expected, asignal>>
  /\ UNCHANGED <<client, window, xm, monitor, astate, ACK, link2>>

-----------------------------------------------------------------------------
(* Acknowledger                                                            *)

\* WaitSignal and SendAck: after a signal or, at any time, a timeout.
SendAck ==
  /\ astate = "WaitSignal"
  /\ asignal' = FALSE
  /\ ACK' = [SN |-> LastReceived, upto |-> Len(received)]
  /\ astate' = "XDone"
  /\ UNCHANGED <<client, window, xm, monitor, received, LastReceived, Expected,
                 link1, link2>>

AckDone ==
  /\ astate = "XDone" /\ Len(link2) < Capacity
  /\ link2' = Append(link2, ACK)
  /\ astate' = "WaitSignal"
  /\ UNCHANGED <<client, window, xm, monitor, asignal, LastReceived, Expected, ACK,
                 received, link1>>

-----------------------------------------------------------------------------
(* The links: a packet reaches the other end damaged                        *)

Damage1 ==
  /\ link1 # <<>> /\ link1' = Tail(link1)
  /\ UNCHANGED <<client, window, xm, monitor, acker, link2>>

Damage2 ==
  /\ link2 # <<>> /\ link2' = Tail(link2)
  /\ UNCHANGED <<client, window, xm, monitor, acker, link1>>

Transmitter == Advance \/ Retransmit \/ SendNew \/ Rest \/ XDone

Next ==
  \/ Arrive \/ (\E pos \in Slots : GetLate(pos))
  \/ Advance \/ Retransmit \/ SendNew \/ Rest \/ XDone
  \/ NextAck \/ NewFrame \/ SendAck \/ AckDone
  \/ Damage1 \/ Damage2

Spec == Init /\ [][Next]_vars

\* Processes with an event pending are restarted, timeouts go off, and packets are
\* damaged independently: of those with a given number that are sent over and
\* over again, some are not.
FairSpec ==
  /\ Spec
  /\ WF_vars(Transmitter) /\ WF_vars(SendAck) /\ WF_vars(AckDone)
  /\ WF_vars(GetLate(0))
  /\ \A sn \in 0 .. WS : /\ SF_vars(NextAck /\ Head(link2).SN = sn)
                         /\ SF_vars(NewFrame /\ Head(link1).SN = sn)

-----------------------------------------------------------------------------
Frame == [SN : 0 .. WS, pkt : 0 .. MLimit]

TypeOK ==
  /\ arrived \in 0 .. MLimit /\ accepted \in 0 .. arrived
  /\ released \in Seq(1 .. MLimit) /\ received \in Seq(1 .. MLimit)
  /\ xstate \in {"WakeUp", "XDone"}
  /\ xwaits \subseteq {"now", "TRANSFER", "Timer", "SIGNAL", "ARRIVAL"}
  /\ xsignal \in BOOLEAN
  /\ NFrames \in 0 .. WS /\ Current \in 0 .. WS
  /\ OldAck \in 0 .. WS /\ LastAck \in 0 .. WS /\ Outgoing \in 0 .. WS
  /\ storage \in [Slots -> Frame] /\ late \in [Slots -> BOOLEAN] /\ start \in Slots
  /\ OF \in Frame /\ acked \in 0 .. MLimit
  /\ astate \in {"WaitSignal", "XDone"} /\ asignal \in BOOLEAN
  /\ LastReceived \in 0 .. WS /\ Expected \in 0 .. WS
  /\ ACK \in [SN : 0 .. WS, upto : 0 .. MLimit]
  /\ link1 \in Seq(Frame) /\ link2 \in Seq([SN : 0 .. WS, upto : 0 .. MLimit])

\* protocol.cc:90: when a new acknowledgement is processed, some frame of the
\* window has its number, so that the loop ends before the window is empty and
\* the assertion "illegal acknowledgement" never fails, whatever is lost.
AcksLegal == NewAck => covered # {}

\* protocol.cc:95: whatever was acknowledged and sent again meanwhile, the window
\* holds the packets taken but not released, in order.
WindowIsBacklog ==
  /\ Len(released) + NFrames = accepted
  /\ \A pos \in 0 .. NFrames - 1 : storage[slot(pos)].pkt = Len(released) + pos + 1

\* protocol.cc:281: a frame that reaches the Recipient with the expected number is
\* the one that is due, and not an earlier one that was sent again.
NoStaleFrame ==
  link1 # <<>> /\ Wanted(Head(link1)) => Head(link1).pkt = Len(received) + 1

Delivery ==
  INSTANCE SideDelivery WITH accepted <- accepted, received <- received, released <- released

\* The protocol delivers the packets in order, each one once, and releases what
\* was received.
Delivers == Delivery!Spec

\* Every packet taken is received, and every packet received is released, however
\* many transmissions and acknowledgements are damaged, as long as not all are.
DeliversAll == Delivery!FairSpec
=============================================================================
