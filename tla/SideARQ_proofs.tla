----------------------------- MODULE SideARQ_proofs -----------------------------
(***************************************************************************)
(* Proofs about the Go-Back-N protocol of Examples/ARQ, for windows of any     *)
(* size, links of any capacity and any number of messages: the safety part.    *)
(*                                                                         *)
(* IInv says by how much the numbers of packets can differ that are in the      *)
(* window, in flight and expected.  As they never differ by more than WS, their *)
(* serial numbers, which are taken modulo WS + 1, identify them.               *)
(***************************************************************************)
EXTENDS SideARQ, TLAPS

-----------------------------------------------------------------------------
(* The inductive invariant                                                  *)

UpTo(n) == [i \in 1 .. n |-> i]

Done  == Len(released)
Taken == Len(received)

FrameOK(f) ==
  /\ f.pkt \in 1 .. accepted
  /\ f.SN = (f.pkt - 1) % (WS + 1)
  /\ Taken < f.pkt + WS

AckOK(a) ==
  /\ a.upto \in acked .. Taken
  /\ a.SN = (a.upto + WS) % (WS + 1)

Counts ==
  /\ released = UpTo(Done) /\ received = UpTo(Taken)
  /\ Done + NFrames = accepted
  /\ acked \in Done .. Taken /\ Taken <= accepted

Numbers ==
  /\ Outgoing = accepted % (WS + 1)
  /\ Expected = Taken % (WS + 1)
  /\ LastReceived = (Taken + WS) % (WS + 1)
  /\ OldAck = (Done + WS) % (WS + 1)
  /\ LastAck = (acked + WS) % (WS + 1)

Window ==
  \A pos \in 0 .. NFrames - 1 :
    storage[slot(pos)] = [SN |-> (Done + pos) % (WS + 1), pkt |-> Done + pos + 1]

Frames ==
  /\ \A i \in 1 .. Len(link1) : FrameOK(link1[i])
  /\ \A i, j \in 1 .. Len(link1) : i < j => link1[i].pkt < link1[j].pkt + WS

Sending ==
  xstate = "XDone" =>
    /\ Current < NFrames /\ FrameOK(OF)
    /\ \A i \in 1 .. Len(link1) : link1[i].pkt < OF.pkt + WS

Acks ==
  /\ \A i \in 1 .. Len(link2) : AckOK(link2[i])
  /\ \A i, j \in 1 .. Len(link2) : i < j => link2[i].upto <= link2[j].upto

Replying ==
  astate = "XDone" =>
    /\ AckOK(ACK)
    /\ \A i \in 1 .. Len(link2) : link2[i].upto <= ACK.upto

IInv ==
  /\ TypeOK /\ Counts /\ Numbers /\ Window
  /\ Frames /\ Sending /\ Acks /\ Replying

-----------------------------------------------------------------------------
(* Arithmetic modulo m                                                      *)

LEMMA DivMod ==
  ASSUME NEW m \in Nat \ {0}, NEW a \in Nat
  PROVE  /\ a % m \in 0 .. m - 1
         /\ a \div m \in Nat
         /\ a = m * (a \div m) + (a % m)
  BY Z3

LEMMA Multiples ==
  ASSUME NEW m \in Nat \ {0}, NEW q \in Int, NEW p \in Int, q > p
  PROVE  m * q >= m * p + m
  BY SMT

LEMMA ModUnique ==
  ASSUME NEW m \in Nat \ {0}, NEW q \in Int, NEW r \in 0 .. m - 1, NEW a \in Nat,
         a = m * q + r
  PROVE  a % m = r
  BY SMT

\* Numbers less than m apart are told apart by their remainders: the reason for
\* the WS + 1 serial numbers of nextSN.
LEMMA ModInjective ==
  ASSUME NEW m \in Nat \ {0}, NEW a \in Nat, NEW b \in Nat,
         a % m = b % m, a < b + m, b < a + m
  PROVE  a = b
<1> DEFINE p == a \div m
           q == b \div m
           r == a % m
<1>1. p \in Nat /\ q \in Nat /\ r \in 0 .. m - 1
  BY DivMod
<1>2. a = m * p + r /\ b = m * q + r
  BY DivMod
<1>3. m * p \in Nat /\ m * q \in Nat
  BY <1>1, SMT
<1> HIDE DEF p, q, r
<1>4. ~ (p > q)
  <2>1. ASSUME p > q PROVE m * p >= m * q + m
    BY <2>1, <1>1, Multiples
  <2>2. QED  BY <2>1, <1>2, <1>3, <1>1
<1>5. ~ (q > p)
  <2>1. ASSUME q > p PROVE m * q >= m * p + m
    BY <2>1, <1>1, Multiples
  <2>2. QED  BY <2>1, <1>2, <1>3, <1>1
<1>6. p = q
  BY <1>1, <1>4, <1>5
<1>7. QED  BY <1>2, <1>6

\* A remainder may be advanced in place of the number.
LEMMA ModAdd ==
  ASSUME NEW m \in Nat \ {0}, NEW a \in Nat, NEW b \in Nat
  PROVE  ((a % m) + b) % m = (a + b) % m
<1> DEFINE p == a \div m
           r == a % m
           q == (r + b) \div m
           s == (r + b) % m
<1>1. p \in Nat /\ r \in 0 .. m - 1 /\ a = m * p + r
  BY DivMod
<1>2. r + b \in Nat
  BY <1>1
<1>3. q \in Nat /\ s \in 0 .. m - 1 /\ r + b = m * q + s
  BY <1>2, DivMod
<1> HIDE DEF p, q, r, s
<1>4. m * p \in Nat /\ m * q \in Nat /\ m * (p + q) = m * p + m * q
  BY <1>1, <1>3, SMT
<1>5. a + b = m * (p + q) + s
  BY <1>1, <1>3, <1>4
<1>6. p + q \in Int /\ a + b \in Nat
  BY <1>1, <1>3
<1>7. (a + b) % m = s
  BY <1>3, <1>5, <1>6, ModUnique
<1>8. QED  BY <1>7 DEF s, r

LEMMA ModSmall ==
  ASSUME NEW m \in Nat \ {0}, NEW a \in 0 .. m - 1
  PROVE  a % m = a
<1>1. a = m * 0 + a
  OBVIOUS
<1>2. QED  BY <1>1, ModUnique

LEMMA ModTurn ==
  ASSUME NEW m \in Nat \ {0}, NEW a \in Nat
  PROVE  (a + m) % m = a % m
<1>1. /\ a % m \in 0 .. m - 1 /\ a \div m \in Nat
      /\ a = m * (a \div m) + (a % m)
  BY DivMod
<1> DEFINE q == a \div m
           r == a % m
<1>2. q \in Nat /\ r \in 0 .. m - 1 /\ a = m * q + r
  BY <1>1
<1> HIDE DEF q, r
<1>3. a + m = m * (q + 1) + r
  BY <1>2, SMT
<1>4. (a + m) % m = r
  BY <1>2, <1>3, ModUnique
<1>5. QED  BY <1>4 DEF r

-----------------------------------------------------------------------------
(* Sequences and the window                                                 *)

LEMMA UpToLen ==
  ASSUME NEW n \in Nat
  PROVE  UpTo(n) \in Seq(1 .. n) /\ Len(UpTo(n)) = n
  BY DEF UpTo

LEMMA UpToAppend ==
  ASSUME NEW n \in Nat
  PROVE  Append(UpTo(n), n + 1) = UpTo(n + 1)
  BY DEF UpTo

LEMMA UpToConcat ==
  ASSUME NEW n \in Nat, NEW k \in Nat
  PROVE  UpTo(n) \o [i \in 1 .. k |-> n + i] = UpTo(n + k)
<1> DEFINE t == [i \in 1 .. k |-> n + i]
           u == UpTo(n) \o t
<1>1. UpTo(n) \in Seq(Nat) /\ Len(UpTo(n)) = n /\ t \in Seq(Nat) /\ Len(t) = k
  BY DEF UpTo
<1>2. u \in Seq(Nat) /\ Len(u) = n + k
  BY <1>1
<1>3. ASSUME NEW i \in 1 .. n + k PROVE u[i] = i
  BY <1>1 DEF UpTo
<1>4. u = [i \in 1 .. Len(u) |-> u[i]]
  BY <1>2
<1> HIDE DEF u
<1>5. u = [i \in 1 .. n + k |-> i]
  BY <1>2, <1>3, <1>4
<1>6. QED  BY <1>5 DEF u, UpTo

LEMMA UpToPrefix ==
  ASSUME NEW m \in Nat, NEW n \in 0 .. m
  PROVE  SubSeq(UpTo(m), 1, n) = UpTo(n)
  BY DEF UpTo

\* Positions of the window are different entries of the storage.
LEMMA SlotInjective ==
  ASSUME start \in Slots, NEW a \in 0 .. WS - 1, NEW b \in 0 .. WS - 1
  PROVE  /\ slot(a) \in Slots
         /\ slot(a) = slot(b) => a = b
<1>1. /\ start \in 0 .. WS - 1
      /\ start + a \in Nat /\ start + b \in Nat /\ WS \in Nat \ {0}
  BY ARQAssumption DEF Slots
<1>2. slot(a) \in Slots
  BY <1>1, DivMod DEF slot, Slots
<1>3. ASSUME slot(a) = slot(b) PROVE a = b
  <2>1. start + a < start + b + WS /\ start + b < start + a + WS
    BY <1>1
  <2>2. start + a = start + b
    BY <1>1, <1>3, <2>1, ModInjective DEF slot
  <2>3. QED  BY <2>2, <1>1
<1>4. QED  BY <1>2, <1>3

\* The window slides by k positions (SlidingWindow::slide).
LEMMA SlotSlide ==
  ASSUME start \in Slots, NEW k \in Nat, NEW pos \in Nat, start' = (start + k) % WS
  PROVE  slot(pos)' = slot(k + pos)
<1>1. WS \in Nat \ {0} /\ start + k \in Nat
  BY ARQAssumption DEF Slots
<1>2. slot(pos)' = (((start + k) % WS) + pos) % WS
  BY DEF slot
<1>3. (((start + k) % WS) + pos) % WS = ((start + k) + pos) % WS
  BY <1>1, ModAdd
<1>4. (start + k) + pos = start + (k + pos)
  BY DEF Slots
<1>5. QED  BY <1>2, <1>3, <1>4 DEF slot

\* nextSN keeps the remainder of a number that is counted up.
LEMMA NextNumber ==
  ASSUME NEW n \in Nat
  PROVE  next(n % (WS + 1)) = (n + 1) % (WS + 1)
  BY ARQAssumption, ModAdd DEF next

LEMMA NumberRange ==
  ASSUME NEW n \in Nat
  PROVE  n % (WS + 1) \in 0 .. WS
<1>1. WS + 1 \in Nat \ {0}
  BY ARQAssumption
<1>2. QED  BY <1>1, DivMod, ARQAssumption

-----------------------------------------------------------------------------
LEMMA InitInv == Init => IInv
<1> SUFFICES ASSUME Init PROVE IInv
  OBVIOUS
<1> USE ARQAssumption
<1>1. 0 % (WS + 1) = 0 /\ WS % (WS + 1) = WS
  BY ModSmall
<1>2. 0 \in Slots
  BY DEF Slots
<1>3. TypeOK
  BY <1>2 DEF Init, TypeOK, Frame, Mark
<1>4. Counts
  BY DEF Init, Counts, UpTo, Done, Taken
<1>5. Numbers
  BY <1>1 DEF Init, Numbers, Done, Taken, Mark
<1>6. Window /\ Frames /\ Sending /\ Acks /\ Replying
  BY DEF Init, Window, Frames, Sending, Acks, Replying
<1>7. QED  BY <1>3, <1>4, <1>5, <1>6 DEF IInv

-----------------------------------------------------------------------------
(* Steps that leave the numbers alone                                       *)

LEMMA SameInv ==
  ASSUME IInv, TypeOK',
         UNCHANGED <<accepted, released, received, NFrames, OldAck, LastAck, Outgoing,
                     storage, start, OF, acked, xstate, astate, LastReceived, Expected,
                     ACK, link1, link2>>,
         xstate = "XDone" => Current' = Current
  PROVE  IInv'
<1>1. Counts' /\ Numbers'
  BY DEF IInv, Counts, Numbers, Done, Taken
<1>2. Window'
  BY DEF IInv, Window, Done, slot
<1>3. Frames' /\ Sending'
  BY DEF IInv, Frames, Sending, FrameOK, Taken
<1>4. Acks' /\ Replying'
  BY DEF IInv, Acks, Replying, AckOK, Taken
<1>5. QED  BY <1>1, <1>2, <1>3, <1>4 DEF IInv

LEMMA ArriveInv ==
  ASSUME IInv, Arrive
  PROVE  IInv'
<1>1. TypeOK'
  BY ARQAssumption DEF IInv, TypeOK, Arrive, window, xm, monitor, acker
<1>2. QED  BY <1>1, SameInv DEF Arrive, window, xm, monitor, acker

LEMMA GetLateInv ==
  ASSUME IInv, NEW pos \in Slots, GetLate(pos)
  PROVE  IInv'
<1>1. TypeOK'
  BY DEF IInv, TypeOK, GetLate, client, xm, monitor, acker
<1>2. QED  BY <1>1, SameInv DEF GetLate, client, xm, monitor, acker

LEMMA PositionRange ==
  ASSUME TypeOK
  PROVE  position \in 0 .. WS
  BY ARQAssumption DEF TypeOK, position

LEMMA RestInv ==
  ASSUME IInv, Rest
  PROVE  IInv'
<1>1. TypeOK'
  BY PositionRange DEF IInv, TypeOK, Rest, events, client, acker
<1>2. xstate = "WakeUp"
  BY DEF Rest, Behind, Woken
<1>3. QED  BY <1>1, <1>2, SameInv DEF Rest, client, acker

-----------------------------------------------------------------------------
(* The Transmitter                                                         *)

LEMMA Positions ==
  ASSUME IInv, NEW pos \in 0 .. NFrames - 1
  PROVE  /\ slot(pos) \in Slots
         /\ storage[slot(pos)] \in Frame
         /\ storage[slot(pos)].pkt = Done + pos + 1
         /\ storage[slot(pos)].SN = (Done + pos) % (WS + 1)
<1>1. pos \in 0 .. WS - 1
  BY ARQAssumption DEF IInv, TypeOK
<1>2. slot(pos) \in Slots
  BY <1>1, SlotInjective DEF IInv, TypeOK
<1>3. storage[slot(pos)] \in Frame
  BY <1>2 DEF IInv, TypeOK
<1>4. storage[slot(pos)] = [SN |-> (Done + pos) % (WS + 1), pkt |-> Done + pos + 1]
  BY DEF IInv, Window
<1>5. QED  BY <1>2, <1>3, <1>4

LEMMA Sizes ==
  ASSUME IInv
  PROVE  /\ Done \in Nat /\ Taken \in Nat /\ acked \in Nat /\ accepted \in Nat
         /\ NFrames \in 0 .. WS /\ WS \in Nat \ {0}
         /\ Done <= acked /\ acked <= Taken /\ Taken <= accepted
         /\ accepted = Done + NFrames
         /\ accepted <= Done + WS /\ accepted <= Taken + WS
<1>1. Done \in Nat /\ Taken \in Nat
  BY DEF IInv, TypeOK, Done, Taken
<1>2. /\ acked \in Nat /\ accepted \in Nat /\ WS \in Nat \ {0}
      /\ NFrames \in 0 .. WS /\ Done <= acked /\ acked <= Taken /\ Taken <= accepted
      /\ accepted = Done + NFrames
  BY <1>1, ARQAssumption DEF IInv, TypeOK, Counts
<1>3. QED  BY <1>1, <1>2

\* A new acknowledgement covers the packets up to the one that it acknowledges:
\* its number is found in the window, and only there.
LEMMA Covered ==
  ASSUME IInv, NewAck
  PROVE  acked - Done \in 1 .. NFrames /\ covered = {acked - Done}
<1> DEFINE k0 == acked - Done
<1>1. acked # Done
  BY DEF IInv, Numbers, NewAck
<1>2. k0 \in 1 .. NFrames
  BY <1>1, Sizes
<1>3. ASSUME NEW k \in 1 .. NFrames
      PROVE  storage[slot(k - 1)].SN = LastAck <=> k = k0
  <2>1. k - 1 \in 0 .. NFrames - 1
    BY Sizes
  <2>2. storage[slot(k - 1)].SN = (Done + (k - 1)) % (WS + 1)
    BY <2>1, Positions
  <2>3. acked - 1 \in Nat /\ WS + 1 \in Nat \ {0} /\ acked + WS = (acked - 1) + (WS + 1)
    BY <1>2, Sizes
  <2>4. LastAck = (acked - 1) % (WS + 1)
    BY <2>3, ModTurn DEF IInv, Numbers
  <2>5. Done + (k - 1) \in Nat /\ Done + (k - 1) < (acked - 1) + (WS + 1)
           /\ acked - 1 < Done + (k - 1) + (WS + 1)
    BY <1>2, Sizes
  <2>6. (Done + (k - 1)) % (WS + 1) = (acked - 1) % (WS + 1) => Done + (k - 1) = acked - 1
    BY <2>3, <2>5, ModInjective
  <2>7. k = k0 <=> Done + (k - 1) = acked - 1
    BY Sizes
  <2> HIDE DEF k0
  <2>8. QED  BY <2>2, <2>4, <2>6, <2>7
<1> HIDE DEF k0
<1>4. covered = {k0}
  <2>1. \A k \in covered : k = k0
    BY <1>3 DEF covered
  <2>2. k0 \in covered
    <3>1. \A j \in 1 .. k0 - 1 : j \in 1 .. NFrames /\ j # k0
      BY <1>2, Sizes
    <3>2. QED  BY <3>1, <1>2, <1>3 DEF covered
  <2>3. QED  BY <2>1, <2>2
<1>5. QED  BY <1>2, <1>4 DEF k0

LEMMA AdvanceInv ==
  ASSUME IInv, Advance
  PROVE  IInv'
<1> DEFINE k == acked - Done
           tail == [i \in 1 .. k |-> storage[slot(i - 1)].pkt]
<1>1. k \in 1 .. NFrames /\ covered = {k}
  BY Covered DEF Advance
<1>2. /\ released' = released \o tail
      /\ OF' = storage[slot(k - 1)]
      /\ NFrames' = NFrames - k
      /\ start' = (start + k) % WS
      /\ Current' = current(k)
  BY <1>1 DEF Advance
<1>3. UNCHANGED <<arrived, accepted, storage, late, Outgoing, xstate, LastAck, acked,
                  astate, asignal, LastReceived, Expected, ACK, received, link1, link2>>
  BY DEF Advance, acker
<1>4. xstate = "WakeUp" /\ OldAck' = LastAck /\ xwaits' = {"now"} /\ xsignal' = FALSE
  BY DEF Advance, Woken
<1>5. tail = [i \in 1 .. k |-> Done + i]
  <2>1. \A i \in 1 .. k : storage[slot(i - 1)].pkt = Done + i
    <3>1. ASSUME NEW i \in 1 .. k PROVE storage[slot(i - 1)].pkt = Done + i
      <4>1. i - 1 \in 0 .. NFrames - 1 /\ Done + (i - 1) + 1 = Done + i
        BY <1>1, Sizes
      <4>2. QED  BY <4>1, Positions
    <3>2. QED  BY <3>1
  <2>2. QED  BY <2>1
<1>6. released' = UpTo(acked) /\ Done' = acked
  <2>1. released = UpTo(Done) /\ k \in Nat /\ Done + k = acked
    BY <1>1, Sizes DEF IInv, Counts
  <2> HIDE DEF k, tail
  <2>2. released' = UpTo(acked)
    BY <2>1, <1>2, <1>5, Sizes, UpToConcat
  <2>3. QED  BY <2>2, Sizes, UpToLen DEF Done
<1>7. WS \in Nat \ {0} /\ start \in Slots /\ k \in Nat
  BY <1>1, Sizes DEF IInv, TypeOK
<1> HIDE DEF k
<1>8. TypeOK'
  <2>1. start' \in Slots
    BY <1>2, <1>7, DivMod DEF Slots
  <2>2. OF' \in Frame
    <3>1. k - 1 \in 0 .. NFrames - 1
      BY <1>1, Sizes
    <3>2. QED  BY <3>1, <1>2, Positions
  <2>3. NFrames' \in 0 .. WS /\ Current' \in 0 .. WS
    BY <1>1, <1>2, <1>7, Sizes DEF current, IInv, TypeOK
  <2>4. released' \in Seq(1 .. MLimit)
    <3>1. acked \in 0 .. MLimit
      BY DEF IInv, TypeOK
    <3>2. QED  BY <3>1, <1>6, ARQAssumption DEF UpTo
  <2>5. QED  BY <1>3, <1>4, <2>1, <2>2, <2>3, <2>4 DEF IInv, TypeOK
<1>9. Counts'
  <2>1. Done' + NFrames' = accepted
    BY <1>1, <1>2, <1>6, Sizes DEF k
  <2>2. Taken' = Taken /\ received' = UpTo(Taken')
    BY <1>3 DEF Taken, IInv, Counts
  <2>3. QED  BY <1>3, <1>6, <2>1, <2>2, Sizes DEF Counts
<1>10. Numbers'
  BY <1>3, <1>4, <1>6 DEF IInv, Numbers, Taken
<1>11. Window'
  <2>1. ASSUME NEW pos \in 0 .. NFrames' - 1
        PROVE  storage'[slot(pos)'] = [SN |-> (Done' + pos) % (WS + 1), pkt |-> Done' + pos + 1]
    <3>1. slot(pos)' = slot(k + pos)
      BY <1>2, <1>7, SlotSlide
    <3>2. k + pos \in 0 .. NFrames - 1
      <4>1. NFrames \in Nat /\ k \in Nat /\ pos \in 0 .. (NFrames - k) - 1
        BY <1>2, <1>7, Sizes
      <4>2. QED  BY <4>1
    <3>3. storage[slot(k + pos)] = [SN |-> (Done + (k + pos)) % (WS + 1),
                                    pkt |-> Done + (k + pos) + 1]
      BY <3>2 DEF IInv, Window
    <3>4. Done + (k + pos) = Done' + pos
      BY <1>6, Sizes DEF k
    <3>5. QED  BY <1>3, <3>1, <3>3, <3>4
  <2>2. QED  BY <2>1 DEF Window
<1>12. Frames' /\ Sending'
  BY <1>3, <1>4 DEF IInv, Frames, Sending, FrameOK, Taken
<1>13. Acks' /\ Replying'
  BY <1>3 DEF IInv, Acks, Replying, AckOK, Taken
<1>14. QED  BY <1>8, <1>9, <1>10, <1>11, <1>12, <1>13 DEF IInv

\* A frame of the window may be put on the link: it is not more than WS behind
\* anything in flight, nor behind what is expected.
LEMMA WindowFrame ==
  ASSUME IInv, NEW f, f.pkt \in Done + 1 .. accepted, f.SN = (f.pkt - 1) % (WS + 1)
  PROVE  /\ FrameOK(f)
         /\ \A i \in 1 .. Len(link1) : link1[i].pkt < f.pkt + WS
<1>1. FrameOK(f)
  BY Sizes DEF FrameOK
<1>2. ASSUME NEW i \in 1 .. Len(link1) PROVE link1[i].pkt < f.pkt + WS
  <2>1. link1[i].pkt \in 1 .. accepted
    BY DEF IInv, Frames, FrameOK
  <2>2. accepted <= Done + WS /\ accepted \in Nat /\ Done \in Nat /\ WS \in Nat
    BY Sizes
  <2>3. \A a \in 1 .. accepted, b \in Done + 1 .. accepted : a < b + WS
    BY <2>2
  <2>4. QED  BY <2>1, <2>3
<1>3. QED  BY <1>1, <1>2

LEMMA RetransmitInv ==
  ASSUME IInv, Retransmit
  PROVE  IInv'
<1>1. /\ position \in 0 .. NFrames - 1
      /\ Current' = position /\ OF' = storage[slot(position)]
  BY PositionRange, Sizes DEF Retransmit, IInv
<1>2. /\ OF' \in Frame
      /\ OF'.pkt = Done + position + 1
      /\ OF'.SN = (Done + position) % (WS + 1)
  BY <1>1, Positions
<1>3. /\ UNCHANGED <<arrived, accepted, released, storage, late, start, NFrames, OldAck,
                    Outgoing, LastAck, acked, astate, asignal, LastReceived, Expected,
                    ACK, received, link1, link2>>
      /\ xstate' = "XDone" /\ xwaits' = {"TRANSFER"} /\ xsignal' = FALSE
  BY DEF Retransmit, client, acker
<1>4. TypeOK'
  <2>1. Current' \in 0 .. WS
    BY <1>1, Sizes
  <2>2. QED  BY <2>1, <1>2, <1>3 DEF IInv, TypeOK
<1>5. Counts' /\ Numbers'
  BY <1>3 DEF IInv, Counts, Numbers, Done, Taken
<1>6. Window'
  BY <1>3 DEF IInv, Window, Done, slot
<1>7. Frames'
  BY <1>3 DEF IInv, Frames, FrameOK, Taken
<1>8. Sending'
  <2>1. OF'.pkt \in Done + 1 .. accepted /\ OF'.SN = (OF'.pkt - 1) % (WS + 1)
    <3>1. (Done + position + 1) - 1 = Done + position
      BY <1>1, Sizes
    <3>2. Done + position + 1 \in Done + 1 .. accepted
      BY <1>1, Sizes
    <3>3. QED  BY <1>2, <3>1, <3>2
  <2>2. FrameOK(OF') /\ \A i \in 1 .. Len(link1) : link1[i].pkt < OF'.pkt + WS
    BY <2>1, WindowFrame
  <2>3. FrameOK(OF)'
    BY <1>3, <2>2 DEF FrameOK, Taken
  <2>4. Current' < NFrames'
    BY <1>1, <1>3, Sizes
  <2>5. QED  BY <1>3, <2>2, <2>3, <2>4 DEF Sending
<1>9. Acks' /\ Replying'
  BY <1>3 DEF IInv, Acks, Replying, AckOK, Taken
<1>10. QED  BY <1>4, <1>5, <1>6, <1>7, <1>8, <1>9 DEF IInv

LEMMA SendNewInv ==
  ASSUME IInv, SendNew
  PROVE  IInv'
<1> DEFINE frame == [SN |-> Outgoing, pkt |-> accepted + 1]
<1>1. /\ accepted' = accepted + 1 /\ OF' = frame
      /\ Outgoing' = next(Outgoing)
      /\ Current' = NFrames /\ NFrames' = NFrames + 1
      /\ storage' = [storage EXCEPT ![slot(NFrames)] = frame]
      /\ xstate' = "XDone" /\ xwaits' = {"TRANSFER"} /\ xsignal' = FALSE
  BY DEF SendNew
<1>2. UNCHANGED <<arrived, released, late, start, OldAck, LastAck, acked, astate, asignal,
                  LastReceived, Expected, ACK, received, link1, link2>>
  BY DEF SendNew, acker
<1>3. NFrames \in 0 .. WS - 1 /\ arrived > accepted
  BY Sizes DEF SendNew, Room
<1>4. Outgoing = accepted % (WS + 1) /\ Outgoing' = (accepted + 1) % (WS + 1)
  BY <1>1, Sizes, NextNumber DEF IInv, Numbers
<1>5. slot(NFrames) \in Slots
  BY <1>3, SlotInjective DEF IInv, TypeOK
<1>6. accepted + 1 \in 1 .. MLimit /\ Outgoing \in 0 .. WS /\ Outgoing' \in 0 .. WS
  <2>1. accepted + 1 \in 1 .. MLimit
    BY <1>3, Sizes, ARQAssumption DEF IInv, TypeOK
  <2>2. QED  BY <2>1, <1>4, Sizes, NumberRange
<1>7. frame \in Frame
  BY <1>6, ARQAssumption DEF Frame
<1> HIDE DEF frame
<1>8. TypeOK'
  <2>1. accepted' \in 0 .. arrived' /\ NFrames' \in 0 .. WS /\ Current' \in 0 .. WS
    <3>1. arrived \in Nat /\ accepted \in Nat /\ accepted + 1 <= arrived
      BY <1>3, Sizes, ARQAssumption DEF IInv, TypeOK
    <3>2. NFrames + 1 \in 0 .. WS /\ NFrames \in 0 .. WS
      BY <1>3, Sizes
    <3>3. QED  BY <3>1, <3>2, <1>1, <1>2
  <2>2. storage' \in [Slots -> Frame]
    BY <1>1, <1>5, <1>7 DEF IInv, TypeOK
  <2>3. QED  BY <1>1, <1>2, <1>6, <1>7, <2>1, <2>2 DEF IInv, TypeOK
<1>9. Counts'
  BY <1>1, <1>2, Sizes DEF IInv, Counts, Done, Taken
<1>10. Numbers'
  BY <1>1, <1>2, <1>4 DEF IInv, Numbers, Done, Taken
<1>11. Window'
  <2>1. ASSUME NEW pos \in 0 .. NFrames' - 1
        PROVE  storage'[slot(pos)'] = [SN |-> (Done' + pos) % (WS + 1), pkt |-> Done' + pos + 1]
    <3>1. slot(pos)' = slot(pos) /\ Done' = Done
      BY <1>2 DEF slot, Done
    <3>2. CASE pos = NFrames
      <4>1. storage'[slot(pos)] = frame
        BY <3>2, <1>1, <1>5 DEF IInv, TypeOK
      <4>2. Done + pos = accepted
        BY <3>2, Sizes
      <4>3. QED  BY <3>1, <4>1, <4>2, <1>4 DEF frame
    <3>3. CASE pos # NFrames
      <4>1. pos \in 0 .. NFrames - 1 /\ pos \in 0 .. WS - 1
        <5>1. NFrames' - 1 = NFrames /\ NFrames \in Nat /\ NFrames <= WS - 1 /\ WS \in Nat
          BY <1>1, <1>3, Sizes
        <5>2. pos \in 0 .. NFrames
          BY <5>1
        <5>3. QED  BY <3>3, <5>1, <5>2
      <4>2. slot(pos) # slot(NFrames) /\ slot(pos) \in Slots
        BY <4>1, <3>3, <1>3, SlotInjective DEF IInv, TypeOK
      <4>3. storage'[slot(pos)] = storage[slot(pos)]
        BY <4>2, <1>1 DEF IInv, TypeOK
      <4>4. QED  BY <3>1, <4>1, <4>3 DEF IInv, Window
    <3>4. QED  BY <3>2, <3>3
  <2>2. QED  BY <2>1 DEF Window
<1>12. \A f : FrameOK(f) => FrameOK(f)'
  BY <1>1, <1>2, Sizes DEF FrameOK, Taken
<1>13. Frames'
  BY <1>2, <1>12 DEF IInv, Frames
<1>14. Sending'
  <2>1. frame.pkt = accepted + 1 /\ frame.SN = accepted % (WS + 1)
    BY <1>4 DEF frame
  <2>2. FrameOK(OF)'
    <3>1. (accepted + 1) - 1 = accepted /\ accepted + 1 \in 1 .. accepted'
             /\ Taken < accepted + 1 + WS
      BY <1>1, Sizes
    <3>2. QED  BY <1>1, <1>2, <2>1, <3>1 DEF FrameOK, Taken
  <2>3. ASSUME NEW i \in 1 .. Len(link1) PROVE link1[i].pkt < frame.pkt + WS
    <3>1. link1[i].pkt \in 1 .. accepted
      BY DEF IInv, Frames, FrameOK
    <3>2. \A a \in 1 .. accepted : a < accepted + 1 + WS
      BY Sizes
    <3>3. QED  BY <3>1, <3>2, <2>1
  <2>4. Current' < NFrames'
    BY <1>1, Sizes
  <2>5. QED  BY <1>1, <1>2, <2>2, <2>3, <2>4 DEF Sending
<1>15. Acks' /\ Replying'
  BY <1>2 DEF IInv, Acks, Replying, AckOK, Taken
<1>16. QED  BY <1>8, <1>9, <1>10, <1>11, <1>13, <1>14, <1>15 DEF IInv

LEMMA XDoneInv ==
  ASSUME IInv, XDone
  PROVE  IInv'
<1>1. /\ xstate = "XDone" /\ link1' = Append(link1, OF)
      /\ late' = [late EXCEPT ![slot(Current)] = FALSE]
      /\ Current' = Current + 1
      /\ xstate' = "WakeUp" /\ xwaits' = {"now"}
  BY DEF XDone
<1>2. UNCHANGED <<arrived, accepted, released, storage, start, NFrames, OldAck, Outgoing,
                  OF, xsignal, LastAck, acked, astate, asignal, LastReceived, Expected,
                  ACK, received, link2>>
  BY DEF XDone, client, monitor, acker
<1>3. Current < NFrames /\ FrameOK(OF) /\ OF \in Frame /\ link1 \in Seq(Frame)
  BY <1>1 DEF IInv, Sending, TypeOK
<1>4. /\ Len(link1') = Len(link1) + 1 /\ link1' \in Seq(Frame) /\ Len(link1) \in Nat
      /\ \A i \in 1 .. Len(link1) : link1'[i] = link1[i]
      /\ link1'[Len(link1) + 1] = OF
  BY <1>1, <1>3
<1>5. TypeOK'
  <2>1. Current' \in 0 .. WS
    <3>1. Current \in 0 .. WS
      BY DEF IInv, TypeOK
    <3>2. Current + 1 \in 0 .. WS
      BY <3>1, <1>3, Sizes
    <3>3. QED  BY <3>2, <1>1
  <2>2. late' \in [Slots -> BOOLEAN]
    BY <1>1 DEF IInv, TypeOK
  <2>3. QED  BY <1>1, <1>2, <1>4, <2>1, <2>2 DEF IInv, TypeOK
<1>6. Counts' /\ Numbers'
  BY <1>2 DEF IInv, Counts, Numbers, Done, Taken
<1>7. Window'
  BY <1>2 DEF IInv, Window, Done, slot
<1>8. Frames'
  <2>1. \A f : FrameOK(f) => FrameOK(f)'
    BY <1>2 DEF FrameOK, Taken
  <2>2. ASSUME NEW i \in 1 .. Len(link1') PROVE FrameOK(link1'[i])
    <3>1. i \in 1 .. Len(link1) \/ i = Len(link1) + 1
      BY <1>4
    <3>2. QED  BY <3>1, <1>3, <1>4 DEF IInv, Frames
  <2>3. ASSUME NEW i \in 1 .. Len(link1'), NEW j \in 1 .. Len(link1'), i < j
        PROVE  link1'[i].pkt < link1'[j].pkt + WS
    <3>1. i \in 1 .. Len(link1) /\ (j \in 1 .. Len(link1) \/ j = Len(link1) + 1)
      BY <2>3, <1>4
    <3>2. CASE j = Len(link1) + 1
      BY <3>1, <3>2, <1>1, <1>4 DEF IInv, Sending
    <3>3. CASE j \in 1 .. Len(link1)
      BY <2>3, <3>1, <3>3, <1>4 DEF IInv, Frames
    <3>4. QED  BY <3>1, <3>2, <3>3
  <2>4. \A i \in 1 .. Len(link1') : FrameOK(link1[i])'
    BY <2>1, <2>2
  <2>5. QED  BY <2>3, <2>4 DEF Frames
<1>9. Sending'
  BY <1>1 DEF Sending
<1>10. Acks' /\ Replying'
  BY <1>2 DEF IInv, Acks, Replying, AckOK, Taken
<1>11. QED  BY <1>5, <1>6, <1>7, <1>8, <1>9, <1>10 DEF IInv

-----------------------------------------------------------------------------
(* The Recipient and the links                                              *)

LEMMA TailFacts ==
  ASSUME NEW S, NEW q \in Seq(S), q # <<>>
  PROVE  /\ Len(q) \in Nat \ {0} /\ Head(q) = q[1] /\ Head(q) \in S
         /\ Tail(q) \in Seq(S) /\ Len(Tail(q)) = Len(q) - 1
         /\ \A i \in 1 .. Len(Tail(q)) : i + 1 \in 1 .. Len(q) /\ Tail(q)[i] = q[i + 1]
  OBVIOUS

\* The frames behind the first one stay in order, whether it is received or not.
LEMMA TailFrames ==
  ASSUME IInv, link1 # <<>>, link1' = Tail(link1), accepted' = accepted,
         Taken' = Taken \/ (Taken' = Taken + 1 /\ Head(link1).pkt = Taken + 1)
  PROVE  link1' \in Seq(Frame) /\ Frames'
<1>1. link1 \in Seq(Frame)
  BY DEF IInv, TypeOK
<1>2. /\ Len(link1) \in Nat \ {0} /\ Head(link1) = link1[1]
      /\ link1' \in Seq(Frame) /\ Len(link1') = Len(link1) - 1
      /\ \A i \in 1 .. Len(link1') : i + 1 \in 1 .. Len(link1) /\ link1'[i] = link1[i + 1]
  BY <1>1, TailFacts
<1>3. \A i, j \in 1 .. Len(link1') : i < j => link1'[i].pkt < link1'[j].pkt + WS
  <2>1. ASSUME NEW i \in 1 .. Len(link1'), NEW j \in 1 .. Len(link1'), i < j
        PROVE  link1'[i].pkt < link1'[j].pkt + WS
    <3>1. i + 1 < j + 1
      BY <2>1
    <3>2. QED  BY <3>1, <1>2 DEF IInv, Frames
  <2>2. QED  BY <2>1
<1>4. \A i \in 1 .. Len(link1') : FrameOK(link1[i])'
  <2>1. ASSUME NEW i \in 1 .. Len(link1') PROVE FrameOK(link1[i])'
    <3>1. i + 1 \in 1 .. Len(link1) /\ link1'[i] = link1[i + 1] /\ 1 \in 1 .. Len(link1)
      BY <1>2
    <3>2. FrameOK(link1[i + 1]) /\ link1[1].pkt < link1[i + 1].pkt + WS
      BY <3>1, <1>2 DEF IInv, Frames
    <3>3. Taken' < link1[i + 1].pkt + WS
      BY <3>2, <1>2 DEF FrameOK
    <3>4. QED  BY <3>1, <3>2, <3>3 DEF FrameOK
  <2>2. QED  BY <2>1
<1>5. QED  BY <1>2, <1>3, <1>4 DEF Frames

\* A frame that reaches the Recipient with the expected number is the one due.
LEMMA HeadDue ==
  ASSUME IInv, link1 # <<>>, Head(link1).SN = Expected
  PROVE  Head(link1).pkt = Taken + 1 /\ Taken + 1 <= accepted
<1>1. link1 \in Seq(Frame)
  BY DEF IInv, TypeOK
<1>2. Head(link1) = link1[1] /\ 1 \in 1 .. Len(link1)
  BY <1>1, TailFacts
<1>3. FrameOK(link1[1])
  BY <1>2 DEF IInv, Frames
<1> DEFINE n == link1[1].pkt
<1>4. /\ n \in 1 .. accepted /\ Taken < n + WS
      /\ (n - 1) % (WS + 1) = Taken % (WS + 1)
  BY <1>2, <1>3 DEF FrameOK, IInv, Numbers
<1> HIDE DEF n
<1>5. n - 1 \in Nat /\ n - 1 < Taken + (WS + 1) /\ Taken < (n - 1) + (WS + 1)
  <2>1. /\ n <= accepted /\ n \in Nat \ {0} /\ Taken \in Nat /\ WS \in Nat
        /\ accepted \in Nat /\ accepted <= Taken + WS
    BY <1>4, Sizes
  <2>2. QED  BY <2>1, <1>4
<1>6. n - 1 = Taken
  <2>1. WS + 1 \in Nat \ {0} /\ Taken \in Nat
    BY Sizes
  <2>2. QED  BY <1>4, <1>5, <2>1, ModInjective
<1>7. n = Taken + 1 /\ Taken + 1 <= accepted
  BY <1>4, <1>6, Sizes
<1>8. QED  BY <1>2, <1>7 DEF n

LEMMA NewFrameInv ==
  ASSUME IInv, NewFrame
  PROVE  IInv'
<1>1. link1 # <<>> /\ link1' = Tail(link1)
  BY DEF NewFrame
<1>2. UNCHANGED <<arrived, accepted, released, storage, late, start, NFrames, Current,
                  OldAck, Outgoing, OF, xstate, xwaits, xsignal, LastAck, acked,
                  astate, ACK, link2>>
  BY DEF NewFrame, client, window, xm, monitor
<1>3. CASE Head(link1).SN # Expected
  <2>1. UNCHANGED <<received, LastReceived, Expected, asignal>>
    BY <1>3 DEF NewFrame, Wanted
  <2>2. link1' \in Seq(Frame) /\ Frames'
    BY <1>1, <1>2, <2>1, TailFrames DEF Taken
  <2>3. TypeOK' /\ Counts' /\ Numbers'
    BY <1>2, <2>1, <2>2 DEF IInv, TypeOK, Counts, Numbers, Done, Taken
  <2>4. Window'
    BY <1>2 DEF IInv, Window, Done, slot
  <2>5. Sending'
    <3>1. link1 \in Seq(Frame)
      BY DEF IInv, TypeOK
    <3>2. \A i \in 1 .. Len(link1') : i + 1 \in 1 .. Len(link1) /\ link1'[i] = link1[i + 1]
      BY <1>1, <3>1, TailFacts
    <3>3. QED  BY <1>2, <2>1, <3>2 DEF IInv, Sending, FrameOK, Taken
  <2>6. Acks' /\ Replying'
    BY <1>2, <2>1 DEF IInv, Acks, Replying, AckOK, Taken
  <2>7. QED  BY <2>2, <2>3, <2>4, <2>5, <2>6 DEF IInv
<1>4. CASE Head(link1).SN = Expected
  <2>1. /\ received' = Append(received, Head(link1).pkt)
        /\ LastReceived' = Expected /\ Expected' = next(Expected) /\ asignal' = TRUE
    BY <1>4 DEF NewFrame, Wanted
  <2>2. Head(link1).pkt = Taken + 1 /\ Taken + 1 <= accepted
    BY <1>1, <1>4, HeadDue
  <2>3. received' = UpTo(Taken + 1) /\ Taken' = Taken + 1
    <3>1. received = UpTo(Taken) /\ received' = Append(received, Taken + 1) /\ Taken \in Nat
      BY <2>1, <2>2, Sizes DEF IInv, Counts
    <3>2. received' = UpTo(Taken + 1)
      BY <3>1, UpToAppend
    <3>3. Taken + 1 \in Nat /\ Taken' = Len(received')
      BY <3>1 DEF Taken
    <3>4. QED  BY <3>2, <3>3, UpToLen
  <2>4. Expected = Taken % (WS + 1) /\ Expected' = (Taken + 1) % (WS + 1)
    BY <2>1, Sizes, NextNumber DEF IInv, Numbers
  <2>5. LastReceived' = ((Taken + 1) + WS) % (WS + 1)
    <3>1. (Taken + 1) + WS = Taken + (WS + 1) /\ WS + 1 \in Nat \ {0} /\ Taken \in Nat
      BY Sizes
    <3>2. QED  BY <2>1, <2>4, <3>1, ModTurn
  <2>6. link1' \in Seq(Frame) /\ Frames'
    BY <1>1, <1>2, <2>2, <2>3, TailFrames
  <2>7. TypeOK'
    <3>1. Expected' \in 0 .. WS /\ LastReceived' \in 0 .. WS
      <4>1. Taken + 1 \in Nat
        BY Sizes
      <4>2. (Taken + 1) % (WS + 1) \in 0 .. WS
        BY <4>1, NumberRange
      <4>3. QED  BY <2>1, <2>4, <4>2 DEF IInv, TypeOK
    <3>2. received' \in Seq(1 .. MLimit)
      <4>1. Taken + 1 \in 0 .. MLimit
        <5>1. accepted <= MLimit /\ accepted \in Nat /\ MLimit \in Nat /\ Taken \in Nat
          BY ARQAssumption, Sizes DEF IInv, TypeOK
        <5>2. QED  BY <5>1, <2>2
      <4>2. QED  BY <4>1, <2>3, ARQAssumption DEF UpTo
    <3>3. QED  BY <1>2, <2>1, <2>6, <3>1, <3>2 DEF IInv, TypeOK
  <2>8. Counts'
    <3>1. acked \in Done .. Taken + 1
      BY Sizes
    <3>2. QED  BY <1>2, <2>2, <2>3, <3>1 DEF IInv, Counts, Done
  <2>9. Numbers'
    BY <1>2, <2>3, <2>4, <2>5 DEF IInv, Numbers, Done
  <2>10. Window'
    BY <1>2 DEF IInv, Window, Done, slot
  <2>11. Sending'
    <3>1. SUFFICES ASSUME xstate = "XDone" PROVE Sending'
      BY <1>2 DEF Sending
    <3>2. link1 \in Seq(Frame)
      BY DEF IInv, TypeOK
    <3>3. /\ Head(link1) = link1[1] /\ 1 \in 1 .. Len(link1)
          /\ \A i \in 1 .. Len(link1') : i + 1 \in 1 .. Len(link1) /\ link1'[i] = link1[i + 1]
      BY <1>1, <3>2, TailFacts
    <3>4. /\ Current < NFrames /\ FrameOK(OF) /\ link1[1].pkt < OF.pkt + WS
          /\ \A i \in 1 .. Len(link1') : link1'[i].pkt < OF.pkt + WS
      BY <3>1, <3>3 DEF IInv, Sending
    <3>5. FrameOK(OF)'
      BY <1>2, <2>2, <2>3, <3>3, <3>4 DEF FrameOK
    <3>6. QED  BY <1>2, <3>4, <3>5 DEF Sending
  <2>12. Acks' /\ Replying'
    <3>1. \A a : AckOK(a) => AckOK(a)'
      <4>1. \A n \in acked .. Taken : n \in acked .. Taken + 1
        BY Sizes
      <4>2. QED  BY <1>2, <2>3, <4>1 DEF AckOK
    <3>2. QED  BY <1>2, <3>1 DEF IInv, Acks, Replying
  <2>13. QED  BY <2>6, <2>7, <2>8, <2>9, <2>10, <2>11, <2>12 DEF IInv
<1>5. QED  BY <1>3, <1>4

LEMMA Damage1Inv ==
  ASSUME IInv, Damage1
  PROVE  IInv'
<1>1. link1 # <<>> /\ link1' = Tail(link1)
  BY DEF Damage1
<1>2. UNCHANGED <<arrived, accepted, released, storage, late, start, NFrames, Current,
                  OldAck, Outgoing, OF, xstate, xwaits, xsignal, LastAck, acked,
                  astate, asignal, LastReceived, Expected, ACK, received, link2>>
  BY DEF Damage1, client, window, xm, monitor, acker
<1>3. link1' \in Seq(Frame) /\ Frames'
  BY <1>1, <1>2, TailFrames DEF Taken
<1>4. TypeOK' /\ Counts' /\ Numbers'
  BY <1>2, <1>3 DEF IInv, TypeOK, Counts, Numbers, Done, Taken
<1>5. Window'
  BY <1>2 DEF IInv, Window, Done, slot
<1>6. Sending'
  <2>1. link1 \in Seq(Frame)
    BY DEF IInv, TypeOK
  <2>2. \A i \in 1 .. Len(link1') : i + 1 \in 1 .. Len(link1) /\ link1'[i] = link1[i + 1]
    BY <1>1, <2>1, TailFacts
  <2>3. QED  BY <1>2, <2>2 DEF IInv, Sending, FrameOK, Taken
<1>7. Acks' /\ Replying'
  BY <1>2 DEF IInv, Acks, Replying, AckOK, Taken
<1>8. QED  BY <1>3, <1>4, <1>5, <1>6, <1>7 DEF IInv

\* The acknowledgements behind the first one stay in order, and what they cover
\* is not behind what the first one covers.
LEMMA TailAcks ==
  ASSUME IInv, link2 # <<>>, link2' = Tail(link2), Taken' = Taken,
         acked' = acked \/ acked' = Head(link2).upto,
         astate' = astate, ACK' = ACK
  PROVE  /\ link2' \in Seq([SN : 0 .. WS, upto : 0 .. MLimit])
         /\ AckOK(Head(link2)) /\ Head(link2) \in [SN : 0 .. WS, upto : 0 .. MLimit]
         /\ Acks' /\ Replying'
<1> DEFINE Ack == [SN : 0 .. WS, upto : 0 .. MLimit]
<1>1. link2 \in Seq(Ack)
  BY DEF IInv, TypeOK
<1> HIDE DEF Ack
<1>2. /\ Len(link2) \in Nat \ {0} /\ Head(link2) = link2[1] /\ Head(link2) \in Ack
      /\ link2' \in Seq(Ack) /\ Len(link2') = Len(link2) - 1
      /\ \A i \in 1 .. Len(link2') : i + 1 \in 1 .. Len(link2) /\ link2'[i] = link2[i + 1]
  BY <1>1, TailFacts
<1>3. 1 \in 1 .. Len(link2) /\ AckOK(link2[1]) /\ link2[1].upto \in acked .. Taken
  BY <1>2 DEF IInv, Acks, AckOK
<1>4. acked \in Nat /\ Taken \in Nat /\ link2[1].upto \in Nat
      /\ acked' \in Nat /\ acked' <= link2[1].upto
  <2>1. acked \in Nat /\ Taken \in Nat /\ acked <= Taken
    BY Sizes
  <2>2. link2[1].upto \in Nat /\ acked <= link2[1].upto
    BY <1>3, <2>1
  <2>3. QED  BY <1>2, <2>1, <2>2
<1>5. \A a : AckOK(a) /\ link2[1].upto <= a.upto =>
               a.upto \in acked' .. Taken' /\ a.SN = (a.upto + WS) % (WS + 1)
  <2>1. \A n \in acked .. Taken : link2[1].upto <= n => n \in acked' .. Taken'
    BY <1>4
  <2>2. QED  BY <2>1 DEF AckOK
<1>6. Acks'
  <2>1. ASSUME NEW i \in 1 .. Len(link2') PROVE AckOK(link2[i])'
    <3>1. /\ i + 1 \in 1 .. Len(link2) /\ link2'[i] = link2[i + 1] /\ 1 < i + 1
      BY <1>2
    <3>2. AckOK(link2[i + 1]) /\ link2[1].upto <= link2[i + 1].upto
      BY <3>1, <1>3 DEF IInv, Acks
    <3>3. QED  BY <3>1, <3>2, <1>5 DEF AckOK
  <2>2. ASSUME NEW i \in 1 .. Len(link2'), NEW j \in 1 .. Len(link2'), i < j
        PROVE  link2'[i].upto <= link2'[j].upto
    <3>1. i + 1 < j + 1
      BY <2>2
    <3>2. QED  BY <3>1, <1>2 DEF IInv, Acks
  <2>3. QED  BY <2>1, <2>2 DEF Acks
<1>7. Replying'
  <2>1. SUFFICES ASSUME astate = "XDone" PROVE Replying'
    BY DEF Replying
  <2>2. AckOK(ACK) /\ link2[1].upto <= ACK.upto
    BY <2>1, <1>3 DEF IInv, Replying
  <2>3. AckOK(ACK)'
    BY <2>2, <1>5 DEF AckOK
  <2>4. \A i \in 1 .. Len(link2') : link2'[i].upto <= ACK.upto
    BY <1>2, <2>1 DEF IInv, Replying
  <2>5. QED  BY <2>3, <2>4 DEF Replying
<1>8. QED  BY <1>2, <1>3, <1>6, <1>7 DEF Ack

LEMMA NextAckInv ==
  ASSUME IInv, NextAck
  PROVE  IInv'
<1>1. link2 # <<>> /\ link2' = Tail(link2)
  BY DEF NextAck
<1>2. UNCHANGED <<arrived, accepted, released, storage, late, start, NFrames, Current,
                  OldAck, Outgoing, OF, xstate, xwaits, astate, asignal, LastReceived,
                  Expected, ACK, received, link1>>
  BY DEF NextAck, client, window, xm, acker
<1>3. \/ LastAck' = LastAck /\ acked' = acked /\ xsignal' = xsignal
      \/ LastAck' = Head(link2).SN /\ acked' = Head(link2).upto /\ xsignal' = TRUE
  BY DEF NextAck, monitor
<1>4. /\ link2' \in Seq([SN : 0 .. WS, upto : 0 .. MLimit])
      /\ AckOK(Head(link2)) /\ Head(link2) \in [SN : 0 .. WS, upto : 0 .. MLimit]
      /\ Acks' /\ Replying'
  BY <1>1, <1>2, <1>3, TailAcks DEF Taken
<1>5. LastAck' \in 0 .. WS /\ acked' \in 0 .. MLimit /\ xsignal' \in BOOLEAN
  BY <1>3, <1>4 DEF IInv, TypeOK
<1>6. TypeOK'
  BY <1>2, <1>4, <1>5 DEF IInv, TypeOK
<1>7. acked' \in Done .. Taken /\ LastAck' = (acked' + WS) % (WS + 1)
  <2>1. CASE LastAck' = LastAck /\ acked' = acked
    BY <2>1 DEF IInv, Counts, Numbers
  <2>2. CASE LastAck' = Head(link2).SN /\ acked' = Head(link2).upto
    <3>1. \A n \in acked .. Taken : n \in Done .. Taken
      BY Sizes
    <3>2. QED  BY <2>2, <3>1, <1>4 DEF AckOK
  <2>3. QED  BY <1>3, <2>1, <2>2
<1>8. Counts' /\ Numbers'
  BY <1>2, <1>7 DEF IInv, Counts, Numbers, Done, Taken
<1>9. Window'
  BY <1>2 DEF IInv, Window, Done, slot
<1>10. Frames' /\ Sending'
  BY <1>2 DEF IInv, Frames, Sending, FrameOK, Taken
<1>11. QED  BY <1>4, <1>6, <1>8, <1>9, <1>10 DEF IInv

LEMMA Damage2Inv ==
  ASSUME IInv, Damage2
  PROVE  IInv'
<1>1. link2 # <<>> /\ link2' = Tail(link2)
  BY DEF Damage2
<1>2. UNCHANGED <<arrived, accepted, released, storage, late, start, NFrames, Current,
                  OldAck, Outgoing, OF, xstate, xwaits, xsignal, LastAck, acked,
                  astate, asignal, LastReceived, Expected, ACK, received, link1>>
  BY DEF Damage2, client, window, xm, monitor, acker
<1>3. link2' \in Seq([SN : 0 .. WS, upto : 0 .. MLimit]) /\ Acks' /\ Replying'
  BY <1>1, <1>2, TailAcks DEF Taken
<1>4. TypeOK' /\ Counts' /\ Numbers'
  BY <1>2, <1>3 DEF IInv, TypeOK, Counts, Numbers, Done, Taken
<1>5. Window'
  BY <1>2 DEF IInv, Window, Done, slot
<1>6. Frames' /\ Sending'
  BY <1>2 DEF IInv, Frames, Sending, FrameOK, Taken
<1>7. QED  BY <1>3, <1>4, <1>5, <1>6 DEF IInv

LEMMA SendAckInv ==
  ASSUME IInv, SendAck
  PROVE  IInv'
<1>1. ACK' = [SN |-> LastReceived, upto |-> Taken] /\ asignal' = FALSE /\ astate' = "XDone"
  BY DEF SendAck, Taken
<1>2. UNCHANGED <<arrived, accepted, released, storage, late, start, NFrames, Current,
                  OldAck, Outgoing, OF, xstate, xwaits, xsignal, LastAck, acked,
                  LastReceived, Expected, received, link1, link2>>
  BY DEF SendAck, client, window, xm, monitor
<1>3. TypeOK'
  <2>1. Taken \in 0 .. MLimit
    <3>1. accepted <= MLimit /\ accepted \in Nat /\ MLimit \in Nat
      BY ARQAssumption, Sizes DEF IInv, TypeOK
    <3>2. QED  BY <3>1, Sizes
  <2>2. QED  BY <1>1, <1>2, <2>1 DEF IInv, TypeOK
<1>4. Counts' /\ Numbers'
  BY <1>2 DEF IInv, Counts, Numbers, Done, Taken
<1>5. Window'
  BY <1>2 DEF IInv, Window, Done, slot
<1>6. Frames' /\ Sending'
  BY <1>2 DEF IInv, Frames, Sending, FrameOK, Taken
<1>7. Acks'
  BY <1>2 DEF IInv, Acks, AckOK, Taken
<1>8. Replying'
  <2>1. AckOK(ACK)'
    <3>1. Taken \in acked .. Taken
      BY Sizes
    <3>2. QED  BY <1>1, <1>2, <3>1 DEF IInv, Numbers, AckOK, Taken
  <2>2. ASSUME NEW i \in 1 .. Len(link2) PROVE link2[i].upto <= Taken
    <3>1. link2[i].upto \in acked .. Taken
      BY DEF IInv, Acks, AckOK
    <3>2. QED  BY <3>1, Sizes
  <2>3. QED  BY <1>1, <1>2, <2>1, <2>2 DEF Replying
<1>9. QED  BY <1>3, <1>4, <1>5, <1>6, <1>7, <1>8 DEF IInv

LEMMA AckDoneInv ==
  ASSUME IInv, AckDone
  PROVE  IInv'
<1>1. astate = "XDone" /\ link2' = Append(link2, ACK) /\ astate' = "WaitSignal"
  BY DEF AckDone
<1>2. UNCHANGED <<arrived, accepted, released, storage, late, start, NFrames, Current,
                  OldAck, Outgoing, OF, xstate, xwaits, xsignal, LastAck, acked,
                  asignal, LastReceived, Expected, ACK, received, link1>>
  BY DEF AckDone, client, window, xm, monitor
<1> DEFINE Ack == [SN : 0 .. WS, upto : 0 .. MLimit]
<1>3. link2 \in Seq(Ack) /\ ACK \in Ack
  BY DEF IInv, TypeOK
<1> HIDE DEF Ack
<1>4. /\ Len(link2') = Len(link2) + 1 /\ link2' \in Seq(Ack) /\ Len(link2) \in Nat
      /\ \A i \in 1 .. Len(link2) : link2'[i] = link2[i]
      /\ link2'[Len(link2) + 1] = ACK
  BY <1>1, <1>3
<1>5. TypeOK'
  BY <1>1, <1>2, <1>4 DEF IInv, TypeOK, Ack
<1>6. Counts' /\ Numbers'
  BY <1>2 DEF IInv, Counts, Numbers, Done, Taken
<1>7. Window'
  BY <1>2 DEF IInv, Window, Done, slot
<1>8. Frames' /\ Sending'
  BY <1>2 DEF IInv, Frames, Sending, FrameOK, Taken
<1>9. Acks'
  <2>1. ASSUME NEW i \in 1 .. Len(link2') PROVE AckOK(link2[i])'
    <3>1. i \in 1 .. Len(link2) \/ i = Len(link2) + 1
      BY <1>4
    <3>2. AckOK(link2'[i])
      BY <3>1, <1>1, <1>4 DEF IInv, Acks, Replying
    <3>3. QED  BY <3>2, <1>2 DEF AckOK, Taken
  <2>2. ASSUME NEW i \in 1 .. Len(link2'), NEW j \in 1 .. Len(link2'), i < j
        PROVE  link2'[i].upto <= link2'[j].upto
    <3>1. i \in 1 .. Len(link2) /\ (j \in 1 .. Len(link2) \/ j = Len(link2) + 1)
      BY <2>2, <1>4
    <3>2. CASE j = Len(link2) + 1
      BY <3>1, <3>2, <1>1, <1>4 DEF IInv, Replying
    <3>3. CASE j \in 1 .. Len(link2)
      BY <2>2, <3>1, <3>3, <1>4 DEF IInv, Acks
    <3>4. QED  BY <3>1, <3>2, <3>3
  <2>3. QED  BY <2>1, <2>2 DEF Acks
<1>10. Replying'
  BY <1>1 DEF Replying
<1>11. QED  BY <1>5, <1>6, <1>7, <1>8, <1>9, <1>10 DEF IInv

-----------------------------------------------------------------------------
LEMMA NextInv == IInv /\ [Next]_vars => IInv'
<1> SUFFICES ASSUME IInv, [Next]_vars PROVE IInv'
  OBVIOUS
<1>1. CASE Arrive
  BY <1>1, ArriveInv
<1>2. CASE \E pos \in Slots : GetLate(pos)
  BY <1>2, GetLateInv
<1>3. CASE Advance
  BY <1>3, AdvanceInv
<1>4. CASE Retransmit
  BY <1>4, RetransmitInv
<1>5. CASE SendNew
  BY <1>5, SendNewInv
<1>6. CASE Rest
  BY <1>6, RestInv
<1>7. CASE XDone
  BY <1>7, XDoneInv
<1>8. CASE NextAck
  BY <1>8, NextAckInv
<1>9. CASE NewFrame
  BY <1>9, NewFrameInv
<1>10. CASE SendAck
  BY <1>10, SendAckInv
<1>11. CASE AckDone
  BY <1>11, AckDoneInv
<1>12. CASE Damage1
  BY <1>12, Damage1Inv
<1>13. CASE Damage2
  BY <1>13, Damage2Inv
<1>14. CASE UNCHANGED vars
  <2>1. TypeOK'
    BY <1>14 DEF vars, client, window, xm, monitor, acker, IInv, TypeOK
  <2>2. QED  BY <1>14, <2>1, SameInv DEF vars, client, window, xm, monitor, acker
<1>15. QED
  BY <1>1, <1>2, <1>3, <1>4, <1>5, <1>6, <1>7, <1>8, <1>9, <1>10, <1>11, <1>12, <1>13,
     <1>14 DEF Next

LEMMA Invariance == Spec => []IInv
  BY InitInv, NextInv, PTL DEF Spec

\* Every variable keeps its type; in particular the window never holds more than
\* WS frames, and Current never leaves it.
THEOREM ARQTypeCorrect == Spec => []TypeOK
<1>1. IInv => TypeOK
  BY DEF IInv
<1>2. QED  BY <1>1, Invariance, PTL

\* The assertion "illegal acknowledgement" never fails (protocol.cc:90), with
\* windows of any size and links of any capacity.
THEOREM ARQAcksLegal == Spec => []AcksLegal
<1>1. IInv => AcksLegal
  BY Covered DEF AcksLegal
<1>2. QED  BY <1>1, Invariance, PTL

\* The window holds the packets taken but not released, in order.
THEOREM ARQWindowIsBacklog == Spec => []WindowIsBacklog
<1>1. IInv => WindowIsBacklog
  BY Positions DEF WindowIsBacklog, IInv, Counts, Done
<1>2. QED  BY <1>1, Invariance, PTL

\* A frame with the expected number is never one that was received before.
THEOREM ARQNoStaleFrame == Spec => []NoStaleFrame
<1>1. IInv => NoStaleFrame
  BY HeadDue DEF NoStaleFrame, Wanted, Taken
<1>2. QED  BY <1>1, Invariance, PTL

-----------------------------------------------------------------------------
(* The protocol implements SideDelivery                                     *)

LEMMA NewFrameDelivers ==
  ASSUME IInv, NewFrame
  PROVE  [Delivery!Next]_<<accepted, received, released>>
<1>1. link1 # <<>> /\ UNCHANGED <<accepted, released>>
  BY DEF NewFrame, client
<1>2. CASE Head(link1).SN = Expected
  <2>1. received' = Append(received, Head(link1).pkt)
    BY <1>2 DEF NewFrame, Wanted
  <2>2. Head(link1).pkt = Len(received) + 1 /\ Len(received) + 1 <= accepted
    BY <1>1, <1>2, HeadDue DEF Taken
  <2>3. Len(received) < accepted
    BY <2>2, Sizes DEF Taken
  <2>4. QED  BY <1>1, <2>1, <2>2, <2>3 DEF Delivery!Next, Delivery!Receive
<1>3. CASE Head(link1).SN # Expected
  BY <1>1, <1>3 DEF NewFrame, Wanted
<1>4. QED  BY <1>2, <1>3

LEMMA AdvanceDelivers ==
  ASSUME IInv, Advance
  PROVE  [Delivery!Next]_<<accepted, received, released>>
<1>1. UNCHANGED <<accepted, received>>
  BY DEF Advance, acker
<1> DEFINE k == acked - Done
           tail == [i \in 1 .. k |-> storage[slot(i - 1)].pkt]
<1>2. k \in 1 .. NFrames /\ covered = {k}
  BY Covered DEF Advance
<1>3. released' = released \o tail
  BY <1>2 DEF Advance
<1>4. tail = [i \in 1 .. k |-> Done + i]
  <2>1. ASSUME NEW i \in 1 .. k PROVE storage[slot(i - 1)].pkt = Done + i
    <3>1. i - 1 \in 0 .. NFrames - 1 /\ Done + (i - 1) + 1 = Done + i
      BY <1>2, Sizes
    <3>2. QED  BY <3>1, Positions
  <2>2. QED  BY <2>1
<1>5. released = UpTo(Done) /\ k \in Nat /\ Done + k = acked /\ received = UpTo(Taken)
  BY <1>2, Sizes DEF IInv, Counts
<1>6. acked \in Len(released) + 1 .. Len(received)
  BY <1>2, Sizes DEF Done, Taken
<1> HIDE DEF k, tail
<1>7. released' = UpTo(acked)
  BY <1>3, <1>4, <1>5, Sizes, UpToConcat
<1>8. acked \in 0 .. Taken /\ Taken \in Nat
  BY Sizes
<1>9. released' = SubSeq(received, 1, acked)
  BY <1>5, <1>7, <1>8, UpToPrefix
<1>10. QED  BY <1>1, <1>6, <1>9 DEF Delivery!Next, Delivery!Release

LEMMA StepDelivers ==
  IInv /\ [Next]_vars => [Delivery!Next]_<<accepted, received, released>>
<1> SUFFICES ASSUME IInv, [Next]_vars
             PROVE  [Delivery!Next]_<<accepted, received, released>>
  OBVIOUS
<1>1. CASE Advance
  BY <1>1, AdvanceDelivers
<1>2. CASE NewFrame
  BY <1>2, NewFrameDelivers
<1>3. CASE SendNew
  BY <1>3 DEF SendNew, acker, Delivery!Next, Delivery!Accept
<1>4. CASE Arrive \/ (\E pos \in Slots : GetLate(pos)) \/ Retransmit \/ Rest \/ XDone
  BY <1>4 DEF Arrive, GetLate, Retransmit, Rest, XDone, client, acker
<1>5. CASE NextAck \/ SendAck \/ AckDone \/ Damage1 \/ Damage2
  BY <1>5 DEF NextAck, SendAck, AckDone, Damage1, Damage2, client, acker
<1>6. CASE UNCHANGED vars
  BY <1>6 DEF vars, client, acker
<1>7. QED  BY <1>1, <1>2, <1>3, <1>4, <1>5, <1>6 DEF Next

\* Packets are received in the order in which they were taken, each one once, and
\* only received packets are released, for every window size: the protocol with
\* serial numbers modulo WS + 1 implements reliable delivery.
THEOREM ARQDelivers == Spec => Delivers
<1>1. Init => Delivery!Init
  BY DEF Init, Delivery!Init
<1>2. IInv /\ [Next]_vars => [Delivery!Next]_<<accepted, received, released>>
  BY StepDelivers
<1>3. QED
  BY <1>1, <1>2, Invariance, PTL DEF Spec, Delivers, Delivery!Spec, Delivery!vars
=============================================================================
