--------------------------- MODULE SideBoundMailbox ---------------------------
(***************************************************************************)
(* A mailbox bound to a client socket (KERNEL/connect.h, and the parts of      *)
(* KERNEL/mailbox.cc for bound mailboxes): an input and an output ring of      *)
(* limit + 1 slots, filled from and flushed to the socket by the main loop     *)
(* (zz_push_sockets), and the events that tell processes about it.             *)
(*                                                                         *)
(* The bytes of a connection are numbered in each direction, and a slot holds  *)
(* the number of the byte stored there: the contents are modelled exactly,    *)
(* their values only as far as the sentinel is concerned.  For each event one   *)
(* process may wait.  MASTER and server mailboxes and journals are left out.   *)
(***************************************************************************)
EXTENDS Integers, Sequences

CONSTANTS
  Sizes,      \* buffer sizes given to connect and resize
  Unbound,    \* the capacity of the mailbox while it is not bound
  Sentinels,  \* the input bytes that equal the sentinel
  Awaits,     \* the events that are awaited; a count is its own number
  ReceiveWraps, \* whether RECEIVE is used on a ring that may wrap
  MaxBytes,   \* bound: bytes in each direction of a connection
  MaxConns    \* bound: connections

ASSUME BoundMailboxAssumption ==
  /\ Sizes \subseteq Nat \ {0} /\ Unbound \in Nat
  /\ Sentinels \subseteq Nat /\ Awaits \subseteq Int
  /\ ReceiveWraps \in BOOLEAN /\ MaxBytes \in Nat /\ MaxConns \in Nat

OUTPUT   == -1
SENTINEL == -2
GET      == -3
NEWITEM  == -4
NONEMPTY == -5
RECEIVE  == -6

VARIABLES
  bound,    \* sfd, csd: the mailbox is bound and connected
  limit,    \* buffer size
  ibuf, iin, iout, count,
  obuf, oin, oout,
  wl,       \* for each event: nobody waits, somebody does, or is being restarted
  arrived,  \* input bytes of this connection that reached the socket
  taken,    \* those read into ibuf
  got,      \* those that left it
  sent,     \* output bytes accepted from the program
  flushed,  \* those written to the socket
  shut,     \* the other party has closed the connection
  conns,    \* connections made
  forced,   \* history: the last one was ended by disconnect (CLEAR)
  good      \* history: no byte was handed over or written out of turn

inputs  == <<ibuf, iin, iout, count, taken, got>>
outputs == <<obuf, oin, oout, sent, flushed>>
peer    == <<arrived, shut>>
vars    == <<bound, limit, inputs, outputs, wl, peer, conns, forced, good>>

-----------------------------------------------------------------------------
(* Ring arithmetic: slots 0 .. limit, equal indices mean an empty ring       *)

\* Fault: the index runs past the end of the ring.
advance_Straight(i, n) == i + n

advance(i, n) == IF i + n > limit THEN i + n - limit - 1 ELSE i + n

\* Steps from index o forward to index i.
dist(o, i) == IF i >= o THEN i - o ELSE limit + 1 - o + i

\* A ring after n numbered bytes, from 'first' on, are copied in from index i.
filled(buf, i, n, first) ==
  [j \in 0 .. limit |-> IF dist(i, j) < n THEN first + dist(i, j) ELSE buf[j]]

\* The next n bytes of a ring from index o are those numbered from 'first' on.
inTurn(buf, o, n, first) ==
  \A j \in 0 .. limit : dist(o, j) < n => buf[j] = first + dist(o, j)

Lesser(a, b) == IF a < b THEN a ELSE b

\* sentinelFound: bytes up to and including the sentinel, 0 if there is none.
sentinelFound ==
  LET S == {j \in 0 .. limit : dist(iout, j) < count /\ ibuf[j] \in Sentinels}
  IN  IF S = {} THEN 0
      ELSE 1 + dist(iout, CHOOSE j \in S : \A k \in S : dist(iout, j) <= dist(iout, k))

\* The requests for the events E are triggered.
trigger(E) ==
  [e \in Awaits |-> IF wl[e] = "asleep" /\ e \in E THEN "due" ELSE wl[e]]

-----------------------------------------------------------------------------
Empty == [j \in 0 .. limit |-> 0]

Init ==
  /\ bound = FALSE /\ limit = Unbound
  /\ ibuf = Empty /\ iin = 0 /\ iout = 0 /\ count = 0
  /\ obuf = Empty /\ oin = 0 /\ oout = 0
  /\ wl = [e \in Awaits |-> "no"]
  /\ arrived = 0 /\ taken = 0 /\ got = 0 /\ sent = 0 /\ flushed = 0
  /\ shut = FALSE /\ conns = 0 /\ forced = FALSE /\ good = TRUE

\* connect, as a client; new buffers hold anything.
Connect(size) ==
  /\ ~bound /\ conns < MaxConns
  /\ \A e \in Awaits : wl[e] = "no"
  /\ bound' = TRUE /\ limit' = size /\ conns' = conns + 1 /\ forced' = FALSE
  /\ ibuf' = [j \in 0 .. size |-> 0] /\ obuf' = [j \in 0 .. size |-> 0]
  /\ iin' = 0 /\ iout' = 0 /\ count' = 0 /\ oin' = 0 /\ oout' = 0
  /\ arrived' = 0 /\ taken' = 0 /\ got' = 0 /\ sent' = 0 /\ flushed' = 0
  /\ shut' = FALSE
  /\ UNCHANGED <<wl, good>>

\* disconnect (CLEAR) tells those who wait for one of these.
toldOfClose == {NEWITEM, OUTPUT, SENTINEL} \cup {e \in Awaits : e > 0}

\* The rest of disconnect: both rings are emptied, the mailbox is unbound.
Unbind(clear) ==
  /\ bound' = FALSE /\ limit' = Unbound
  /\ ibuf' = [j \in 0 .. Unbound |-> 0] /\ obuf' = [j \in 0 .. Unbound |-> 0]
  /\ iin' = 0 /\ iout' = 0 /\ count' = 0 /\ oin' = 0 /\ oout' = 0
  /\ arrived' = 0 /\ taken' = 0 /\ got' = 0 /\ sent' = 0 /\ flushed' = 0 /\ shut' = FALSE
  /\ forced' = clear
  /\ UNCHANGED <<conns, good>>

\* Nothing is pending in either ring.
Quiet == count = 0 /\ oin = oout

\* disconnect () by the program, which fails when somebody waits or something
\* is pending.
Disconnect ==
  /\ bound /\ Quiet /\ \A e \in Awaits : wl[e] = "no"
  /\ Unbind(FALSE) /\ UNCHANGED wl

\* disconnect (CLEAR) by the program.
DisconnectClear ==
  /\ bound /\ Unbind(TRUE) /\ wl' = trigger(toldOfClose)

\* resize: both rings are unrolled into larger buffers.
Resize(size) ==
  /\ bound /\ size > limit
  /\ LET moved(buf, o) == [j \in 0 .. size |-> IF j <= limit THEN buf[advance(o, j)] ELSE 0]
     IN  ibuf' = moved(ibuf, iout) /\ obuf' = moved(obuf, oout)
  /\ iin' = dist(iout, iin) /\ iout' = 0
  /\ oin' = dist(oout, oin) /\ oout' = 0
  /\ limit' = size
  /\ UNCHANGED <<bound, count, taken, got, sent, flushed, wl, peer, conns, forced, good>>

-----------------------------------------------------------------------------
(* The socket and zz_push_sockets                                          *)

\* The other party sends a byte.
Arrive ==
  /\ bound /\ ~shut /\ arrived < MaxBytes
  /\ arrived' = arrived + 1
  /\ UNCHANGED <<bound, limit, inputs, outputs, wl, shut, conns, forced, good>>

Close ==
  /\ bound /\ ~shut
  /\ shut' = TRUE
  /\ UNCHANGED <<bound, limit, inputs, outputs, wl, arrived, conns, forced, good>>

\* What readInput asks for in its first read.
room1 == IF iin >= iout THEN limit + 1 - iin - (IF iout = 0 THEN 1 ELSE 0) ELSE 0

\* Its second read, when the first one has moved iin to index i.
room2(i) == IF i < iout - 1 THEN iout - i - 1 ELSE 0

\* Fault: a count event is triggered by that very count only.
hasInput_Exactly(n, full) ==
  trigger({NEWITEM, NONEMPTY, RECEIVE, n} \cup (IF full THEN {SENTINEL} ELSE {}))

\* Who is told by readInput that there are n bytes now.
hasInput(n, full) ==
  trigger({NEWITEM, NONEMPTY, RECEIVE} \cup 0 .. n \cup (IF full THEN {SENTINEL} ELSE {}))

\* readInput: n1 and n2 are what the two reads return; a read that finds
\* nothing returns right away or, as the second one, adds nothing.
ReadInput(n1, n2) ==
  LET first  == room1
      iin1   == advance(iin, n1)
      iin2   == iin1 + n2
      ibuf1  == filled(filled(ibuf, iin, n1, taken), iin1, n2, taken + n1)
      count1 == dist(iout, iin2)
      \* the sentinel among the bytes in ibuf1
      found  == \E j \in 0 .. limit : dist(iout, j) < count1 /\ ibuf1[j] \in Sentinels
  IN  /\ bound
      /\ iin >= iout => first > 0 /\ n1 > 0
      /\ n1 <= first /\ n2 <= room2(iin1)
      /\ n1 + n2 > 0 /\ n1 + n2 <= arrived - taken
      /\ ibuf' = ibuf1 /\ iin' = iin2 /\ taken' = taken + n1 + n2
      /\ count' = count1
      /\ wl' = hasInput(count1, count1 = limit \/ found)
      /\ UNCHANGED <<bound, limit, iout, got, outputs, peer, conns, forced, good>>

\* Fault: a closed connection is given up although input is pending.
drained_Room == room1 > 0

\* rawRead responds to a closed connection only then.
drained == iin = iout

\* readInput finds the connection closed.
ReadClosed ==
  /\ bound /\ shut /\ taken = arrived
  /\ drained
  /\ room1 > 0
  /\ Unbind(FALSE) /\ wl' = trigger(toldOfClose)

\* What flushOutput writes first.
part1 == IF oin > oout THEN oin - oout ELSE IF oin < oout THEN limit + 1 - oout ELSE 0

\* flushOutput: n1 and n2 are what the two writes accept.
Flush(n1, n2) ==
  LET atEnd == oout + n1 > limit
      oout1 == IF atEnd THEN 0 ELSE oout + n1
  IN  /\ bound
      /\ n1 \in 1 .. part1
      /\ n2 \in 0 .. (IF atEnd THEN oin ELSE 0)
      /\ good' = (good /\ inTurn(obuf, oout, n1, flushed)
                       /\ inTurn(obuf, oout1, n2, flushed + n1))
      /\ oout' = oout1 + n2
      /\ flushed' = flushed + n1 + n2
      /\ wl' = trigger({OUTPUT})
      /\ UNCHANGED <<bound, limit, inputs, obuf, oin, sent, peer, conns, forced>>

\* rawWrite fails for good: "our party has disconnected".
FlushBroken ==
  /\ bound /\ shut /\ part1 > 0 /\ count = 0
  /\ Unbind(FALSE) /\ wl' = trigger(toldOfClose)

-----------------------------------------------------------------------------
(* Operations of the program                                               *)

\* n bytes leave the input ring.
consume(n) ==
  /\ good' = (good /\ inTurn(ibuf, iout, n, got))
  /\ iout' = advance(iout, n)
  /\ count' = count - n
  /\ got' = got + n

\* zz_get
Get ==
  /\ bound /\ count > 0
  /\ consume(1)
  /\ wl' = trigger({GET, count - 1})
  /\ UNCHANGED <<bound, limit, ibuf, iin, taken, outputs, peer, conns, forced>>

Read(n) ==
  /\ bound /\ n > 0 /\ n <= limit
  /\ count >= n
  /\ consume(n)
  /\ UNCHANGED <<bound, limit, ibuf, iin, taken, outputs, wl, peer, conns, forced>>

readAvailable(n) ==
  /\ bound /\ n > 0
  /\ consume(Lesser(n, count))
  /\ UNCHANGED <<bound, limit, ibuf, iin, taken, outputs, wl, peer, conns, forced>>

\* Up to the sentinel, or whatever there is when the buffer is full.
readToSentinel(n) ==
  /\ bound /\ n > 0
  /\ sentinelFound > 0 \/ count >= limit
  /\ consume(Lesser(n, IF sentinelFound > 0 THEN sentinelFound ELSE count))
  /\ UNCHANGED <<bound, limit, ibuf, iin, taken, outputs, wl, peer, conns, forced>>

\* zz_erase: the input ring is emptied.
Erase ==
  /\ bound
  /\ count' = 0 /\ iin' = 0 /\ iout' = 0 /\ got' = taken
  /\ wl' = trigger({0, GET})
  /\ UNCHANGED <<bound, limit, ibuf, taken, outputs, peer, conns, forced, good>>

\* zz_put
Put ==
  /\ bound /\ sent < MaxBytes
  /\ advance(oin, 1) # oout
  /\ obuf' = filled(obuf, oin, 1, sent)
  /\ oin' = advance(oin, 1)
  /\ sent' = sent + 1
  /\ UNCHANGED <<bound, limit, inputs, oout, flushed, wl, peer, conns, forced, good>>

\* Fault: write may fill the slot before oout.
free_Full == IF oin < oout THEN oout - oin ELSE limit + 1 - oin + oout

\* The room that write finds in the output ring.
free == IF oin < oout THEN oout - oin - 1 ELSE limit - oin + oout

Write(n) ==
  /\ bound /\ n > 0 /\ n <= limit /\ sent + n <= MaxBytes
  /\ free >= n
  /\ obuf' = filled(obuf, oin, n, sent)
  /\ oin' = advance(oin, n)
  /\ sent' = sent + n
  /\ UNCHANGED <<bound, limit, inputs, oout, flushed, wl, peer, conns, forced, good>>

\* checkImmediate, for a bound mailbox
checkImmediate(e) ==
  \/ e \in {NONEMPTY, RECEIVE} /\ count > 0
  \/ e = SENTINEL /\ (sentinelFound > 0 \/ count = limit)
  \/ e >= 0 /\ count >= e

Wait(e) ==
  /\ bound /\ wl[e] = "no"
  /\ e <= limit
  /\ e = RECEIVE => ReceiveWraps \/ limit > MaxBytes
  /\ wl' = [wl EXCEPT ![e] = IF checkImmediate(e) THEN "due" ELSE "asleep"]
  /\ UNCHANGED <<bound, limit, inputs, outputs, peer, conns, forced, good>>

\* The main loop restarts a process.
Restart(e) ==
  /\ wl[e] = "due" /\ e # RECEIVE
  /\ wl' = [wl EXCEPT ![e] = "no"]
  /\ UNCHANGED <<bound, limit, inputs, outputs, peer, conns, forced, good>>

\* The main loop delivers RECEIVE: it removes the byte itself and wraps iout
\* at limit; an index beyond the ring finds no byte of the connection.
Receive ==
  /\ RECEIVE \in Awaits /\ wl[RECEIVE] = "due"
  /\ bound /\ count > 0
  /\ good' = (good /\ iout <= limit /\ ibuf[iout] = got)
  /\ iout' = IF iout + 1 = limit THEN 0 ELSE iout + 1
  /\ count' = count - 1 /\ got' = got + 1
  /\ wl' = [wl EXCEPT ![RECEIVE] = "no"]
  /\ UNCHANGED <<bound, limit, ibuf, iin, taken, outputs, peer, conns, forced>>

\* "Sorry, back to the queue"
BackToQueue ==
  /\ RECEIVE \in Awaits /\ wl[RECEIVE] = "due" /\ count = 0
  /\ wl' = [wl EXCEPT ![RECEIVE] = "asleep"]
  /\ UNCHANGED <<bound, limit, inputs, outputs, peer, conns, forced, good>>

-----------------------------------------------------------------------------
Chunks == 0 .. MaxBytes

Pushing ==
  \/ \E n1, n2 \in Chunks : ReadInput(n1, n2) \/ Flush(n1, n2)
  \/ ReadClosed
  \/ FlushBroken

Program ==
  \/ \E size \in Sizes : Connect(size) \/ Resize(size)
  \/ Disconnect \/ DisconnectClear
  \/ Get \/ Erase \/ Put
  \/ \E n \in Chunks : Read(n) \/ readAvailable(n) \/ readToSentinel(n) \/ Write(n)
  \/ \E e \in Awaits : Wait(e) \/ Restart(e)
  \/ Receive \/ BackToQueue

Peer == Close \/ Arrive

Next == Pushing \/ Program \/ Peer

Spec == Init /\ [][Next]_vars

-----------------------------------------------------------------------------
TypeOK ==
  /\ bound \in BOOLEAN /\ shut \in BOOLEAN /\ forced \in BOOLEAN /\ good \in BOOLEAN
  /\ limit \in Nat /\ count \in Nat
  /\ {iin, iout, oin, oout} \subseteq 0 .. limit
  /\ ibuf \in [0 .. limit -> Nat] /\ obuf \in [0 .. limit -> Nat]
  /\ {arrived, taken, got, sent, flushed, conns} \subseteq Nat
  /\ wl \in [Awaits -> {"no", "asleep", "due"}]

\* The rings, the counter and the streams agree: what is between the two
\* indices is what went in and did not come out, byte for byte, through
\* wrap-around, partial reads and writes, resize and erase (connect.h
\* readInput, read, write, flushOutput, resize; "inconsistent count update").
InputRing ==
  /\ count = dist(iout, iin) /\ count = taken - got
  /\ taken <= arrived
  /\ inTurn(ibuf, iout, count, got)

OutputRing ==
  /\ dist(oout, oin) = sent - flushed
  /\ inTurn(obuf, oout, sent - flushed, flushed)

RingsAgree == InputRing /\ OutputRing

\* Every byte handed to the program or written to the socket is the next one
\* of its direction: nothing is lost, repeated or reordered on the way.
BytesInOrder == good

\* Nobody sleeps for input that is there: a count that is reached or exceeded,
\* NONEMPTY, or a SENTINEL that would come at once if asked for now.
NoLostInput ==
  bound => \A e \in Awaits : wl[e] = "asleep" => ~checkImmediate(e)

\* A connection dropped by the other party is given up only when the program
\* has taken all that was read from it, and disconnect () gives up nothing.
NothingPendingLost ==
  [][ bound /\ ~bound' /\ ~forced' => count = 0 /\ (oin = oout \/ shut) ]_vars

\* The bytes of a ring, from index o on.
ringBytes(buf, o, n) == [k \in 1 .. n |-> buf[advance(o, k - 1)]]

Input == INSTANCE SideByteStream WITH
  open <- bound, held <- ringBytes(ibuf, iout, count), written <- taken, taken <- got,
  hungup <- FALSE, dropped <- forced

Output == INSTANCE SideByteStream WITH
  open <- bound, held <- ringBytes(obuf, oout, dist(oout, oin)), written <- sent, taken <- flushed,
  hungup <- shut, dropped <- forced

\* What is read from the socket reaches the program as a stream: two partial reads
\* append to it, the calls that read, RECEIVE and erase take from its head, a resize
\* moves every byte and changes nothing, and a disconnect that the program does
\* not force gives up no input, even when the other party has gone (readInput, read,
\* readToSentinel, readAvailable, zz_get, zz_erase, resize, rawRead, rawWrite).
Receives == Input!Spec

\* What the program writes reaches the socket as a stream, given up unforced only if it is
\* empty or the other party has gone (zz_put, write, flushOutput, resize, rawRead, rawWrite).
Sends == Output!Spec
=============================================================================
