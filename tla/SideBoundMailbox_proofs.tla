------------------------ MODULE SideBoundMailbox_proofs ------------------------
(***************************************************************************)
(* Proofs about a mailbox bound to a socket, for buffers of any size, any     *)
(* set of sentinels and any number of bytes and connections.                  *)
(*                                                                         *)
(* The first part is about ring arithmetic; the second one shows that IInv is *)
(* inductive; the third one draws the conclusions.                            *)
(***************************************************************************)
EXTENDS SideBoundMailbox, TLAPS, WellFoundedInduction

-----------------------------------------------------------------------------
(* Rings                                                                   *)

\* An index is never further ahead than the ring is long (connect.h, the
\* computation of count in readInput).
LEMMA DistRange ==
  ASSUME limit \in Nat, NEW o \in 0 .. limit, NEW i \in 0 .. limit
  PROVE  /\ dist(o, i) \in 0 .. limit
         /\ dist(o, i) = 0 <=> i = o
  BY DEF dist

\* Advancing an index by less than the ring stays within the ring, and the
\* index is ahead by as much (the wrap-around of read, write and zz_get).
LEMMA AdvanceDist ==
  ASSUME limit \in Nat, NEW o \in 0 .. limit, NEW i \in 0 .. limit, NEW n \in Nat,
         dist(o, i) + n <= limit
  PROVE  /\ advance(i, n) \in 0 .. limit
         /\ dist(o, advance(i, n)) = dist(o, i) + n
  BY DEF dist, advance

\* Removing n bytes brings the first index closer to the second one.
LEMMA DistAdvance ==
  ASSUME limit \in Nat, NEW o \in 0 .. limit, NEW i \in 0 .. limit,
         NEW n \in Nat, n <= dist(o, i)
  PROVE  /\ advance(o, n) \in 0 .. limit
         /\ dist(advance(o, n), i) = dist(o, i) - n
         /\ advance(o, n) <= o + n
  BY DEF dist, advance

\* Bytes copied in behind those of the ring continue their numbers, provided
\* that they leave one slot free.
LEMMA FilledInTurn ==
  ASSUME limit \in Nat, NEW buf \in [0 .. limit -> Nat],
         NEW o \in 0 .. limit, NEW i \in 0 .. limit,
         NEW first \in Nat, NEW next \in Nat, NEW n \in Nat,
         next = first + dist(o, i), dist(o, i) + n <= limit,
         inTurn(buf, o, dist(o, i), first)
  PROVE  /\ filled(buf, i, n, next) \in [0 .. limit -> Nat]
         /\ inTurn(filled(buf, i, n, next), o, dist(o, i) + n, first)
<1>1. \A j \in 0 .. limit : dist(i, j) \in Nat /\ dist(o, j) \in Nat
  BY DEF dist
<1>2. filled(buf, i, n, next) \in [0 .. limit -> Nat]
  BY DEF filled, dist
<1>3. ASSUME NEW j \in 0 .. limit, dist(o, j) < dist(o, i) + n
      PROVE  filled(buf, i, n, next)[j] = first + dist(o, j)
  <2>1. CASE dist(o, j) < dist(o, i)
    <3>1. ~ (dist(i, j) < n)
      BY <2>1 DEF dist
    <3>2. QED  BY <2>1, <3>1 DEF filled, inTurn
  <2>2. CASE ~ (dist(o, j) < dist(o, i))
    <3>1. dist(i, j) < n /\ dist(o, j) = dist(o, i) + dist(i, j)
      BY <1>3, <2>2 DEF dist
    <3>2. filled(buf, i, n, next)[j] = next + dist(i, j)
      BY <3>1 DEF filled
    <3>3. dist(o, i) \in Nat /\ dist(i, j) \in Nat
      BY <1>1
    <3>4. QED  BY <3>1, <3>2, <3>3
  <2>3. QED  BY <2>1, <2>2
<1>4. QED  BY <1>2, <1>3 DEF inTurn

\* The bytes that leave a ring are in turn, and so are those that remain.
LEMMA TakenInTurn ==
  ASSUME limit \in Nat, NEW buf \in [0 .. limit -> Nat],
         NEW o \in 0 .. limit, NEW m \in 0 .. limit, NEW n \in 0 .. m,
         NEW first \in Nat, inTurn(buf, o, m, first)
  PROVE  /\ inTurn(buf, o, n, first)
         /\ inTurn(buf, advance(o, n), m - n, first + n)
<1>1. inTurn(buf, o, n, first)
  BY DEF inTurn, dist
<1>2. ASSUME NEW j \in 0 .. limit, dist(advance(o, n), j) < m - n
      PROVE  buf[j] = first + n + dist(advance(o, n), j)
  <2>1. dist(o, j) = n + dist(advance(o, n), j)
    BY <1>2 DEF dist, advance
  <2>2. dist(o, j) < m
    BY <1>2, <2>1 DEF dist, advance
  <2>3. buf[j] = first + dist(o, j)
    BY <2>2 DEF inTurn
  <2>4. QED  BY <2>1, <2>3 DEF dist, advance
<1>3. QED  BY <1>1, <1>2, DistRange DEF inTurn, advance

\* There is a sentinel among the bytes of the input ring.
HasSentinel == \E j \in 0 .. limit : dist(iout, j) < count /\ ibuf[j] \in Sentinels

\* sentinelFound returns no more than what the ring holds, and something only
\* if there is a sentinel.
LEMMA SentinelRange ==
  ASSUME limit \in Nat, iout \in 0 .. limit, count \in 0 .. limit
  PROVE  sentinelFound \in 0 .. count /\ (sentinelFound > 0 <=> HasSentinel)
<1> DEFINE S == {j \in 0 .. limit : dist(iout, j) < count /\ ibuf[j] \in Sentinels}
<1>0. HasSentinel <=> S # {}
  BY DEF HasSentinel
<1>1. CASE S = {}
  BY <1>0, <1>1 DEF sentinelFound
<1>2. CASE S # {}
  <2> DEFINE D == {dist(iout, j) : j \in S}
  <2>1. D \subseteq Nat /\ D # {}
    BY <1>2 DEF dist
  <2>2. \E d \in D : \A f \in D : ~ (<<f, d>> \in OpToRel(<, Nat))
    <3> HIDE DEF D
    <3> QED  BY <2>1, NatLessThanWellFounded, WFMin
  <2>3. PICK d \in D : \A f \in D : ~ (<<f, d>> \in OpToRel(<, Nat))
    BY <2>2
  <2>4. \A f \in D : d <= f
    <3> HIDE DEF D
    <3>1. TAKE f \in D
    <3>2. f \in Nat /\ d \in Nat
      BY <2>1
    <3>3. ~ (f < d)
      BY <2>3, <3>2 DEF OpToRel
    <3>4. QED  BY <3>2, <3>3
  <2>5. PICK j \in S : d = dist(iout, j)
    BY <2>3
  <2>6. \A k \in S : dist(iout, j) <= dist(iout, k)
    BY <2>4, <2>5
  <2> DEFINE next == CHOOSE i \in S : \A k \in S : dist(iout, i) <= dist(iout, k)
  <2>7. next \in S
    BY <2>6
  <2>8. sentinelFound = 1 + dist(iout, next)
    BY <1>2 DEF sentinelFound
  <2>9. next \in 0 .. limit /\ dist(iout, next) < count
    <3> HIDE DEF next
    <3> QED  BY <2>7
  <2> HIDE DEF next
  <2>10. sentinelFound \in 0 .. count /\ sentinelFound > 0
    BY <2>8, <2>9 DEF dist
  <2>11. QED  BY <1>0, <1>2, <2>10
<1>3. QED  BY <1>1, <1>2

-----------------------------------------------------------------------------
(* The inductive invariant                                                 *)

\* The input side.  That iout never exceeds the number of bytes that left is
\* what keeps RECEIVE from wrapping on a ring longer than the stream.
InputOK ==
  /\ iin \in 0 .. limit /\ iout \in 0 .. limit /\ ibuf \in [0 .. limit -> Nat]
  /\ count \in Nat /\ arrived \in Nat /\ taken \in Nat /\ got \in Nat
  /\ arrived <= MaxBytes /\ iout <= got
  /\ InputRing

OutputOK ==
  /\ oin \in 0 .. limit /\ oout \in 0 .. limit /\ obuf \in [0 .. limit -> Nat]
  /\ sent \in Nat /\ flushed \in Nat
  /\ OutputRing

\* RECEIVE is requested of such rings only.
LongForReceive ==
  bound /\ RECEIVE \in Awaits /\ wl[RECEIVE] # "no" => limit > MaxBytes

RestOK ==
  /\ bound \in BOOLEAN /\ shut \in BOOLEAN /\ limit \in Nat /\ conns \in Nat
  /\ forced \in BOOLEAN
  /\ wl \in [Awaits -> {"no", "asleep", "due"}]
  /\ LongForReceive
  /\ good = TRUE

IInv == InputOK /\ OutputOK /\ RestOK

\* The invariant covers the type invariant and the safety properties.
LEMMA IInvImplies == IInv => TypeOK /\ RingsAgree /\ BytesInOrder
  BY DEF IInv, InputOK, OutputOK, RestOK, TypeOK, RingsAgree, BytesInOrder

LEMMA InvInit == Init => IInv
<1> SUFFICES ASSUME Init PROVE IInv
  OBVIOUS
<1>1. limit \in Nat /\ MaxBytes \in Nat
  BY BoundMailboxAssumption DEF Init
<1>2. InputOK
  BY <1>1 DEF Init, InputOK, InputRing, Empty, inTurn, dist
<1>3. OutputOK
  BY <1>1 DEF Init, OutputOK, OutputRing, Empty, inTurn, dist
<1>4. RestOK
  BY <1>1 DEF Init, RestOK, LongForReceive
<1>5. QED  BY <1>2, <1>3, <1>4 DEF IInv

-----------------------------------------------------------------------------
(* What the actions do to one side of the mailbox                          *)

LEMMA InputKept ==
  ASSUME InputOK, UNCHANGED <<limit, inputs, arrived>>
  PROVE  InputOK'
  BY DEF InputOK, InputRing, inputs, inTurn, dist

LEMMA OutputKept ==
  ASSUME OutputOK, UNCHANGED <<limit, outputs>>
  PROVE  OutputOK'
  BY DEF OutputOK, OutputRing, outputs, inTurn, dist

\* connect and disconnect leave two empty rings.
LEMMA FreshRings ==
  ASSUME limit' \in Nat,
         ibuf' = [j \in 0 .. limit' |-> 0], obuf' = [j \in 0 .. limit' |-> 0],
         iin' = 0, iout' = 0, count' = 0, oin' = 0, oout' = 0,
         arrived' = 0, taken' = 0, got' = 0, sent' = 0, flushed' = 0
  PROVE  InputOK' /\ OutputOK'
<1>1. MaxBytes \in Nat
  BY BoundMailboxAssumption
<1>2. InputOK'
  BY <1>1 DEF InputOK, InputRing, inTurn, dist
<1>3. OutputOK'
  BY DEF OutputOK, OutputRing, inTurn, dist
<1>4. QED  BY <1>2, <1>3

\* Bytes leave the input ring in turn (read, readAvailable, readToSentinel,
\* zz_get).
LEMMA Consumed ==
  ASSUME InputOK, limit \in Nat, good = TRUE, NEW n \in 0 .. count, consume(n),
         UNCHANGED <<limit, ibuf, iin, taken, arrived>>
  PROVE  InputOK' /\ good' = TRUE
<1>1. count = dist(iout, iin) /\ count \in 0 .. limit /\ inTurn(ibuf, iout, count, got)
  BY DistRange DEF InputOK, InputRing
<1>2. /\ iout' \in 0 .. limit /\ dist(iout', iin) = count - n
      /\ iout' <= iout + n
  BY <1>1, DistAdvance DEF InputOK, consume
<1>3. inTurn(ibuf, iout, n, got) /\ inTurn(ibuf, iout', count - n, got + n)
  BY <1>1, TakenInTurn DEF InputOK, consume
<1>4. good' = TRUE
  BY <1>3 DEF consume
<1>5. InputRing'
  <2>1. count' = count - n /\ got' = got + n
    BY DEF consume
  <2>2. count' = dist(iout, iin)'
    BY <1>2, <2>1 DEF dist
  <2>3. inTurn(ibuf, iout, count, got)'
    BY <1>3, <2>1 DEF inTurn, dist
  <2>4. count = taken - got /\ taken <= arrived
    BY DEF InputOK, InputRing
  <2>5. taken \in Nat /\ got \in Nat
    BY DEF InputOK
  <2>6. count' = taken' - got' /\ taken' <= arrived'
    BY <1>1, <2>1, <2>4, <2>5
  <2>7. QED  BY <2>2, <2>3, <2>6 DEF InputRing
<1>6. count' \in Nat /\ got' \in Nat /\ iout' <= got'
  BY <1>1, <1>2 DEF InputOK, consume
<1>7. InputOK'
  BY <1>2, <1>5, <1>6 DEF InputOK
<1>8. QED  BY <1>4, <1>7

\* Bytes enter the output ring in turn (zz_put and write).
LEMMA Stored ==
  ASSUME OutputOK, limit \in Nat, NEW n \in Nat, dist(oout, oin) + n <= limit,
         obuf' = filled(obuf, oin, n, sent), oin' = advance(oin, n), sent' = sent + n,
         UNCHANGED <<limit, oout, flushed>>
  PROVE  OutputOK'
<1>1. dist(oout, oin) = sent - flushed /\ inTurn(obuf, oout, dist(oout, oin), flushed)
  BY DEF OutputOK, OutputRing
<1>2. oin' \in 0 .. limit /\ dist(oout, oin') = dist(oout, oin) + n
  BY AdvanceDist DEF OutputOK
<1>3. sent = flushed + dist(oout, oin)
  BY <1>1, DistRange DEF OutputOK
<1>4. /\ obuf' \in [0 .. limit -> Nat]
      /\ inTurn(obuf', oout, dist(oout, oin) + n, flushed)
  BY <1>1, <1>3, FilledInTurn DEF OutputOK
<1>5. dist(oout, oin) \in Nat
  BY DistRange DEF OutputOK
<1>6. OutputRing'
  BY <1>1, <1>2, <1>3, <1>4, <1>5 DEF OutputOK, OutputRing, inTurn, dist
<1>7. QED  BY <1>2, <1>4, <1>6 DEF OutputOK

\* Bytes enter the input ring in turn, in two reads (readInput): room1 and
\* room2 never let it run full or over the bytes that are there.
LEMMA ReadInputKeeps ==
  ASSUME InputOK, limit \in Nat, NEW n1 \in Nat, NEW n2 \in Nat, ReadInput(n1, n2)
  PROVE  InputOK'
<1> DEFINE i1 == advance(iin, n1)
           b1 == filled(ibuf, iin, n1, taken)
           b2 == filled(b1, i1, n2, taken + n1)
           held == dist(iout, iin)
<1>1. /\ held \in 0 .. limit /\ taken = got + held
      /\ inTurn(ibuf, iout, held, got)
  <2>1. held \in 0 .. limit
    BY DistRange DEF InputOK
  <2>2. count = held /\ count = taken - got /\ inTurn(ibuf, iout, count, got)
    BY DEF InputOK, InputRing
  <2> HIDE DEF held
  <2>3. taken = got + held
    BY <2>1, <2>2 DEF InputOK
  <2>4. QED  BY <2>1, <2>2, <2>3
<1>2. n1 <= room1 /\ n2 <= room2(i1)
  BY DEF ReadInput
<1>3. held + n1 <= limit
  BY <1>2 DEF room1, dist, InputOK
<1>4. i1 \in 0 .. limit /\ dist(iout, i1) = held + n1
  BY <1>3, AdvanceDist DEF InputOK
<1>5. b1 \in [0 .. limit -> Nat] /\ inTurn(b1, iout, dist(iout, i1), got)
  <2>1. /\ iin \in 0 .. limit /\ iout \in 0 .. limit /\ ibuf \in [0 .. limit -> Nat]
        /\ got \in Nat /\ taken \in Nat
    BY DEF InputOK
  <2>2. b1 \in [0 .. limit -> Nat] /\ inTurn(b1, iout, dist(iout, iin) + n1, got)
    BY <1>1, <1>3, <2>1, FilledInTurn
  <2>3. QED  BY <1>4, <2>2
<1>6. i1 + n2 \in 0 .. limit /\ dist(iout, i1 + n2) = held + n1 + n2
  <2> HIDE DEF i1, held
  <2>1. n2 <= (IF i1 < iout - 1 THEN iout - i1 - 1 ELSE 0)
    BY <1>2 DEF room2
  <2>2. i1 + n2 \in 0 .. limit /\ dist(iout, i1 + n2) = dist(iout, i1) + n2
    BY <1>4, <2>1 DEF dist, InputOK
  <2>3. QED  BY <1>4, <2>2
<1>7. held + n1 + n2 <= limit
  BY <1>6, DistRange DEF InputOK
<1>8. b2 \in [0 .. limit -> Nat] /\ inTurn(b2, iout, held + n1 + n2, got)
  <2> HIDE DEF i1, b1, held
  <2>1. taken + n1 = got + dist(iout, i1) /\ dist(iout, i1) + n2 <= limit
    BY <1>1, <1>4, <1>7 DEF InputOK
  <2>2. taken + n1 \in Nat /\ got \in Nat /\ iout \in 0 .. limit
    BY DEF InputOK
  <2>3. b2 \in [0 .. limit -> Nat] /\ inTurn(b2, iout, dist(iout, i1) + n2, got)
    BY <1>4, <1>5, <2>1, <2>2, FilledInTurn
  <2>4. QED  BY <1>4, <2>3
<1>9. /\ ibuf' = b2 /\ iin' = i1 + n2 /\ taken' = taken + n1 + n2
      /\ count' = dist(iout, i1 + n2) /\ n1 + n2 <= arrived - taken
      /\ UNCHANGED <<limit, iout, got, arrived>>
  BY DEF ReadInput, peer
<1> HIDE DEF i1, b1, b2, held
<1>10. InputRing'
  <2>1. count' = held + n1 + n2 /\ count' = dist(iout, iin)'
    BY <1>6, <1>9 DEF dist
  <2>2. taken \in Nat /\ got \in Nat /\ arrived \in Nat /\ held \in Nat
    BY <1>1 DEF InputOK
  <2>3. inTurn(ibuf, iout, count, got)'
    BY <1>8, <1>9, <2>1 DEF inTurn, dist
  <2>4. count' = taken' - got'
    BY <1>1, <1>9, <2>1, <2>2
  <2>5. taken' <= arrived'
    BY <1>9, <2>2
  <2>6. QED  BY <2>1, <2>3, <2>4, <2>5 DEF InputRing
<1>11. count' \in Nat /\ taken' \in Nat
  BY <1>1, <1>6, <1>9 DEF InputOK
<1>12. QED  BY <1>6, <1>8, <1>9, <1>10, <1>11 DEF InputOK

\* Bytes leave the output ring in turn, in two writes (flushOutput).
LEMMA FlushKeeps ==
  ASSUME OutputOK, limit \in Nat, good = TRUE, NEW n1 \in Nat, NEW n2 \in Nat, Flush(n1, n2)
  PROVE  OutputOK' /\ good' = TRUE
<1> DEFINE held  == dist(oout, oin)
           atEnd == oout + n1 > limit
           o1    == IF atEnd THEN 0 ELSE oout + n1
<1>1. /\ held \in 0 .. limit /\ sent = flushed + held
      /\ inTurn(obuf, oout, held, flushed)
  BY DistRange DEF OutputOK, OutputRing
<1>2. n1 <= part1 /\ n2 <= (IF atEnd THEN oin ELSE 0)
  BY DEF Flush
<1>3. n1 <= held /\ o1 = advance(oout, n1)
  BY <1>2 DEF part1, dist, advance, OutputOK
<1>4. o1 \in 0 .. limit /\ dist(o1, oin) = held - n1
  BY <1>3, DistAdvance DEF OutputOK
<1>5. inTurn(obuf, oout, n1, flushed) /\ inTurn(obuf, o1, held - n1, flushed + n1)
  <2> HIDE DEF held, o1
  <2>1. /\ oout \in 0 .. limit /\ obuf \in [0 .. limit -> Nat] /\ flushed \in Nat
        /\ n1 \in 0 .. held
    BY <1>1, <1>3 DEF OutputOK
  <2>2. QED  BY <1>1, <1>3, <2>1, TakenInTurn
<1>6. n2 <= held - n1 /\ o1 + n2 = advance(o1, n2)
  <2> HIDE DEF held
  <2>1. o1 = 0 \/ n2 = 0
    BY <1>2
  <2>2. n2 <= dist(o1, oin) /\ o1 + n2 <= limit
    BY <1>2, <1>4 DEF dist, OutputOK
  <2> HIDE DEF o1
  <2>3. QED  BY <1>4, <2>2 DEF advance
<1>7. o1 + n2 \in 0 .. limit /\ dist(o1 + n2, oin) = held - n1 - n2
  <2> HIDE DEF held, o1
  <2>1. n2 <= dist(o1, oin) /\ oin \in 0 .. limit
    BY <1>4, <1>6 DEF OutputOK
  <2>2. advance(o1, n2) \in 0 .. limit /\ dist(advance(o1, n2), oin) = dist(o1, oin) - n2
    BY <1>4, <2>1, DistAdvance
  <2>3. QED  BY <1>4, <1>6, <2>2
<1>8. /\ inTurn(obuf, o1, n2, flushed + n1)
      /\ inTurn(obuf, o1 + n2, held - n1 - n2, flushed + n1 + n2)
  <2> HIDE DEF held, o1
  <2>1. held - n1 \in 0 .. limit /\ n2 \in 0 .. held - n1 /\ flushed + n1 \in Nat
    BY <1>1, <1>3, <1>6 DEF OutputOK
  <2>2. QED  BY <1>4, <1>5, <1>6, <2>1, TakenInTurn DEF OutputOK
<1>9. /\ good' = (good /\ inTurn(obuf, oout, n1, flushed) /\ inTurn(obuf, o1, n2, flushed + n1))
      /\ oout' = o1 + n2 /\ flushed' = flushed + n1 + n2
      /\ UNCHANGED <<limit, obuf, oin, sent>>
  BY DEF Flush
<1> HIDE DEF held, o1, atEnd
<1>10. OutputRing'
  <2>1. dist(oout, oin)' = held - n1 - n2
    BY <1>7, <1>9 DEF dist
  <2>2. sent' - flushed' = held - n1 - n2
    BY <1>1, <1>9 DEF OutputOK
  <2>3. inTurn(obuf, oout, sent - flushed, flushed)'
    BY <1>8, <1>9, <2>2 DEF inTurn, dist
  <2>4. QED  BY <2>1, <2>2, <2>3 DEF OutputRing
<1>11. good' = TRUE
  BY <1>5, <1>8, <1>9
<1>12. oout' \in 0 .. limit' /\ flushed' \in Nat
  BY <1>7, <1>9 DEF OutputOK
<1>13. QED  BY <1>9, <1>10, <1>11, <1>12 DEF OutputOK

\* Unrolling both rings into larger buffers leaves the bytes in turn (resize).
LEMMA ResizeKeeps ==
  ASSUME InputOK, OutputOK, limit \in Nat, NEW size \in Nat, Resize(size)
  PROVE  InputOK' /\ OutputOK'
<1>1. \A j \in 0 .. limit : advance(iout, j) \in 0 .. limit /\ advance(oout, j) \in 0 .. limit
  BY DEF advance, InputOK, OutputOK
<1>2. /\ limit' = size /\ size > limit
      /\ iin' = dist(iout, iin) /\ iout' = 0 /\ oin' = dist(oout, oin) /\ oout' = 0
      /\ ibuf' = [j \in 0 .. size |-> IF j <= limit THEN ibuf[advance(iout, j)] ELSE 0]
      /\ obuf' = [j \in 0 .. size |-> IF j <= limit THEN obuf[advance(oout, j)] ELSE 0]
      /\ UNCHANGED <<count, taken, got, arrived, sent, flushed>>
  BY DEF Resize, peer
<1>3. dist(iout, iin) \in 0 .. limit /\ dist(oout, oin) \in 0 .. limit
  BY DistRange DEF InputOK, OutputOK
<1>4. ibuf' \in [0 .. size -> Nat] /\ obuf' \in [0 .. size -> Nat]
  <2>1. ASSUME NEW j \in 0 .. size, j <= limit
        PROVE  ibuf[advance(iout, j)] \in Nat /\ obuf[advance(oout, j)] \in Nat
    <3>1. j \in 0 .. limit
      BY <1>2, <2>1
    <3>2. advance(iout, j) \in 0 .. limit /\ advance(oout, j) \in 0 .. limit
      BY <1>1, <3>1
    <3>3. QED  BY <3>2 DEF InputOK, OutputOK
  <2>2. QED  BY <1>2, <2>1
<1>5. inTurn(ibuf, iout, count, got)'
  <2>1. ASSUME NEW j \in 0 .. size, j < count
        PROVE  ibuf'[j] = got + j
    <3>1. j \in 0 .. limit
      BY <1>2, <1>3, <2>1 DEF InputOK, InputRing
    <3>2. dist(iout, advance(iout, j)) = j
      BY <3>1 DEF dist, advance, InputOK
    <3>3. ibuf[advance(iout, j)] = got + j
      BY <1>1, <2>1, <3>1, <3>2 DEF InputOK, InputRing, inTurn
    <3>4. QED  BY <1>2, <3>1, <3>3
  <2>2. QED  BY <1>2, <2>1 DEF inTurn, dist
<1>6. inTurn(obuf, oout, sent - flushed, flushed)'
  <2>1. ASSUME NEW j \in 0 .. size, j < sent - flushed
        PROVE  obuf'[j] = flushed + j
    <3>1. j \in 0 .. limit
      BY <1>2, <1>3, <2>1 DEF OutputOK, OutputRing
    <3>2. dist(oout, advance(oout, j)) = j
      BY <3>1 DEF dist, advance, OutputOK
    <3>3. obuf[advance(oout, j)] = flushed + j
      BY <1>1, <2>1, <3>1, <3>2 DEF OutputOK, OutputRing, inTurn
    <3>4. QED  BY <1>2, <3>1, <3>3
  <2>2. QED  BY <1>2, <2>1 DEF inTurn, dist
<1>7. dist(iout, iin)' = dist(iout, iin) /\ dist(oout, oin)' = dist(oout, oin)
  <2>1. dist(iout, iin)' = iin' /\ dist(oout, oin)' = oin'
    BY <1>2, <1>3 DEF dist
  <2>2. QED  BY <1>2, <2>1
<1>8. InputRing' /\ OutputRing'
  BY <1>2, <1>5, <1>6, <1>7 DEF InputOK, OutputOK, InputRing, OutputRing
<1>9. InputOK'
  BY <1>2, <1>3, <1>4, <1>8 DEF InputOK
<1>10. OutputOK'
  BY <1>2, <1>3, <1>4, <1>8 DEF OutputOK
<1>11. QED  BY <1>9, <1>10

-----------------------------------------------------------------------------
(* Every step preserves the invariant                                      *)

\* The rest of the invariant: requests are only triggered or dropped, and the
\* buffers grow, except in Wait and Connect.
LEMMA RestKept ==
  ASSUME RestOK, limit' \in Nat, limit' >= limit \/ ~ bound',
         bound' => bound, bound' \in BOOLEAN, shut' \in BOOLEAN, UNCHANGED conns,
         forced' \in BOOLEAN,
         good' = TRUE,
         wl' \in [Awaits -> {"no", "asleep", "due"}],
         \A e \in Awaits : wl'[e] # "no" => wl[e] # "no"
  PROVE  RestOK'
<1>1. MaxBytes \in Nat
  BY BoundMailboxAssumption
<1>2. LongForReceive'
  BY <1>1 DEF RestOK, LongForReceive
<1>3. QED  BY <1>2 DEF RestOK

LEMMA RestSame ==
  ASSUME RestOK, UNCHANGED <<bound, limit, wl, shut, conns, forced, good>>
  PROVE  RestOK'
<1>1. LongForReceive'
  BY DEF RestOK, LongForReceive
<1>2. QED  BY <1>1 DEF RestOK

\* The connection ends, in one of four ways.
LEMMA UnbindKeeps ==
  ASSUME IInv, NEW clear \in BOOLEAN, Unbind(clear), wl' \in [Awaits -> {"no", "asleep", "due"}],
         \A e \in Awaits : wl'[e] # "no" => wl[e] # "no"
  PROVE  IInv'
<1>1. Unbound \in Nat
  BY BoundMailboxAssumption
<1>2. InputOK' /\ OutputOK'
  BY <1>1, FreshRings DEF Unbind
<1>3. RestOK'
  BY <1>1, RestKept DEF IInv, RestOK, Unbind
<1>4. QED  BY <1>2, <1>3 DEF IInv

\* Every step of the main loop's visit to the socket preserves the invariant.
LEMMA PushingKeeps == IInv /\ Pushing => IInv'
<1> SUFFICES ASSUME IInv, Pushing PROVE IInv'
  OBVIOUS
<1> USE DEF IInv
<1>1. ASSUME NEW n1 \in Chunks, NEW n2 \in Chunks, ReadInput(n1, n2)
      PROVE  IInv'
  <2>1. n1 \in Nat /\ n2 \in Nat
    BY BoundMailboxAssumption DEF Chunks
  <2>2. InputOK'
    BY <1>1, <2>1, ReadInputKeeps DEF RestOK
  <2>3. OutputOK'
    BY <1>1, OutputKept DEF ReadInput
  <2>4. /\ wl' \in [Awaits -> {"no", "asleep", "due"}]
        /\ \A e \in Awaits : wl'[e] # "no" => wl[e] # "no"
    BY <1>1 DEF ReadInput, hasInput, trigger, RestOK
  <2>5. RestOK'
    BY <1>1, <2>4, RestKept DEF ReadInput, RestOK, peer
  <2>6. QED  BY <2>2, <2>3, <2>5
<1>2. ASSUME NEW n1 \in Chunks, NEW n2 \in Chunks, Flush(n1, n2)
      PROVE  IInv'
  <2>1. n1 \in Nat /\ n2 \in Nat
    BY BoundMailboxAssumption DEF Chunks
  <2>2. OutputOK' /\ good' = TRUE
    BY <1>2, <2>1, FlushKeeps DEF RestOK
  <2>3. InputOK'
    BY <1>2, InputKept DEF Flush, peer
  <2>4. /\ wl' \in [Awaits -> {"no", "asleep", "due"}]
        /\ \A e \in Awaits : wl'[e] # "no" => wl[e] # "no"
    BY <1>2 DEF Flush, trigger, RestOK
  <2>5. UNCHANGED <<bound, limit, shut, conns, forced>>
    BY <1>2 DEF Flush, peer
  <2>6. RestOK'
    BY <2>2, <2>4, <2>5, RestKept DEF RestOK
  <2>7. QED  BY <2>2, <2>3, <2>6
<1>3. CASE ReadClosed \/ FlushBroken
  <2>1. /\ Unbind(TRUE) \/ Unbind(FALSE)
        /\ wl' \in [Awaits -> {"no", "asleep", "due"}]
        /\ \A e \in Awaits : wl'[e] # "no" => wl[e] # "no"
    BY <1>3 DEF ReadClosed, FlushBroken, trigger, toldOfClose, RestOK
  <2>2. QED  BY <2>1, UnbindKeeps
<1>4. QED  BY <1>1, <1>2, <1>3 DEF Pushing

\* What the other party does preserves the invariant.
LEMMA PeerKeeps == IInv /\ Peer => IInv'
<1> SUFFICES ASSUME IInv, Peer PROVE IInv'
  OBVIOUS
<1> USE DEF IInv
<1>1. CASE Arrive
  <2>1. MaxBytes \in Nat
    BY BoundMailboxAssumption
  <2>2. InputRing'
    BY <1>1 DEF Arrive, inputs, InputOK, InputRing, inTurn, dist
  <2>3. InputOK'
    BY <1>1, <2>1, <2>2 DEF Arrive, inputs, InputOK
  <2>4. OutputOK'
    BY <1>1, OutputKept DEF Arrive
  <2>5. UNCHANGED <<bound, limit, wl, shut, conns, forced, good>>
    BY <1>1 DEF Arrive
  <2>6. RestOK'
    BY <2>5, RestSame
  <2>7. QED  BY <2>3, <2>4, <2>6
<1>2. CASE Close
  <2>1. InputOK' /\ OutputOK'
    BY <1>2, InputKept, OutputKept DEF Close
  <2>2. RestOK'
    BY <1>2, RestKept DEF Close, RestOK
  <2>3. QED  BY <2>1, <2>2
<1>3. QED  BY <1>1, <1>2 DEF Peer

\* A call that takes n bytes and triggers some requests preserves it.
LEMMA TakingKeeps ==
  ASSUME IInv, NEW n \in 0 .. count, consume(n),
         UNCHANGED <<bound, limit, ibuf, iin, taken, outputs, peer, conns, forced>>,
         wl' \in [Awaits -> {"no", "asleep", "due"}],
         \A e \in Awaits : wl'[e] # "no" => wl[e] # "no"
  PROVE  IInv'
<1>1. InputOK' /\ good' = TRUE
  BY Consumed DEF IInv, RestOK, peer
<1>2. OutputOK'
  BY OutputKept DEF IInv
<1>3. RestOK'
  BY <1>1, RestKept DEF IInv, RestOK, peer
<1>4. QED  BY <1>1, <1>2, <1>3 DEF IInv

\* The calls that read the mailbox preserve the invariant.
LEMMA ReadingKeeps ==
  ASSUME IInv, NEW n \in Nat, Get \/ Read(n) \/ readAvailable(n) \/ readToSentinel(n)
  PROVE  IInv'
<1>1. /\ wl' \in [Awaits -> {"no", "asleep", "due"}]
      /\ \A e \in Awaits : wl'[e] # "no" => wl[e] # "no"
      /\ UNCHANGED <<bound, limit, ibuf, iin, taken, outputs, peer, conns, forced>>
  BY DEF Get, Read, readAvailable, readToSentinel, trigger, IInv, RestOK
<1>2. count \in 0 .. limit /\ limit \in Nat /\ iout \in 0 .. limit
  BY DistRange DEF IInv, InputOK, InputRing, RestOK
<1>3. CASE Get
  <2>1. 1 \in 0 .. count /\ consume(1)
    BY <1>2, <1>3 DEF Get
  <2>2. QED  BY <1>1, <2>1, TakingKeeps
<1>4. CASE Read(n)
  BY <1>1, <1>2, <1>4, TakingKeeps DEF Read
<1>5. CASE readAvailable(n)
  BY <1>1, <1>2, <1>5, TakingKeeps DEF readAvailable, Lesser
<1>6. CASE readToSentinel(n)
  <2> DEFINE m == Lesser(n, IF sentinelFound > 0 THEN sentinelFound ELSE count)
  <2>1. m \in 0 .. count
    BY <1>2, SentinelRange DEF Lesser
  <2>2. consume(m)
    BY <1>6 DEF readToSentinel
  <2> HIDE DEF m
  <2>3. QED  BY <1>1, <2>1, <2>2, TakingKeeps
<1>7. QED  BY <1>3, <1>4, <1>5, <1>6

\* The calls that write to the mailbox preserve the invariant.
LEMMA WritingKeeps ==
  ASSUME IInv, NEW n \in Nat, Put \/ Write(n)
  PROVE  IInv'
<1> USE DEF IInv
<1>1. InputOK'
  BY InputKept DEF Put, Write, peer
<1>2. OutputOK'
  <2>1. CASE Put
    <3>1. dist(oout, oin) + 1 <= limit
      BY <2>1 DEF Put, advance, dist, OutputOK, RestOK
    <3>2. QED  BY <2>1, <3>1, Stored DEF Put, RestOK
  <2>2. CASE Write(n)
    <3>1. dist(oout, oin) + n <= limit
      BY <2>2 DEF Write, free, dist, OutputOK, RestOK
    <3>2. QED  BY <2>2, <3>1, Stored DEF Write, RestOK
  <2>3. QED  BY <2>1, <2>2
<1>3. RestOK'
  BY RestSame DEF Put, Write, peer
<1>4. QED  BY <1>1, <1>2, <1>3

\* RECEIVE takes one byte where its ring does not wrap: there the main loop's
\* arithmetic (main.cc, "++iout == limit") and that of the ring are the same.
LEMMA ReceiveConsumes ==
  ASSUME IInv, ~ ReceiveWraps, Receive
  PROVE  consume(1)
<1>1. /\ RECEIVE \in Awaits /\ wl[RECEIVE] = "due" /\ bound /\ count > 0
      /\ good' = (good /\ iout <= limit /\ ibuf[iout] = got)
      /\ iout' = (IF iout + 1 = limit THEN 0 ELSE iout + 1)
      /\ count' = count - 1 /\ got' = got + 1
      /\ wl' = [wl EXCEPT ![RECEIVE] = "no"]
      /\ UNCHANGED <<bound, limit, ibuf, iin, taken, outputs, peer, conns, forced>>
  BY DEF Receive
<1>2. limit > MaxBytes
  BY <1>1 DEF IInv, RestOK, LongForReceive
<1>3. iout < MaxBytes
  <2>1. got < taken
    <3>1. count \in Nat /\ taken \in Nat /\ got \in Nat /\ count = taken - got
      BY DEF IInv, InputOK, InputRing
    <3>2. QED  BY <1>1, <3>1
  <2>2. iout <= got /\ taken <= arrived /\ arrived <= MaxBytes
    BY DEF IInv, InputOK, InputRing
  <2>3. iout \in Nat /\ got \in Nat /\ taken \in Nat /\ arrived \in Nat /\ MaxBytes \in Nat
    BY BoundMailboxAssumption DEF IInv, InputOK, RestOK
  <2>4. QED  BY <2>1, <2>2, <2>3
<1>4. iout' = advance(iout, 1)
  BY <1>1, <1>2, <1>3, BoundMailboxAssumption DEF advance, IInv, InputOK, RestOK
<1>5. inTurn(ibuf, iout, 1, got) <=> ibuf[iout] = got
  <2>1. \A j \in 0 .. limit : dist(iout, j) < 1 <=> j = iout
    BY DEF dist, IInv, InputOK, RestOK
  <2>2. dist(iout, iout) = 0
    BY DEF dist, IInv, InputOK, RestOK
  <2>3. QED  BY <2>1, <2>2 DEF inTurn, IInv, InputOK
<1>6. QED
  BY <1>1, <1>4, <1>5 DEF consume, IInv, InputOK, RestOK

LEMMA ReceiveKeeps ==
  ASSUME IInv, ~ ReceiveWraps, Receive
  PROVE  IInv'
<1>1. /\ 1 \in 0 .. count
      /\ UNCHANGED <<bound, limit, ibuf, iin, taken, outputs, peer, conns, forced>>
  BY DEF Receive, IInv, InputOK
<1>2. /\ wl' \in [Awaits -> {"no", "asleep", "due"}]
      /\ \A e \in Awaits : wl'[e] # "no" => wl[e] # "no"
  BY DEF Receive, IInv, RestOK
<1>3. QED  BY <1>1, <1>2, ReceiveConsumes, TakingKeeps

\* Every call of the program preserves the invariant.
LEMMA ProgramKeeps ==
  ASSUME IInv, ~ ReceiveWraps, Program
  PROVE  IInv'
<1> USE DEF IInv
<1>1. ASSUME NEW size \in Sizes, Connect(size)
      PROVE  IInv'
  <2>1. size \in Nat
    BY BoundMailboxAssumption
  <2>2. InputOK' /\ OutputOK'
    BY <1>1, <2>1, FreshRings DEF Connect
  <2>3. LongForReceive'
    BY <1>1 DEF Connect, LongForReceive
  <2>4. /\ conns' \in Nat /\ limit' \in Nat
        /\ bound' \in BOOLEAN /\ shut' \in BOOLEAN /\ forced' \in BOOLEAN
    <3>1. conns' = conns + 1 /\ limit' = size /\ bound' = TRUE /\ shut' = FALSE /\ forced' = FALSE
      BY <1>1 DEF Connect
    <3>2. conns' \in Nat /\ limit' \in Nat
      BY <2>1, <3>1 DEF RestOK
    <3>3. bound' \in BOOLEAN /\ shut' \in BOOLEAN /\ forced' \in BOOLEAN
      BY <3>1
    <3>4. QED  BY <3>2, <3>3
  <2>5. wl' = wl /\ good' = good
    BY <1>1 DEF Connect
  <2>6. RestOK'
    BY <2>3, <2>4, <2>5 DEF RestOK
  <2>7. QED  BY <2>2, <2>6
<1>2. ASSUME NEW size \in Sizes, Resize(size)
      PROVE  IInv'
  <2>1. size \in Nat
    BY BoundMailboxAssumption
  <2>2. InputOK' /\ OutputOK'
    BY <1>2, <2>1, ResizeKeeps DEF RestOK
  <2>3. UNCHANGED <<bound, wl, shut, conns, forced, good>> /\ limit' = size /\ size > limit
    BY <1>2 DEF Resize, peer
  <2>4. RestOK'
    BY <2>1, <2>3, RestKept DEF RestOK
  <2>5. QED  BY <2>2, <2>4
<1>3. CASE Disconnect \/ DisconnectClear
  <2>1. /\ Unbind(TRUE) \/ Unbind(FALSE)
        /\ wl' \in [Awaits -> {"no", "asleep", "due"}]
        /\ \A e \in Awaits : wl'[e] # "no" => wl[e] # "no"
    BY <1>3 DEF Disconnect, DisconnectClear, trigger, toldOfClose, RestOK
  <2>2. QED  BY <2>1, UnbindKeeps
<1>4. ASSUME NEW n \in Chunks, Get \/ Read(n) \/ readAvailable(n) \/ readToSentinel(n)
      PROVE  IInv'
  BY <1>4, ReadingKeeps, BoundMailboxAssumption DEF Chunks
<1>5. ASSUME NEW n \in Chunks, Put \/ Write(n)
      PROVE  IInv'
  BY <1>5, WritingKeeps, BoundMailboxAssumption DEF Chunks
<1>6. CASE Erase
  <2>1. InputOK'
    <3>1. /\ count' = 0 /\ iin' = 0 /\ iout' = 0 /\ got' = taken
          /\ UNCHANGED <<limit, ibuf, taken, arrived>>
      BY <1>6 DEF Erase, peer
    <3>2. dist(iout, iin)' = 0 /\ inTurn(ibuf, iout, count, got)'
      BY <3>1 DEF dist, inTurn, RestOK
    <3>3. InputRing'
      BY <3>1, <3>2 DEF InputRing, InputOK
    <3>4. QED  BY <3>1, <3>3 DEF InputOK, RestOK
  <2>2. OutputOK'
    BY <1>6, OutputKept DEF Erase
  <2>3. /\ wl' \in [Awaits -> {"no", "asleep", "due"}]
        /\ \A e \in Awaits : wl'[e] # "no" => wl[e] # "no"
    BY <1>6 DEF Erase, trigger, RestOK
  <2>4. UNCHANGED <<bound, limit, shut, conns, forced, good>>
    BY <1>6 DEF Erase, peer
  <2>5. RestOK'
    BY <2>3, <2>4, RestKept DEF RestOK
  <2>6. QED  BY <2>1, <2>2, <2>5
<1>7. ASSUME NEW e \in Awaits, Wait(e)
      PROVE  IInv'
  <2>1. UNCHANGED <<bound, limit, inputs, outputs, peer, conns, forced, good>>
    BY <1>7 DEF Wait
  <2>2. InputOK' /\ OutputOK'
    BY <2>1, InputKept, OutputKept DEF peer
  <2>3. wl' \in [Awaits -> {"no", "asleep", "due"}]
    BY <1>7 DEF Wait, RestOK
  <2>4. LongForReceive'
    <3>1. CASE e = RECEIVE
      BY <1>7, <2>1, <3>1 DEF Wait, LongForReceive
    <3>2. CASE e # RECEIVE
      BY <1>7, <2>1, <3>2 DEF Wait, LongForReceive, RestOK
    <3>3. QED  BY <3>1, <3>2
  <2>5. RestOK'
    BY <2>1, <2>3, <2>4 DEF RestOK, peer
  <2>6. QED  BY <2>2, <2>5
<1>8. ASSUME NEW e \in Awaits, Restart(e) \/ BackToQueue
      PROVE  IInv'
  <2>1. UNCHANGED <<bound, limit, inputs, outputs, peer, conns, forced, good>>
    BY <1>8 DEF Restart, BackToQueue
  <2>2. InputOK' /\ OutputOK'
    BY <2>1, InputKept, OutputKept DEF peer
  <2>3. /\ wl' \in [Awaits -> {"no", "asleep", "due"}]
        /\ \A f \in Awaits : wl'[f] # "no" => wl[f] # "no"
    BY <1>8 DEF Restart, BackToQueue, RestOK
  <2>4. RestOK'
    BY <2>1, <2>3, RestKept DEF RestOK, peer
  <2>5. QED  BY <2>2, <2>4
<1>9. CASE BackToQueue
  BY <1>8, <1>9 DEF BackToQueue
<1>10. CASE Receive
  BY <1>10, ReceiveKeeps
<1>11. Get \/ Put => 0 \in Chunks
  BY BoundMailboxAssumption DEF Chunks
<1>12. QED
  BY <1>1, <1>2, <1>3, <1>4, <1>5, <1>6, <1>7, <1>8, <1>9, <1>10, <1>11 DEF Program

LEMMA NextKeeps ==
  ASSUME IInv, ~ ReceiveWraps, [Next]_vars
  PROVE  IInv'
<1>1. CASE Next
  BY <1>1, PushingKeeps, ProgramKeeps, PeerKeeps DEF Next
<1>2. CASE UNCHANGED vars
  <2>1. UNCHANGED <<bound, limit, inputs, outputs, wl, peer, conns, forced, good>>
    BY <1>2 DEF vars
  <2>2. InputOK' /\ OutputOK'
    BY <2>1, InputKept, OutputKept DEF IInv, peer
  <2>3. RestOK'
    BY <2>1, RestSame DEF IInv, peer
  <2>4. QED  BY <2>2, <2>3 DEF IInv
<1>3. QED  BY <1>1, <1>2

-----------------------------------------------------------------------------
(* The theorems                                                            *)

\* The invariant holds in every behaviour without RECEIVE on a ring that wraps.
LEMMA Invariance ==
  ASSUME ~ ReceiveWraps
  PROVE  Spec => []IInv
<1>1. Init => IInv
  BY InvInit
<1>2. IInv /\ [Next]_vars => IInv'
  BY NextKeeps
<1>3. QED  BY <1>1, <1>2, PTL DEF Spec

\* Indices stay within the rings, counters do not go negative, and requests
\* are asleep, due or dropped (connect.h, all operations).
THEOREM TypeCorrect ==
  ASSUME ~ ReceiveWraps
  PROVE  Spec => []TypeOK
BY Invariance, IInvImplies, PTL

\* The indices, the counter and the contents of both rings agree with the
\* streams through every partial read and write, wrap-around, resize and
\* erase (connect.h readInput, flushOutput, read, write, resize).
THEOREM RingsAlwaysAgree ==
  ASSUME ~ ReceiveWraps
  PROVE  Spec => []RingsAgree
BY Invariance, IInvImplies, PTL

\* No byte is lost, repeated or reordered between the socket and the program,
\* in either direction (connect.h; mailbox.cc zz_get, zz_put, zz_erase).
THEOREM StreamsInOrder ==
  ASSUME ~ ReceiveWraps
  PROVE  Spec => []BytesInOrder
BY Invariance, IInvImplies, PTL

\* A connection is given up with input pending by disconnect (CLEAR) only, and
\* with output pending only when the other party is gone (connect.h rawRead,
\* rawWrite, disconnect).
THEOREM NothingPendingIsLost ==
  ASSUME ~ ReceiveWraps
  PROVE  Spec => NothingPendingLost
<1>1. ASSUME IInv, Next, bound, ~ bound', ~ forced'
      PROVE  count = 0 /\ (oin = oout \/ shut)
  <2>1. Disconnect \/ DisconnectClear \/ ReadClosed \/ FlushBroken
    BY <1>1 DEF Next, Pushing, Program, Peer, ReadInput, Flush, Connect, Resize,
                Get, Erase, Put, Read, readAvailable, readToSentinel, Write, Wait,
                Restart, Receive, BackToQueue, Close, Arrive
  <2>2. CASE Disconnect
    BY <2>2 DEF Disconnect, Quiet
  <2>3. CASE ReadClosed
    BY <1>1, <2>3, DistRange DEF ReadClosed, drained, IInv, InputOK, InputRing, RestOK
  <2>4. CASE FlushBroken
    BY <2>4 DEF FlushBroken
  <2>5. ~ DisconnectClear
    BY <1>1 DEF DisconnectClear, Unbind
  <2>6. QED  BY <2>1, <2>2, <2>3, <2>4, <2>5
<1>2. IInv /\ [Next]_vars =>
        [bound /\ ~ bound' /\ ~ forced' => count = 0 /\ (oin = oout \/ shut)]_vars
  BY <1>1
<1>3. QED  BY <1>2, Invariance, PTL DEF Spec, NothingPendingLost

-----------------------------------------------------------------------------
(* Wakeups                                                                 *)

\* What checkImmediate finds, in terms of the ring.
Immediate(e) ==
  \/ e \in {NONEMPTY, RECEIVE} /\ count > 0
  \/ e = SENTINEL /\ (HasSentinel \/ count = limit)
  \/ e >= 0 /\ count >= e

LEMMA ImmediateIff ==
  InputOK /\ limit \in Nat => \A e \in Awaits : checkImmediate(e) <=> Immediate(e)
<1> SUFFICES ASSUME InputOK, limit \in Nat, NEW e \in Awaits
             PROVE  checkImmediate(e) <=> Immediate(e)
  OBVIOUS
<1>1. sentinelFound > 0 <=> HasSentinel
  <2>1. count \in 0 .. limit /\ iout \in 0 .. limit
    BY DistRange DEF InputOK, InputRing
  <2>2. QED  BY <2>1, SentinelRange
<1>2. QED  BY <1>1 DEF checkImmediate, Immediate

\* NoLostInput in these terms; a buffer has room for a byte.
Awake == bound => limit > 0 /\ \A e \in Awaits : wl[e] = "asleep" => ~ Immediate(e)

LEMMA AwakeIff == IInv /\ Awake => NoLostInput
BY ImmediateIff DEF IInv, RestOK, Awake, NoLostInput

\* Nothing becomes immediate when bytes leave the input ring.
LEMMA LessInput ==
  ASSUME IInv, limit > 0, NEW n \in 0 .. count, consume(n), UNCHANGED <<limit, ibuf>>,
         NEW e \in Awaits, ~ Immediate(e)
  PROVE  ~ Immediate(e)'
<1>1. count \in 0 .. limit /\ limit \in Nat /\ iout \in 0 .. limit /\ count = dist(iout, iin)
  BY DistRange DEF IInv, InputOK, InputRing, RestOK
<1>2. count' = count - n /\ iout' = advance(iout, n)
  BY DEF consume
<1>3. HasSentinel' => HasSentinel
  <2>1. ASSUME NEW j \in 0 .. limit, dist(iout', j) < count'
        PROVE  dist(iout, j) < count
    BY <1>1, <1>2, <2>1 DEF dist, advance
  <2>2. \A j \in 0 .. limit : dist(iout, j)' = dist(iout', j)
    BY DEF dist
  <2>3. QED  BY <2>1, <2>2 DEF HasSentinel
<1>4. count' = limit => count = limit
  BY <1>1, <1>2
<1>5. e \in Int
  BY BoundMailboxAssumption
<1>6. count' > 0 => count > 0
  BY <1>1, <1>2
<1>7. e >= 0 /\ count' >= e => count >= e
  BY <1>1, <1>2, <1>5
<1>8. QED  BY <1>3, <1>4, <1>6, <1>7 DEF Immediate

\* Nothing becomes immediate when the input ring is left alone.
LEMMA SameInput ==
  ASSUME UNCHANGED <<limit, iout, count, ibuf>>, NEW e \in Awaits
  PROVE  Immediate(e)' <=> Immediate(e)
BY DEF Immediate, HasSentinel, dist

LEMMA AwakeKept ==
  ASSUME IInv, ~ ReceiveWraps, Awake, Next
  PROVE  Awake'
<1> SUFFICES ASSUME bound' PROVE limit' > 0 /\ \A e \in Awaits : wl'[e] = "asleep" => ~ Immediate(e)'
  BY DEF Awake
<1> USE DEF Awake
<1>1. ASSUME bound, UNCHANGED <<limit, iout, count, ibuf>>,
             \A e \in Awaits : wl'[e] = "asleep" => wl[e] = "asleep"
      PROVE  limit' > 0 /\ \A e \in Awaits : wl'[e] = "asleep" => ~ Immediate(e)'
  BY <1>1, SameInput
<1>2. ASSUME bound, NEW n \in 0 .. count, consume(n), UNCHANGED <<limit, ibuf>>,
             \A e \in Awaits : wl'[e] = "asleep" => wl[e] = "asleep"
      PROVE  limit' > 0 /\ \A e \in Awaits : wl'[e] = "asleep" => ~ Immediate(e)'
  BY <1>2, LessInput
<1>3. ASSUME NEW n1 \in Chunks, NEW n2 \in Chunks, ReadInput(n1, n2)
      PROVE  limit' > 0 /\ \A e \in Awaits : wl'[e] = "asleep" => ~ Immediate(e)'
  <2> DEFINE found == \E j \in 0 .. limit : dist(iout, j) < count' /\ ibuf'[j] \in Sentinels
  <2>1. /\ bound /\ limit' = limit /\ iout' = iout
        /\ wl' = hasInput(count', count' = limit \/ found)
    BY <1>3 DEF ReadInput
  <2>2. HasSentinel' <=> found
    BY <2>1 DEF HasSentinel, dist
  <2> HIDE DEF found
  <2>3. count' \in Nat
    BY <1>3, ReadInputKeeps, BoundMailboxAssumption DEF IInv, RestOK, Chunks, InputOK
  <2>4. ASSUME NEW e \in Awaits, wl'[e] = "asleep"
        PROVE  /\ e \notin {NEWITEM, NONEMPTY, RECEIVE}
               /\ ~ (e = SENTINEL /\ (count' = limit \/ found))
               /\ ~ (e >= 0 /\ e <= count')
    <3>1. e \in Int
      BY BoundMailboxAssumption
    <3>2. /\ e \notin {NEWITEM, NONEMPTY, RECEIVE}
          /\ e \notin 0 .. count'
          /\ (count' = limit \/ found) => e # SENTINEL
      BY <2>1, <2>4 DEF hasInput, trigger, IInv, RestOK
    <3>3. QED  BY <3>1, <3>2, <2>3
  <2>5. ASSUME NEW e \in Awaits, wl'[e] = "asleep"
        PROVE  ~ Immediate(e)'
    <3>1. e \in Int
      BY BoundMailboxAssumption
    <3>2. ~ (e >= 0 /\ count' >= e)
      BY <2>3, <2>4, <2>5, <3>1
    <3>3. QED  BY <2>1, <2>2, <2>4, <2>5, <3>2 DEF Immediate
  <2>6. QED  BY <2>1, <2>5
<1>4. ASSUME NEW n1 \in Chunks, NEW n2 \in Chunks, Flush(n1, n2)
      PROVE  limit' > 0 /\ \A e \in Awaits : wl'[e] = "asleep" => ~ Immediate(e)'
  <2>1. /\ bound /\ UNCHANGED <<limit, iout, count, ibuf>>
        /\ \A e \in Awaits : wl'[e] = "asleep" => wl[e] = "asleep"
    BY <1>4 DEF Flush, inputs, trigger, IInv, RestOK
  <2>2. QED  BY <1>1, <2>1
<1>5. CASE ReadClosed \/ FlushBroken \/ Disconnect \/ DisconnectClear
  BY <1>5 DEF ReadClosed, FlushBroken, Disconnect, DisconnectClear, Unbind
<1>6. ASSUME NEW size \in Sizes, Connect(size)
      PROVE  limit' > 0 /\ \A e \in Awaits : wl'[e] = "asleep" => ~ Immediate(e)'
  BY <1>6, BoundMailboxAssumption DEF Connect
<1>7. ASSUME NEW size \in Sizes, Resize(size)
      PROVE  limit' > 0 /\ \A e \in Awaits : wl'[e] = "asleep" => ~ Immediate(e)'
  <2>1. /\ bound /\ limit' = size /\ size > limit /\ size \in Nat /\ limit \in Nat /\ iout' = 0
        /\ ibuf' = [j \in 0 .. size |-> IF j <= limit THEN ibuf[advance(iout, j)] ELSE 0]
        /\ UNCHANGED <<count, wl>>
    BY <1>7, BoundMailboxAssumption DEF Resize, IInv, RestOK
  <2>2. count \in 0 .. limit /\ iout \in 0 .. limit
    BY <2>1, DistRange DEF IInv, InputOK, InputRing
  <2>3. HasSentinel' => HasSentinel
    <3>1. SUFFICES ASSUME NEW j \in 0 .. size, dist(iout, j)' < count, ibuf'[j] \in Sentinels
                   PROVE  HasSentinel
      BY <2>1 DEF HasSentinel, dist
    <3>2. j < count /\ j <= limit
      BY <2>1, <2>2, <3>1 DEF dist
    <3>3. advance(iout, j) \in 0 .. limit /\ dist(iout, advance(iout, j)) = j
      BY <2>1, <2>2, <3>2 DEF dist, advance
    <3>4. ibuf[advance(iout, j)] \in Sentinels
      BY <2>1, <3>1, <3>2
    <3>5. QED  BY <3>2, <3>3, <3>4 DEF HasSentinel
  <2>4. count' # limit' /\ limit' > 0
    BY <2>1, <2>2
  <2>5. QED  BY <2>1, <2>3, <2>4 DEF Immediate
<1>8. ASSUME NEW n \in Chunks, Get \/ Read(n) \/ readAvailable(n) \/ readToSentinel(n)
      PROVE  limit' > 0 /\ \A e \in Awaits : wl'[e] = "asleep" => ~ Immediate(e)'
  <2>1. count \in 0 .. limit /\ limit \in Nat /\ iout \in 0 .. limit /\ n \in Nat
    <3>1. count \in 0 .. limit /\ limit \in Nat /\ iout \in 0 .. limit
      BY DistRange DEF IInv, InputOK, InputRing, RestOK
    <3>2. QED  BY <3>1, BoundMailboxAssumption DEF Chunks
  <2>2. /\ bound /\ UNCHANGED <<limit, ibuf>>
        /\ \A e \in Awaits : wl'[e] = "asleep" => wl[e] = "asleep"
    BY <1>8 DEF Get, Read, readAvailable, readToSentinel, trigger, IInv, RestOK
  <2>3. \E m \in 0 .. count : consume(m)
    <3>1. CASE Get
      BY <2>1, <3>1 DEF Get
    <3>2. CASE Read(n)
      BY <2>1, <3>2 DEF Read
    <3>3. CASE readAvailable(n)
      BY <2>1, <3>3 DEF readAvailable, Lesser
    <3>4. CASE readToSentinel(n)
      BY <2>1, <3>4, SentinelRange DEF readToSentinel, Lesser
    <3>5. QED  BY <1>8, <3>1, <3>2, <3>3, <3>4
  <2>4. QED  BY <1>2, <2>2, <2>3
<1>9. CASE Receive
  <2>1. /\ bound /\ 1 \in 0 .. count /\ UNCHANGED <<limit, ibuf>>
        /\ \A e \in Awaits : wl'[e] = "asleep" => wl[e] = "asleep"
    BY <1>9 DEF Receive, IInv, InputOK, RestOK
  <2>2. QED  BY <1>2, <1>9, <2>1, ReceiveConsumes
<1>10. CASE Erase
  <2>1. /\ bound /\ limit' = limit /\ count' = 0 /\ iout' = 0
        /\ \A e \in Awaits : wl'[e] = "asleep" => e \notin {0, GET}
    BY <1>10 DEF Erase, trigger, IInv, RestOK
  <2>2. ~ HasSentinel'
    BY <2>1 DEF HasSentinel, dist, IInv, RestOK
  <2>3. Awaits \subseteq Int
    BY BoundMailboxAssumption
  <2>4. QED  BY <2>1, <2>2, <2>3 DEF Immediate
<1>11. ASSUME NEW n \in Chunks, Put \/ Write(n) \/ Arrive \/ Close
       PROVE  limit' > 0 /\ \A e \in Awaits : wl'[e] = "asleep" => ~ Immediate(e)'
  <2>1. bound /\ UNCHANGED <<limit, iout, count, ibuf, wl>>
    BY <1>11 DEF Put, Write, Arrive, Close, inputs
  <2>2. QED  BY <1>1, <2>1
<1>12. ASSUME NEW e \in Awaits, Wait(e)
       PROVE  limit' > 0 /\ \A f \in Awaits : wl'[f] = "asleep" => ~ Immediate(f)'
  <2>1. /\ bound /\ UNCHANGED <<limit, iout, count, ibuf>>
        /\ \A f \in Awaits : wl'[f] = "asleep" => wl[f] = "asleep" \/ (f = e /\ ~ checkImmediate(e))
    BY <1>12 DEF Wait, inputs, IInv, RestOK
  <2>2. checkImmediate(e) <=> Immediate(e)
    BY ImmediateIff DEF IInv, RestOK
  <2>3. QED  BY <2>1, <2>2, SameInput
<1>13. ASSUME NEW e \in Awaits, Restart(e)
       PROVE  limit' > 0 /\ \A f \in Awaits : wl'[f] = "asleep" => ~ Immediate(f)'
  <2>1. /\ bound /\ UNCHANGED <<limit, iout, count, ibuf>>
        /\ \A f \in Awaits : wl'[f] = "asleep" => wl[f] = "asleep"
    BY <1>13 DEF Restart, inputs, IInv, RestOK
  <2>2. QED  BY <1>1, <2>1
<1>14. CASE BackToQueue
  <2>1. /\ bound /\ UNCHANGED <<limit, iout, count, ibuf>> /\ count = 0
        /\ \A f \in Awaits : wl'[f] = "asleep" => wl[f] = "asleep" \/ f = RECEIVE
    BY <1>14 DEF BackToQueue, inputs, IInv, RestOK
  <2>2. ~ Immediate(RECEIVE)
    BY <2>1 DEF Immediate, RECEIVE, NONEMPTY, SENTINEL
  <2>3. QED  BY <2>1, <2>2, SameInput
<1>15. 0 \in Chunks
  BY BoundMailboxAssumption DEF Chunks
<1>16. QED
  BY <1>3, <1>4, <1>5, <1>6, <1>7, <1>8, <1>9, <1>10, <1>11, <1>12, <1>13, <1>14, <1>15
     DEF Next, Pushing, Program, Peer

\* Nobody sleeps for input that is there (connect.h readInput; mailbox.cc
\* checkImmediate, wait).
THEOREM NoInputIsLost ==
  ASSUME ~ ReceiveWraps
  PROVE  Spec => []NoLostInput
<1>1. Init => Awake
  BY DEF Init, Awake
<1>2. IInv /\ Awake /\ [Next]_vars => Awake'
  <2>1. ASSUME IInv, Awake, UNCHANGED vars PROVE Awake'
    <3>1. UNCHANGED <<bound, limit, iout, count, ibuf, wl>>
      BY <2>1 DEF vars, inputs
    <3>2. QED  BY <2>1, <3>1, SameInput DEF Awake
  <2>2. QED  BY <2>1, AwakeKept
<1>3. QED  BY <1>1, <1>2, Invariance, AwakeIff, PTL DEF Spec

-----------------------------------------------------------------------------
(* Streams                                                                 *)

\* n bytes in turn, the first one of which has the number first.
Numbered(first, n) == [k \in 1 .. n |-> first + k - 1]

\* Bytes of a ring that are in turn are a sequence of successive numbers.
LEMMA InTurnNumbered ==
  ASSUME limit \in Nat, NEW buf \in [0 .. limit -> Nat], NEW o \in 0 .. limit,
         NEW n \in 0 .. limit, NEW first \in Nat, inTurn(buf, o, n, first)
  PROVE  ringBytes(buf, o, n) = Numbered(first, n)
<1>1. ASSUME NEW k \in 1 .. n
      PROVE  buf[advance(o, k - 1)] = first + k - 1
  <2>1. advance(o, k - 1) \in 0 .. limit /\ dist(o, advance(o, k - 1)) = k - 1
    BY DEF advance, dist
  <2>2. buf[advance(o, k - 1)] = first + (k - 1)
    BY <2>1 DEF inTurn
  <2>3. QED  BY <2>2
<1>2. QED  BY <1>1 DEF ringBytes, Numbered

LEMMA NumberedJoin ==
  ASSUME NEW a \in Nat, NEW n \in Nat, NEW m \in Nat
  PROVE  Numbered(a, n) \o [i \in 1 .. m |-> a + n + i - 1] = Numbered(a, n + m)
<1> DEFINE r == [i \in 1 .. m |-> a + n + i - 1]
<1>1. Numbered(a, n) \in Seq(Nat) /\ Len(Numbered(a, n)) = n
  BY DEF Numbered
<1>2. r \in Seq(Nat) /\ Len(r) = m
  OBVIOUS
<1>3. \A k \in 1 .. n + m : (Numbered(a, n) \o r)[k] = a + k - 1
  BY <1>1, <1>2 DEF Numbered
<1>4. Numbered(a, n) \o r \in Seq(Nat) /\ Len(Numbered(a, n) \o r) = n + m
  BY <1>1, <1>2
<1> HIDE DEF r
<1>5. QED  BY <1>3, <1>4 DEF Numbered

LEMMA NumberedRest ==
  ASSUME NEW a \in Nat, NEW n \in Nat, NEW m \in 0 .. n
  PROVE  /\ Len(Numbered(a, n)) = n
         /\ SubSeq(Numbered(a, n), m + 1, n) = Numbered(a + m, n - m)
<1>1. Numbered(a, n) \in Seq(Nat) /\ Len(Numbered(a, n)) = n
  BY DEF Numbered
<1> DEFINE r == SubSeq(Numbered(a, n), m + 1, n)
<1>2. r \in Seq(Nat) /\ Len(r) = n - m
  BY <1>1
<1>3. \A k \in 1 .. n - m : r[k] = a + m + k - 1
  BY <1>1 DEF Numbered
<1> HIDE DEF r
<1>4. r = [k \in 1 .. n - m |-> a + m + k - 1]
  BY <1>2, <1>3
<1>5. QED  BY <1>1, <1>4 DEF r, Numbered

\* What the rings hold is what was written and not taken.
LEMMA HeldIs ==
  ASSUME IInv
  PROVE  /\ ringBytes(ibuf, iout, count) = Numbered(got, taken - got)
         /\ ringBytes(obuf, oout, dist(oout, oin)) = Numbered(flushed, sent - flushed)
         /\ taken - got \in Nat /\ sent - flushed \in Nat
         /\ {taken, got, sent, flushed} \subseteq Nat
         /\ count = taken - got /\ dist(oout, oin) = sent - flushed
<1>1. /\ count \in 0 .. limit /\ dist(oout, oin) \in 0 .. limit
      /\ count = taken - got /\ dist(oout, oin) = sent - flushed
  <2>1. count = dist(iout, iin) /\ count = taken - got /\ dist(oout, oin) = sent - flushed
    BY DEF IInv, InputOK, InputRing, OutputOK, OutputRing
  <2>2. /\ limit \in Nat /\ iin \in 0 .. limit /\ iout \in 0 .. limit
        /\ oin \in 0 .. limit /\ oout \in 0 .. limit
    BY DEF IInv, InputOK, OutputOK, RestOK
  <2>3. dist(iout, iin) \in 0 .. limit /\ dist(oout, oin) \in 0 .. limit
    BY <2>2, DistRange
  <2>4. QED  BY <2>1, <2>3
<1>2. ringBytes(ibuf, iout, count) = Numbered(got, count)
  BY <1>1, InTurnNumbered DEF IInv, InputOK, InputRing, RestOK
<1>3. ringBytes(obuf, oout, dist(oout, oin)) = Numbered(flushed, dist(oout, oin))
  <2>1. inTurn(obuf, oout, dist(oout, oin), flushed)
    BY DEF IInv, OutputOK, OutputRing
  <2>2. QED  BY <1>1, <2>1, InTurnNumbered DEF IInv, OutputOK, RestOK
<1>4. QED  BY <1>1, <1>2, <1>3 DEF IInv, InputOK, OutputOK, RestOK

Holding ==
  /\ ringBytes(ibuf, iout, count) = Numbered(got, taken - got)
  /\ ringBytes(obuf, oout, dist(oout, oin)) = Numbered(flushed, sent - flushed)
  /\ {taken, got, sent, flushed} \subseteq Nat /\ got <= taken /\ flushed <= sent

LEMMA AlwaysHolding == IInv => Holding
BY HeldIs DEF Holding

LEMMA StillHolding == IInv' => Holding'
BY AlwaysHolding, PTL

\* A connection begins, or ends.
Unread == taken' = 0 /\ got' = 0 /\ sent' = 0 /\ flushed' = 0 /\ shut' = FALSE

Begins == ~ bound /\ bound' /\ forced' = FALSE /\ Unread

Ends ==
  /\ bound /\ ~ bound' /\ forced' \in BOOLEAN /\ Unread
  /\ forced' \/ (count = 0 /\ (oin = oout \/ shut))

\* What a step may do to the numbers of the bytes.
LEMMA Transfers ==
  ASSUME IInv, ~ ReceiveWraps, [Next]_vars
  PROVE  \/ Begins
         \/ Ends
         \/ UNCHANGED <<bound, forced, taken, got, sent, flushed, shut>>
         \/ bound /\ shut' = TRUE /\ UNCHANGED <<bound, forced, taken, got, sent, flushed>>
         \/ bound /\ taken' > taken /\ UNCHANGED <<bound, forced, got, sent, flushed, shut>>
         \/ bound /\ got' > got /\ UNCHANGED <<bound, forced, taken, sent, flushed, shut>>
         \/ bound /\ sent' > sent /\ UNCHANGED <<bound, forced, taken, got, flushed, shut>>
         \/ bound /\ flushed' > flushed /\ UNCHANGED <<bound, forced, taken, got, sent, shut>>
<1>1. /\ {taken, got, sent, flushed, count} \subseteq Nat /\ count = taken - got
      /\ got <= taken
      /\ iin = iout => count = 0
  <2>1. count = dist(iout, iin)
    BY DEF IInv, InputOK, InputRing
  <2>2. iin = iout => count = 0
    BY <2>1, DistRange DEF IInv, InputOK, RestOK
  <2>3. QED  BY <2>2, HeldIs
<1>2. ASSUME NEW n1 \in Chunks, NEW n2 \in Chunks, ReadInput(n1, n2)
      PROVE  bound /\ taken' > taken /\ UNCHANGED <<bound, forced, got, sent, flushed, shut>>
  BY <1>1, <1>2, BoundMailboxAssumption DEF ReadInput, outputs, peer, Chunks
<1>3. ASSUME NEW n1 \in Chunks, NEW n2 \in Chunks, Flush(n1, n2)
      PROVE  bound /\ flushed' > flushed /\ UNCHANGED <<bound, forced, taken, got, sent, shut>>
  <2>1. n1 \in Nat /\ n2 \in Nat /\ n1 > 0
    BY <1>3, BoundMailboxAssumption DEF Flush, Chunks
  <2>2. /\ bound /\ flushed' = flushed + n1 + n2
        /\ UNCHANGED <<bound, forced, taken, got, sent, shut>>
    BY <1>3 DEF Flush, inputs, peer
  <2>3. QED  BY <1>1, <2>1, <2>2
<1>4. ASSUME ReadClosed \/ FlushBroken \/ Disconnect \/ DisconnectClear
      PROVE  Ends
  <2>1. ASSUME bound, Unbind(TRUE) \/ (Unbind(FALSE) /\ count = 0 /\ (oin = oout \/ shut))
        PROVE  Ends
    <3>1. CASE Unbind(TRUE)
      <4>1. Unread /\ ~ bound' /\ forced' = TRUE
        BY <3>1 DEF Unbind, Unread
      <4>2. QED  BY <2>1, <4>1 DEF Ends
    <3>2. CASE Unbind(FALSE) /\ count = 0 /\ (oin = oout \/ shut)
      <4>1. Unread /\ ~ bound' /\ forced' = FALSE
        BY <3>2 DEF Unbind, Unread
      <4>2. forced' \in BOOLEAN
        BY <4>1
      <4>3. QED  BY <2>1, <3>2, <4>1, <4>2 DEF Ends
    <3>3. QED  BY <2>1, <3>1, <3>2
  <2>2. CASE ReadClosed
    BY <1>1, <2>1, <2>2 DEF ReadClosed, drained
  <2>3. CASE FlushBroken
    BY <2>1, <2>3 DEF FlushBroken
  <2>4. CASE Disconnect
    BY <2>1, <2>4 DEF Disconnect, Quiet
  <2>5. CASE DisconnectClear
    BY <2>1, <2>5 DEF DisconnectClear
  <2>6. QED  BY <1>4, <2>2, <2>3, <2>4, <2>5
<1>5. ASSUME NEW size \in Sizes, Connect(size)
      PROVE  Begins
  BY <1>5 DEF Connect, Begins, Unread
<1>6. ASSUME NEW size \in Sizes, Resize(size)
      PROVE  UNCHANGED <<bound, forced, taken, got, sent, flushed, shut>>
  BY <1>6 DEF Resize, peer
<1>7. ASSUME NEW n \in Nat, n > 0, consume(n), bound,
             UNCHANGED <<bound, forced, taken, outputs, peer>>
      PROVE  bound /\ got' > got /\ UNCHANGED <<bound, forced, taken, sent, flushed, shut>>
  BY <1>1, <1>7 DEF consume, outputs, peer
<1>8. ASSUME NEW n \in Nat, consume(n), bound, UNCHANGED <<bound, forced, taken, outputs, peer>>
      PROVE  \/ UNCHANGED <<bound, forced, taken, got, sent, flushed, shut>>
             \/ bound /\ got' > got /\ UNCHANGED <<bound, forced, taken, sent, flushed, shut>>
  <2>1. CASE n = 0
    BY <1>1, <1>8, <2>1 DEF consume, outputs, peer
  <2>2. CASE n > 0
    BY <1>7, <1>8, <2>2
  <2>3. QED  BY <2>1, <2>2
<1>9. ASSUME NEW n \in Chunks, Get \/ Read(n) \/ readAvailable(n) \/ readToSentinel(n)
      PROVE  \/ UNCHANGED <<bound, forced, taken, got, sent, flushed, shut>>
             \/ bound /\ got' > got /\ UNCHANGED <<bound, forced, taken, sent, flushed, shut>>
  <2>1. n \in Nat
    BY BoundMailboxAssumption DEF Chunks
  <2>2. sentinelFound \in Nat
    <3>1. limit \in Nat /\ iout \in 0 .. limit /\ count \in 0 .. limit
      BY DistRange DEF IInv, InputOK, InputRing, RestOK
    <3>2. QED  BY <3>1, SentinelRange
  <2>3. \E k \in Nat : consume(k)
    <3>1. CASE Get
      BY <3>1 DEF Get
    <3>2. CASE Read(n)
      BY <2>1, <3>2 DEF Read
    <3>3. CASE readAvailable(n)
      BY <1>1, <2>1, <3>3 DEF readAvailable, Lesser
    <3>4. CASE readToSentinel(n)
      <4> DEFINE m == Lesser(n, IF sentinelFound > 0 THEN sentinelFound ELSE count)
      <4>1. m \in Nat
        BY <1>1, <2>1, <2>2 DEF Lesser
      <4>2. consume(m)
        BY <3>4 DEF readToSentinel
      <4> HIDE DEF m
      <4>3. QED  BY <4>1, <4>2
    <3>5. QED  BY <1>9, <3>1, <3>2, <3>3, <3>4
  <2>4. bound /\ UNCHANGED <<bound, forced, taken, outputs, peer>>
    BY <1>9 DEF Get, Read, readAvailable, readToSentinel
  <2>5. QED  BY <1>8, <2>3, <2>4
<1>10. CASE Receive
  <2>1. consume(1)
    BY <1>10, ReceiveConsumes
  <2>2. bound /\ UNCHANGED <<bound, forced, taken, outputs, peer>>
    BY <1>10 DEF Receive
  <2>3. QED  BY <1>7, <2>1, <2>2
<1>11. CASE Erase
  BY <1>1, <1>11 DEF Erase, outputs, peer
<1>12. ASSUME NEW n \in Chunks, Put \/ Write(n)
       PROVE  bound /\ sent' > sent /\ UNCHANGED <<bound, forced, taken, got, flushed, shut>>
  BY <1>1, <1>12, BoundMailboxAssumption DEF Put, Write, inputs, peer, Chunks
<1>13. ASSUME NEW e \in Awaits, Wait(e) \/ Restart(e)
       PROVE  UNCHANGED <<bound, forced, taken, got, sent, flushed, shut>>
  BY <1>13 DEF Wait, Restart, inputs, outputs, peer
<1>14. CASE BackToQueue
  BY <1>14 DEF BackToQueue, inputs, outputs, peer
<1>15. CASE Arrive
  BY <1>15 DEF Arrive, inputs, outputs
<1>16. CASE Close
  BY <1>16 DEF Close, inputs, outputs
<1>17. CASE UNCHANGED vars
  BY <1>17 DEF vars, inputs, outputs, peer
<1>18. 0 \in Chunks
  BY BoundMailboxAssumption DEF Chunks
<1>19. CASE Pushing
  BY <1>2, <1>3, <1>4, <1>19 DEF Pushing
<1>20. CASE Program
  BY <1>4, <1>5, <1>6, <1>9, <1>10, <1>11, <1>12, <1>13, <1>14, <1>18, <1>20 DEF Program
<1>21. CASE Peer
  BY <1>15, <1>16, <1>21 DEF Peer
<1>22. QED  BY <1>17, <1>19, <1>20, <1>21 DEF Next

\* Successive numbers are a queue: the next ones join at the end, and the first ones leave.
LEMMA HeldWritten ==
  ASSUME NEW a \in Nat, NEW b \in Nat, NEW c \in Nat, a <= b, b < c
  PROVE  Numbered(a, c - a) = Numbered(a, b - a) \o [i \in 1 .. c - b |-> b + i - 1]
<1>1. b - a \in Nat /\ c - b \in Nat /\ a + (b - a) = b /\ (b - a) + (c - b) = c - a
  OBVIOUS
<1>2. \A i \in 1 .. c - b : a + (b - a) + i - 1 = b + i - 1
  OBVIOUS
<1>3. [i \in 1 .. c - b |-> a + (b - a) + i - 1] = [i \in 1 .. c - b |-> b + i - 1]
  BY <1>2
<1>4. /\ Numbered(a, (b - a) + (c - b)) = Numbered(a, c - a)
      /\ Numbered(a, b - a) \o [i \in 1 .. c - b |-> a + (b - a) + i - 1] = Numbered(a, (b - a) + (c - b))
  BY <1>1, NumberedJoin
<1>5. QED  BY <1>3, <1>4

LEMMA HeldTaken ==
  ASSUME NEW a \in Nat, NEW b \in Nat, NEW c \in Nat, a < b, b <= c
  PROVE  \E n \in 1 .. Len(Numbered(a, c - a)) :
           /\ Numbered(b, c - b) = SubSeq(Numbered(a, c - a), n + 1, Len(Numbered(a, c - a)))
           /\ b = a + n
<1>1. PICK n \in Nat, m \in Nat : n = c - a /\ m = b - a
  OBVIOUS
<1>2. m \in 1 .. n /\ m \in 0 .. n /\ a + m = b /\ n - m = c - b
  BY <1>1
<1>3. Len(Numbered(a, n)) = n /\ SubSeq(Numbered(a, n), m + 1, n) = Numbered(a + m, n - m)
  BY <1>2, NumberedRest
<1>4. QED  BY <1>1, <1>2, <1>3

LEMMA NoneHeld == \A a \in Nat : Numbered(a, 0) = <<>>
BY DEF Numbered

\* Each step is one of the stream of input, or none.
LEMMA StepReceives ==
  ASSUME IInv, IInv', ~ ReceiveWraps, [Next]_vars
  PROVE  [Input!Next]_(Input!vars)
<1> DEFINE held == ringBytes(ibuf, iout, count)
<1>1. /\ held = Numbered(got, taken - got) /\ got \in Nat /\ taken \in Nat /\ got <= taken
      /\ count = taken - got
  BY HeldIs
<1>2. /\ held' = Numbered(got', taken' - got') /\ got' \in Nat /\ taken' \in Nat /\ got' <= taken'
  BY StillHolding DEF Holding, Numbered
<1> HIDE DEF held
<1>3. CASE Begins
  <2>1. got' = 0 /\ taken' = 0
    BY <1>3 DEF Begins, Unread
  <2>2. held' = <<>>
    BY <1>2, <2>1, NoneHeld
  <2>3. QED  BY <1>3, <2>1, <2>2 DEF Begins, Unread, held, Input!Next, Input!Open, Input!Fresh
<1>4. CASE Ends
  <2>1. got' = 0 /\ taken' = 0
    BY <1>4 DEF Ends, Unread
  <2>2. held' = <<>> /\ (held = <<>> \/ forced')
    BY <1>1, <1>2, <1>4, <2>1, NoneHeld DEF Ends, Unread
  <2>3. QED  BY <1>4, <2>1, <2>2 DEF Ends, Unread, held, Input!Next, Input!End, Input!Fresh
<1>5. CASE UNCHANGED <<bound, forced, taken, got>>
  <2>1. held' = held
    BY <1>1, <1>2, <1>5
  <2>2. QED  BY <1>5, <2>1 DEF held, Input!vars
<1>6. CASE bound /\ taken' > taken /\ UNCHANGED <<bound, forced, got>>
  <2>1. held' = held \o [i \in 1 .. taken' - taken |-> taken + i - 1]
    BY <1>1, <1>2, <1>6, HeldWritten
  <2>2. QED  BY <1>6, <2>1 DEF held, Input!Next, Input!Write
<1>7. CASE bound /\ got' > got /\ UNCHANGED <<bound, forced, taken>>
  <2>1. held' = Numbered(got', taken - got') /\ got < got' /\ got' <= taken
    BY <1>1, <1>2, <1>7
  <2>2. \E n \in 1 .. Len(Numbered(got, taken - got)) :
          /\ Numbered(got', taken - got') =
               SubSeq(Numbered(got, taken - got), n + 1, Len(Numbered(got, taken - got)))
          /\ got' = got + n
    BY <1>1, <1>2, <2>1, HeldTaken
  <2>3. \E n \in 1 .. Len(held) : held' = SubSeq(held, n + 1, Len(held)) /\ got' = got + n
    BY <1>1, <2>1, <2>2
  <2>4. QED  BY <1>7, <2>3 DEF held, Input!Next, Input!Take
<1>8. QED  BY <1>3, <1>4, <1>5, <1>6, <1>7, Transfers

\* Each step is one of the stream of output, or none.
LEMMA StepSends ==
  ASSUME IInv, IInv', ~ ReceiveWraps, [Next]_vars
  PROVE  [Output!Next]_(Output!vars)
<1> DEFINE held == ringBytes(obuf, oout, dist(oout, oin))
<1>1. /\ held = Numbered(flushed, sent - flushed) /\ flushed \in Nat /\ sent \in Nat /\ flushed <= sent
      /\ oin = oout => sent - flushed = 0
  <2>1. oin = oout => dist(oout, oin) = 0
    BY DistRange DEF IInv, OutputOK, RestOK
  <2>2. QED  BY <2>1, HeldIs
<1>2. /\ held' = Numbered(flushed', sent' - flushed') /\ flushed' \in Nat /\ sent' \in Nat
      /\ flushed' <= sent'
  BY StillHolding DEF Holding, Numbered
<1> HIDE DEF held
<1>3. CASE Begins
  <2>1. flushed' = 0 /\ sent' = 0
    BY <1>3 DEF Begins, Unread
  <2>2. held' = <<>>
    BY <1>2, <2>1, NoneHeld
  <2>3. QED  BY <1>3, <2>1, <2>2 DEF Begins, Unread, held, Output!Next, Output!Open, Output!Fresh
<1>4. CASE Ends
  <2>1. flushed' = 0 /\ sent' = 0
    BY <1>4 DEF Ends, Unread
  <2>2. held' = <<>> /\ (held = <<>> \/ shut \/ forced')
    BY <1>1, <1>2, <1>4, <2>1, NoneHeld DEF Ends, Unread
  <2>3. QED  BY <1>4, <2>1, <2>2 DEF Ends, Unread, held, Output!Next, Output!End, Output!Fresh
<1>5. CASE UNCHANGED <<bound, forced, sent, flushed, shut>>
  <2>1. held' = held
    BY <1>1, <1>2, <1>5
  <2>2. QED  BY <1>5, <2>1 DEF held, Output!vars
<1>8. CASE bound /\ shut' = TRUE /\ UNCHANGED <<bound, forced, sent, flushed>>
  <2>1. held' = held
    BY <1>1, <1>2, <1>8
  <2>2. QED  BY <1>8, <2>1 DEF held, Output!Next, Output!HangUp
<1>6. CASE bound /\ sent' > sent /\ UNCHANGED <<bound, forced, flushed, shut>>
  <2>1. held' = held \o [i \in 1 .. sent' - sent |-> sent + i - 1]
    BY <1>1, <1>2, <1>6, HeldWritten
  <2>2. QED  BY <1>6, <2>1 DEF held, Output!Next, Output!Write
<1>7. CASE bound /\ flushed' > flushed /\ UNCHANGED <<bound, forced, sent, shut>>
  <2>1. held' = Numbered(flushed', sent - flushed') /\ flushed < flushed' /\ flushed' <= sent
    BY <1>1, <1>2, <1>7
  <2>2. \E n \in 1 .. Len(Numbered(flushed, sent - flushed)) :
          /\ Numbered(flushed', sent - flushed') =
               SubSeq(Numbered(flushed, sent - flushed), n + 1, Len(Numbered(flushed, sent - flushed)))
          /\ flushed' = flushed + n
    BY <1>1, <1>2, <2>1, HeldTaken
  <2>3. \E n \in 1 .. Len(held) : held' = SubSeq(held, n + 1, Len(held)) /\ flushed' = flushed + n
    BY <1>1, <2>1, <2>2
  <2>4. QED  BY <1>7, <2>3 DEF held, Output!Next, Output!Take
<1>9. QED  BY <1>3, <1>4, <1>5, <1>6, <1>7, <1>8, Transfers

\* The input side of a bound mailbox implements a stream, whatever the sizes of its
\* buffers and the parts in which bytes are read from the socket and from the mailbox.
THEOREM InputIsStream ==
  ASSUME ~ ReceiveWraps
  PROVE  Spec => Receives
<1>1. Init => Input!Init
  BY DEF Init, Input!Init, Input!Fresh, ringBytes
<1>2. IInv /\ IInv' /\ [Next]_vars => [Input!Next]_(Input!vars)
  BY StepReceives
<1>3. QED  BY <1>1, <1>2, Invariance, PTL DEF Spec, Receives, Input!Spec, Input!vars

\* So does the output side.
THEOREM OutputIsStream ==
  ASSUME ~ ReceiveWraps
  PROVE  Spec => Sends
<1>1. Init => Output!Init
  BY DEF Init, Output!Init, Output!Fresh, ringBytes, dist
<1>2. IInv /\ IInv' /\ [Next]_vars => [Output!Next]_(Output!vars)
  BY StepSends
<1>3. QED  BY <1>1, <1>2, Invariance, PTL DEF Spec, Sends, Output!Spec, Output!vars
=============================================================================
