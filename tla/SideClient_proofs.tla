--------------------------- MODULE SideClient_proofs ---------------------------
(***************************************************************************)
(* Proofs about the Client, for any traffic patterns, stations, processes and    *)
(* limits.                                                                  *)
(*                                                                         *)
(* The counters behind the limits agree with the queues because every message   *)
(* is in one queue at most (Apart), so that removing it from one is removing it  *)
(* from all, and the queues are linked in order because messages get their date   *)
(* when they are queued (Dated).  Why each pattern has one pending event is       *)
(* independent of that, and depends on how the program uses suspend and resume.   *)
(***************************************************************************)
EXTENDS SideClient, SideSequences

-----------------------------------------------------------------------------
(* The inductive invariant                                                  *)

\* Messages that are queued at the stations S for the patterns T.
Queued(S, T) == UNION {queued(s, t) : s \in S, t \in T}

\* Processes that hold the last packet of such a message.
Lasts(S, T) ==
  {p \in Procs : /\ buffer[p] # None /\ buffer[p].last
                 /\ buffer[p].Sender \in S /\ buffer[p].TP \in T}

Number(S, T) == Cardinality(Queued(S, T)) + Cardinality(Lasts(S, T))

Apart ==
  \A s1, s2 \in Stations, t1, t2 \in Traffics :
    queued(s1, t1) \cap queued(s2, t2) # {} => s1 = s2 /\ t1 = t2

Dated == \A s \in Stations, t \in Traffics : \A a \in queued(s, t) : message[a].QTime <= Time

\* A bursty pattern generates messages only while messages of its bursts remain.
Remaining ==
  \A t \in Bursty : arrivals[t] = 0 \/ (arrivals[t] = 1 /\ RemBSI[t] > 0)

\* Whatever concerns the queues and the counters.
Books == CountersAgree /\ QueuesLinked /\ Apart /\ Dated

IInv == TypeOK /\ Remaining /\ Books /\ NoLostWakeup

-----------------------------------------------------------------------------
(* Queues                                                                   *)

Buffers == [TP : Traffics, Sender : Stations, last : BOOLEAN]

LEMMA Constants ==
  /\ NTraffics \in Nat \ {0} /\ Bursty \subseteq Traffics /\ Traffics \subseteq Nat
  /\ QSLimit \in Nat \ {0} /\ TLimit \in [Traffics -> Nat] /\ SLimit \in [Stations -> Nat]
  /\ MaxL \in Nat \ {0} /\ Lengths \subseteq Nat /\ MaxBurst \in Nat /\ Horizon \in Nat
  /\ IsFiniteSet(Procs) /\ At \in [Procs -> Stations]
  /\ Awaits \in [Procs -> SUBSET Requests]
  /\ None \notin Nat /\ None \notin Procs /\ None \notin Buffers
  /\ Addresses \subseteq Nat \ {0} /\ None \notin Addresses /\ Client \notin Traffics
  /\ IsFiniteSet(Addresses) /\ Cardinality(Addresses) = QSLimit
<1>1. /\ NTraffics \in Nat \ {0} /\ Bursty \subseteq Traffics
      /\ QSLimit \in Nat \ {0} /\ TLimit \in [Traffics -> Nat] /\ SLimit \in [Stations -> Nat]
      /\ MaxL \in Nat \ {0} /\ Lengths \subseteq Nat /\ MaxBurst \in Nat /\ Horizon \in Nat
      /\ IsFiniteSet(Procs) /\ At \in [Procs -> Stations]
      /\ Awaits \in [Procs -> SUBSET Requests]
      /\ None \notin Nat /\ None \notin Procs /\ None \notin Buffers
  BY ClientAssumption DEF ClientAssumption, Buffers
<1>2. Traffics \subseteq Nat /\ Addresses \subseteq Nat \ {0} /\ None \notin Addresses /\ Client \notin Traffics
  BY <1>1 DEF Traffics, Addresses, Client
<1>3. IsFiniteSet(Addresses) /\ Cardinality(Addresses) = QSLimit
  <2>1. 1 \in Int /\ QSLimit \in Int /\ QSLimit >= 1
    BY <1>1
  <2>2. IsFiniteSet(1 .. QSLimit) /\ Cardinality(1 .. QSLimit) = IF 1 > QSLimit THEN 0 ELSE QSLimit - 1 + 1
    BY <2>1, FS_Interval
  <2>3. QED  BY <2>1, <2>2 DEF Addresses
<1>4. QED  BY <1>1, <1>2, <1>3

LEMMA Typed ==
  ASSUME TypeOK, NEW s \in Stations, NEW t \in Traffics
  PROVE  /\ MQ[s][t] \in Seq(Addresses) /\ Len(MQ[s][t]) \in Nat
         /\ DOMAIN MQ[s][t] = 1 .. Len(MQ[s][t])
         /\ \A i \in DOMAIN MQ[s][t] : MQ[s][t][i] \in Addresses
         /\ queued(s, t) \subseteq Addresses
         /\ MQTail[s][t] \in Addresses \cup {None}
<1>1. MQ[s][t] \in Seq(Addresses) /\ MQTail[s][t] \in Addresses \cup {None}
  BY DEF TypeOK
<1>2. /\ Len(MQ[s][t]) \in Nat /\ DOMAIN MQ[s][t] = 1 .. Len(MQ[s][t])
      /\ \A i \in DOMAIN MQ[s][t] : MQ[s][t][i] \in Addresses
  BY <1>1
<1>3. QED  BY <1>1, <1>2 DEF queued, ToSet

\* genMSG finds the end of the list.
LEMMA Linked ==
  ASSUME TypeOK, QueuesLinked, NEW s \in Stations, NEW t \in Traffics, NEW a \in Addresses
  PROVE  linked(s, t, a) = Append(MQ[s][t], a)
<1> DEFINE q == MQ[s][t]
<1>1. q \in Seq(Addresses) /\ Len(q) \in Nat /\ DOMAIN q = 1 .. Len(q)
  BY Typed
<1>2. /\ MQTail[s][t] = IF q = <<>> THEN None ELSE q[Len(q)]
      /\ \A i, j \in DOMAIN q : i < j => q[i] # q[j]
  BY DEF QueuesLinked, Last
<1>3. CASE q = <<>>
  <2>1. linked(s, t, a) = <<a>>
    BY <1>3 DEF linked
  <2>2. Append(<<>>, a) = <<a>>
    OBVIOUS
  <2>3. QED  BY <2>1, <2>2, <1>3
<1>4. CASE q # <<>>
  <2> DEFINE tail == CHOOSE i \in DOMAIN q : q[i] = MQTail[s][t]
  <2>1. linked(s, t, a) = Append(SubSeq(q, 1, tail), a)
    BY <1>4 DEF linked
  <2>2. Len(q) \in DOMAIN q /\ q[Len(q)] = MQTail[s][t]
    BY <1>1, <1>2, <1>4
  <2>3. tail \in DOMAIN q /\ q[tail] = MQTail[s][t]
    BY <2>2
  <2> HIDE DEF tail, q
  <2>4. ~ (tail < Len(q))
    BY <2>2, <2>3, <1>2
  <2>5. tail = Len(q)
    BY <2>3, <2>4, <1>1
  <2>6. SubSeq(q, 1, Len(q)) = q
    BY <1>1
  <2>7. QED  BY <2>1, <2>5, <2>6 DEF q
<1>5. QED  BY <1>3, <1>4

-----------------------------------------------------------------------------
(* Counting                                                                  *)

LEMMA Finite ==
  ASSUME TypeOK, NEW S \in SUBSET Stations, NEW T \in SUBSET Traffics
  PROVE  /\ Queued(S, T) \subseteq Addresses /\ IsFiniteSet(Queued(S, T))
         /\ Cardinality(Queued(S, T)) \in Nat
         /\ IsFiniteSet(Lasts(S, T)) /\ Cardinality(Lasts(S, T)) \in Nat
<1>1. Queued(S, T) \subseteq Addresses
  BY Typed DEF Queued
<1>2. IsFiniteSet(Queued(S, T))
  BY <1>1, Constants, FS_Subset
<1>3. IsFiniteSet(Lasts(S, T))
  BY Constants, FS_Subset DEF Lasts
<1>4. QED  BY <1>1, <1>2, <1>3, FS_CardinalityType

\* What the counters mean.
Counted ==
  /\ zz_NQMessages = Number(Stations, Traffics) /\ zz_NQMessages <= QSLimit
  /\ \A t \in Traffics : NQMessages[t] = Number(Stations, {t}) /\ NQMessages[t] <= TLimit[t]
  /\ \A s \in Stations : QSize[s] = Number({s}, Traffics) /\ QSize[s] <= SLimit[s]

LEMMA CountersCount == (CountersAgree <=> Counted) /\ (CountersAgree' <=> Counted')
<1>1. CountersAgree <=> Counted
  BY DEF CountersAgree, Counted, Number, Queued, Lasts
<1>2. CountersAgree' <=> Counted'
  BY DEF CountersAgree, Counted, Number, Queued, Lasts
<1>3. QED  BY <1>1, <1>2

\* The address of a new message is free.
LEMMA FreeAddress ==
  ASSUME TypeOK, CountersAgree, zz_NQMessages < QSLimit
  PROVE  \E a \in Addresses : a \notin allocated
<1>1. allocated = Queued(Stations, Traffics)
  BY DEF allocated, Queued
<1>2. /\ Cardinality(allocated) + Cardinality(Lasts(Stations, Traffics)) < QSLimit
      /\ Cardinality(allocated) \in Nat /\ Cardinality(Lasts(Stations, Traffics)) \in Nat
      /\ allocated \subseteq Addresses
  BY <1>1, Finite, CountersCount DEF Counted, Number
<1>3. Cardinality(allocated) # Cardinality(Addresses)
  BY <1>2, Constants
<1>4. ASSUME \A a \in Addresses : a \in allocated
      PROVE  FALSE
  <2>1. allocated = Addresses
    BY <1>2, <1>4
  <2>2. QED  BY <2>1, <1>3
<1>5. QED  BY <1>4

-----------------------------------------------------------------------------
(* How the queues change                                                     *)

LEMMA SameBooks ==
  ASSUME TypeOK, Books, UNCHANGED <<queues, buffer, counters>>, Time' \in 0 .. Horizon, Time <= Time'
  PROVE  Books'
<1>1. CountersAgree'
  <2>1. ASSUME NEW S, NEW T
        PROVE  Number(S, T)' = Number(S, T)
    BY DEF Number, Queued, Lasts, queues, queued
  <2>2. Counted'
    BY <2>1, CountersCount DEF Books, Counted, counters
  <2>3. QED  BY <2>2, CountersCount
<1>2. QueuesLinked' /\ Apart'
  BY DEF Books, QueuesLinked, Apart, queues, queued
<1>3. Dated'
  <2>1. ASSUME NEW s \in Stations, NEW t \in Traffics, NEW a \in queued(s, t)
        PROVE  message[a].QTime <= Time'
    <3>1. message[a].QTime <= Time
      BY DEF Books, Dated
    <3>2. message[a].QTime \in Nat /\ Time \in Nat /\ Time' \in Nat
      <4>1. a \in Addresses
        BY Typed
      <4>2. message[a] \in [Length : Nat, QTime : 0 .. Horizon] /\ Time \in 0 .. Horizon
        BY <4>1 DEF TypeOK
      <4>3. QED  BY <4>2, Constants
    <3>3. QED  BY <3>1, <3>2
  <2>2. QED  BY <2>1 DEF Dated, queues, queued
<1>4. QED  BY <1>1, <1>2, <1>3 DEF Books

\* A new message in a queue.
Grows(s, t, a) ==
  /\ MQ' = [MQ EXCEPT ![s][t] = linked(s, t, a)]
  /\ MQTail' = [MQTail EXCEPT ![s][t] = a]
  /\ Time' = Time
  /\ \A b \in Addresses \ {a} : message'[b] = message[b]
  /\ message'[a].QTime = Time

\* What that means for the queues.
HasGrown(s, t, a) ==
  /\ MQ' \in [Stations -> [Traffics -> Seq(Addresses)]]
  /\ MQTail' \in [Stations -> [Traffics -> Addresses \cup {None}]]
  /\ QueuesLinked' /\ Apart' /\ Dated'
  /\ MQ'[s][t] = Append(MQ[s][t], a)
  /\ \A s1 \in Stations, t1 \in Traffics : s1 # s \/ t1 # t => MQ'[s1][t1] = MQ[s1][t1]
  /\ \A S \in SUBSET Stations, T \in SUBSET Traffics :
       Queued(S, T)' = IF s \in S /\ t \in T THEN Queued(S, T) \cup {a} ELSE Queued(S, T)

LEMMA Grown ==
  ASSUME TypeOK, Books, NEW s \in Stations, NEW t \in Traffics, NEW a \in Addresses,
         a \notin allocated, Grows(s, t, a)
  PROVE  HasGrown(s, t, a)
<1>1. /\ MQ \in [Stations -> [Traffics -> Seq(Addresses)]]
      /\ MQTail \in [Stations -> [Traffics -> Addresses \cup {None}]]
      /\ MQ' = [MQ EXCEPT ![s][t] = Append(MQ[s][t], a)]
      /\ MQTail' = [MQTail EXCEPT ![s][t] = a]
  BY Linked DEF Grows, Books, TypeOK
<1>2. /\ Append(MQ[s][t], a) \in Seq(Addresses) /\ Len(Append(MQ[s][t], a)) = Len(MQ[s][t]) + 1
      /\ Len(MQ[s][t]) \in Nat
      /\ \A i \in 1 .. Len(MQ[s][t]) : Append(MQ[s][t], a)[i] = MQ[s][t][i]
      /\ Append(MQ[s][t], a)[Len(MQ[s][t]) + 1] = a
      /\ ToSet(Append(MQ[s][t], a)) = ToSet(MQ[s][t]) \cup {a}
  BY Typed, AddedSet
<1> DEFINE r == Append(MQ[s][t], a)
<1> HIDE DEF r
<1>3. /\ MQ' \in [Stations -> [Traffics -> Seq(Addresses)]]
      /\ MQTail' \in [Stations -> [Traffics -> Addresses \cup {None}]]
      /\ MQ'[s][t] = r /\ MQTail'[s][t] = a
      /\ \A s1 \in Stations, t1 \in Traffics :
           s1 # s \/ t1 # t => MQ'[s1][t1] = MQ[s1][t1] /\ MQTail'[s1][t1] = MQTail[s1][t1]
  BY <1>1, <1>2 DEF r
<1>4. \A s1 \in Stations, t1 \in Traffics :
        queued(s1, t1)' = IF s1 = s /\ t1 = t THEN queued(s, t) \cup {a} ELSE queued(s1, t1)
  BY <1>2, <1>3 DEF queued, r
<1>5. \A s1 \in Stations, t1 \in Traffics : a \notin queued(s1, t1)
  BY DEF allocated
<1>6. Apart'
  <2>1. ASSUME NEW s1 \in Stations, NEW s2 \in Stations, NEW t1 \in Traffics, NEW t2 \in Traffics,
               NEW b, b \in queued(s1, t1)', b \in queued(s2, t2)'
        PROVE  s1 = s2 /\ t1 = t2
    <3>1. CASE b = a
      BY <3>1, <2>1, <1>4, <1>5
    <3>2. CASE b # a
      <4>1. b \in queued(s1, t1) /\ b \in queued(s2, t2)
        BY <3>2, <2>1, <1>4
      <4>2. QED  BY <4>1 DEF Books, Apart
    <3>3. QED  BY <3>1, <3>2
  <2>2. QED  BY <2>1 DEF Apart
<1>7. \A s1 \in Stations, t1 \in Traffics : queued(s1, t1) \subseteq Addresses \ {a}
  BY <1>5, Typed
<1>8. Dated'
  <2>1. ASSUME NEW s1 \in Stations, NEW t1 \in Traffics, NEW b \in queued(s1, t1)'
        PROVE  message'[b].QTime <= Time
    <3>1. CASE b = a
      BY <3>1 DEF Grows, TypeOK
    <3>2. CASE b # a
      <4>1. b \in queued(s1, t1)
        BY <3>2, <1>4
      <4>2. message'[b] = message[b]
        BY <4>1, <1>7 DEF Grows
      <4>3. QED  BY <4>1, <4>2 DEF Books, Dated
    <3>3. QED  BY <3>1, <3>2
  <2>2. QED  BY <2>1 DEF Dated, Grows
<1>9. QueuesLinked'
  <2>1. ASSUME NEW s1 \in Stations, NEW t1 \in Traffics, s1 # s \/ t1 # t
        PROVE  /\ MQTail'[s1][t1] = IF MQ'[s1][t1] = <<>> THEN None ELSE Last(MQ'[s1][t1])
               /\ \A i, j \in DOMAIN MQ'[s1][t1] : i < j =>
                    /\ MQ'[s1][t1][i] # MQ'[s1][t1][j]
                    /\ message'[MQ'[s1][t1][i]].QTime <= message'[MQ'[s1][t1][j]].QTime
    <3>1. \A i \in DOMAIN MQ[s1][t1] : message'[MQ[s1][t1][i]] = message[MQ[s1][t1][i]]
      BY <1>7 DEF Grows, queued, ToSet
    <3>2. MQ'[s1][t1] = MQ[s1][t1] /\ MQTail'[s1][t1] = MQTail[s1][t1]
      BY <2>1, <1>3
    <3>3. /\ MQTail[s1][t1] = IF MQ[s1][t1] = <<>> THEN None ELSE Last(MQ[s1][t1])
          /\ \A i, j \in DOMAIN MQ[s1][t1] : i < j =>
               /\ MQ[s1][t1][i] # MQ[s1][t1][j]
               /\ message[MQ[s1][t1][i]].QTime <= message[MQ[s1][t1][j]].QTime
      BY DEF Books, QueuesLinked
    <3>4. QED  BY <3>1, <3>2, <3>3
  <2>2. MQTail'[s][t] = Last(r) /\ r # <<>>
    <3>1. Len(r) = Len(MQ[s][t]) + 1 /\ r[Len(MQ[s][t]) + 1] = a /\ r \in Seq(Addresses)
      BY <1>2 DEF r
    <3>2. r # <<>>
      BY <3>1, <1>2
    <3>3. QED  BY <3>1, <3>2, <1>3 DEF Last
  <2>3. ASSUME NEW i \in DOMAIN r, NEW j \in DOMAIN r, i < j
        PROVE  r[i] # r[j] /\ message'[r[i]].QTime <= message'[r[j]].QTime
    <3>1. DOMAIN r = 1 .. Len(MQ[s][t]) + 1 /\ DOMAIN MQ[s][t] = 1 .. Len(MQ[s][t])
      BY <1>2, Typed DEF r
    <3>2. i \in DOMAIN MQ[s][t] /\ r[i] = MQ[s][t][i]
      BY <2>3, <3>1, <1>2 DEF r
    <3>3. r[i] \in queued(s, t) /\ r[i] \in queued(s, t)'
      BY <3>2, <1>4 DEF queued, ToSet
    <3>4. CASE j \in DOMAIN MQ[s][t]
      <4>1. r[j] = MQ[s][t][j] /\ r[j] \in queued(s, t)
        BY <3>4, <3>1, <1>2 DEF r, queued, ToSet
      <4>2. message'[r[i]] = message[r[i]] /\ message'[r[j]] = message[r[j]]
        BY <3>3, <4>1, <1>7 DEF Grows
      <4>3. QED  BY <2>3, <3>2, <3>4, <4>1, <4>2 DEF Books, QueuesLinked
    <3>5. CASE j \notin DOMAIN MQ[s][t]
      <4>1. r[j] = a
        BY <3>5, <3>1, <1>2 DEF r
      <4>2. r[i] # a
        BY <3>3, <1>5
      <4>3. message'[r[i]].QTime <= Time
        BY <3>3, <1>8 DEF Dated, Grows
      <4>4. QED  BY <4>1, <4>2, <4>3 DEF Grows
    <3>6. QED  BY <3>4, <3>5
  <2>4. ASSUME NEW s1 \in Stations, NEW t1 \in Traffics
        PROVE  /\ MQTail'[s1][t1] = IF MQ'[s1][t1] = <<>> THEN None ELSE Last(MQ'[s1][t1])
               /\ \A i, j \in DOMAIN MQ'[s1][t1] : i < j =>
                    /\ MQ'[s1][t1][i] # MQ'[s1][t1][j]
                    /\ message'[MQ'[s1][t1][i]].QTime <= message'[MQ'[s1][t1][j]].QTime
    <3>1. CASE s1 # s \/ t1 # t
      BY <3>1, <2>1
    <3>2. CASE s1 = s /\ t1 = t
      BY <3>2, <2>2, <2>3, <1>3
    <3>3. QED  BY <3>1, <3>2
  <2>5. QED  BY <2>4 DEF QueuesLinked
<1>10. ASSUME NEW S \in SUBSET Stations, NEW T \in SUBSET Traffics
       PROVE  Queued(S, T)' = IF s \in S /\ t \in T THEN Queued(S, T) \cup {a} ELSE Queued(S, T)
  <2>1. CASE s \in S /\ t \in T
    <3>1. \A b : (\E s1 \in S, t1 \in T : b \in queued(s1, t1)')
                 <=> (\E s1 \in S, t1 \in T : b \in queued(s1, t1)) \/ b = a
      BY <2>1, <1>4
    <3>2. QED  BY <2>1, <3>1 DEF Queued
  <2>2. CASE ~ (s \in S /\ t \in T)
    <3>1. \A s1 \in S, t1 \in T : queued(s1, t1)' = queued(s1, t1)
      BY <2>2, <1>4
    <3>2. QED  BY <2>2, <3>1 DEF Queued
  <2>3. QED  BY <2>1, <2>2
<1>11. QED  BY <1>3, <1>6, <1>8, <1>9, <1>10 DEF r, HasGrown

\* A message leaves a queue.
Shrinks(s, t, i) ==
  /\ MQ' = [MQ EXCEPT ![s][t] = RemoveAt(MQ[s][t], i)]
  /\ MQTail' = [MQTail EXCEPT ![s][t] = tailAfter(s, t, i)]
  /\ Time' = Time
  /\ \A b \in Addresses \ {MQ[s][t][i]} : message'[b] = message[b]

LEMMA Shrunk ==
  ASSUME TypeOK, Books, NEW s \in Stations, NEW t \in Traffics, NEW i \in DOMAIN MQ[s][t],
         Shrinks(s, t, i)
  PROVE  /\ MQ' \in [Stations -> [Traffics -> Seq(Addresses)]]
         /\ MQTail' \in [Stations -> [Traffics -> Addresses \cup {None}]]
         /\ QueuesLinked' /\ Apart' /\ Dated'
         /\ \A s1 \in Stations, t1 \in Traffics : s1 # s \/ t1 # t => MQ'[s1][t1] = MQ[s1][t1]
         /\ \A S \in SUBSET Stations, T \in SUBSET Traffics :
              /\ Queued(S, T)' = Queued(S, T) \ {MQ[s][t][i]}
              /\ MQ[s][t][i] \in Queued(S, T) <=> s \in S /\ t \in T
<1> DEFINE q == MQ[s][t]
           n == Len(q)
           a == q[i]
           r == RemoveAt(q, i)
<1>1. /\ q \in Seq(Addresses) /\ n \in Nat /\ DOMAIN q = 1 .. n /\ i \in 1 .. n /\ a \in Addresses
      /\ a \in queued(s, t) /\ queued(s, t) = ToSet(q)
  BY Typed DEF queued, ToSet
<1>2. /\ MQTail[s][t] = q[n]
      /\ \A j, k \in DOMAIN q : j < k => q[j] # q[k] /\ message[q[j]].QTime <= message[q[k]].QTime
  BY <1>1 DEF Books, QueuesLinked, Last
<1> HIDE DEF q
<1>3. /\ r \in Seq(Addresses) /\ Len(r) = n - 1 /\ n \in Nat \ {0}
      /\ \A j \in 1 .. n - 1 : r[j] = IF j < i THEN q[j] ELSE q[j + 1]
      /\ ToSet(r) = ToSet(q) \ {a}
  <2>1. q \in Seq(Addresses) /\ i \in 1 .. Len(q)
    BY <1>1
  <2>2. \A j, k \in DOMAIN q : j < k => q[j] # q[k]
    BY <1>2
  <2>3. ToSet(r) = ToSet(q) \ {a}
    BY <2>1, <2>2, RemovedSet
  <2>4. /\ RemoveAt(q, i) \in Seq(Addresses) /\ Len(RemoveAt(q, i)) = Len(q) - 1
        /\ Len(q) \in Nat \ {0}
        /\ \A j \in 1 .. Len(q) - 1 : RemoveAt(q, i)[j] = IF j < i THEN q[j] ELSE q[j + 1]
    BY <2>1, Removed
  <2>5. QED  BY <2>3, <2>4
<1>4. \A j, k \in 1 .. n : j # k => q[j] # q[k]
  BY <1>1, <1>2
<1>5. DOMAIN r = 1 .. n - 1
  BY <1>3
<1> HIDE DEF n, a, r
<1>6. tailAfter(s, t, i) = IF r = <<>> THEN None ELSE r[n - 1]
  <2>1. tailAfter(s, t, i) = IF q[n] # a THEN q[n] ELSE IF n = 1 THEN None ELSE q[i - 1]
    BY <1>2 DEF tailAfter, q, n, a
  <2>2. r = <<>> <=> n = 1
    BY <1>3, <1>1
  <2>3. CASE n = 1
    BY <2>1, <2>2, <2>3, <1>1 DEF a
  <2>4. CASE n # 1 /\ i = n
    <3>1. r[n - 1] = q[n - 1]
      BY <2>4, <1>3, <1>1
    <3>2. QED  BY <2>1, <2>2, <2>4, <3>1 DEF a
  <2>5. CASE n # 1 /\ i # n
    <3>1. r[n - 1] = q[n - 1 + 1] /\ n - 1 + 1 = n
      BY <2>5, <1>3, <1>1
    <3>2. q[n] # a
      BY <2>5, <1>1, <1>3, <1>4 DEF a
    <3>3. QED  BY <2>1, <2>2, <2>5, <3>1, <3>2
  <2>6. QED  BY <2>3, <2>4, <2>5
<1>7. tailAfter(s, t, i) \in Addresses \cup {None}
  BY <1>6, <1>3, <1>5
<1>8. /\ MQ \in [Stations -> [Traffics -> Seq(Addresses)]]
      /\ MQTail \in [Stations -> [Traffics -> Addresses \cup {None}]]
      /\ MQ' = [MQ EXCEPT ![s][t] = r]
      /\ MQTail' = [MQTail EXCEPT ![s][t] = tailAfter(s, t, i)]
  BY DEF Shrinks, TypeOK, r, q
<1>9. /\ MQ' \in [Stations -> [Traffics -> Seq(Addresses)]]
      /\ MQTail' \in [Stations -> [Traffics -> Addresses \cup {None}]]
      /\ MQ'[s][t] = r /\ MQTail'[s][t] = tailAfter(s, t, i)
      /\ \A s1 \in Stations, t1 \in Traffics :
           s1 # s \/ t1 # t => MQ'[s1][t1] = MQ[s1][t1] /\ MQTail'[s1][t1] = MQTail[s1][t1]
  BY <1>3, <1>7, <1>8
<1>10. \A s1 \in Stations, t1 \in Traffics :
         /\ queued(s1, t1)' = queued(s1, t1) \ {a}
         /\ a \in queued(s1, t1) <=> s1 = s /\ t1 = t
  <2>1. queued(s, t)' = queued(s, t) \ {a}
    BY <1>1, <1>3, <1>9 DEF queued
  <2>2. ASSUME NEW s1 \in Stations, NEW t1 \in Traffics, s1 # s \/ t1 # t
        PROVE  queued(s1, t1)' = queued(s1, t1) /\ a \notin queued(s1, t1)
    <3>1. queued(s1, t1)' = queued(s1, t1)
      BY <2>2, <1>9 DEF queued
    <3>2. a \notin queued(s1, t1)
      BY <2>2, <1>1 DEF Books, Apart
    <3>3. QED  BY <3>1, <3>2
  <2>3. QED  BY <2>1, <2>2, <1>1
<1>11. Apart' /\ Dated'
  <2>1. Apart'
    BY <1>10 DEF Books, Apart
  <2>2. ASSUME NEW s1 \in Stations, NEW t1 \in Traffics, NEW b \in queued(s1, t1)'
        PROVE  message'[b].QTime <= Time
    <3>1. b \in queued(s1, t1) /\ b \in Addresses \ {a}
      BY <1>10, Typed
    <3>2. message'[b] = message[b]
      BY <3>1 DEF Shrinks, a, q
    <3>3. QED  BY <3>1, <3>2 DEF Books, Dated
  <2>3. Dated'
    BY <2>2 DEF Dated, Shrinks
  <2>4. QED  BY <2>1, <2>3
<1>12. ASSUME NEW s1 \in Stations, NEW t1 \in Traffics
       PROVE  /\ MQTail'[s1][t1] = IF MQ'[s1][t1] = <<>> THEN None ELSE Last(MQ'[s1][t1])
              /\ \A j, k \in DOMAIN MQ'[s1][t1] : j < k =>
                   /\ MQ'[s1][t1][j] # MQ'[s1][t1][k]
                   /\ message'[MQ'[s1][t1][j]].QTime <= message'[MQ'[s1][t1][k]].QTime
  <2>1. CASE s1 # s \/ t1 # t
    <3>1. \A j \in DOMAIN MQ[s1][t1] : message'[MQ[s1][t1][j]] = message[MQ[s1][t1][j]]
      <4>1. ASSUME NEW j \in DOMAIN MQ[s1][t1]
            PROVE  MQ[s1][t1][j] \in Addresses \ {a}
        BY <2>1, <1>10, Typed DEF queued, ToSet
      <4>2. QED  BY <4>1 DEF Shrinks, a, q
    <3>2. MQ'[s1][t1] = MQ[s1][t1] /\ MQTail'[s1][t1] = MQTail[s1][t1]
      BY <2>1, <1>9
    <3>3. /\ MQTail[s1][t1] = IF MQ[s1][t1] = <<>> THEN None ELSE Last(MQ[s1][t1])
          /\ \A j, k \in DOMAIN MQ[s1][t1] : j < k =>
               /\ MQ[s1][t1][j] # MQ[s1][t1][k]
               /\ message[MQ[s1][t1][j]].QTime <= message[MQ[s1][t1][k]].QTime
      BY DEF Books, QueuesLinked
    <3>4. QED  BY <3>1, <3>2, <3>3
  <2>2. CASE s1 = s /\ t1 = t
    <3>1. MQTail'[s][t] = IF r = <<>> THEN None ELSE Last(r)
      BY <1>3, <1>6, <1>9 DEF Last
    <3>2. ASSUME NEW j \in DOMAIN r, NEW k \in DOMAIN r, j < k
          PROVE  r[j] # r[k] /\ message'[r[j]].QTime <= message'[r[k]].QTime
      <4> DEFINE f(m) == IF m < i THEN m ELSE m + 1
      <4>1. \A m \in DOMAIN r : f(m) \in 1 .. n /\ f(m) # i /\ r[m] = q[f(m)]
        BY <1>1, <1>3, <1>5
      <4>2. f(j) < f(k)
        BY <3>2, <1>1, <1>5
      <4> HIDE DEF f
      <4>3. \A m \in DOMAIN r : r[m] \in Addresses \ {a}
        BY <4>1, <1>1, <1>4 DEF a
      <4>4. message'[r[j]] = message[r[j]] /\ message'[r[k]] = message[r[k]]
        BY <4>3 DEF Shrinks, a, q
      <4>5. QED  BY <4>1, <4>2, <4>4, <1>1, <1>2
    <3>3. QED  BY <2>2, <3>1, <3>2, <1>9
  <2>3. QED  BY <2>1, <2>2
<1>13. QueuesLinked'
  BY <1>12 DEF QueuesLinked
<1>14. ASSUME NEW S \in SUBSET Stations, NEW T \in SUBSET Traffics
       PROVE  /\ Queued(S, T)' = Queued(S, T) \ {a}
              /\ a \in Queued(S, T) <=> s \in S /\ t \in T
  <2>1. \A b : (\E s1 \in S, t1 \in T : b \in queued(s1, t1)')
               <=> (\E s1 \in S, t1 \in T : b \in queued(s1, t1)) /\ b # a
    BY <1>10
  <2>2. (\E s1 \in S, t1 \in T : a \in queued(s1, t1)) <=> s \in S /\ t \in T
    BY <1>10
  <2>3. QED  BY <2>1, <2>2 DEF Queued
<1>15. QED  BY <1>9, <1>11, <1>13, <1>14 DEF a, q

-----------------------------------------------------------------------------
(* The operations on the queues                                              *)

BooksTyped ==
  /\ message \in [Addresses -> [Length : Nat, QTime : 0 .. Horizon]]
  /\ MQ \in [Stations -> [Traffics -> Seq(Addresses)]]
  /\ MQTail \in [Stations -> [Traffics -> Addresses \cup {None}]]
  /\ buffer \in [Procs -> {None} \cup Buffers]
  /\ NQMessages \in [Traffics -> Nat] /\ zz_NQMessages \in Nat /\ QSize \in [Stations -> Nat]

\* One message more, or one less, for the counters that it concerns.
Counts(s, t, d) ==
  /\ zz_NQMessages' = zz_NQMessages + d
  /\ NQMessages' = [NQMessages EXCEPT ![t] = @ + d]
  /\ QSize' = [QSize EXCEPT ![s] = @ + d]
  /\ d = 1 => zz_NQMessages < QSLimit /\ NQMessages[t] < TLimit[t] /\ QSize[s] < SLimit[s]
  /\ \A S \in SUBSET Stations, T \in SUBSET Traffics :
       /\ Number(S, T)' = IF s \in S /\ t \in T THEN Number(S, T) + d ELSE Number(S, T)
       /\ Number(S, T)' \in Nat

LEMMA Recounted ==
  ASSUME TypeOK, Books, NEW s \in Stations, NEW t \in Traffics, NEW d \in {1, -1}, Counts(s, t, d)
  PROVE  /\ CountersAgree'
         /\ NQMessages' \in [Traffics -> Nat] /\ zz_NQMessages' \in Nat /\ QSize' \in [Stations -> Nat]
<1>1. /\ NQMessages \in [Traffics -> Nat] /\ zz_NQMessages \in Nat /\ QSize \in [Stations -> Nat]
      /\ QSLimit \in Nat /\ TLimit \in [Traffics -> Nat] /\ SLimit \in [Stations -> Nat]
  BY Constants DEF TypeOK
<1>2. Counted
  BY CountersCount DEF Books
<1>3. zz_NQMessages' = Number(Stations, Traffics)' /\ zz_NQMessages' \in Nat /\ zz_NQMessages' <= QSLimit
  <2>1. zz_NQMessages' = Number(Stations, Traffics)'
    BY <1>2 DEF Counted, Counts
  <2>2. QED  BY <2>1, <1>1, <1>2 DEF Counted, Counts
<1>4. ASSUME NEW u \in Traffics
      PROVE  NQMessages'[u] = Number(Stations, {u})' /\ NQMessages'[u] <= TLimit[u]
  <2>1. NQMessages[u] = Number(Stations, {u}) /\ NQMessages[u] <= TLimit[u]
    BY <1>2 DEF Counted
  <2>2. Number(Stations, {u})' = IF t = u THEN Number(Stations, {u}) + d ELSE Number(Stations, {u})
    BY DEF Counts
  <2>3. QED  BY <2>1, <2>2, <1>1 DEF Counts
<1>5. ASSUME NEW z \in Stations
      PROVE  QSize'[z] = Number({z}, Traffics)' /\ QSize'[z] <= SLimit[z]
  <2>1. QSize[z] = Number({z}, Traffics) /\ QSize[z] <= SLimit[z]
    BY <1>2 DEF Counted
  <2>2. Number({z}, Traffics)' = IF s = z THEN Number({z}, Traffics) + d ELSE Number({z}, Traffics)
    BY DEF Counts
  <2>3. QED  BY <2>1, <2>2, <1>1 DEF Counts
<1>6. CountersAgree'
  BY <1>3, <1>4, <1>5, CountersCount DEF Counted
<1>7. \A u \in Traffics : NQMessages'[u] \in Nat
  BY <1>4 DEF Counts
<1>8. \A z \in Stations : QSize'[z] \in Nat
  BY <1>5 DEF Counts
<1>9. NQMessages' \in [Traffics -> Nat] /\ QSize' \in [Stations -> Nat]
  BY <1>7, <1>8, <1>1 DEF Counts
<1>10. QED  BY <1>3, <1>6, <1>9

LEMMA GenMSGBooks ==
  ASSUME TypeOK, Books, NEW s \in Stations, NEW t \in Traffics, NEW length \in Lengths,
         genMSG(s, t, length), UNCHANGED <<Time, buffer>>
  PROVE  BooksTyped' /\ Books'
<1>1. CASE refused(s, t)
  <2>1. UNCHANGED <<queues, counters>>
    BY <1>1 DEF genMSG
  <2>2. Time' \in 0 .. Horizon /\ Time <= Time'
    <3>1. Time \in 0 .. Horizon /\ Time' = Time
      BY DEF TypeOK
    <3>2. QED  BY <3>1, Constants
  <2>3. Books'
    BY <2>1, <2>2, SameBooks
  <2>4. QED  BY <2>1, <2>3 DEF queues, counters, TypeOK, BooksTyped, Buffers
<1>2. CASE ~ refused(s, t)
  <2>1. zz_NQMessages < QSLimit /\ NQMessages[t] < TLimit[t] /\ QSize[s] < SLimit[s]
    BY <1>2, Constants DEF refused, TypeOK
  <2>2. PICK a \in Addresses : a \notin allocated /\ a = CHOOSE b \in Addresses : b \notin allocated
    BY <2>1, FreeAddress DEF Books
  <2>3. /\ QSize' = [QSize EXCEPT ![s] = @ + 1]
        /\ message' = [message EXCEPT ![a] = [Length |-> length, QTime |-> Time]]
        /\ MQ' = [MQ EXCEPT ![s][t] = linked(s, t, a)]
        /\ MQTail' = [MQTail EXCEPT ![s][t] = a]
        /\ NQMessages' = [NQMessages EXCEPT ![t] = @ + 1]
        /\ zz_NQMessages' = zz_NQMessages + 1
    BY <1>2, <2>2 DEF genMSG
  <2>4. message \in [Addresses -> [Length : Nat, QTime : 0 .. Horizon]] /\ Time \in 0 .. Horizon
    BY DEF TypeOK
  <2>5. [Length |-> length, QTime |-> Time] \in [Length : Nat, QTime : 0 .. Horizon]
    BY <2>4, Constants
  <2>6. message' \in [Addresses -> [Length : Nat, QTime : 0 .. Horizon]]
    BY <2>2, <2>3, <2>4, <2>5
  <2>7. Grows(s, t, a)
    BY <2>2, <2>3, <2>4 DEF Grows
  <2>8. HasGrown(s, t, a)
    BY <2>2, <2>7, Grown
  <2>9. ASSUME NEW S \in SUBSET Stations, NEW T \in SUBSET Traffics
        PROVE  /\ Number(S, T)' = IF s \in S /\ t \in T THEN Number(S, T) + 1 ELSE Number(S, T)
               /\ Number(S, T)' \in Nat
    <3>1. /\ IsFiniteSet(Queued(S, T)) /\ Cardinality(Queued(S, T)) \in Nat
          /\ Cardinality(Lasts(S, T)) \in Nat
      BY Finite
    <3>2. a \notin Queued(S, T)
      BY <2>2 DEF Queued, allocated
    <3>3. Cardinality(Queued(S, T) \cup {a}) = Cardinality(Queued(S, T)) + 1
      BY <3>1, <3>2, FS_AddElement
    <3>4. Lasts(S, T)' = Lasts(S, T)
      BY DEF Lasts
    <3>5. Queued(S, T)' = IF s \in S /\ t \in T THEN Queued(S, T) \cup {a} ELSE Queued(S, T)
      BY <2>8 DEF HasGrown
    <3>6. CASE s \in S /\ t \in T
      BY <3>1, <3>3, <3>4, <3>5, <3>6 DEF Number
    <3>7. CASE ~ (s \in S /\ t \in T)
      BY <3>1, <3>4, <3>5, <3>7 DEF Number
    <3>8. QED  BY <3>6, <3>7
  <2>10. /\ CountersAgree'
         /\ NQMessages' \in [Traffics -> Nat] /\ zz_NQMessages' \in Nat /\ QSize' \in [Stations -> Nat]
    <3>1. Counts(s, t, 1)
      BY <2>1, <2>3, <2>9 DEF Counts
    <3>2. QED  BY <3>1, Recounted
  <2>11. buffer' \in [Procs -> {None} \cup Buffers]
    BY DEF TypeOK, Buffers
  <2>12. /\ MQ' \in [Stations -> [Traffics -> Seq(Addresses)]]
         /\ MQTail' \in [Stations -> [Traffics -> Addresses \cup {None}]]
         /\ QueuesLinked' /\ Apart' /\ Dated'
    BY <2>8 DEF HasGrown
  <2>13. QED  BY <2>6, <2>10, <2>11, <2>12 DEF Books, BooksTyped
<1>3. QED  BY <1>1, <1>2

LEMMA GetPacketBooks ==
  ASSUME TypeOK, Books, NEW p \in Procs, NEW t \in Traffics, NEW i \in DOMAIN MQ[At[p]][t],
         getPacket(p, t, i)
  PROVE  BooksTyped' /\ Books'
<1> DEFINE s == At[p]
           a == MQ[s][t][i]
           b == [TP |-> t, Sender |-> s, last |-> isLast(a)]
<1>1. s \in Stations /\ a \in Addresses /\ a \in queued(s, t) /\ message[a].Length \in Nat
  <2>1. s \in Stations
    BY Constants
  <2>2. a \in Addresses /\ a \in queued(s, t)
    BY <2>1, Typed DEF queued, ToSet
  <2>3. QED  BY <2>1, <2>2 DEF TypeOK
<1>2. /\ buffer[p] = None /\ buffer' = [buffer EXCEPT ![p] = b]
      /\ isLast(a) => /\ MQ' = [MQ EXCEPT ![s][t] = RemoveAt(@, i)]
                      /\ MQTail' = [MQTail EXCEPT ![s][t] = tailAfter(s, t, i)]
                      /\ message' = [message EXCEPT ![a] = deleted]
      /\ ~ isLast(a) => message' = [message EXCEPT ![a].Length = @ - MaxL] /\ UNCHANGED <<MQ, MQTail>>
      /\ UNCHANGED <<Time, counters>>
  BY DEF getPacket
<1>3. isLast(a) <=> message[a].Length <= MaxL
  BY DEF isLast
<1>4. b \in Buffers /\ b # None /\ b.TP = t /\ b.Sender = s /\ (b.last <=> isLast(a))
  <2>1. b \in Buffers
    BY <1>1 DEF Buffers, isLast
  <2>2. QED  BY <2>1, Constants
<1> HIDE DEF s, a, b
<1>5. /\ buffer' \in [Procs -> {None} \cup Buffers] /\ buffer'[p] = b
      /\ \A z \in Procs \ {p} : buffer'[z] = buffer[z]
  BY <1>2, <1>4 DEF TypeOK, Buffers
<1>6. \A S \in SUBSET Stations, T \in SUBSET Traffics :
        /\ Lasts(S, T)' = IF isLast(a) /\ s \in S /\ t \in T THEN Lasts(S, T) \cup {p} ELSE Lasts(S, T)
        /\ p \notin Lasts(S, T)
  <2>1. ASSUME NEW S \in SUBSET Stations, NEW T \in SUBSET Traffics, NEW z \in Procs
        PROVE  z \in Lasts(S, T)' <=> z \in Lasts(S, T) \/ (z = p /\ isLast(a) /\ s \in S /\ t \in T)
    BY <1>2, <1>4, <1>5 DEF Lasts
  <2>2. \A S, T : p \notin Lasts(S, T)
    BY <1>2 DEF Lasts
  <2>3. \A S, T : Lasts(S, T) \subseteq Procs /\ Lasts(S, T)' \subseteq Procs
    BY DEF Lasts
  <2>4. ASSUME NEW S \in SUBSET Stations, NEW T \in SUBSET Traffics
        PROVE  Lasts(S, T)' = IF isLast(a) /\ s \in S /\ t \in T THEN Lasts(S, T) \cup {p} ELSE Lasts(S, T)
    <3> DEFINE new == Lasts(S, T)'
               old == Lasts(S, T)
    <3>1. new \subseteq Procs /\ old \subseteq Procs
      BY <2>3
    <3>2. \A z \in Procs : z \in new <=> z \in old \/ (z = p /\ isLast(a) /\ s \in S /\ t \in T)
      BY <2>1
    <3> HIDE DEF new, old
    <3>3. new = IF isLast(a) /\ s \in S /\ t \in T THEN old \cup {p} ELSE old
      BY <3>1, <3>2
    <3>4. QED  BY <3>3 DEF new, old
  <2>5. QED  BY <2>2, <2>4
<1>7. message \in [Addresses -> [Length : Nat, QTime : 0 .. Horizon]]
  BY DEF TypeOK
<1>8. CASE isLast(a)
  <2>1. /\ message' \in [Addresses -> [Length : Nat, QTime : 0 .. Horizon]]
        /\ \A c \in Addresses \ {a} : message'[c] = message[c]
    <3>1. deleted \in [Length : Nat, QTime : 0 .. Horizon]
      BY Constants DEF deleted
    <3>2. QED  BY <3>1, <1>1, <1>2, <1>7, <1>8
  <2>2. Shrinks(s, t, i)
    BY <2>1, <1>2, <1>8 DEF Shrinks, a, TypeOK
  <2>3. /\ MQ' \in [Stations -> [Traffics -> Seq(Addresses)]]
        /\ MQTail' \in [Stations -> [Traffics -> Addresses \cup {None}]]
        /\ QueuesLinked' /\ Apart' /\ Dated'
        /\ \A S \in SUBSET Stations, T \in SUBSET Traffics :
             /\ Queued(S, T)' = Queued(S, T) \ {a}
             /\ a \in Queued(S, T) <=> s \in S /\ t \in T
    BY <2>2, <1>1, Shrunk DEF s, a
  <2>4. ASSUME NEW S \in SUBSET Stations, NEW T \in SUBSET Traffics
        PROVE  Number(S, T)' = Number(S, T)
    <3>1. /\ IsFiniteSet(Queued(S, T)) /\ Cardinality(Queued(S, T)) \in Nat
          /\ IsFiniteSet(Lasts(S, T)) /\ Cardinality(Lasts(S, T)) \in Nat
      BY Finite
    <3>2. CASE s \in S /\ t \in T
      <4>1. Cardinality(Queued(S, T) \ {a}) = Cardinality(Queued(S, T)) - 1
        BY <2>3, <3>1, <3>2, FS_RemoveElement
      <4>2. Cardinality(Lasts(S, T) \cup {p}) = Cardinality(Lasts(S, T)) + 1
        BY <1>6, <3>1, FS_AddElement
      <4>3. Lasts(S, T)' = Lasts(S, T) \cup {p} /\ Queued(S, T)' = Queued(S, T) \ {a}
        BY <1>6, <1>8, <2>3, <3>2
      <4>4. QED  BY <3>1, <4>1, <4>2, <4>3 DEF Number
    <3>3. CASE ~ (s \in S /\ t \in T)
      <4>1. Lasts(S, T)' = Lasts(S, T)
        BY <1>6, <3>3
      <4>2. Queued(S, T)' = Queued(S, T) \ {a} /\ a \notin Queued(S, T)
        BY <2>3, <3>3
      <4>3. Queued(S, T)' = Queued(S, T)
        BY <4>2
      <4>4. QED  BY <4>1, <4>3 DEF Number
    <3>4. QED  BY <3>2, <3>3
  <2>5. CountersAgree'
    BY <2>4, <1>2, CountersCount DEF Books, Counted, counters
  <2>6. QED  BY <2>1, <2>3, <2>5, <1>2, <1>5 DEF Books, BooksTyped, counters, TypeOK
<1>9. CASE ~ isLast(a)
  <2>1. message[a].Length - MaxL \in Nat
    BY <1>1, <1>3, <1>9, Constants
  <2>2. /\ message' \in [Addresses -> [Length : Nat, QTime : 0 .. Horizon]]
        /\ \A c \in Addresses : message'[c].QTime = message[c].QTime
    <3> DEFINE m == [message[a] EXCEPT !.Length = @ - MaxL]
    <3>1. m \in [Length : Nat, QTime : 0 .. Horizon] /\ m.QTime = message[a].QTime
      BY <2>1, <1>1, <1>7
    <3>2. message' = [message EXCEPT ![a] = m]
      BY <1>2, <1>9
    <3> HIDE DEF m
    <3>3. QED  BY <3>1, <3>2, <1>1, <1>7
  <2>3. UNCHANGED <<MQ, MQTail, Time>> /\ \A S, T : Queued(S, T)' = Queued(S, T)
    BY <1>2, <1>9 DEF Queued, queued
  <2>4. \A S \in SUBSET Stations, T \in SUBSET Traffics : Number(S, T)' = Number(S, T)
    BY <2>3, <1>6, <1>9 DEF Number
  <2>5. CountersAgree'
    BY <2>4, <1>2, CountersCount DEF Books, Counted, counters
  <2>6. Apart'
    BY <2>3 DEF Books, Apart, queued
  <2>7. Dated'
    <3>1. \A s1 \in Stations, t1 \in Traffics : \A c \in queued(s1, t1) : message'[c].QTime <= Time
      BY <2>2, Typed DEF Books, Dated
    <3>2. QED  BY <3>1, <2>3 DEF Dated, queued
  <2>8. QueuesLinked'
    <3>1. ASSUME NEW s1 \in Stations, NEW t1 \in Traffics
          PROVE  \A j \in DOMAIN MQ[s1][t1] :
                   message'[MQ[s1][t1][j]].QTime = message[MQ[s1][t1][j]].QTime
      BY <2>2, Typed
    <3>2. QED  BY <3>1, <2>3 DEF Books, QueuesLinked
  <2>9. QED  BY <2>2, <2>3, <2>5, <2>6, <2>7, <2>8, <1>2, <1>5 DEF Books, BooksTyped, counters, TypeOK
<1>10. QED  BY <1>8, <1>9

LEMMA ReleaseBooks ==
  ASSUME TypeOK, Books, NEW p \in Procs, buffer[p] # None, buffer' = [buffer EXCEPT ![p] = None],
         UNCHANGED <<Time, queues>>,
         IF counted(buffer[p])
         THEN /\ NQMessages' = [NQMessages EXCEPT ![buffer[p].TP] = @ - 1]
              /\ zz_NQMessages' = zz_NQMessages - 1
              /\ QSize' = [QSize EXCEPT ![buffer[p].Sender] = @ - 1]
         ELSE UNCHANGED counters
  PROVE  BooksTyped' /\ Books'
<1>1. buffer[p] \in Buffers
  BY DEF TypeOK, Buffers
<1>2. PICK s \in Stations, t \in Traffics : s = buffer[p].Sender /\ t = buffer[p].TP
  BY <1>1 DEF Buffers
<1>3. /\ buffer' \in [Procs -> {None} \cup Buffers] /\ buffer'[p] = None
      /\ \A z \in Procs \ {p} : buffer'[z] = buffer[z]
  BY DEF TypeOK, Buffers
<1>4. QueuesLinked' /\ Apart' /\ Dated' /\ \A S, T : Queued(S, T)' = Queued(S, T)
  <2>1. UNCHANGED <<Time, message, MQ, MQTail>>
    BY DEF queues
  <2>2. \A S, T : Queued(S, T)' = Queued(S, T)
    BY <2>1 DEF Queued, queued
  <2>3. QueuesLinked'
    BY <2>1 DEF Books, QueuesLinked
  <2>4. \A z \in Stations, u \in Traffics : queued(z, u)' = queued(z, u)
    BY <2>1 DEF queued
  <2>5. Apart'
    BY <2>4 DEF Books, Apart
  <2>6. Dated'
    BY <2>1, <2>4 DEF Books, Dated
  <2>7. QED  BY <2>2, <2>3, <2>5, <2>6
<1>5. message' = message /\ MQ' = MQ /\ MQTail' = MQTail
  BY DEF queues
<1>6. CASE buffer[p].last
  <2>1. ASSUME NEW S \in SUBSET Stations, NEW T \in SUBSET Traffics
        PROVE  /\ Number(S, T)' = IF s \in S /\ t \in T THEN Number(S, T) - 1 ELSE Number(S, T)
               /\ Number(S, T)' \in Nat
    <3>1. /\ Cardinality(Queued(S, T)) \in Nat
          /\ IsFiniteSet(Lasts(S, T)) /\ Cardinality(Lasts(S, T)) \in Nat
      BY Finite
    <3>2. Lasts(S, T)' = Lasts(S, T) \ {p}
      BY <1>3 DEF Lasts
    <3>3. p \in Lasts(S, T) <=> s \in S /\ t \in T
      BY <1>2, <1>6 DEF Lasts
    <3>4. CASE s \in S /\ t \in T
      <4>1. /\ Cardinality(Lasts(S, T) \ {p}) = Cardinality(Lasts(S, T)) - 1
            /\ Cardinality(Lasts(S, T) \ {p}) \in Nat
        <5>1. IsFiniteSet(Lasts(S, T) \ {p})
          BY <3>1, FS_Subset
        <5>2. QED  BY <3>1, <3>3, <3>4, <5>1, FS_RemoveElement, FS_CardinalityType
      <4>2. QED  BY <1>4, <3>1, <3>2, <3>4, <4>1 DEF Number
    <3>5. CASE ~ (s \in S /\ t \in T)
      <4>1. Lasts(S, T)' = Lasts(S, T)
        BY <3>2, <3>3, <3>5
      <4>2. QED  BY <1>4, <3>1, <3>5, <4>1 DEF Number
    <3>6. QED  BY <3>4, <3>5
  <2>2. PICK d \in {1, -1} : d = -1
    OBVIOUS
  <2>3. /\ NQMessages' = [NQMessages EXCEPT ![t] = @ + d]
        /\ zz_NQMessages' = zz_NQMessages + d
        /\ QSize' = [QSize EXCEPT ![s] = @ + d]
    BY <1>2, <1>6, <2>2 DEF counted, TypeOK
  <2>4. \A S \in SUBSET Stations, T \in SUBSET Traffics :
          /\ Number(S, T)' = IF s \in S /\ t \in T THEN Number(S, T) + d ELSE Number(S, T)
          /\ Number(S, T)' \in Nat
    <3>1. ASSUME NEW S \in SUBSET Stations, NEW T \in SUBSET Traffics
          PROVE  Number(S, T) \in Nat
      <4>1. Cardinality(Queued(S, T)) \in Nat /\ Cardinality(Lasts(S, T)) \in Nat
        BY Finite
      <4>2. QED  BY <4>1 DEF Number
    <3>2. QED  BY <2>1, <2>2, <3>1
  <2>5. /\ CountersAgree'
        /\ NQMessages' \in [Traffics -> Nat] /\ zz_NQMessages' \in Nat /\ QSize' \in [Stations -> Nat]
    <3>1. Counts(s, t, d)
      BY <2>2, <2>3, <2>4 DEF Counts
    <3>2. QED  BY <3>1, Recounted
  <2>6. QED  BY <1>3, <1>4, <1>5, <2>5 DEF Books, BooksTyped, TypeOK
<1>7. CASE ~ buffer[p].last
  <2>1. ASSUME NEW S, NEW T
        PROVE  Lasts(S, T)' = Lasts(S, T)
    BY <1>3, <1>7 DEF Lasts
  <2>2. UNCHANGED counters
    BY <1>7 DEF counted
  <2>3. \A S, T : Number(S, T)' = Number(S, T)
    BY <1>4, <2>1 DEF Number
  <2>4. CountersAgree'
    BY <2>2, <2>3, CountersCount DEF Books, Counted, counters
  <2>5. QED  BY <1>3, <1>4, <1>5, <2>2, <2>4 DEF Books, BooksTyped, counters, TypeOK
<1>8. QED  BY <1>6, <1>7

-----------------------------------------------------------------------------
(* Waiting                                                                  *)

PilotsTyped ==
  /\ started \in BOOLEAN /\ FlgSUS \in [Traffics -> BOOLEAN] /\ RemBSI \in [Traffics -> 0 .. MaxBurst]
  /\ arrivals \in [Traffics -> Nat] /\ bursts \in [Traffics -> Nat]

WaitsTyped ==
  /\ waits \in [Procs -> SUBSET Requests] /\ due \in [Procs -> SUBSET Requests]
  /\ \A p \in Procs : waits[p] \subseteq Awaits[p] /\ due[p] \subseteq waits[p]
  /\ zz_pe \in Procs \cup {None}

LEMMA Parts ==
  /\ TypeOK <=> Time \in 0 .. Horizon /\ PilotsTyped /\ BooksTyped /\ WaitsTyped
  /\ TypeOK' <=> Time' \in 0 .. Horizon /\ PilotsTyped' /\ BooksTyped' /\ WaitsTyped'
<1>1. TypeOK <=> Time \in 0 .. Horizon /\ PilotsTyped /\ BooksTyped /\ WaitsTyped
  BY DEF TypeOK, PilotsTyped, BooksTyped, WaitsTyped, Buffers
<1>2. TypeOK' <=> Time' \in 0 .. Horizon /\ PilotsTyped' /\ BooksTyped' /\ WaitsTyped'
  BY DEF TypeOK, PilotsTyped, BooksTyped, WaitsTyped, Buffers
<1>3. QED  BY <1>1, <1>2

\* There is nothing for which process p would wait in vain with request r.
Rightly(p, r) ==
  /\ r.ev = "ARRIVAL" => \A t \in Traffics : r.ai \in {Client, t} => MQ[At[p]][t] = <<>>
  /\ r.ai # Client => /\ r.ev = "SUSPEND" => ~FlgSUS[r.ai]
                      /\ r.ev = "RESUME" => FlgSUS[r.ai]

\* Requests that go on waiting did so before.
Quiet == \A p \in Procs : waits'[p] \ due'[p] \subseteq waits[p] \ due[p]

LEMMA SleepOn ==
  ASSUME NoLostWakeup, Quiet,
         \A p \in Procs : \A r \in waits'[p] \ due'[p] : Rightly(p, r) => Rightly(p, r)'
  PROVE  NoLostWakeup'
<1>1. ASSUME NEW p \in Procs, NEW r \in waits'[p] \ due'[p]
      PROVE  Rightly(p, r)'
  <2>1. r \in waits[p] \ due[p]
    BY DEF Quiet
  <2>2. Rightly(p, r)
    BY <2>1 DEF NoLostWakeup, Rightly
  <2>3. QED  BY <2>2
<1>2. QED  BY <1>1 DEF NoLostWakeup, Rightly

\* Nothing is triggered by changes that concern nobody's requests.
LEMMA NothingNew ==
  ASSUME NoLostWakeup, UNCHANGED <<FlgSUS, MQ, waits, due>>
  PROVE  NoLostWakeup'
BY DEF NoLostWakeup

LEMMA Triggered ==
  ASSUME WaitsTyped, NEW P \in SUBSET Procs, NEW evs, NEW ais, trigger(P, evs, ais), waits' = waits,
         zz_pe' \in Procs \cup {None}
  PROVE  /\ WaitsTyped' /\ Quiet
         /\ \A p \in P : \A r \in waits'[p] \ due'[p] : ~ (r.ev \in evs /\ r.ai \in ais)
<1> DEFINE new(p) == {r \in waits[p] : p \in P /\ \E t \in ais : matches(r, evs, t)}
<1>1. /\ waits \in [Procs -> SUBSET Requests] /\ due \in [Procs -> SUBSET Requests]
      /\ \A p \in Procs : waits[p] \subseteq Awaits[p] /\ due[p] \subseteq waits[p]
  BY DEF WaitsTyped
<1>2. due' = [p \in Procs |-> due[p] \cup new(p)]
  BY DEF trigger
<1>3. \A p \in Procs : new(p) \subseteq waits[p]
  OBVIOUS
<1>4. \A p \in P : \A r \in waits[p] : r.ev \in evs /\ r.ai \in ais => r \in new(p)
  BY DEF matches
<1> HIDE DEF new
<1>5. \A p \in Procs : due'[p] = due[p] \cup new(p)
  BY <1>2
<1>6. due' \in [Procs -> SUBSET Requests]
  <2>1. \A p \in Procs : due[p] \cup new(p) \in SUBSET Requests
    BY <1>1, <1>3
  <2>2. QED  BY <1>2, <2>1
<1>7. \A p \in Procs : due[p] \subseteq due'[p] /\ due'[p] \subseteq waits[p]
  BY <1>1, <1>3, <1>5
<1>8. WaitsTyped'
  BY <1>1, <1>6, <1>7 DEF WaitsTyped
<1>9. Quiet
  BY <1>7 DEF Quiet
<1>10. QED  BY <1>4, <1>5, <1>8, <1>9

\* All requests of a process are released when it is restarted.
LEMMA Released ==
  ASSUME WaitsTyped, NEW p \in Procs,
         waits' = [waits EXCEPT ![p] = {}], due' = [due EXCEPT ![p] = {}], zz_pe' \in Procs \cup {None}
  PROVE  WaitsTyped' /\ Quiet
<1>1. /\ waits \in [Procs -> SUBSET Requests] /\ due \in [Procs -> SUBSET Requests]
      /\ \A q \in Procs : waits[q] \subseteq Awaits[q] /\ due[q] \subseteq waits[q]
  BY DEF WaitsTyped
<1>2. /\ waits' \in [Procs -> SUBSET Requests] /\ due' \in [Procs -> SUBSET Requests]
      /\ \A q \in Procs : /\ waits'[q] = IF q = p THEN {} ELSE waits[q]
                          /\ due'[q] = IF q = p THEN {} ELSE due[q]
  BY <1>1
<1>3. QED  BY <1>1, <1>2 DEF WaitsTyped, Quiet

-----------------------------------------------------------------------------
(* The invariant is inductive                                                *)

\* Steps that leave the queues alone.
LEMMA NoBooks ==
  ASSUME IInv, UNCHANGED <<queues, buffer, counters>>, Time' \in 0 .. Horizon, Time <= Time',
         PilotsTyped', WaitsTyped', Remaining', NoLostWakeup'
  PROVE  IInv'
<1>1. Books'
  BY SameBooks DEF IInv
<1>2. BooksTyped'
  BY Parts DEF IInv, BooksTyped, queues, counters
<1>3. QED  BY <1>1, <1>2, Parts DEF IInv

\* Steps that only put processes to sleep or wake them.
LEMMA OnlyWaits ==
  ASSUME IInv, UNCHANGED <<Time, pilots, queues, buffer, counters>>, WaitsTyped', NoLostWakeup'
  PROVE  IInv'
<1>1. Time' \in 0 .. Horizon /\ Time <= Time'
  <2>1. Time \in 0 .. Horizon /\ Time' = Time
    BY DEF IInv, TypeOK
  <2>2. QED  BY <2>1, Constants
<1>2. PilotsTyped' /\ Remaining'
  BY Parts DEF IInv, PilotsTyped, Remaining, pilots
<1>3. QED  BY <1>1, <1>2, NoBooks

LEMMA WaitKeeps ==
  ASSUME IInv, NEW p \in Procs, Wait(p)
  PROVE  IInv'
<1>1. PICK R \in SUBSET Awaits[p] :
        /\ \A r \in R : r.ev = "ARRIVAL" =>
             \A t \in Traffics : r.ai \in {Client, t} => MQ[At[p]][t] = <<>>
        /\ waits' = [waits EXCEPT ![p] = R]
        /\ due' = [due EXCEPT ![p] = {r \in R : immediate(r) \/ immediateClient(r)}]
  BY DEF Wait
<1>2. /\ waits \in [Procs -> SUBSET Requests] /\ due \in [Procs -> SUBSET Requests]
      /\ \A q \in Procs : waits[q] \subseteq Awaits[q] /\ due[q] \subseteq waits[q]
      /\ zz_pe \in Procs \cup {None} /\ WaitsTyped
  BY Parts DEF IInv, WaitsTyped
<1>3. R \subseteq Requests /\ R \subseteq Awaits[p]
  BY Constants
<1>4. UNCHANGED <<Time, pilots, queues, buffer, counters, zz_pe>>
  BY DEF Wait
<1> DEFINE D == {r \in R : immediate(r) \/ immediateClient(r)}
<1>5. D \subseteq R /\ \A r \in R \ D : ~ immediate(r)
  OBVIOUS
<1>6. due' = [due EXCEPT ![p] = D]
  BY <1>1
<1> HIDE DEF D
<1>7. /\ waits' \in [Procs -> SUBSET Requests] /\ due' \in [Procs -> SUBSET Requests]
      /\ waits'[p] = R /\ due'[p] = D
      /\ \A q \in Procs \ {p} : waits'[q] = waits[q] /\ due'[q] = due[q]
  BY <1>1, <1>2, <1>3, <1>5, <1>6
<1>8. WaitsTyped'
  <2>1. ASSUME NEW q \in Procs
        PROVE  waits'[q] \subseteq Awaits[q] /\ due'[q] \subseteq waits'[q]
    BY <1>2, <1>3, <1>5, <1>7
  <2>2. zz_pe' \in Procs \cup {None}
    BY <1>2, <1>4
  <2>3. QED  BY <1>7, <2>1, <2>2 DEF WaitsTyped
<1>9. NoLostWakeup'
  <2>1. MQ' = MQ /\ FlgSUS' = FlgSUS
    BY <1>4 DEF queues, pilots
  <2>2. ASSUME NEW q \in Procs, NEW r \in waits'[q] \ due'[q]
        PROVE  Rightly(q, r)
    <3>1. CASE q # p
      BY <3>1, <1>7 DEF IInv, NoLostWakeup, Rightly
    <3>2. CASE q = p
      <4>1. r \in R \ D /\ r \in Requests /\ ~ immediate(r)
        BY <3>2, <1>3, <1>5, <1>7
      <4>2. r.ev = "ARRIVAL" => \A t \in Traffics : r.ai \in {Client, t} => MQ[At[p]][t] = <<>>
        BY <4>1, <1>1
      <4>3. r.ai # Client => (r.ev = "SUSPEND" => ~FlgSUS[r.ai]) /\ (r.ev = "RESUME" => FlgSUS[r.ai])
        BY <4>1 DEF immediate
      <4>4. QED  BY <3>2, <4>2, <4>3 DEF Rightly
    <3>3. QED  BY <3>1, <3>2
  <2>3. QED  BY <2>1, <2>2 DEF NoLostWakeup, Rightly
<1>10. QED  BY <1>4, <1>8, <1>9, OnlyWaits

LEMMA RestartKeeps ==
  ASSUME IInv, NEW p \in Procs,
         waits' = [waits EXCEPT ![p] = {}], due' = [due EXCEPT ![p] = {}],
         zz_pe' \in {zz_pe, None}, UNCHANGED <<Time, pilots, queues, buffer, counters>>
  PROVE  IInv'
<1>1. WaitsTyped /\ zz_pe' \in Procs \cup {None}
  BY Parts DEF IInv, WaitsTyped
<1>2. WaitsTyped' /\ Quiet
  BY <1>1, Released
<1>3. NoLostWakeup'
  <2>1. \A q \in Procs : \A r \in waits'[q] \ due'[q] : Rightly(q, r) => Rightly(q, r)'
    BY DEF Rightly, queues, pilots
  <2>2. QED  BY <1>2, <2>1, SleepOn DEF IInv
<1>4. QED  BY <1>2, <1>3, OnlyWaits

LEMMA TickKeeps ==
  ASSUME IInv, Tick
  PROVE  IInv'
<1>1. Time' \in 0 .. Horizon /\ Time <= Time'
  <2>1. Time \in 0 .. Horizon /\ Time < Horizon /\ Time' = Time + 1
    BY DEF IInv, TypeOK, Tick
  <2>2. QED  BY <2>1, Constants
<1>2. UNCHANGED <<pilots, queues, buffer, counters, waiting>>
  BY DEF Tick
<1>3. PilotsTyped' /\ WaitsTyped' /\ Remaining'
  BY <1>2, Parts DEF IInv, PilotsTyped, WaitsTyped, Remaining, pilots, waiting
<1>4. NoLostWakeup'
  BY <1>2, NothingNew DEF IInv, pilots, queues, waiting
<1>5. QED  BY <1>1, <1>2, <1>3, <1>4, NoBooks

LEMMA StartKeeps ==
  ASSUME IInv, Start
  PROVE  IInv'
<1>1. Time' \in 0 .. Horizon /\ Time <= Time'
  <2>1. Time \in 0 .. Horizon /\ Time' = Time
    BY DEF IInv, TypeOK, Start
  <2>2. QED  BY <2>1, Constants
<1>2. UNCHANGED <<FlgSUS, RemBSI, queues, buffer, counters, waiting>>
  BY DEF Start
<1>3. /\ PilotsTyped /\ started' = TRUE
      /\ arrivals' = [t \in Traffics |->
                       IF ~FlgSUS[t] /\ t \notin Bursty THEN arrivals[t] + 1 ELSE arrivals[t]]
      /\ bursts' = [t \in Traffics |->
                     IF ~FlgSUS[t] /\ t \in Bursty THEN bursts[t] + 1 ELSE bursts[t]]
  BY Parts DEF IInv, Start
<1>4. PilotsTyped'
  BY <1>2, <1>3 DEF PilotsTyped
<1>5. Remaining'
  BY <1>2, <1>3, Constants DEF IInv, Remaining
<1>6. WaitsTyped'
  BY <1>2, Parts DEF IInv, WaitsTyped, waiting
<1>7. NoLostWakeup'
  BY <1>2, NothingNew DEF IInv, queues, waiting
<1>8. QED  BY <1>1, <1>2, <1>4, <1>5, <1>6, <1>7, NoBooks

LEMMA GenBurstKeeps ==
  ASSUME IInv, NEW t \in Traffics, GenBurst(t)
  PROVE  IInv'
<1>1. Time' \in 0 .. Horizon /\ Time <= Time'
  <2>1. Time \in 0 .. Horizon /\ Time' = Time
    BY DEF IInv, TypeOK, GenBurst
  <2>2. QED  BY <2>1, Constants
<1>2. UNCHANGED <<started, FlgSUS, bursts, queues, buffer, counters, waiting>>
  BY DEF GenBurst
<1>3. PICK ml \in 0 .. MaxBurst :
        /\ RemBSI[t] + ml <= MaxBurst
        /\ arrivals' = [arrivals EXCEPT ![t] = IF RemBSI[t] = 0 /\ ml > 0 THEN @ + 1 ELSE @]
        /\ RemBSI' = [RemBSI EXCEPT ![t] = @ + ml]
  BY DEF GenBurst, begins
<1>4. PilotsTyped /\ MaxBurst \in Nat
  BY Parts, Constants DEF IInv
<1>5. /\ RemBSI[t] \in Nat /\ arrivals[t] \in Nat /\ ml \in Nat /\ RemBSI[t] + ml \in 0 .. MaxBurst
      /\ \A u \in Traffics : /\ RemBSI'[u] = IF u = t THEN RemBSI[t] + ml ELSE RemBSI[u]
                             /\ u # t => arrivals'[u] = arrivals[u]
      /\ arrivals'[t] = IF RemBSI[t] = 0 /\ ml > 0 THEN arrivals[t] + 1 ELSE arrivals[t]
  BY <1>3, <1>4 DEF PilotsTyped
<1>6. PilotsTyped'
  BY <1>2, <1>3, <1>4, <1>5 DEF PilotsTyped
<1>7. Remaining'
  BY <1>5, Constants DEF IInv, Remaining
<1>8. WaitsTyped'
  BY <1>2, Parts DEF IInv, WaitsTyped, waiting
<1>9. NoLostWakeup'
  BY <1>2, NothingNew DEF IInv, queues, waiting
<1>10. QED  BY <1>1, <1>2, <1>6, <1>7, <1>8, <1>9, NoBooks

LEMMA GenMessageKeeps ==
  ASSUME IInv, NEW t \in Traffics, GenMessage(t)
  PROVE  IInv'
<1>1. PICK s \in Stations, length \in Lengths : genMSG(s, t, length)
  BY DEF GenMessage
<1>2. /\ UNCHANGED <<Time, started, FlgSUS, bursts, buffer>> /\ arrivals[t] > 0
      /\ RemBSI' = IF t \in Bursty THEN [RemBSI EXCEPT ![t] = @ - 1] ELSE RemBSI
      /\ arrivals' = [arrivals EXCEPT ![t] = IF t \notin Bursty \/ RemBSI[t] - 1 > 0 THEN @ ELSE @ - 1]
  BY DEF GenMessage, continues
<1>3. BooksTyped' /\ Books'
  BY <1>1, <1>2, GenMSGBooks DEF IInv
<1>4. PilotsTyped /\ WaitsTyped /\ MaxBurst \in Nat
  BY Parts, Constants DEF IInv
<1>5. /\ arrivals[t] \in Nat /\ RemBSI[t] \in 0 .. MaxBurst
      /\ t \in Bursty => arrivals[t] = 1 /\ RemBSI[t] - 1 \in 0 .. MaxBurst
  BY <1>2, <1>4 DEF IInv, Remaining, PilotsTyped
<1>6. /\ \A u \in Traffics \ {t} : RemBSI'[u] = RemBSI[u] /\ arrivals'[u] = arrivals[u]
      /\ RemBSI'[t] = IF t \in Bursty THEN RemBSI[t] - 1 ELSE RemBSI[t]
      /\ arrivals'[t] = IF t \notin Bursty \/ RemBSI[t] - 1 > 0 THEN arrivals[t] ELSE arrivals[t] - 1
  BY <1>2, <1>4 DEF PilotsTyped
<1>7. PilotsTyped'
  <2>1. RemBSI' \in [Traffics -> 0 .. MaxBurst]
    BY <1>2, <1>4, <1>5 DEF PilotsTyped
  <2>2. arrivals'[t] \in Nat
    BY <1>2, <1>5, <1>6
  <2>3. arrivals' \in [Traffics -> Nat]
    BY <1>2, <1>4, <2>2 DEF PilotsTyped
  <2>4. QED  BY <1>2, <1>4, <2>1, <2>3 DEF PilotsTyped
<1>8. Remaining'
  <2>1. ASSUME NEW u \in Bursty
        PROVE  arrivals'[u] = 0 \/ (arrivals'[u] = 1 /\ RemBSI'[u] > 0)
    <3>1. u \in Traffics
      BY Constants
    <3>2. CASE u = t
      BY <2>1, <3>1, <3>2, <1>2, <1>5, <1>6
    <3>3. CASE u # t
      BY <2>1, <3>1, <3>3, <1>6 DEF IInv, Remaining
    <3>4. QED  BY <3>2, <3>3
  <2>2. QED  BY <2>1 DEF Remaining
<1>9. WaitsTyped' /\ NoLostWakeup'
  <2>1. CASE refused(s, t)
    <3>1. UNCHANGED <<queues, waiting>>
      BY <1>1, <2>1 DEF genMSG
    <3>2. WaitsTyped'
      BY <3>1, <1>4 DEF WaitsTyped, waiting
    <3>3. NoLostWakeup'
      BY <3>1, <1>2, NothingNew DEF IInv, queues, waiting
    <3>4. QED  BY <3>2, <3>3
  <2>2. CASE ~ refused(s, t)
    <3> DEFINE here == {p \in Procs : At[p] = s}
    <3>1. /\ trigger(here, {"ARRIVAL", "INTERCEPT"}, {Client, t})
          /\ zz_pe' = zz_pe \/ zz_pe' \in Procs
          /\ waits' = waits
          /\ \E a : MQ' = [MQ EXCEPT ![s][t] = linked(s, t, a)]
      BY <1>1, <2>2 DEF genMSG
    <3>2. here \in SUBSET Procs
      OBVIOUS
    <3>3. zz_pe' \in Procs \cup {None}
      BY <3>1, <1>4 DEF WaitsTyped
    <3>4. \A p \in Procs : At[p] = s => p \in here
      OBVIOUS
    <3> HIDE DEF here
    <3>5. /\ WaitsTyped' /\ Quiet
          /\ \A p \in here : \A r \in waits'[p] \ due'[p] :
               ~ (r.ev \in {"ARRIVAL", "INTERCEPT"} /\ r.ai \in {Client, t})
      BY <3>1, <3>2, <3>3, <1>4, Triggered
    <3>6. \A s1 \in Stations, t1 \in Traffics : s1 # s \/ t1 # t => MQ'[s1][t1] = MQ[s1][t1]
      <4>1. MQ \in [Stations -> [Traffics -> Seq(Addresses)]]
        BY DEF IInv, TypeOK
      <4>2. QED  BY <3>1, <4>1
    <3>7. ASSUME NEW p \in Procs, NEW r \in waits'[p] \ due'[p], Rightly(p, r)
          PROVE  Rightly(p, r)'
      <4>1. At[p] \in Stations /\ FlgSUS' = FlgSUS
        BY <1>2, Constants
      <4>2. ASSUME r.ev = "ARRIVAL", NEW u \in Traffics, r.ai \in {Client, u}
            PROVE  MQ'[At[p]][u] = <<>>
        <5>1. ~ (At[p] = s /\ u = t)
          BY <4>2, <3>4, <3>5
        <5>2. MQ[At[p]][u] = <<>>
          BY <4>2, <3>7 DEF Rightly
        <5>3. QED  BY <5>1, <5>2, <4>1, <3>6
      <4>3. QED  BY <4>1, <4>2, <3>7 DEF Rightly
    <3>8. QED  BY <3>5, <3>7, SleepOn DEF IInv
  <2>3. QED  BY <2>1, <2>2
<1>10. Time' \in 0 .. Horizon
  BY <1>2 DEF IInv, TypeOK
<1>11. QED  BY <1>3, <1>7, <1>8, <1>9, <1>10, Parts DEF IInv

\* Patterns are suspended or resumed; those that change and others of their kind are
\* triggered.
LEMMA SuspendKeeps ==
  ASSUME IInv, NEW T \in SUBSET Traffics, NEW ais, T \subseteq ais,
         \A t \in T : ~FlgSUS[t],
         FlgSUS' = [t \in Traffics |-> t \in T \/ FlgSUS[t]],
         arrivals' = [t \in Traffics |-> IF t \in T THEN 0 ELSE arrivals[t]],
         bursts' = cancelled(T),
         trigger(Procs, {"SUSPEND"}, ais),
         UNCHANGED <<Time, started, RemBSI, queues, buffer, counters, waits, zz_pe>>
  PROVE  IInv'
<1>1. PilotsTyped /\ WaitsTyped
  BY Parts DEF IInv
<1>2. PilotsTyped'
  BY <1>1 DEF PilotsTyped, cancelled
<1>3. Remaining'
  BY Constants DEF IInv, Remaining
<1>4. /\ WaitsTyped' /\ Quiet
      /\ \A p \in Procs : \A r \in waits'[p] \ due'[p] : ~ (r.ev \in {"SUSPEND"} /\ r.ai \in ais)
  <2>1. Procs \in SUBSET Procs /\ zz_pe' \in Procs \cup {None} /\ waits' = waits
    BY <1>1 DEF WaitsTyped
  <2>2. QED  BY <1>1, <2>1, Triggered
<1>5. ASSUME NEW p \in Procs, NEW r \in waits'[p] \ due'[p], Rightly(p, r)
      PROVE  Rightly(p, r)'
  <2>1. MQ' = MQ
    BY DEF queues
  <2>2. r.ai \in Traffics \cup {Client} /\ ~ (r.ev = "SUSPEND" /\ r.ai \in ais)
    BY <1>4 DEF WaitsTyped, Requests
  <2>3. r.ai # Client => (r.ev = "SUSPEND" => ~FlgSUS'[r.ai]) /\ (r.ev = "RESUME" => FlgSUS'[r.ai])
    BY <2>2, <1>5 DEF Rightly
  <2>4. QED  BY <2>1, <2>3, <1>5 DEF Rightly
<1>6. NoLostWakeup'
  BY <1>4, <1>5, SleepOn DEF IInv
<1>7. Time' \in 0 .. Horizon /\ Time <= Time'
  <2>1. Time \in 0 .. Horizon /\ Time' = Time
    BY DEF IInv, TypeOK
  <2>2. QED  BY <2>1, Constants
<1>8. QED  BY <1>2, <1>3, <1>4, <1>6, <1>7, NoBooks

LEMMA ResumeKeeps ==
  ASSUME IInv, NEW T \in SUBSET Traffics, NEW ais, T \subseteq ais,
         \A t \in T : FlgSUS[t],
         FlgSUS' = [t \in Traffics |-> t \notin T /\ FlgSUS[t]],
         arrivals' = [t \in Traffics |-> IF t \in T \ Bursty THEN arrivals[t] + 1 ELSE arrivals[t]],
         bursts' = [t \in Traffics |-> IF t \in T \cap Bursty THEN bursts[t] + 1 ELSE bursts[t]],
         trigger(Procs, {"RESUME"}, ais),
         UNCHANGED <<Time, started, RemBSI, queues, buffer, counters, waits, zz_pe>>
  PROVE  IInv'
<1>1. PilotsTyped /\ WaitsTyped
  BY Parts DEF IInv
<1>2. PilotsTyped'
  BY <1>1 DEF PilotsTyped
<1>3. Remaining'
  BY Constants DEF IInv, Remaining
<1>4. /\ WaitsTyped' /\ Quiet
      /\ \A p \in Procs : \A r \in waits'[p] \ due'[p] : ~ (r.ev \in {"RESUME"} /\ r.ai \in ais)
  <2>1. Procs \in SUBSET Procs /\ zz_pe' \in Procs \cup {None} /\ waits' = waits
    BY <1>1 DEF WaitsTyped
  <2>2. QED  BY <1>1, <2>1, Triggered
<1>5. ASSUME NEW p \in Procs, NEW r \in waits'[p] \ due'[p], Rightly(p, r)
      PROVE  Rightly(p, r)'
  <2>1. MQ' = MQ
    BY DEF queues
  <2>2. r.ai \in Traffics \cup {Client} /\ ~ (r.ev = "RESUME" /\ r.ai \in ais)
    BY <1>4 DEF WaitsTyped, Requests
  <2>3. r.ai # Client => (r.ev = "SUSPEND" => ~FlgSUS'[r.ai]) /\ (r.ev = "RESUME" => FlgSUS'[r.ai])
    BY <2>2, <1>5 DEF Rightly
  <2>4. QED  BY <2>1, <2>3, <1>5 DEF Rightly
<1>6. NoLostWakeup'
  BY <1>4, <1>5, SleepOn DEF IInv
<1>7. Time' \in 0 .. Horizon /\ Time <= Time'
  <2>1. Time \in 0 .. Horizon /\ Time' = Time
    BY DEF IInv, TypeOK
  <2>2. QED  BY <2>1, Constants
<1>8. QED  BY <1>2, <1>3, <1>4, <1>6, <1>7, NoBooks

LEMMA SuspendsKeep ==
  ASSUME IInv, NEW p \in Procs, NEW t \in Traffics, Suspend(p, t) \/ ClientSuspend(p)
  PROVE  IInv'
<1>1. /\ FlgSUS \in [Traffics -> BOOLEAN] /\ arrivals \in [Traffics -> Nat]
      /\ bursts \in [Traffics -> Nat]
  BY DEF IInv, TypeOK
<1>2. CASE Suspend(p, t)
  <2>1. /\ \A u \in {t} : ~FlgSUS[u]
        /\ FlgSUS' = [FlgSUS EXCEPT ![t] = TRUE] /\ arrivals' = [arrivals EXCEPT ![t] = 0]
        /\ bursts' = cancelled({t}) /\ trigger(Procs, {"SUSPEND"}, {t})
        /\ UNCHANGED <<Time, started, RemBSI, queues, buffer, counters, waits, zz_pe>>
    BY <1>2 DEF Suspend
  <2>2. /\ FlgSUS' = [u \in Traffics |-> u \in {t} \/ FlgSUS[u]]
        /\ arrivals' = [u \in Traffics |-> IF u \in {t} THEN 0 ELSE arrivals[u]]
    BY <2>1, <1>1
  <2>3. {t} \in SUBSET Traffics /\ {t} \subseteq {t}
    OBVIOUS
  <2>4. QED  BY <2>1, <2>2, <2>3, SuspendKeeps
<1>3. CASE ClientSuspend(p)
  <2>1. PICK T : T = {u \in Traffics : ~FlgSUS[u]}
    OBVIOUS
  <2>2. /\ \A u \in T : ~FlgSUS[u]
        /\ FlgSUS' = [u \in Traffics |-> TRUE]
        /\ arrivals' = [u \in Traffics |-> IF FlgSUS[u] THEN arrivals[u] ELSE 0]
        /\ bursts' = cancelled(T) /\ trigger(Procs, {"SUSPEND"}, T \cup {Client})
        /\ UNCHANGED <<Time, started, RemBSI, queues, buffer, counters, waits, zz_pe>>
    BY <1>3, <2>1 DEF ClientSuspend
  <2>3. /\ FlgSUS' = [u \in Traffics |-> u \in T \/ FlgSUS[u]]
        /\ arrivals' = [u \in Traffics |-> IF u \in T THEN 0 ELSE arrivals[u]]
    BY <2>1, <2>2, <1>1
  <2>4. T \in SUBSET Traffics /\ T \subseteq T \cup {Client}
    BY <2>1
  <2>5. QED  BY <2>2, <2>3, <2>4, SuspendKeeps
<1>4. QED  BY <1>2, <1>3

LEMMA ResumesKeep ==
  ASSUME IInv, NEW p \in Procs, NEW t \in Traffics, Resume(p, t) \/ ClientResume(p)
  PROVE  IInv'
<1>1. /\ FlgSUS \in [Traffics -> BOOLEAN] /\ arrivals \in [Traffics -> Nat]
      /\ bursts \in [Traffics -> Nat] /\ Bursty \subseteq Traffics
  BY Constants DEF IInv, TypeOK
<1>2. CASE Resume(p, t)
  <2>1. /\ \A u \in {t} : FlgSUS[u]
        /\ FlgSUS' = [FlgSUS EXCEPT ![t] = FALSE]
        /\ arrivals' = IF t \in Bursty THEN arrivals ELSE [arrivals EXCEPT ![t] = @ + 1]
        /\ bursts' = IF t \in Bursty THEN [bursts EXCEPT ![t] = @ + 1] ELSE bursts
        /\ trigger(Procs, {"RESUME"}, {t})
        /\ UNCHANGED <<Time, started, RemBSI, queues, buffer, counters, waits, zz_pe>>
    BY <1>2 DEF Resume, pilot
  <2>2. FlgSUS' = [u \in Traffics |-> u \notin {t} /\ FlgSUS[u]]
    BY <2>1, <1>1
  <2>3. arrivals' = [u \in Traffics |-> IF u \in {t} \ Bursty THEN arrivals[u] + 1 ELSE arrivals[u]]
    BY <2>1, <1>1
  <2>4. bursts' = [u \in Traffics |-> IF u \in {t} \cap Bursty THEN bursts[u] + 1 ELSE bursts[u]]
    BY <2>1, <1>1
  <2>5. {t} \in SUBSET Traffics /\ {t} \subseteq {t}
    OBVIOUS
  <2>6. QED  BY <2>1, <2>2, <2>3, <2>4, <2>5, ResumeKeeps
<1>3. CASE ClientResume(p)
  <2>1. UNCHANGED <<Time, started, RemBSI, queues, buffer, counters, waits, zz_pe>>
    BY <1>3 DEF ClientResume
  <2>2. CASE ~ isSuspended
    <3>1. UNCHANGED <<FlgSUS, arrivals, bursts, due>>
      BY <1>3, <2>2 DEF ClientResume
    <3>2. UNCHANGED <<Time, pilots, queues, buffer, counters>> /\ UNCHANGED waiting
      BY <2>1, <3>1 DEF pilots, waiting
    <3>3. WaitsTyped'
      BY <3>2, Parts DEF IInv, WaitsTyped, waiting
    <3>4. NoLostWakeup'
      BY <2>1, <3>1, NothingNew DEF IInv, queues
    <3>5. QED  BY <3>2, <3>3, <3>4, OnlyWaits
  <2>3. CASE isSuspended
    <3>1. /\ \A u \in Traffics : FlgSUS[u]
          /\ FlgSUS' = [u \in Traffics |-> FALSE]
          /\ arrivals' = [u \in Traffics |->
                           IF u \in Bursty THEN arrivals[u] ELSE arrivals[u] + 1]
          /\ bursts' = [u \in Traffics |->
                         IF u \in Bursty THEN bursts[u] + 1 ELSE bursts[u]]
          /\ trigger(Procs, {"RESUME"}, Traffics \cup {Client})
      BY <1>3, <2>3 DEF ClientResume, isSuspended
    <3>2. /\ FlgSUS' = [u \in Traffics |-> u \notin Traffics /\ FlgSUS[u]]
          /\ arrivals' = [u \in Traffics |->
                           IF u \in Traffics \ Bursty THEN arrivals[u] + 1 ELSE arrivals[u]]
          /\ bursts' = [u \in Traffics |->
                         IF u \in Traffics \cap Bursty THEN bursts[u] + 1 ELSE bursts[u]]
      BY <3>1
    <3>3. Traffics \in SUBSET Traffics /\ Traffics \subseteq Traffics \cup {Client}
      OBVIOUS
    <3>4. QED  BY <2>1, <3>1, <3>2, <3>3, ResumeKeeps
  <2>4. QED  BY <2>2, <2>3
<1>4. QED  BY <1>2, <1>3

LEMMA GetPacketKeeps ==
  ASSUME IInv, NEW p \in Procs, NEW t \in Traffics, NEW tf, packetOf(p, t, tf)
  PROVE  IInv'
<1>1. PICK i \in DOMAIN MQ[At[p]][t] : getPacket(p, t, i)
  BY DEF packetOf
<1>2. BooksTyped' /\ Books'
  BY <1>1, GetPacketBooks DEF IInv
<1>3. UNCHANGED <<Time, pilots, waiting>>
  BY <1>1 DEF getPacket
<1>4. /\ Time' \in 0 .. Horizon /\ PilotsTyped' /\ WaitsTyped' /\ Remaining'
  BY <1>3, Parts DEF IInv, PilotsTyped, WaitsTyped, Remaining, pilots, waiting
<1>5. \A s1 \in Stations, t1 \in Traffics : MQ[s1][t1] = <<>> => MQ'[s1][t1] = <<>>
  <2>1. MQ' = MQ \/ MQ' = [MQ EXCEPT ![At[p]][t] = RemoveAt(@, i)]
    BY <1>1 DEF getPacket
  <2>2. MQ[At[p]][t] # <<>> /\ MQ \in [Stations -> [Traffics -> Seq(Addresses)]]
    <3>1. MQ \in [Stations -> [Traffics -> Seq(Addresses)]] /\ At[p] \in Stations
      BY Constants DEF IInv, TypeOK
    <3>2. DOMAIN MQ[At[p]][t] = 1 .. Len(MQ[At[p]][t]) /\ i \in DOMAIN MQ[At[p]][t]
      BY <3>1
    <3>3. QED  BY <3>1, <3>2
  <2>3. \A s1 \in Stations, t1 \in Traffics : s1 # At[p] \/ t1 # t => MQ'[s1][t1] = MQ[s1][t1]
    BY <2>1, <2>2
  <2>4. QED  BY <2>2, <2>3
<1>6. NoLostWakeup'
  <2>1. FlgSUS' = FlgSUS /\ waits' = waits /\ due' = due
    BY <1>3 DEF pilots, waiting
  <2>2. \A q \in Procs : \A r \in waits'[q] \ due'[q] : Rightly(q, r) => Rightly(q, r)'
    BY <1>5, <2>1, Constants DEF Rightly
  <2>3. Quiet
    BY <2>1 DEF Quiet
  <2>4. QED  BY <2>2, <2>3, SleepOn DEF IInv
<1>7. QED  BY <1>2, <1>4, <1>6, Parts DEF IInv

LEMMA ReleaseKeeps ==
  ASSUME IInv, NEW p \in Procs, Release(p)
  PROVE  IInv'
<1>1. UNCHANGED <<Time, pilots, queues, waiting>>
  BY DEF Release
<1>2. BooksTyped' /\ Books'
  <2>1. /\ buffer[p] # None /\ buffer' = [buffer EXCEPT ![p] = None] /\ UNCHANGED <<Time, queues>>
        /\ IF counted(buffer[p])
           THEN /\ NQMessages' = [NQMessages EXCEPT ![buffer[p].TP] = @ - 1]
                /\ zz_NQMessages' = zz_NQMessages - 1
                /\ QSize' = [QSize EXCEPT ![buffer[p].Sender] = @ - 1]
           ELSE UNCHANGED counters
    BY DEF Release
  <2>2. QED  BY <2>1, ReleaseBooks DEF IInv
<1>3. /\ Time' \in 0 .. Horizon /\ PilotsTyped' /\ WaitsTyped' /\ Remaining'
  BY <1>1, Parts DEF IInv, PilotsTyped, WaitsTyped, Remaining, pilots, waiting
<1>4. NoLostWakeup'
  BY <1>1, NothingNew DEF IInv, pilots, queues, waiting
<1>5. QED  BY <1>2, <1>3, <1>4, Parts DEF IInv

LEMMA InitInv == Init => IInv
<1> SUFFICES ASSUME Init PROVE IInv
  OBVIOUS
<1>1. TypeOK
  <2>1. Time \in 0 .. Horizon /\ 0 \in 0 .. MaxBurst
    BY Constants DEF Init
  <2>2. PilotsTyped
    BY <2>1 DEF Init, PilotsTyped
  <2>3. BooksTyped
    <3>1. deleted \in [Length : Nat, QTime : 0 .. Horizon]
      BY Constants DEF deleted
    <3>2. <<>> \in Seq(Addresses)
      OBVIOUS
    <3>3. QED  BY <3>1, <3>2 DEF Init, BooksTyped
  <2>4. WaitsTyped
    BY DEF Init, WaitsTyped
  <2>5. QED  BY <2>1, <2>2, <2>3, <2>4, Parts
<1>2. Remaining
  BY Constants DEF Init, Remaining
<1>3. \A s \in Stations, t \in Traffics : MQ[s][t] = <<>> /\ queued(s, t) = {}
  <2>1. ToSet(<<>>) = {}
    BY DEF ToSet
  <2>2. QED  BY <2>1 DEF Init, queued
<1>4. Books
  <2>1. \A S \in SUBSET Stations, T \in SUBSET Traffics : Number(S, T) = 0
    <3>1. ASSUME NEW S \in SUBSET Stations, NEW T \in SUBSET Traffics
          PROVE  Queued(S, T) = {} /\ Lasts(S, T) = {}
      BY <1>3 DEF Queued, Lasts, Init
    <3>2. Cardinality({}) = 0
      BY FS_EmptySet
    <3>3. QED  BY <3>1, <3>2 DEF Number
  <2>2. Counted
    <3>1. zz_NQMessages = Number(Stations, Traffics) /\ zz_NQMessages <= QSLimit
      BY <2>1, Constants DEF Init
    <3>2. \A t \in Traffics : NQMessages[t] = Number(Stations, {t}) /\ NQMessages[t] <= TLimit[t]
      BY <2>1, Constants DEF Init
    <3>3. \A s \in Stations : QSize[s] = Number({s}, Traffics) /\ QSize[s] <= SLimit[s]
      BY <2>1, Constants DEF Init
    <3>4. QED  BY <3>1, <3>2, <3>3 DEF Counted
  <2>3. CountersAgree
    BY <2>2, CountersCount
  <2>4. QueuesLinked
    BY <1>3 DEF QueuesLinked, Init
  <2>5. Apart /\ Dated
    BY <1>3 DEF Apart, Dated
  <2>6. QED  BY <2>3, <2>4, <2>5 DEF Books
<1>5. NoLostWakeup
  BY DEF Init, NoLostWakeup
<1>6. QED  BY <1>1, <1>2, <1>4, <1>5 DEF IInv

LEMMA NextKeeps == IInv /\ [Next]_vars => IInv'
<1> SUFFICES ASSUME IInv, [Next]_vars PROVE IInv'
  OBVIOUS
<1>1. CASE Start
  BY <1>1, StartKeeps
<1>2. CASE RestartPriority
  <2>1. zz_pe \in Procs
    BY <1>2 DEF IInv, TypeOK, RestartPriority
  <2>2. PICK p \in Procs : p = zz_pe
    BY <2>1
  <2>3. /\ waits' = [waits EXCEPT ![p] = {}] /\ due' = [due EXCEPT ![p] = {}]
        /\ zz_pe' \in {zz_pe, None} /\ UNCHANGED <<Time, pilots, queues, buffer, counters>>
    BY <1>2, <2>2 DEF RestartPriority
  <2>4. QED  BY <2>3, RestartKeeps
<1>3. CASE Tick
  BY <1>3, TickKeeps
<1>4. ASSUME NEW t \in Traffics, GenMessage(t) \/ GenBurst(t)
      PROVE  IInv'
  BY <1>4, GenMessageKeeps, GenBurstKeeps
<1>5. ASSUME NEW p \in Procs, Wait(p) \/ Restart(p) \/ Release(p) \/ ClientSuspend(p) \/ ClientResume(p)
      PROVE  IInv'
  <2>1. 0 \in Traffics
    BY Constants DEF Traffics
  <2>2. CASE Wait(p)
    BY <2>2, WaitKeeps
  <2>3. CASE Restart(p)
    <3>1. /\ waits' = [waits EXCEPT ![p] = {}] /\ due' = [due EXCEPT ![p] = {}]
          /\ zz_pe' \in {zz_pe, None} /\ UNCHANGED <<Time, pilots, queues, buffer, counters>>
      BY <2>3 DEF Restart
    <3>2. QED  BY <3>1, RestartKeeps
  <2>4. CASE Release(p)
    BY <2>4, ReleaseKeeps
  <2>5. CASE ClientSuspend(p) \/ ClientResume(p)
    BY <2>1, <2>5, SuspendsKeep, ResumesKeep
  <2>6. QED  BY <1>5, <2>2, <2>3, <2>4, <2>5
<1>6. ASSUME NEW p \in Procs, NEW t \in Traffics, Suspend(p, t) \/ Resume(p, t)
      PROVE  IInv'
  BY <1>6, SuspendsKeep, ResumesKeep
<1>7. ASSUME NEW p \in Procs, NEW t \in Traffics, NEW tf \in SUBSET Addresses,
             TrafficGetPacket(p, t) \/ TrafficGetPacketIf(p, t, tf)
      PROVE  IInv'
  BY <1>7, GetPacketKeeps DEF TrafficGetPacket, TrafficGetPacketIf
<1>8. ASSUME NEW p \in Procs, NEW i \in Traffics, NEW tf \in SUBSET Addresses,
             ClientGetPacket(p, i) \/ ClientGetPacketIf(p, tf, i)
      PROVE  IInv'
  BY <1>8, GetPacketKeeps DEF ClientGetPacket, ClientGetPacketIf
<1>9. CASE UNCHANGED vars
  <2>1. UNCHANGED <<Time, pilots, queues, buffer, counters, waiting>>
    BY <1>9 DEF vars
  <2>2. WaitsTyped' /\ NoLostWakeup'
    BY <2>1, Parts, NothingNew DEF IInv, WaitsTyped, waiting, queues, pilots
  <2>3. QED  BY <2>1, <2>2, OnlyWaits
<1>10. {} \in SUBSET Addresses
  OBVIOUS
<1>11. QED  BY <1>1, <1>2, <1>3, <1>4, <1>5, <1>6, <1>7, <1>8, <1>9, <1>10 DEF Next

THEOREM Invariant == Spec => []IInv
<1>1. QED  BY InitInv, NextKeeps, PTL DEF Spec

-----------------------------------------------------------------------------
(* What holds in every state                                                 *)

\* The variables keep their types: the remaining length of a burst and the counters never
\* fall below zero (client.cc:177, 2314).
THEOREM Typing == Spec => []TypeOK
<1>1. IInv => TypeOK
  BY DEF IInv
<1>2. QED  BY <1>1, Invariant, PTL

\* client.cc:2117, 2314: NQMessages, zz_NQMessages and QSize count the messages that are
\* queued or being sent, and keep within the limits.
THEOREM Counting == Spec => []CountersAgree
<1>1. IInv => CountersAgree
  BY DEF IInv, Books
<1>2. QED  BY <1>1, Invariant, PTL

\* client.cc:2154, 2663: MQTail points to the last message of each queue, and each queue
\* is in order of arrival.
THEOREM Linking == Spec => []QueuesLinked
<1>1. IInv => QueuesLinked
  BY DEF IInv, Books
<1>2. QED  BY <1>1, Invariant, PTL

\* client.cc:2161: no process sleeps for a message that is there, or for a status that the
\* pattern has.
THEOREM Waking == Spec => []NoLostWakeup
<1>1. IInv => NoLostWakeup
  BY DEF IInv
<1>2. QED  BY <1>1, Invariant, PTL

-----------------------------------------------------------------------------
(* The pending events of the patterns                                        *)

\* The steps that concern the patterns.
LEMMA OthersKeepPilots ==
  ASSUME [Next]_vars
  PROVE  \/ UNCHANGED pilots \/ Start
         \/ \E t \in Traffics : GenMessage(t) \/ GenBurst(t)
         \/ \E p \in Procs : \/ ClientSuspend(p) \/ ClientResume(p)
                             \/ \E t \in Traffics : Suspend(p, t) \/ Resume(p, t)
<1>1. RestartPriority \/ Tick \/ UNCHANGED vars => UNCHANGED pilots
  BY DEF RestartPriority, Tick, vars
<1>2. \A p \in Procs : Wait(p) \/ Restart(p) \/ Release(p) => UNCHANGED pilots
  BY DEF Wait, Restart, Release
<1>3. \A p \in Procs, t \in Traffics : \A tf : packetOf(p, t, tf) => UNCHANGED pilots
  BY DEF packetOf, getPacket
<1>4. \A p \in Procs, t \in Traffics : \A tf :
        TrafficGetPacket(p, t) \/ TrafficGetPacketIf(p, t, tf) => UNCHANGED pilots
  BY <1>3 DEF TrafficGetPacket, TrafficGetPacketIf
<1>5. \A p \in Procs, i \in Traffics : \A tf :
        ClientGetPacket(p, i) \/ ClientGetPacketIf(p, tf, i) => UNCHANGED pilots
  BY <1>3 DEF ClientGetPacket, ClientGetPacketIf
<1>6. QED  BY <1>1, <1>2, <1>4, <1>5 DEF Next

\* A pattern whose messages come one by one has no event that generates bursts.
Pilots ==
  /\ PilotsTyped /\ OnePilot
  /\ \A t \in Traffics \ Bursty : bursts[t] = 0

LEMMA OneEachInv ==
  ASSUME "resumeEarly" \notin Usage
  PROVE  Spec => []Pilots
<1>1. Init => Pilots
  <2>1. 0 \in 0 .. MaxBurst
    BY Constants
  <2>2. ASSUME Init
        PROVE  PilotsTyped
    BY <2>1, <2>2 DEF Init, PilotsTyped
  <2>3. Init => OnePilot /\ \A t \in Traffics : bursts[t] = 0
    BY DEF Init, OnePilot
  <2>4. QED  BY <2>2, <2>3 DEF Pilots
<1>2. ASSUME Pilots, [Next]_vars, PilotsTyped'
      PROVE  Pilots'
  <2>1. /\ FlgSUS \in [Traffics -> BOOLEAN] /\ started \in BOOLEAN
        /\ arrivals \in [Traffics -> Nat] /\ bursts \in [Traffics -> Nat] /\ Bursty \subseteq Traffics
    BY <1>2, Constants DEF Pilots, PilotsTyped
  <2>2. \A t \in Traffics :
          (IF t \in Bursty THEN bursts[t] ELSE arrivals[t]) = IF started /\ ~FlgSUS[t] THEN 1 ELSE 0
    BY <1>2 DEF Pilots, OnePilot
  <2>3. \A t \in Traffics \ Bursty : bursts[t] = 0
    BY <1>2 DEF Pilots
  <2>4. CASE UNCHANGED pilots
    BY <2>1, <2>2, <2>3, <2>4, <1>2 DEF pilots, Pilots, OnePilot
  <2>5. CASE Start
    BY <2>1, <2>2, <2>3, <2>5, <1>2 DEF Start, Pilots, OnePilot
  <2>6. ASSUME NEW u \in Traffics, GenMessage(u)
        PROVE  Pilots'
    <3>1. /\ started' = started /\ FlgSUS' = FlgSUS /\ bursts' = bursts
          /\ arrivals' = [arrivals EXCEPT ![u] = IF continues(u) THEN @ ELSE @ - 1]
          /\ u \notin Bursty => continues(u)
      BY <2>6 DEF GenMessage, continues
    <3>2. \A t \in Traffics \ Bursty : arrivals'[t] = arrivals[t]
      BY <2>1, <3>1
    <3>3. QED  BY <1>2, <2>1, <2>2, <2>3, <3>1, <3>2 DEF Pilots, OnePilot
  <2>7. ASSUME NEW u \in Traffics, GenBurst(u)
        PROVE  Pilots'
    <3>1. /\ started' = started /\ FlgSUS' = FlgSUS /\ bursts' = bursts
          /\ \A t \in Traffics \ {u} : arrivals'[t] = arrivals[t]
          /\ bursts[u] > 0
      BY <2>1, <2>7 DEF GenBurst
    <3>2. u \in Bursty
      BY <2>3, <3>1
    <3>3. QED  BY <1>2, <2>1, <2>2, <2>3, <3>1, <3>2 DEF Pilots, OnePilot
  <2>8. ASSUME NEW p \in Procs, NEW u \in Traffics, Suspend(p, u)
        PROVE  Pilots'
    BY <1>2, <2>1, <2>2, <2>3, <2>8 DEF Suspend, cancelled, Pilots, OnePilot
  <2>9. ASSUME NEW p \in Procs, NEW u \in Traffics, Resume(p, u)
        PROVE  Pilots'
    BY <1>2, <2>1, <2>2, <2>3, <2>9 DEF Resume, mayResume, pilot, Pilots, OnePilot
  <2>10. ASSUME NEW p \in Procs, ClientSuspend(p)
         PROVE  Pilots'
    BY <1>2, <2>1, <2>2, <2>3, <2>10 DEF ClientSuspend, cancelled, Pilots, OnePilot
  <2>11. ASSUME NEW p \in Procs, ClientResume(p)
         PROVE  Pilots'
    <3>1. CASE isSuspended
      BY <1>2, <2>1, <2>2, <2>3, <2>11, <3>1
      DEF ClientResume, isSuspended, mayResume, Pilots, OnePilot
    <3>2. CASE ~ isSuspended
      BY <1>2, <2>1, <2>2, <2>3, <2>11, <3>2 DEF ClientResume, Pilots, OnePilot
    <3>3. QED  BY <3>1, <3>2
  <2>12. QED
    BY <1>2, <2>4, <2>5, <2>6, <2>7, <2>8, <2>9, <2>10, <2>11, OthersKeepPilots
<1>3. IInv => PilotsTyped
  BY Parts DEF IInv
<1>4. Pilots /\ [Next]_vars /\ IInv' => Pilots'
  BY <1>2, <1>3, Parts DEF IInv
<1>5. QED  BY <1>1, <1>4, Invariant, PTL DEF Spec

\* client.cc:475, 519: provided that no pattern is resumed before the Client has started,
\* a pattern that is active has one event that generates messages or bursts, and another
\* one has none.
THEOREM OneEach ==
  ASSUME "resumeEarly" \notin Usage
  PROVE  Spec => []OnePilot
<1>1. Pilots => OnePilot
  BY DEF Pilots
<1>2. QED  BY <1>1, OneEachInv, PTL

\* Bursts end before their pattern is suspended.
Bursts ==
  /\ BurstExact
  /\ \A t \in Bursty : FlgSUS[t] \/ ~started => RemBSI[t] = 0

\* client.cc:164, 177: provided that no pattern is suspended in the middle of a burst, nor
\* resumed before the Client has started, a bursty pattern has one event that generates a
\* message while messages of its bursts remain, and then none.
THEOREM BurstsExact ==
  ASSUME "resumeEarly" \notin Usage, "suspendInBurst" \notin Usage
  PROVE  Spec => []BurstExact
<1>1. Init => Bursts
  BY Constants DEF Init, Bursts, BurstExact
<1>2. ASSUME Bursts, Pilots, [Next]_vars
      PROVE  Bursts'
  <2>1. /\ FlgSUS \in [Traffics -> BOOLEAN] /\ started \in BOOLEAN /\ RemBSI \in [Traffics -> 0 .. MaxBurst]
        /\ arrivals \in [Traffics -> Nat] /\ bursts \in [Traffics -> Nat] /\ Bursty \subseteq Traffics
        /\ MaxBurst \in Nat
    BY <1>2, Constants DEF Pilots, PilotsTyped
  <2>2. \A t \in Bursty : /\ RemBSI[t] \in Nat
                          /\ arrivals[t] = IF started /\ ~FlgSUS[t] /\ RemBSI[t] > 0 THEN 1 ELSE 0
                          /\ FlgSUS[t] \/ ~started => RemBSI[t] = 0
                          /\ bursts[t] = IF started /\ ~FlgSUS[t] THEN 1 ELSE 0
    BY <1>2, <2>1 DEF Bursts, BurstExact, Pilots, OnePilot
  <2>3. CASE UNCHANGED pilots
    BY <2>3, <1>2 DEF pilots, Bursts, BurstExact
  <2>4. CASE Start
    BY <2>1, <2>2, <2>4 DEF Start, Bursts, BurstExact
  <2>5. ASSUME NEW u \in Traffics, GenMessage(u)
        PROVE  Bursts'
    <3>1. /\ started' = started /\ FlgSUS' = FlgSUS /\ arrivals[u] > 0
          /\ RemBSI' = IF u \in Bursty THEN [RemBSI EXCEPT ![u] = @ - 1] ELSE RemBSI
          /\ arrivals' = [arrivals EXCEPT ![u] = IF u \notin Bursty \/ RemBSI[u] - 1 > 0 THEN @ ELSE @ - 1]
      BY <2>5 DEF GenMessage, continues
    <3>2. \A t \in Bursty \ {u} : RemBSI'[t] = RemBSI[t] /\ arrivals'[t] = arrivals[t]
      BY <2>1, <3>1
    <3>3. u \in Bursty => /\ RemBSI'[u] = RemBSI[u] - 1
                          /\ arrivals'[u] = IF RemBSI[u] - 1 > 0 THEN arrivals[u] ELSE arrivals[u] - 1
                          /\ started /\ ~FlgSUS[u] /\ arrivals[u] = 1 /\ RemBSI[u] \in Nat
      BY <2>1, <2>2, <3>1
    <3>4. QED  BY <2>2, <3>1, <3>2, <3>3 DEF Bursts, BurstExact
  <2>6. ASSUME NEW u \in Traffics, GenBurst(u)
        PROVE  Bursts'
    <3>1. PICK ml \in 0 .. MaxBurst :
            /\ arrivals' = [arrivals EXCEPT ![u] = IF RemBSI[u] = 0 /\ ml > 0 THEN @ + 1 ELSE @]
            /\ RemBSI' = [RemBSI EXCEPT ![u] = @ + ml]
      BY <2>6 DEF GenBurst, begins
    <3>2. started' = started /\ FlgSUS' = FlgSUS /\ bursts[u] > 0 /\ ml \in Nat
      BY <2>6 DEF GenBurst
    <3>3. \A t \in Bursty \ {u} : RemBSI'[t] = RemBSI[t] /\ arrivals'[t] = arrivals[t]
      BY <2>1, <3>1
    <3>4. u \in Bursty => /\ RemBSI'[u] = RemBSI[u] + ml
                          /\ arrivals'[u] = IF RemBSI[u] = 0 /\ ml > 0 THEN arrivals[u] + 1 ELSE arrivals[u]
                          /\ started /\ ~FlgSUS[u] /\ RemBSI[u] \in Nat
      BY <2>1, <2>2, <3>1, <3>2
    <3>5. QED  BY <2>2, <3>2, <3>3, <3>4 DEF Bursts, BurstExact
  <2>7. ASSUME NEW p \in Procs, NEW u \in Traffics, Suspend(p, u)
        PROVE  Bursts'
    <3>1. /\ ~FlgSUS[u] /\ RemBSI[u] = 0 /\ started' = started /\ RemBSI' = RemBSI
          /\ FlgSUS' = [FlgSUS EXCEPT ![u] = TRUE] /\ arrivals' = [arrivals EXCEPT ![u] = 0]
      BY <2>7 DEF Suspend, maySuspend
    <3>2. QED  BY <2>1, <2>2, <3>1 DEF Bursts, BurstExact
  <2>8. ASSUME NEW p \in Procs, NEW u \in Traffics, Resume(p, u)
        PROVE  Bursts'
    <3>1. /\ FlgSUS[u] /\ started' = started /\ RemBSI' = RemBSI
          /\ FlgSUS' = [FlgSUS EXCEPT ![u] = FALSE]
          /\ \A t \in Bursty : arrivals'[t] = arrivals[t]
      BY <2>1, <2>8 DEF Resume, pilot
    <3>2. QED  BY <2>1, <2>2, <3>1 DEF Bursts, BurstExact
  <2>9. ASSUME NEW p \in Procs, ClientSuspend(p)
        PROVE  Bursts'
    <3>1. /\ \A t \in Traffics : FlgSUS[t] \/ RemBSI[t] = 0
          /\ started' = started /\ RemBSI' = RemBSI
          /\ FlgSUS' = [t \in Traffics |-> TRUE]
          /\ arrivals' = [t \in Traffics |-> IF FlgSUS[t] THEN arrivals[t] ELSE 0]
      BY <2>9 DEF ClientSuspend, maySuspend
    <3>2. QED  BY <2>1, <2>2, <3>1 DEF Bursts, BurstExact
  <2>10. ASSUME NEW p \in Procs, ClientResume(p)
         PROVE  Bursts'
    <3>1. /\ started' = started /\ RemBSI' = RemBSI
          /\ \A t \in Bursty : arrivals'[t] = arrivals[t]
          /\ \/ FlgSUS' = FlgSUS
             \/ FlgSUS' = [t \in Traffics |-> FALSE] /\ \A t \in Traffics : FlgSUS[t]
      BY <2>1, <2>10 DEF ClientResume, isSuspended
    <3>2. QED  BY <2>1, <2>2, <3>1 DEF Bursts, BurstExact
  <2>11. QED
    BY <1>2, <2>3, <2>4, <2>5, <2>6, <2>7, <2>8, <2>9, <2>10, OthersKeepPilots
<1>3. Bursts => BurstExact
  BY DEF Bursts
<1>4. QED  BY <1>1, <1>2, <1>3, OneEachInv, PTL DEF Spec


-----------------------------------------------------------------------------
(* The oldest message                                                        *)

\* Of the patterns T, b has a message that fits and than which none of them has an older one.
Oldest(s, tf, T, b) ==
  /\ b = None => \A t \in T : fits(s, t, tf) = {}
  /\ b # None => /\ b \in T /\ fits(s, b, tf) # {}
                 /\ \A t \in T : fits(s, t, tf) # {} => QTime(s, b, tf) <= QTime(s, t, tf)

LEMMA Aged ==
  ASSUME TypeOK, NEW s \in Stations, NEW t \in Traffics, NEW tf, fits(s, t, tf) # {}
  PROVE  QTime(s, t, tf) \in Nat
<1>1. /\ DOMAIN MQ[s][t] = 1 .. Len(MQ[s][t]) /\ Len(MQ[s][t]) \in Nat
      /\ \A i \in DOMAIN MQ[s][t] : MQ[s][t][i] \in Addresses
  BY Typed
<1>2. fits(s, t, tf) \in SUBSET (0 .. Len(MQ[s][t]))
  BY <1>1 DEF fits
<1>3. PICK i \in fits(s, t, tf) : \A j \in fits(s, t, tf) : i <= j
  BY <1>1, <1>2, Extremes
<1>4. isFirst(i, s, t, tf)
  BY <1>3 DEF isFirst
<1>5. PICK c \in fits(s, t, tf) : c = CHOOSE j \in fits(s, t, tf) : isFirst(j, s, t, tf)
  BY <1>3, <1>4
<1>6. MQ[s][t][c] \in Addresses
  BY <1>1, <1>5 DEF fits
<1>7. message[MQ[s][t][c]].QTime \in 0 .. Horizon
  BY <1>6 DEF TypeOK
<1>8. QTime(s, t, tf) = message[MQ[s][t][c]].QTime
  BY <1>5 DEF QTime
<1>9. QED  BY <1>7, <1>8, Constants

\* Another pattern is looked at, in either way.
LEMMA Better ==
  ASSUME TypeOK, NEW s \in Stations, NEW tf, NEW T \in SUBSET Traffics, NEW t \in Traffics,
         NEW b, Oldest(s, tf, T, b),
         NEW c, c = better(s, tf, b, t) \/ c = betterFit(s, tf, b, t)
  PROVE  Oldest(s, tf, T \cup {t}, c)
<1>1. \A u \in Traffics : fits(s, u, tf) # {} => QTime(s, u, tf) \in Nat
  BY Aged
<1>2. t # None
  BY Constants
<1>3. CASE fits(s, t, tf) = {}
  <2>1. c = b
    BY <1>3 DEF better, betterFit
  <2>2. QED  BY <1>3, <2>1 DEF Oldest
<1>4. CASE fits(s, t, tf) # {} /\ b = None
  <2>1. c = t
    BY <1>4 DEF better, betterFit
  <2>2. QED  BY <1>1, <1>2, <1>4, <2>1 DEF Oldest
<1>5. CASE fits(s, t, tf) # {} /\ b # None
  <2>1. /\ b \in T /\ fits(s, b, tf) # {}
        /\ \A u \in T : fits(s, u, tf) # {} => QTime(s, b, tf) <= QTime(s, u, tf)
    BY <1>5 DEF Oldest
  <2>2. QTime(s, b, tf) \in Nat /\ QTime(s, t, tf) \in Nat
    BY <1>1, <1>5, <2>1
  <2>3. \/ c = t /\ QTime(s, t, tf) <= QTime(s, b, tf)
        \/ c = b /\ QTime(s, b, tf) <= QTime(s, t, tf)
    BY <1>5, <2>2 DEF better, betterFit
  <2>4. \A u \in T \cup {t} : fits(s, u, tf) # {} => QTime(s, c, tf) <= QTime(s, u, tf)
    BY <1>1, <2>1, <2>2, <2>3
  <2>5. c # None /\ c \in T \cup {t} /\ fits(s, c, tf) # {}
    BY <1>2, <1>5, <2>1, <2>3
  <2>6. QED  BY <2>4, <2>5 DEF Oldest
<1>6. QED  BY <1>3, <1>4, <1>5

\* A circular search comes to every pattern.
LEMMA Circle ==
  ASSUME NEW i \in Traffics
  PROVE  /\ \A k \in 1 .. NTraffics : circular(i)[k] \in Traffics
         /\ \A t \in Traffics : \E k \in 1 .. NTraffics : circular(i)[k] = t
<1>1. NTraffics \in Nat \ {0} /\ i \in 0 .. NTraffics - 1
  BY Constants DEF Traffics
<1>2. \A k \in 1 .. NTraffics : circular(i)[k] = (i + k - 1) % NTraffics
  BY DEF circular
<1>3. ASSUME NEW k \in 1 .. NTraffics
      PROVE  circular(i)[k] \in Traffics
  <2>1. (i + k - 1) % NTraffics \in 0 .. NTraffics - 1
    BY <1>1
  <2>2. QED  BY <1>2, <2>1 DEF Traffics
<1>4. ASSUME NEW t \in Traffics
      PROVE  \E k \in 1 .. NTraffics : circular(i)[k] = t
  <2>1. t \in 0 .. NTraffics - 1
    BY DEF Traffics
  <2>2. CASE i <= t
    <3>1. t - i + 1 \in 1 .. NTraffics /\ i + (t - i + 1) - 1 = t
      BY <1>1, <2>1, <2>2
    <3>2. t % NTraffics = t
      BY <1>1, <2>1
    <3>3. QED  BY <1>2, <3>1, <3>2
  <2>3. CASE t < i
    <3>1. t - i + NTraffics + 1 \in 1 .. NTraffics /\ i + (t - i + NTraffics + 1) - 1 = t + NTraffics
      BY <1>1, <2>1, <2>3
    <3>2. (t + NTraffics) % NTraffics = t
      BY <1>1, <2>1
    <3>3. QED  BY <1>2, <3>1, <3>2
  <2>4. QED  BY <1>1, <2>1, <2>2, <2>3
<1>5. QED  BY <1>3, <1>4

\* f holds what the search has found so far, from each pattern to the next.
LEMMA Searched ==
  ASSUME TypeOK, NEW s \in Stations, NEW tf, NEW i \in Traffics, NEW f, f[0] = None,
         \A k \in 1 .. NTraffics : \/ f[k] = better(s, tf, f[k - 1], circular(i)[k])
                                   \/ f[k] = betterFit(s, tf, f[k - 1], circular(i)[k])
  PROVE  Oldest(s, tf, Traffics, f[NTraffics])
<1>1. NTraffics \in Nat \ {0}
  BY Constants
<1> DEFINE T(k) == {circular(i)[j] : j \in 1 .. k}
           A == {k \in 0 .. NTraffics : Oldest(s, tf, T(k), f[k])}
<1>2. 0 \in A
  BY <1>1 DEF Oldest
<1>3. ASSUME NEW k \in 0 .. NTraffics - 1, k \in A
      PROVE  k + 1 \in A
  <2>1. k + 1 \in 1 .. NTraffics /\ (k + 1) - 1 = k /\ k + 1 \in 0 .. NTraffics
    BY <1>1
  <2>2. PICK t \in Traffics : t = circular(i)[k + 1]
    BY <2>1, Circle
  <2>3. T(k + 1) = T(k) \cup {t}
    <3>1. 1 .. k + 1 = (1 .. k) \cup {k + 1}
      BY <1>1
    <3>2. QED  BY <2>2, <3>1
  <2>4. T(k) \in SUBSET Traffics
    <3>1. 1 .. k \subseteq 1 .. NTraffics
      BY <1>1
    <3>2. QED  BY <3>1, Circle
  <2>5. f[k + 1] = better(s, tf, f[k], t) \/ f[k + 1] = betterFit(s, tf, f[k], t)
    BY <2>1, <2>2
  <2> HIDE DEF T
  <2>6. Oldest(s, tf, T(k) \cup {t}, f[k + 1])
    BY <1>3, <2>4, <2>5, Better
  <2>7. QED  BY <2>1, <2>3, <2>6
<1>4. T(NTraffics) = Traffics
  BY Circle
<1> HIDE DEF T
<1>5. NTraffics \in A
  <2> HIDE DEF A
  <2>1. \A k \in 0 .. NTraffics : k \in A
    BY <1>1, <1>2, <1>3, Reached
  <2>2. QED  BY <1>1, <2>1
<1>6. QED  BY <1>4, <1>5

\* The search in either variant finds an oldest message that fits, if there is one.
LEMMA Found ==
  ASSUME TypeOK, NEW s \in Stations, NEW tf, NEW i \in Traffics
  PROVE  /\ Oldest(s, tf, Traffics, earliest(s, tf, i))
         /\ Oldest(s, tf, Traffics, earliestFit(s, tf, i))
<1>1. NTraffics \in Nat
  BY Constants
<1>2. Oldest(s, tf, Traffics, earliest(s, tf, i))
  <2> DEFINE T == Traffics \cup {None}
             F == [k \in 1 .. NTraffics |-> [b \in T |-> better(s, tf, b, circular(i)[k])]]
             best[k \in 0 .. NTraffics] ==
               IF k = 0 THEN None ELSE better(s, tf, best[k - 1], circular(i)[k])
  <2>1. earliest(s, tf, i) = best[NTraffics]
    BY DEF earliest
  <2>2. \A k \in 1 .. NTraffics : \A b \in T : better(s, tf, b, circular(i)[k]) \in T
    BY Circle DEF better
  <2>3. /\ F \in [1 .. NTraffics -> [T -> T]] /\ None \in T
        /\ \A k \in 1 .. NTraffics : \A b \in T : F[k][b] = better(s, tf, b, circular(i)[k])
    BY <2>2
  <2> HIDE DEF F, T
  <2>4. PICK f : Recurs(f, NTraffics, T, None, F)
    BY <1>1, <2>3, Recursive
  <2>5. /\ f \in [0 .. NTraffics -> T] /\ f[0] = None
        /\ \A k \in 1 .. NTraffics : f[k] = F[k][f[k - 1]]
    BY <2>4 DEF Recurs
  <2>6. \A k \in 1 .. NTraffics : f[k] = better(s, tf, f[k - 1], circular(i)[k])
    <3>1. \A k \in 1 .. NTraffics : f[k - 1] \in T
      BY <1>1, <2>5
    <3>2. QED  BY <2>3, <2>5, <3>1
  <2>7. f = [k \in 0 .. NTraffics |-> IF k = 0 THEN None ELSE better(s, tf, f[k - 1], circular(i)[k])]
    <3>1. f = [k \in 0 .. NTraffics |-> f[k]]
      BY <2>5
    <3>2. \A k \in 0 .. NTraffics :
            f[k] = IF k = 0 THEN None ELSE better(s, tf, f[k - 1], circular(i)[k])
      BY <1>1, <2>5, <2>6
    <3>3. [k \in 0 .. NTraffics |-> f[k]]
          = [k \in 0 .. NTraffics |-> IF k = 0 THEN None ELSE better(s, tf, f[k - 1], circular(i)[k])]
      BY <3>2
    <3>4. QED  BY <3>1, <3>3
  <2>8. best = [k \in 0 .. NTraffics |-> IF k = 0 THEN None ELSE better(s, tf, best[k - 1], circular(i)[k])]
    BY <2>7
  <2> HIDE DEF best
  <2>9. best[0] = None /\ \A k \in 1 .. NTraffics : best[k] = better(s, tf, best[k - 1], circular(i)[k])
    <3>1. 0 \in 0 .. NTraffics /\ \A k \in 1 .. NTraffics : k \in 0 .. NTraffics /\ k # 0
      BY <1>1
    <3>2. QED  BY <2>8, <3>1
  <2>10. QED  BY <2>1, <2>9, Searched
<1>3. Oldest(s, tf, Traffics, earliestFit(s, tf, i))
  <2> DEFINE T == Traffics \cup {None}
             F == [k \in 1 .. NTraffics |-> [b \in T |-> betterFit(s, tf, b, circular(i)[k])]]
             best[k \in 0 .. NTraffics] ==
               IF k = 0 THEN None ELSE betterFit(s, tf, best[k - 1], circular(i)[k])
  <2>1. earliestFit(s, tf, i) = best[NTraffics]
    BY DEF earliestFit
  <2>2. \A k \in 1 .. NTraffics : \A b \in T : betterFit(s, tf, b, circular(i)[k]) \in T
    BY Circle DEF betterFit
  <2>3. /\ F \in [1 .. NTraffics -> [T -> T]] /\ None \in T
        /\ \A k \in 1 .. NTraffics : \A b \in T : F[k][b] = betterFit(s, tf, b, circular(i)[k])
    BY <2>2
  <2> HIDE DEF F, T
  <2>4. PICK f : Recurs(f, NTraffics, T, None, F)
    BY <1>1, <2>3, Recursive
  <2>5. /\ f \in [0 .. NTraffics -> T] /\ f[0] = None
        /\ \A k \in 1 .. NTraffics : f[k] = F[k][f[k - 1]]
    BY <2>4 DEF Recurs
  <2>6. \A k \in 1 .. NTraffics : f[k] = betterFit(s, tf, f[k - 1], circular(i)[k])
    <3>1. \A k \in 1 .. NTraffics : f[k - 1] \in T
      BY <1>1, <2>5
    <3>2. QED  BY <2>3, <2>5, <3>1
  <2>7. f = [k \in 0 .. NTraffics |-> IF k = 0 THEN None ELSE betterFit(s, tf, f[k - 1], circular(i)[k])]
    <3>1. f = [k \in 0 .. NTraffics |-> f[k]]
      BY <2>5
    <3>2. \A k \in 0 .. NTraffics :
            f[k] = IF k = 0 THEN None ELSE betterFit(s, tf, f[k - 1], circular(i)[k])
      BY <1>1, <2>5, <2>6
    <3>3. [k \in 0 .. NTraffics |-> f[k]]
          = [k \in 0 .. NTraffics |-> IF k = 0 THEN None ELSE betterFit(s, tf, f[k - 1], circular(i)[k])]
      BY <3>2
    <3>4. QED  BY <3>1, <3>3
  <2>8. best = [k \in 0 .. NTraffics |-> IF k = 0 THEN None ELSE betterFit(s, tf, best[k - 1], circular(i)[k])]
    BY <2>7
  <2> HIDE DEF best
  <2>9. best[0] = None /\ \A k \in 1 .. NTraffics : best[k] = betterFit(s, tf, best[k - 1], circular(i)[k])
    <3>1. 0 \in 0 .. NTraffics /\ \A k \in 1 .. NTraffics : k \in 0 .. NTraffics /\ k # 0
      BY <1>1
    <3>2. QED  BY <2>8, <3>1
  <2>10. QED  BY <2>1, <2>9, Searched
<1>4. QED  BY <1>2, <1>3

\* A packet that a process gets of pattern t is of that pattern.
LEMMA Gets ==
  ASSUME TypeOK, NEW p \in Procs, NEW t, NEW tf, packetOf(p, t, tf)
  PROVE  buffer'[p].TP = t
<1>1. PICK s, l : buffer' = [buffer EXCEPT ![p] = [TP |-> t, Sender |-> s, last |-> l]]
  BY DEF packetOf, getPacket
<1>2. p \in DOMAIN buffer
  BY DEF TypeOK
<1>3. QED  BY <1>1, <1>2

\* client.cc:2811, 2913: whatever pattern the circular search starts at, however many patterns there
\* are and however their messages are dated, a packet acquired from the Client belongs to
\* a message than which no other one that fits is older.
THEOREM OldestFirst == Spec => EarliestFirst
<1>1. ASSUME TypeOK, NEW p \in Procs, NEW i \in Traffics, NEW tf \in SUBSET Addresses,
             ClientGetPacketIf(p, tf, i) \/ (tf = Addresses /\ ClientGetPacket(p, i)),
             NEW t \in Traffics, fits(At[p], t, tf) # {}
      PROVE  QTime(At[p], buffer'[p].TP, tf) <= QTime(At[p], t, tf)
  <2>1. PICK s \in Stations : s = At[p]
    BY Constants
  <2>2. PICK b \in Traffics : packetOf(p, b, tf) /\ (b = earliest(s, tf, i) \/ b = earliestFit(s, tf, i))
    BY <1>1, <2>1 DEF ClientGetPacketIf, ClientGetPacket
  <2>3. Oldest(s, tf, Traffics, b)
    BY <1>1, <2>2, Found
  <2>4. b # None
    BY Constants
  <2>5. QTime(s, b, tf) <= QTime(s, t, tf)
    BY <1>1, <2>1, <2>3, <2>4 DEF Oldest
  <2>6. QED  BY <1>1, <2>1, <2>2, <2>5, Gets
<1> DEFINE A(p) == \A i \in Traffics, tf \in SUBSET Addresses :
             ClientGetPacketIf(p, tf, i) \/ (tf = Addresses /\ ClientGetPacket(p, i))
             => \A t \in Traffics : fits(At[p], t, tf) # {} =>
                  QTime(At[p], buffer'[p].TP, tf) <= QTime(At[p], t, tf)
<1>2. ASSUME TypeOK, NEW p \in Procs
      PROVE  A(p)
  BY <1>1, <1>2
<1> HIDE DEF A
<1>3. TypeOK /\ [Next]_vars => [\A p \in Procs : buffer[p] = None /\ buffer'[p] # None => A(p)]_vars
  BY <1>2
<1>4. Spec => [][\A p \in Procs : buffer[p] = None /\ buffer'[p] # None => A(p)]_vars
  BY <1>3, Typing, PTL DEF Spec
<1>5. QED  BY <1>4 DEF EarliestFirst, A

=============================================================================
