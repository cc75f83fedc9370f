------------------------- MODULE SideEventQueue_proofs -------------------------
(***************************************************************************)
(* Proofs about the event queue, for any processes, chains of requests, time    *)
(* limit, number of holders and in both builds.                               *)
(*                                                                         *)
(* The list stays in order because an event is linked again whenever its wake   *)
(* time changes (Linked), and no event lies in the past because get takes one   *)
(* that is first (Future).  Why the sweep of terminate (Kernel) leaves nothing     *)
(* but holders rests on both: a holder is due now (Due), so that without ZZ_DET   *)
(* it is enqueued at the head, and what precedes the loop variable has been held   *)
(* (Behind).  With ZZ_DET it is enqueued behind the events that are due as well,    *)
(* the loop does not see those, and the theorem assumes that Det is FALSE.        *)
(***************************************************************************)
EXTENDS SideEventQueue, SideSequences

-----------------------------------------------------------------------------
(* The inductive invariant                                                  *)

Sorted(q, e) == \A i, j \in 1 .. Len(q) : i < j => e[q[i]].wake <= e[q[j]].wake

Distinct(q) == \A i, j \in 1 .. Len(q) : i # j => q[i] # q[j]

Linked ==
  Sorted(queue, ev) /\ Distinct(queue) /\ Distinct(asked) /\ Queued(queue) = Queued(asked)

\* Whose request the trigger loop serves.
Waker == IF phase = "stop" THEN "kernel" ELSE "proc"

\* What a trigger loop has not come to yet is queued and waits for its caller.
Expecting ==
  /\ \A p \in pending : p \in Queued(queue) /\ Waker \in DOMAIN ev[p].when
  /\ pending # {} => phase = "stop" \/ (cur # None /\ phase \in {"init", "run", "over"})

Future == \A p \in Queued(queue) : time <= ev[p].wake

\* The processes waiting for the Kernel are woken before the sweep.
Due ==
  phase \in {"stop", "sweep"} =>
    \A p \in Queued(queue) \ pending :
      "kernel" \in DOMAIN ev[p].when => ev[p].when["kernel"] = time

Follows == phase = "sweep" => cursor = None \/ cursor \in Queued(queue)

Held(p) == DOMAIN ev[p].when = {"kernel"} /\ ev[p].wake = time

\* What precedes the loop variable of the sweep has been held.
Behind ==
  phase = "sweep" /\ ~ Det =>
    \A i \in 1 .. Len(queue) :
      (cursor # None => i < place(queue, cursor)) => Held(queue[i])

IInv == TypeOK /\ Linked /\ Expecting /\ Future /\ Due /\ Follows /\ Behind

-----------------------------------------------------------------------------
(* The list operators                                                       *)

Wakes(e) == \A p \in Procs : e[p].wake \in Nat

LEMMA Constants ==
  /\ Root \in Procs /\ None \notin Procs /\ Det \in BOOLEAN
  /\ TimeLimit \in Nat /\ Horizon \in Nat /\ MaxHolders \in Nat
  /\ Chains \subseteq SUBSET AIs /\ {} \notin Chains
  /\ Inf \in Times /\ 0 \in Times /\ Times \subseteq Nat /\ Inf = Horizon + 1
  /\ AIs = {"start", "timer", "proc", "kernel"}
<1>1. /\ Root \in Procs /\ None \notin Procs /\ Det \in BOOLEAN
      /\ TimeLimit \in Nat /\ Horizon \in Nat /\ MaxHolders \in Nat
      /\ Chains \subseteq (SUBSET {"timer", "proc", "kernel"}) \ {{}}
  BY EventQueueAssumption DEF EventQueueAssumption
<1>2. Chains \subseteq SUBSET AIs /\ {} \notin Chains
  BY <1>1 DEF AIs
<1>3. Inf \in Times /\ 0 \in Times /\ Times \subseteq Nat /\ Inf = Horizon + 1
  BY <1>1 DEF Inf, Times
<1>4. QED  BY <1>1, <1>2, <1>3 DEF AIs

\* Where the event of a queued process is.
LEMMA Place ==
  ASSUME NEW q \in Seq(Procs), NEW p \in ToSet(q)
  PROVE  place(q, p) \in 1 .. Len(q) /\ q[place(q, p)] = p
<1>1. \E i \in 1 .. Len(q) : q[i] = p
  BY DEF ToSet
<1>2. QED  BY <1>1 DEF place

LEMMA OnlyPlace ==
  ASSUME NEW q \in Seq(Procs), Distinct(q), NEW i \in 1 .. Len(q)
  PROVE  place(q, q[i]) = i
<1>1. q[i] \in ToSet(q)
  BY DEF ToSet
<1>2. place(q, q[i]) \in 1 .. Len(q) /\ q[place(q, q[i])] = q[i]
  BY <1>1, Place
<1>3. QED  BY <1>2 DEF Distinct

\* Removing an event.
LEMMA Taken ==
  ASSUME NEW q \in Seq(Procs), Distinct(q), NEW p \in ToSet(q)
  PROVE  /\ remove(q, p) \in Seq(Procs) /\ Distinct(remove(q, p))
         /\ Len(q) \in Nat \ {0} /\ Len(remove(q, p)) = Len(q) - 1
         /\ ToSet(remove(q, p)) = ToSet(q) \ {p}
         /\ \A j \in 1 .. Len(q) - 1 :
              remove(q, p)[j] = IF j < place(q, p) THEN q[j] ELSE q[j + 1]
<1> DEFINE i == place(q, p)
           r == remove(q, p)
<1>1. i \in 1 .. Len(q) /\ q[i] = p
  BY Place
<1>2. /\ r \in Seq(Procs) /\ Len(r) = Len(q) - 1 /\ Len(q) \in Nat \ {0}
      /\ \A j \in 1 .. Len(q) - 1 : r[j] = IF j < i THEN q[j] ELSE q[j + 1]
  BY <1>1, Removed DEF remove
<1>3. ToSet(r) = ToSet(q) \ {p}
  <2>1. \A j, k \in DOMAIN q : j < k => q[j] # q[k]
    BY DEF Distinct
  <2>2. QED  BY <1>1, <2>1, RemovedSet DEF remove
<1> HIDE DEF i, r
<1>4. Distinct(r)
  <2> SUFFICES ASSUME NEW j \in 1 .. Len(q) - 1, NEW k \in 1 .. Len(q) - 1, j # k
               PROVE  r[j] # r[k]
    BY <1>2 DEF Distinct
  <2>1. PICK a \in 1 .. Len(q) : r[j] = q[a] /\ a = IF j < i THEN j ELSE j + 1
    BY <1>1, <1>2
  <2>2. PICK b \in 1 .. Len(q) : r[k] = q[b] /\ b = IF k < i THEN k ELSE k + 1
    BY <1>1, <1>2
  <2>3. a # b
    BY <1>1, <2>1, <2>2
  <2>4. QED  BY <2>1, <2>2, <2>3 DEF Distinct
<1>5. QED  BY <1>2, <1>3, <1>4 DEF i, r

LEMMA TakenSorted ==
  ASSUME NEW q \in Seq(Procs), Distinct(q), NEW p \in ToSet(q),
         NEW e, NEW f, Sorted(q, e), \A o \in Procs \ {p} : f[o].wake = e[o].wake
  PROVE  Sorted(remove(q, p), f)
<1> DEFINE i == place(q, p)
           r == remove(q, p)
<1>1. /\ i \in 1 .. Len(q) /\ q[i] = p /\ Len(q) \in Nat \ {0} /\ Len(r) = Len(q) - 1
      /\ \A j \in 1 .. Len(q) - 1 : r[j] = IF j < i THEN q[j] ELSE q[j + 1]
  BY Place, Taken
<1> HIDE DEF i, r
<1> SUFFICES ASSUME NEW j \in 1 .. Len(q) - 1, NEW k \in 1 .. Len(q) - 1, j < k
             PROVE  f[r[j]].wake <= f[r[k]].wake
  BY <1>1 DEF Sorted, r
<1>2. PICK a \in 1 .. Len(q) : r[j] = q[a] /\ a = IF j < i THEN j ELSE j + 1
  <2>1. r[j] = IF j < i THEN q[j] ELSE q[j + 1]
    BY <1>1
  <2>2. j \in 1 .. Len(q) /\ j + 1 \in 1 .. Len(q)
    BY <1>1
  <2>3. QED  BY <2>1, <2>2
<1>3. PICK b \in 1 .. Len(q) : r[k] = q[b] /\ b = IF k < i THEN k ELSE k + 1
  <2>1. r[k] = IF k < i THEN q[k] ELSE q[k + 1]
    BY <1>1
  <2>2. k \in 1 .. Len(q) /\ k + 1 \in 1 .. Len(q)
    BY <1>1
  <2>3. QED  BY <2>1, <2>2
<1>4. a < b /\ a # i /\ b # i
  BY <1>1, <1>2, <1>3
<1>5. q[a] \in Procs \ {p} /\ q[b] \in Procs \ {p}
  BY <1>1, <1>4 DEF Distinct
<1>6. e[q[a]].wake <= e[q[b]].wake
  BY <1>4 DEF Sorted
<1>7. QED  BY <1>2, <1>3, <1>5, <1>6

\* The place that enqueue finds is between what is not later and what is not earlier.
LEMMA Found ==
  ASSUME NEW q \in Seq(Procs), NEW e, Wakes(e), Sorted(q, e), NEW p \in Procs
  PROVE  \E i \in 1 .. Len(q) + 1 :
           /\ enqueue(q, e, p) = InsertAt(q, i, p)
           /\ \A j \in 1 .. Len(q) : IF j < i THEN e[q[j]].wake <= e[p].wake
                                              ELSE e[p].wake <= e[q[j]].wake
           /\ ~ Det /\ (\A j \in 1 .. Len(q) : e[p].wake <= e[q[j]].wake) => i = 1
<1> DEFINE w == e[p].wake
           n == Len(q)
           v(j) == e[q[j]].wake
           A == {j \in 1 .. n : v(j) <= w} \cup {0}
           B == {j \in 1 .. n : v(j) >= w} \cup {n + 1}
<1>1. n \in Nat /\ w \in Nat /\ \A j \in 1 .. n : v(j) \in Nat
  BY DEF Wakes
<1>2. \A j, k \in 1 .. n : j < k => v(j) <= v(k)
  BY DEF Sorted
<1>3. enqueue(q, e, p) = InsertAt(q, IF Det THEN Max(A) + 1 ELSE Min(B), p)
  BY DEF enqueue
<1> HIDE DEF w, n, v
<1>4. Max(A) \in A /\ \A y \in A : Max(A) >= y
  <2>1. A \in SUBSET (0 .. n + 1) /\ A # {} /\ n + 1 \in Nat
    BY <1>1
  <2>2. \E x \in A : \A y \in A : x >= y
    BY <2>1, Extremes
  <2>3. QED  BY <2>2 DEF Max
<1>5. Min(B) \in B /\ \A y \in B : Min(B) <= y
  <2>1. B \in SUBSET (0 .. n + 1) /\ B # {} /\ n + 1 \in Nat
    BY <1>1
  <2>2. \E x \in B : \A y \in B : x <= y
    BY <2>1, Extremes
  <2>3. QED  BY <2>2 DEF Min
<1>6. CASE Det
  <2>1. PICK m \in A : m = Max(A) /\ \A y \in A : m >= y
    BY <1>4
  <2>2. m \in 0 .. n /\ (m = 0 \/ v(m) <= w) /\ m + 1 \in 1 .. n + 1
    BY <1>1, <2>1
  <2>3. ASSUME NEW j \in 1 .. n
        PROVE  IF j < m + 1 THEN v(j) <= w ELSE w <= v(j)
    <3>1. CASE j < m + 1
      <4>1. v(j) <= v(m) /\ m # 0 /\ m \in 1 .. n
        BY <3>1, <2>2, <1>1, <1>2
      <4>2. QED  BY <3>1, <4>1, <2>2, <1>1
    <3>2. CASE ~ (j < m + 1)
      <4>1. j \notin A
        BY <3>2, <2>1, <2>2, <1>1
      <4>2. QED  BY <3>2, <4>1, <1>1
    <3>3. QED  BY <3>1, <3>2
  <2>4. enqueue(q, e, p) = InsertAt(q, m + 1, p)
    BY <1>3, <1>6, <2>1
  <2>5. QED  BY <1>6, <2>2, <2>3, <2>4 DEF v, w, n
<1>7. CASE ~ Det
  <2>1. PICK m \in B : m = Min(B) /\ \A y \in B : m <= y
    BY <1>5
  <2>2. m \in 1 .. n + 1 /\ (m = n + 1 \/ v(m) >= w)
    BY <1>1, <2>1
  <2>3. ASSUME NEW j \in 1 .. n
        PROVE  IF j < m THEN v(j) <= w ELSE w <= v(j)
    <3>1. CASE j < m
      <4>1. j \notin B
        BY <3>1, <2>1, <2>2, <1>1
      <4>2. QED  BY <3>1, <4>1, <1>1
    <3>2. CASE ~ (j < m)
      <4>1. m \in 1 .. n /\ v(m) >= w /\ (m = j \/ m < j)
        BY <3>2, <2>2, <1>1
      <4>2. QED  BY <3>2, <4>1, <1>1, <1>2
    <3>3. QED  BY <3>1, <3>2
  <2>4. enqueue(q, e, p) = InsertAt(q, m, p)
    BY <1>3, <1>7, <2>1
  <2>5. ASSUME \A j \in 1 .. n : w <= v(j)
        PROVE  m = 1
    <3>1. 1 \in B
      BY <2>5, <1>1
    <3>2. QED  BY <3>1, <2>1, <2>2, <1>1
  <2>6. QED  BY <1>7, <2>2, <2>3, <2>4, <2>5 DEF v, w, n
<1>8. QED  BY <1>6, <1>7

\* A list with one more event.
LEMMA Linking ==
  ASSUME NEW q \in Seq(Procs), NEW p \in Procs, NEW i \in 1 .. Len(q) + 1
  PROVE  /\ InsertAt(q, i, p) \in Seq(Procs) /\ Len(InsertAt(q, i, p)) = Len(q) + 1
         /\ Len(q) \in Nat
         /\ \A j \in 1 .. Len(q) + 1 :
              InsertAt(q, i, p)[j] = IF j < i THEN q[j] ELSE IF j = i THEN p ELSE q[j - 1]
<1> DEFINE r == InsertAt(q, i, p)
<1>1. /\ r \in Seq(Procs) /\ Len(r) = Len(q) + 1 /\ Len(q) \in Nat
      /\ \A j \in 1 .. Len(q) + 1 : r[j] = IF j < i THEN q[j] ELSE IF j = i THEN p ELSE q[j - 1]
  BY Inserted
<1>2. QED  BY <1>1

LEMMA Enqueued ==
  ASSUME NEW q \in Seq(Procs), NEW e, Wakes(e), Sorted(q, e), Distinct(q),
         NEW p \in Procs, p \notin ToSet(q)
  PROVE  /\ enqueue(q, e, p) \in Seq(Procs) /\ Len(enqueue(q, e, p)) = Len(q) + 1
         /\ Sorted(enqueue(q, e, p), e) /\ Distinct(enqueue(q, e, p))
         /\ ToSet(enqueue(q, e, p)) = ToSet(q) \cup {p}
<1>1. PICK i \in 1 .. Len(q) + 1 :
        /\ enqueue(q, e, p) = InsertAt(q, i, p)
        /\ \A j \in 1 .. Len(q) : IF j < i THEN e[q[j]].wake <= e[p].wake
                                           ELSE e[p].wake <= e[q[j]].wake
  BY Found
<1> DEFINE r == InsertAt(q, i, p)
           n == Len(q)
<1>2. /\ r \in Seq(Procs) /\ Len(r) = n + 1 /\ n \in Nat
      /\ \A j \in 1 .. n + 1 : r[j] = IF j < i THEN q[j] ELSE IF j = i THEN p ELSE q[j - 1]
  BY Linking
<1>3. ToSet(r) = ToSet(q) \cup {p}
  BY InsertedSet
<1>4. \A j \in 1 .. n : q[j] \in Procs /\ q[j] # p
  BY DEF ToSet
<1>5. e[p].wake \in Nat /\ \A j \in 1 .. n : e[q[j]].wake \in Nat
  BY <1>4 DEF Wakes
<1> HIDE DEF r, n
<1>6. ASSUME NEW j \in 1 .. n + 1, NEW k \in 1 .. n + 1, j < k
      PROVE  e[r[j]].wake <= e[r[k]].wake /\ r[j] # r[k]
  <2>1. CASE k < i
    <3>1. j \in 1 .. n /\ k \in 1 .. n /\ j < i
      <4>1. k \in Int /\ j \in Int /\ i \in Int /\ n \in Nat /\ i <= n + 1 /\ 1 <= j
        BY <1>2 DEF n
      <4>2. QED  BY <4>1, <2>1, <1>6
    <3>2. r[j] = q[j] /\ r[k] = q[k]
      BY <2>1, <3>1, <1>2
    <3>3. QED  BY <3>1, <3>2, <1>6 DEF Sorted, Distinct, n
  <2>2. CASE k = i
    <3>1. r[j] = q[j] /\ r[k] = p /\ j \in 1 .. n /\ j < i
      BY <2>2, <1>2, <1>6
    <3>2. QED  BY <3>1, <1>1, <1>4 DEF n
  <2>3. CASE i < k /\ j = i
    <3>1. r[j] = p /\ r[k] = q[k - 1] /\ k - 1 \in 1 .. n /\ ~ (k - 1 < i)
      BY <2>3, <1>2, <1>6
    <3>2. QED  BY <3>1, <1>1, <1>4 DEF n
  <2>4. CASE i < k /\ j < i
    <3>1. r[j] = q[j] /\ r[k] = q[k - 1] /\ k - 1 \in 1 .. n /\ j \in 1 .. n /\ j < i /\ ~ (k - 1 < i)
      BY <2>4, <1>2, <1>6
    <3>2. j < k - 1
      BY <3>1
    <3>3. QED  BY <3>1, <3>2 DEF Sorted, Distinct, n
  <2>5. CASE i < j
    <3>1. /\ r[j] = q[j - 1] /\ r[k] = q[k - 1] /\ k - 1 \in 1 .. n /\ j - 1 \in 1 .. n
          /\ j - 1 < k - 1
      BY <2>5, <1>2, <1>6
    <3>2. QED  BY <3>1 DEF Sorted, Distinct, n
  <2>6. QED  BY <2>1, <2>2, <2>3, <2>4, <2>5, <1>6
<1>7. Sorted(r, e)
  BY <1>6, <1>2 DEF Sorted
<1>8. Distinct(r)
  <2> SUFFICES ASSUME NEW j \in 1 .. n + 1, NEW k \in 1 .. n + 1, j # k
               PROVE  r[j] # r[k]
    BY <1>2 DEF Distinct
  <2>1. j < k \/ k < j
    BY <1>2
  <2>2. QED  BY <1>6, <2>1
<1>9. QED  BY <1>1, <1>2, <1>3, <1>7, <1>8 DEF r, n

\* An event whose wake time has changed to f's is linked again in order.
LEMMA Rescheduled ==
  ASSUME NEW q \in Seq(Procs), Distinct(q), NEW p \in ToSet(q),
         NEW e, NEW f, Sorted(q, e), Wakes(f), \A o \in Procs \ {p} : f[o].wake = e[o].wake
  PROVE  /\ reschedule(q, f, p) \in Seq(Procs) /\ Distinct(reschedule(q, f, p))
         /\ Sorted(reschedule(q, f, p), f) /\ ToSet(reschedule(q, f, p)) = ToSet(q)
<1> DEFINE r == remove(q, p)
<1>1. r \in Seq(Procs) /\ Distinct(r) /\ ToSet(r) = ToSet(q) \ {p}
  BY Taken
<1>2. Sorted(r, f)
  BY TakenSorted
<1>3. p \in Procs
  BY DEF ToSet
<1> HIDE DEF r
<1>4. /\ enqueue(r, f, p) \in Seq(Procs) /\ Sorted(enqueue(r, f, p), f)
      /\ Distinct(enqueue(r, f, p)) /\ ToSet(enqueue(r, f, p)) = ToSet(r) \cup {p}
  BY <1>1, <1>2, <1>3, Enqueued
<1>5. QED  BY <1>1, <1>4 DEF reschedule, r

\* The event linked behind all others.
LEMMA Stored ==
  ASSUME NEW q \in Seq(Procs), NEW e, Sorted(q, e), Distinct(q),
         NEW p \in Procs, p \notin ToSet(q), \A j \in 1 .. Len(q) : e[q[j]].wake <= e[p].wake
  PROVE  /\ Append(q, p) \in Seq(Procs) /\ Distinct(Append(q, p)) /\ Sorted(Append(q, p), e)
         /\ ToSet(Append(q, p)) = ToSet(q) \cup {p}
<1> DEFINE r == Append(q, p)
           n == Len(q)
<1>1. /\ r \in Seq(Procs) /\ Len(r) = n + 1 /\ n \in Nat
      /\ \A i \in 1 .. n : r[i] = q[i]
      /\ r[n + 1] = p
      /\ ToSet(r) = ToSet(q) \cup {p}
  BY AddedSet
<1>2. \A j \in 1 .. n : q[j] # p
  BY DEF ToSet
<1> HIDE DEF r
<1>3. ASSUME NEW j \in 1 .. n + 1, NEW k \in 1 .. n + 1, j < k
      PROVE  e[r[j]].wake <= e[r[k]].wake /\ r[j] # r[k]
  <2>1. CASE k = n + 1
    <3>1. j \in 1 .. n
      BY <2>1, <1>3, <1>1
    <3>2. QED  BY <2>1, <3>1, <1>1, <1>2
  <2>2. CASE k # n + 1
    <3>1. j \in 1 .. n /\ k \in 1 .. n
      BY <2>2, <1>3, <1>1
    <3>2. QED  BY <3>1, <1>3, <1>1 DEF Sorted, Distinct
  <2>3. QED  BY <2>1, <2>2
<1> HIDE DEF n
<1>4. Sorted(r, e)
  BY <1>3, <1>1 DEF Sorted
<1>5. Distinct(r)
  <2> SUFFICES ASSUME NEW j \in 1 .. n + 1, NEW k \in 1 .. n + 1, j # k
               PROVE  r[j] # r[k]
    BY <1>1 DEF Distinct
  <2>1. j < k \/ k < j
    BY <1>1
  <2>2. QED  BY <1>3, <2>1
<1>6. QED  BY <1>1, <1>4, <1>5 DEF r, n

-----------------------------------------------------------------------------
(* The events                                                               *)

LEMMA Event ==
  ASSUME NEW w \in Times, NEW t \in AIs, NEW S \in SUBSET AIs, NEW h \in [S -> Times]
  PROVE  [wake |-> w, top |-> t, when |-> h] \in Events
BY DEF Events

LEMMA Typed ==
  ASSUME NEW e \in [Procs -> Events]
  PROVE  /\ Wakes(e)
         /\ \A p \in Procs : /\ e[p].wake \in Times /\ e[p].top \in AIs
                             /\ DOMAIN e[p].when \subseteq AIs
                             /\ e[p].when \in [DOMAIN e[p].when -> Times]
<1>1. ASSUME NEW p \in Procs
      PROVE  /\ e[p].wake \in Times /\ e[p].top \in AIs
             /\ DOMAIN e[p].when \subseteq AIs
             /\ e[p].when \in [DOMAIN e[p].when -> Times]
  <2>1. e[p] \in Events
    OBVIOUS
  <2>2. e[p].wake \in Times /\ e[p].top \in AIs
    BY <2>1 DEF Events
  <2>3. PICK S \in SUBSET AIs : e[p].when \in [S -> Times]
    BY <2>1 DEF Events
  <2>4. QED  BY <2>2, <2>3
<1>2. Times \subseteq Nat
  BY Constants
<1>3. QED  BY <1>1, <1>2 DEF Wakes

LEMMA NoEventTyped == NoEvent \in Events
<1>1. [s \in {} |-> Inf] \in [{} -> Times] /\ Inf \in Times /\ "start" \in AIs
  BY Constants
<1>2. QED  BY <1>1, Event DEF NoEvent

\* One event replaced.
LEMMA Replaced ==
  ASSUME NEW e \in [Procs -> Events], NEW p \in Procs, NEW x \in Events
  PROVE  /\ [e EXCEPT ![p] = x] \in [Procs -> Events]
         /\ [e EXCEPT ![p] = x][p] = x
         /\ \A o \in Procs \ {p} : [e EXCEPT ![p] = x][o] = e[o]
OBVIOUS

\* The requests of an event after one of them has been triggered at t.
WhenSet(h, ai, t) == [h EXCEPT ![ai] = t]

LEMMA Requested ==
  ASSUME NEW e \in [Procs -> Events], NEW p \in Procs, NEW ai \in DOMAIN e[p].when,
         NEW t \in Times, NEW f, f = [e EXCEPT ![p].when[ai] = t]
  PROVE  /\ f \in [Procs -> Events]
         /\ f[p].wake = e[p].wake /\ DOMAIN f[p].when = DOMAIN e[p].when
         /\ f[p].when[ai] = t
         /\ \A o \in Procs \ {p} : f[o] = e[o]
<1> DEFINE x == [e[p] EXCEPT !.when = WhenSet(e[p].when, ai, t)]
<1>1. f = [e EXCEPT ![p] = x]
  BY DEF WhenSet
<1>2. /\ e[p].wake \in Times /\ e[p].top \in AIs /\ DOMAIN e[p].when \in SUBSET AIs
      /\ e[p].when \in [DOMAIN e[p].when -> Times]
  BY Typed
<1>3. /\ WhenSet(e[p].when, ai, t) \in [DOMAIN e[p].when -> Times]
      /\ WhenSet(e[p].when, ai, t)[ai] = t
  BY <1>2 DEF WhenSet
<1>4. x = [wake |-> e[p].wake, top |-> e[p].top, when |-> WhenSet(e[p].when, ai, t)]
  <2>1. e[p] \in Events
    OBVIOUS
  <2>2. QED  BY <2>1 DEF Events
<1>5. x \in Events
  BY <1>2, <1>3, <1>4, Event
<1>6. x.wake = e[p].wake /\ x.when = WhenSet(e[p].when, ai, t)
  BY <1>4
<1>7. DOMAIN x.when = DOMAIN e[p].when /\ x.when[ai] = t
  BY <1>3, <1>6
<1> HIDE DEF x
<1>8. f \in [Procs -> Events] /\ f[p] = x /\ \A o \in Procs \ {p} : f[o] = e[o]
  BY <1>1, <1>5, Replaced
<1>9. QED  BY <1>6, <1>7, <1>8

LEMMA NewTop ==
  ASSUME NEW e \in [Procs -> Events], NEW p \in Procs, NEW ai \in DOMAIN e[p].when,
         NEW f, f = new_top_request(e, p, ai)
  PROVE  /\ f \in [Procs -> Events]
         /\ f[p].wake = e[p].when[ai] /\ f[p].when = e[p].when
         /\ \A o \in Procs \ {p} : f[o] = e[o]
<1> DEFINE x == [wake |-> e[p].when[ai], top |-> ai, when |-> e[p].when]
<1>1. f = [e EXCEPT ![p] = x]
  BY DEF new_top_request
<1>2. /\ DOMAIN e[p].when \in SUBSET AIs /\ e[p].when \in [DOMAIN e[p].when -> Times]
  BY Typed
<1>3. x \in Events
  BY <1>2, Event
<1>4. x.wake = e[p].when[ai] /\ x.when = e[p].when
  OBVIOUS
<1> HIDE DEF x
<1>5. f \in [Procs -> Events] /\ f[p] = x /\ \A o \in Procs \ {p} : f[o] = e[o]
  BY <1>1, <1>3, Replaced
<1>6. QED  BY <1>4, <1>5

-----------------------------------------------------------------------------
(* The steps                                                                *)

LEMMA InitInv == Init => IInv
<1> SUFFICES ASSUME Init  PROVE IInv
  OBVIOUS
<1>1. TypeOK
  <2>1. ev \in [Procs -> Events]
    BY NoEventTyped DEF Init
  <2>2. time \in 0 .. Horizon /\ cur \in Procs
    BY Constants DEF Init
  <2>3. QED  BY <2>1, <2>2 DEF Init, TypeOK
<1>2. Len(queue) = 0 /\ Len(asked) = 0 /\ Queued(queue) = {} /\ Queued(asked) = {}
  BY DEF Init, Queued, ToSet
<1>3. Linked
  BY <1>2 DEF Linked, Sorted, Distinct
<1>4. Expecting /\ Future /\ Due /\ Follows /\ Behind
  BY <1>2 DEF Init, Expecting, Future, Due, Follows, Behind
<1>5. QED  BY <1>1, <1>3, <1>4 DEF IInv

\* What IInv says of the queue.
LEMMA Facts ==
  ASSUME IInv
  PROVE  /\ queue \in Seq(Procs) /\ asked \in Seq(Procs) /\ pending \subseteq Procs
         /\ Sorted(queue, ev) /\ Distinct(queue) /\ Distinct(asked)
         /\ ToSet(queue) = ToSet(asked) /\ Queued(queue) = ToSet(queue)
         /\ Queued(asked) = ToSet(asked)
         /\ ToSet(queue) \subseteq Procs
         /\ ev \in [Procs -> Events] /\ Wakes(ev)
         /\ time \in 0 .. Horizon /\ time \in Times /\ time \in Nat
         /\ \A j \in 1 .. Len(queue) : queue[j] \in ToSet(queue)
<1>1. queue \in Seq(Procs) /\ ev \in [Procs -> Events] /\ time \in 0 .. Horizon
  BY DEF IInv, TypeOK
<1>2. ToSet(queue) \subseteq Procs /\ \A j \in 1 .. Len(queue) : queue[j] \in ToSet(queue)
  BY <1>1 DEF ToSet
<1>3. time \in Times /\ time \in Nat
  BY <1>1, Constants DEF Times
<1>4. Wakes(ev)
  BY <1>1, Typed
<1>5. QED  BY <1>1, <1>2, <1>3, <1>4 DEF IInv, TypeOK, Linked, Queued

\* A process queues its event, by enqueue or by store.
LEMMA QueuedUp ==
  ASSUME IInv, phase # "stop", phase # "sweep", pending = {},
         NEW p \in Procs, p \notin ToSet(queue), NEW e \in Events, time <= e.wake,
         ev' = [ev EXCEPT ![p] = e],
         queue' = enqueue(queue, ev', p) \/ (e.wake = Inf /\ queue' = Append(queue, p)),
         asked' = Append(asked, p),
         UNCHANGED <<time, pending, cur, phase, cursor>>
  PROVE  IInv'
<1>1. /\ ev' \in [Procs -> Events] /\ ev'[p] = e
      /\ \A o \in Procs \ {p} : ev'[o] = ev[o]
  BY Facts, Replaced
<1>2. Wakes(ev') /\ Sorted(queue, ev')
  <2>1. Wakes(ev')
    BY <1>1, Typed
  <2>2. \A j \in 1 .. Len(queue) : queue[j] \in Procs \ {p}
    BY Facts
  <2>3. QED  BY <2>1, <2>2, <1>1, Facts DEF Sorted
<1>3. /\ queue' \in Seq(Procs) /\ Sorted(queue', ev') /\ Distinct(queue')
      /\ ToSet(queue') = ToSet(queue) \cup {p}
  <2>1. CASE queue' = enqueue(queue, ev', p)
    <3>1. queue \in Seq(Procs) /\ Distinct(queue)
      BY Facts
    <3>2. QED  BY <2>1, <3>1, <1>2, Enqueued
  <2>2. CASE e.wake = Inf /\ queue' = Append(queue, p)
    <3>1. \A j \in 1 .. Len(queue) : queue[j] \in Procs
      BY Facts
    <3>2. \A o \in Procs : ev'[o].wake \in Times
      BY <1>1, Typed
    <3>3. \A j \in 1 .. Len(queue) : ev'[queue[j]].wake <= ev'[p].wake
      BY <2>2, <3>1, <3>2, <1>1, Constants DEF Times
    <3>4. QED  BY <2>2, <3>3, <1>2, Facts, Stored
  <2>3. QED  BY <2>1, <2>2
<1>4. /\ asked' \in Seq(Procs) /\ Distinct(asked') /\ ToSet(asked') = ToSet(asked) \cup {p}
  <2>1. /\ asked' \in Seq(Procs) /\ ToSet(asked') = ToSet(asked) \cup {p}
        /\ Len(asked') = Len(asked) + 1 /\ Len(asked) \in Nat
        /\ \A i \in 1 .. Len(asked) : asked'[i] = asked[i]
        /\ asked'[Len(asked) + 1] = p
    BY Facts, AddedSet
  <2>2. \A j \in 1 .. Len(asked) : asked[j] # p
    <3>1. p \notin ToSet(asked)
      BY Facts
    <3>2. \A j \in 1 .. Len(asked) : asked[j] \in ToSet(asked)
      BY Facts DEF ToSet
    <3>3. QED  BY <3>1, <3>2
  <2>3. Distinct(asked')
    <3> SUFFICES ASSUME NEW i \in 1 .. Len(asked) + 1, NEW j \in 1 .. Len(asked) + 1, i # j
                 PROVE  asked'[i] # asked'[j]
      BY <2>1 DEF Distinct
    <3>1. \A k \in 1 .. Len(asked) + 1 : k \in 1 .. Len(asked) \/ k = Len(asked) + 1
      BY <2>1
    <3>2. QED  BY <3>1, <2>1, <2>2, Facts DEF Distinct
  <2>4. QED  BY <2>1, <2>3
<1>5. TypeOK'
  BY <1>1, <1>3, <1>4 DEF IInv, TypeOK
<1>6. Linked'
  BY <1>3, <1>4, Facts DEF Linked, Queued
<1>7. Future'
  BY <1>1, <1>3, Facts DEF IInv, Future, Queued
<1>8. Expecting' /\ Due' /\ Follows' /\ Behind'
  BY DEF Expecting, Due, Follows, Behind
<1>9. QED  BY <1>5, <1>6, <1>7, <1>8 DEF IInv

LEMMA CreateKeeps == IInv /\ Create => IInv'
<1> SUFFICES ASSUME IInv, Create  PROVE IInv'
  OBVIOUS
<1> DEFINE p == CHOOSE q \in Unused : TRUE
           h == [s \in {"start"} |-> time]
           e == [wake |-> time, top |-> "start", when |-> h]
<1>1. p \in Procs /\ p \notin ToSet(queue)
  BY Facts DEF Create, Unused, Queued
<1>2. e \in Events /\ e.wake = time
  <2>1. "start" \in AIs /\ {"start"} \in SUBSET AIs /\ time \in Times
    BY Facts, Constants
  <2>2. h \in [{"start"} -> Times]
    BY <2>1
  <2> HIDE DEF h
  <2>3. QED  BY <2>1, <2>2, Event
<1>3. /\ ev' = [ev EXCEPT ![p] = e] /\ queue' = enqueue(queue, ev', p)
      /\ asked' = Append(asked, p) /\ UNCHANGED <<time, pending, cur, phase, cursor>>
      /\ pending = {} /\ phase # "stop" /\ phase # "sweep"
  BY DEF Create, Running
<1> HIDE DEF p, e
<1>4. time <= e.wake
  BY <1>2, Facts
<1>5. QED  BY <1>1, <1>2, <1>3, <1>4, QueuedUp

LEMMA WaitKeeps ==
  ASSUME IInv, NEW S \in Chains, NEW t \in 0 .. Horizon, Wait(S, t)
  PROVE  IInv'
<1> DEFINE h == [s \in S |-> IF s = "timer" THEN time + t ELSE Inf]
           a == IF "timer" \in S THEN "timer" ELSE CHOOSE s \in S : TRUE
           e == [wake |-> h[a], top |-> a, when |-> h]
<1>1. S \in SUBSET AIs /\ a \in S
  BY Constants
<1>2. time + t \in Times /\ time <= time + t /\ time <= Inf /\ Inf \in Times
  BY Facts, Constants DEF Wait, Times
<1>3. h \in [S -> Times] /\ h[a] \in Times /\ time <= h[a]
  BY <1>1, <1>2
<1>4. cur \in Procs /\ cur \notin ToSet(queue)
  BY DEF IInv, TypeOK, Wait, Running, Queued
<1>5. /\ ev' = [ev EXCEPT ![cur] = e]
      /\ queue' = IF e.wake = Inf THEN store(queue, cur) ELSE enqueue(queue, ev', cur)
      /\ asked' = Append(asked, cur) /\ UNCHANGED <<time, pending, cur, phase, cursor>>
      /\ pending = {} /\ phase # "stop" /\ phase # "sweep"
  BY DEF Wait, Running
<1> HIDE DEF h, a
<1>6. e \in Events /\ time <= e.wake
  BY <1>1, <1>3, Event
<1>7. queue' = enqueue(queue, ev', cur) \/ (e.wake = Inf /\ queue' = Append(queue, cur))
  BY <1>5 DEF store
<1> HIDE DEF e
<1>8. QED  BY <1>4, <1>5, <1>6, <1>7, QueuedUp

LEMMA LoopKeeps ==
  ASSUME IInv, Signal \/ KernelTerminate \/ Return
  PROVE  IInv'
<1>1. CASE Signal
  <2>1. TypeOK' /\ Linked' /\ Future'
    BY <1>1, Facts DEF Signal, IInv, TypeOK, Linked, Future, TWList
  <2>2. Expecting'
    BY <1>1, Facts DEF Signal, IInv, Expecting, TWList, Running, Waker
  <2>3. Due' /\ Follows' /\ Behind'
    BY <1>1 DEF Signal, Running, Due, Follows, Behind
  <2>4. QED  BY <2>1, <2>2, <2>3 DEF IInv
<1>2. CASE KernelTerminate
  <2>1. TypeOK' /\ Linked' /\ Future'
    BY <1>2, Facts DEF KernelTerminate, IInv, TypeOK, Linked, Future, TWList
  <2>2. Expecting'
    BY <1>2, Facts DEF KernelTerminate, IInv, Expecting, TWList, Waker
  <2>3. Due'
    BY <1>2, Facts DEF KernelTerminate, Due, TWList
  <2>4. Follows' /\ Behind'
    BY <1>2 DEF KernelTerminate, Follows, Behind
  <2>5. QED  BY <2>1, <2>2, <2>3, <2>4 DEF IInv
<1>3. CASE Return
  <2>1. TypeOK' /\ Linked' /\ Future'
    BY <1>3 DEF Return, Running, IInv, TypeOK, Linked, Future
  <2>2. Expecting' /\ Due' /\ Follows' /\ Behind'
    BY <1>3 DEF Return, Running, Expecting, Due, Follows, Behind
  <2>3. QED  BY <2>1, <2>2 DEF IInv
<1>4. QED  BY <1>1, <1>2, <1>3

LEMMA TriggerKeeps ==
  ASSUME IInv, NEW p \in Procs, Trigger(p)
  PROVE  IInv'
<1>1. /\ p \in pending /\ pending' = pending \ {p}
      /\ UNCHANGED <<time, asked, cur, phase, cursor>>
  BY DEF Trigger
<1>2. /\ p \in ToSet(queue) /\ Waker \in DOMAIN ev[p].when /\ phase # "sweep"
      /\ phase = "stop" \/ (cur # None /\ phase \in {"init", "run", "over"})
  BY <1>1, Facts DEF IInv, Expecting
<1>3. PICK e : /\ e = [ev EXCEPT ![p].when[Waker] = time]
               /\ \/ ev' = new_top_request(e, p, Waker) /\ queue' = reschedule(queue, ev', p)
                  \/ ev' = e /\ queue' = queue
  BY DEF Trigger, Waker
<1>4. /\ e \in [Procs -> Events] /\ e[p].wake = ev[p].wake
      /\ DOMAIN e[p].when = DOMAIN ev[p].when /\ e[p].when[Waker] = time
      /\ \A o \in Procs \ {p} : e[o] = ev[o]
  <2>1. ev \in [Procs -> Events] /\ time \in Times
    BY Facts
  <2>2. e = [ev EXCEPT ![p].when[Waker] = time]
    BY <1>3
  <2>3. PICK d, t : d = ev /\ t = time
    OBVIOUS
  <2>4. /\ d \in [Procs -> Events] /\ t \in Times /\ Waker \in DOMAIN d[p].when
        /\ e = [d EXCEPT ![p].when[Waker] = t]
    BY <1>2, <2>1, <2>2, <2>3
  <2>5. /\ e \in [Procs -> Events] /\ e[p].wake = d[p].wake
        /\ DOMAIN e[p].when = DOMAIN d[p].when /\ e[p].when[Waker] = t
        /\ \A o \in Procs \ {p} : e[o] = d[o]
    BY <2>4, Requested
  <2>6. QED  BY <2>3, <2>5
<1> HIDE DEF Waker
<1>5. /\ ev' \in [Procs -> Events] /\ ev'[p].wake \in {ev[p].wake, time}
      /\ DOMAIN ev'[p].when = DOMAIN ev[p].when /\ ev'[p].when[Waker] = time
      /\ \A o \in Procs \ {p} : ev'[o] = ev[o]
  <2>1. CASE ev' = e
    BY <2>1, <1>4
  <2>2. CASE ev' = new_top_request(e, p, Waker)
    <3>1. /\ ev' \in [Procs -> Events] /\ ev'[p].wake = e[p].when[Waker]
          /\ ev'[p].when = e[p].when /\ \A o \in Procs \ {p} : ev'[o] = e[o]
      BY <2>2, <1>2, <1>4, NewTop
    <3>2. QED  BY <3>1, <1>4
  <2>3. QED  BY <2>1, <2>2, <1>3
<1>6. /\ queue' \in Seq(Procs) /\ Distinct(queue') /\ Sorted(queue', ev')
      /\ ToSet(queue') = ToSet(queue)
  <2>1. CASE queue' = reschedule(queue, ev', p)
    <3>1. queue \in Seq(Procs) /\ Distinct(queue) /\ Sorted(queue, ev)
      BY Facts
    <3>2. Wakes(ev') /\ \A o \in Procs \ {p} : ev'[o].wake = ev[o].wake
      BY <1>5, Typed
    <3>3. QED  BY <2>1, <3>1, <3>2, <1>2, Rescheduled
  <2>2. CASE ev' = e /\ queue' = queue
    <3>1. \A o \in Procs : ev'[o].wake = ev[o].wake
      BY <2>2, <1>4
    <3>2. \A j \in 1 .. Len(queue) : queue[j] \in Procs
      BY Facts
    <3>3. Sorted(queue, ev')
      BY <3>1, <3>2, Facts DEF Sorted
    <3>4. QED  BY <2>2, <3>3, Facts
  <2>3. QED  BY <2>1, <2>2, <1>3
<1>7. TypeOK'
  BY <1>1, <1>5, <1>6 DEF IInv, TypeOK
<1>8. Linked'
  BY <1>1, <1>6, Facts DEF Linked, Queued
<1>9. Expecting'
  <2>1. Waker' = Waker
    BY <1>1 DEF Waker
  <2>2. \A o \in pending' : o \in ToSet(queue') /\ Waker \in DOMAIN ev'[o].when
    BY <1>1, <1>5, <1>6, Facts DEF IInv, Expecting
  <2>3. QED  BY <2>1, <2>2, <1>1, <1>2 DEF Expecting, Queued
<1>10. Future'
  <2>1. \A o \in ToSet(queue) : time <= ev[o].wake
    BY Facts DEF IInv, Future
  <2>2. \A o \in ToSet(queue) : time <= ev'[o].wake
    BY <2>1, <1>2, <1>5, Facts
  <2>3. QED  BY <2>2, <1>1, <1>6 DEF Future, Queued
<1>11. Due'
  <2> SUFFICES ASSUME phase = "stop", NEW o \in ToSet(queue), o \notin pending \/ o = p,
                      "kernel" \in DOMAIN ev'[o].when
               PROVE  ev'[o].when["kernel"] = time
    BY <1>1, <1>2, <1>6 DEF Due, Queued
  <2>1. CASE o = p
    BY <2>1, <1>5 DEF Waker
  <2>2. CASE o # p
    BY <2>2, <1>5, Facts DEF IInv, Due
  <2>3. QED  BY <2>1, <2>2
<1>12. Follows' /\ Behind'
  BY <1>1, <1>2 DEF Follows, Behind
<1>13. QED  BY <1>7, <1>8, <1>9, <1>10, <1>11, <1>12 DEF IInv

\* An event leaves the queue, and its process is not queued any more.
LEMMA Dequeued ==
  ASSUME IInv, NEW p \in ToSet(queue), queue' = remove(queue, p), asked' = remove(asked, p),
         ev' = [ev EXCEPT ![p] = NoEvent]
  PROVE  /\ ev' \in [Procs -> Events] /\ \A o \in Procs \ {p} : ev'[o] = ev[o]
         /\ queue' \in Seq(Procs) /\ Distinct(queue') /\ Sorted(queue', ev')
         /\ ToSet(queue') = ToSet(queue) \ {p}
         /\ asked' \in Seq(Procs) /\ Distinct(asked') /\ ToSet(asked') = ToSet(queue')
<1>1. ev' \in [Procs -> Events] /\ \A o \in Procs \ {p} : ev'[o] = ev[o]
  BY Facts, NoEventTyped, Replaced
<1>2. queue' \in Seq(Procs) /\ Distinct(queue') /\ ToSet(queue') = ToSet(queue) \ {p}
  BY Facts, Taken
<1>3. Sorted(queue', ev')
  <2>1. queue \in Seq(Procs) /\ Distinct(queue) /\ Sorted(queue, ev)
    BY Facts
  <2>2. \A o \in Procs \ {p} : ev'[o].wake = ev[o].wake
    BY <1>1
  <2>3. PICK q, e, f : q = queue /\ e = ev /\ f = ev'
    OBVIOUS
  <2>4. q \in Seq(Procs) /\ Distinct(q) /\ Sorted(q, e) /\ p \in ToSet(q)
    BY <2>1, <2>3
  <2>5. \A o \in Procs \ {p} : f[o].wake = e[o].wake
    BY <2>2, <2>3
  <2>6. Sorted(remove(q, p), f)
    BY <2>4, <2>5, TakenSorted
  <2>7. QED  BY <2>3, <2>6
<1>4. asked' \in Seq(Procs) /\ Distinct(asked') /\ ToSet(asked') = ToSet(asked) \ {p}
  BY Facts, Taken
<1>5. QED  BY <1>1, <1>2, <1>3, <1>4, Facts

LEMMA GetKeeps ==
  ASSUME IInv, NEW p \in Procs, Get(p)
  PROVE  IInv'
<1>1. PICK j \in 1 .. Len(queue) : p = queue[j] /\ ev[p].wake = ev[queue[1]].wake
  <2>1. PICK j \in 1 .. (IF Det THEN 1 ELSE Len(queue)) :
          p = queue[j] /\ \A k \in 1 .. j : ev[queue[k]].wake = ev[queue[1]].wake
    BY DEF Get, Candidates
  <2>2. 1 <= Len(queue) /\ Len(queue) \in Nat
    BY Facts DEF Get, Scheduled
  <2>3. j \in 1 .. Len(queue) /\ j \in 1 .. j
    BY <2>1, <2>2
  <2>4. QED  BY <2>1, <2>3
<1>2. p \in ToSet(queue)
  BY <1>1, Facts
<1>3. /\ ev' \in [Procs -> Events] /\ \A o \in Procs \ {p} : ev'[o] = ev[o]
      /\ queue' \in Seq(Procs) /\ Distinct(queue') /\ Sorted(queue', ev')
      /\ ToSet(queue') = ToSet(queue) \ {p}
      /\ asked' \in Seq(Procs) /\ Distinct(asked') /\ ToSet(asked') = ToSet(queue')
  BY <1>2, Dequeued DEF Get
<1>4. /\ time' = ev[p].wake /\ cur' = p /\ pending' = pending /\ phase' = phase
      /\ cursor' = cursor /\ cur = None /\ phase \in {"run", "over"} /\ ev[queue[1]].wake # Inf
  BY DEF Get, AtLoop, Scheduled
<1>5. time' \in 0 .. Horizon
  <2>1. ev[p].wake \in Times /\ ev[p].wake # Inf
    BY <1>1, <1>4, Facts, Typed
  <2>2. QED  BY <2>1, <1>4, Constants DEF Times
<1>6. TypeOK'
  BY <1>3, <1>4, <1>5 DEF IInv, TypeOK
<1>7. Linked'
  BY <1>3 DEF Linked, Queued
<1>8. pending = {}
  BY <1>4 DEF IInv, Expecting
<1>9. Expecting' /\ Due' /\ Follows' /\ Behind'
  BY <1>4, <1>8 DEF Expecting, Due, Follows, Behind
<1>10. Future'
  <2>1. ASSUME NEW o \in ToSet(queue)
        PROVE  ev[p].wake <= ev[o].wake
    <3>1. PICK k \in 1 .. Len(queue) : o = queue[k]
      BY Facts DEF ToSet
    <3>2. ev[queue[1]].wake <= ev[queue[k]].wake
      <4>1. 1 \in 1 .. Len(queue) /\ (k = 1 \/ 1 < k) /\ ev[queue[k]].wake \in Nat
        BY Facts DEF Wakes
      <4>2. QED  BY <4>1, Facts DEF Sorted
    <3>3. QED  BY <3>1, <3>2, <1>1
  <2>2. QED  BY <2>1, <1>3, <1>4, Facts DEF Future, Queued
<1>11. QED  BY <1>6, <1>7, <1>9, <1>10 DEF IInv

\* What follows an event.
LEMMA Successor ==
  ASSUME NEW q \in Seq(Procs), Distinct(q), NEW p \in ToSet(q)
  PROVE  \/ place(q, p) = Len(q) /\ successor(q, p) = None
         \/ /\ place(q, p) \in 1 .. Len(q) - 1 /\ place(q, p) + 1 \in 1 .. Len(q)
            /\ successor(q, p) = q[place(q, p) + 1]
            /\ successor(q, p) \in ToSet(q) \ {p} /\ successor(q, p) # None
<1>1. place(q, p) \in 1 .. Len(q) /\ q[place(q, p)] = p
  BY Place
<1>2. CASE place(q, p) = Len(q)
  BY <1>2 DEF successor
<1>3. CASE place(q, p) # Len(q)
  <2>1. place(q, p) \in 1 .. Len(q) - 1 /\ place(q, p) + 1 \in 1 .. Len(q)
    BY <1>1, <1>3
  <2>2. successor(q, p) = q[place(q, p) + 1]
    BY <1>3 DEF successor
  <2>3. q[place(q, p) + 1] \in ToSet(q) /\ q[place(q, p) + 1] \in Procs
    BY <2>1 DEF ToSet
  <2>4. q[place(q, p) + 1] # p
    BY <2>1, <1>1 DEF Distinct
  <2>5. QED  BY <2>1, <2>2, <2>3, <2>4, Constants
<1>4. QED  BY <1>2, <1>3

LEMMA SweepBeginKeeps ==
  ASSUME IInv, SweepBegin
  PROVE  IInv'
<1>1. /\ phase = "stop" /\ pending = {} /\ phase' = "sweep"
      /\ cursor' = IF queue = <<>> THEN None ELSE queue[1]
      /\ UNCHANGED <<time, queue, ev, asked, pending, cur>>
  BY DEF SweepBegin
<1>2. cursor' = None \/ (1 \in 1 .. Len(queue) /\ cursor' = queue[1])
  BY <1>1, Facts
<1>3. TypeOK' /\ Linked' /\ Future' /\ Expecting' /\ Due'
  <2>1. cursor' \in Procs \cup {None}
    BY <1>2, Facts
  <2>2. TypeOK'
    BY <2>1, <1>1 DEF IInv, TypeOK
  <2>3. Linked' /\ Future' /\ Expecting' /\ Due'
    BY <1>1 DEF IInv, Linked, Future, Expecting, Due
  <2>4. QED  BY <2>2, <2>3
<1>4. Follows'
  BY <1>1, <1>2, Facts DEF Follows, Queued
<1>5. Behind'
  <2> SUFFICES ASSUME NEW i \in 1 .. Len(queue), cursor' # None => i < place(queue, cursor')
               PROVE  FALSE
    BY <1>1 DEF Behind
  <2>1. queue # <<>> /\ Len(queue) \in Nat
    BY Facts
  <2>2. cursor' = queue[1] /\ 1 \in 1 .. Len(queue)
    BY <2>1, <1>1, Facts
  <2>3. cursor' # None
    BY <2>2, Facts, Constants
  <2>4. place(queue, cursor') = 1
    BY <2>2, Facts, OnlyPlace
  <2>5. QED  BY <2>3, <2>4
<1>6. QED  BY <1>3, <1>4, <1>5 DEF IInv

LEMMA SweepDropKeeps ==
  ASSUME IInv, SweepDrop
  PROVE  IInv'
<1>1. /\ phase = "sweep" /\ cursor # None /\ cursor' = successor(queue, cursor)
      /\ queue' = remove(queue, cursor) /\ ev' = [ev EXCEPT ![cursor] = NoEvent]
      /\ asked' = remove(asked, cursor) /\ UNCHANGED <<time, pending, cur, phase>>
  BY DEF SweepDrop
<1>2. cursor \in ToSet(queue) /\ pending = {}
  BY <1>1, Facts DEF IInv, Follows, Expecting
<1>3. /\ ev' \in [Procs -> Events] /\ \A o \in Procs \ {cursor} : ev'[o] = ev[o]
      /\ queue' \in Seq(Procs) /\ Distinct(queue') /\ Sorted(queue', ev')
      /\ ToSet(queue') = ToSet(queue) \ {cursor}
      /\ asked' \in Seq(Procs) /\ Distinct(asked') /\ ToSet(asked') = ToSet(queue')
  BY <1>1, <1>2, Dequeued
<1> DEFINE c == place(queue, cursor)
<1>4. /\ c \in 1 .. Len(queue) /\ Len(queue) \in Nat \ {0} /\ Len(queue') = Len(queue) - 1
      /\ \A j \in 1 .. Len(queue) - 1 : queue'[j] = IF j < c THEN queue[j] ELSE queue[j + 1]
  BY <1>1, <1>2, Facts, Place, Taken
<1>5. \/ c = Len(queue) /\ cursor' = None
      \/ /\ c \in 1 .. Len(queue) - 1 /\ c + 1 \in 1 .. Len(queue) /\ cursor' = queue[c + 1]
         /\ cursor' \in ToSet(queue) \ {cursor} /\ cursor' # None
  BY <1>1, <1>2, Facts, Successor
<1>6. TypeOK'
  <2>1. cursor' \in Procs \cup {None}
    BY <1>5, Facts
  <2>2. QED  BY <2>1, <1>1, <1>3 DEF IInv, TypeOK
<1>7. Linked' /\ Follows'
  BY <1>3, <1>5 DEF Linked, Follows, Queued
<1>8. Future' /\ Expecting' /\ Due'
  <2>1. ASSUME NEW o \in ToSet(queue')
        PROVE  o \in Procs \ {cursor} /\ o \in ToSet(queue) /\ ev'[o] = ev[o]
    BY <1>3, Facts
  <2>2. Future'
    BY <2>1, <1>1, Facts DEF IInv, Future, Queued
  <2>3. Due'
    BY <2>1, <1>1, Facts DEF IInv, Due, Queued
  <2>4. Expecting'
    BY <1>1, <1>2 DEF Expecting
  <2>5. QED  BY <2>2, <2>3, <2>4
<1>9. Behind'
  <2> SUFFICES ASSUME ~ Det, NEW i \in 1 .. Len(queue'), cursor' # None => i < place(queue', cursor')
               PROVE  Held(queue[i])'
    BY DEF Behind
  <2>1. i < c
    <3>1. CASE c = Len(queue)
      BY <3>1, <1>4
    <3>2. CASE c \in 1 .. Len(queue) - 1 /\ cursor' = queue[c + 1] /\ cursor' # None
      <4>1. queue'[c] = cursor' /\ c \in 1 .. Len(queue')
        BY <3>2, <1>4
      <4>2. place(queue', queue'[c]) = c
        BY <4>1, <1>3, OnlyPlace
      <4>3. QED  BY <4>1, <4>2, <3>2
    <3>3. QED  BY <3>1, <3>2, <1>5
  <2>2. i \in 1 .. Len(queue) /\ queue'[i] = queue[i]
    BY <2>1, <1>4
  <2>3. Held(queue[i])
    BY <2>1, <2>2, <1>1 DEF IInv, Behind
  <2>4. queue'[i] \in Procs \ {cursor}
    <3>1. queue'[i] \in ToSet(queue')
      BY <1>3 DEF ToSet
    <3>2. QED  BY <3>1, <1>3, Facts
  <2>5. QED  BY <2>2, <2>3, <2>4, <1>1, <1>3 DEF Held
<1>10. QED  BY <1>6, <1>7, <1>8, <1>9 DEF IInv

\* Without ZZ_DET an event that is due now is linked at the head.
LEMMA AtTheHead ==
  ASSUME ~ Det, NEW q \in Seq(Procs), NEW p \in ToSet(q), Distinct(q),
         NEW e, NEW f, Sorted(q, e), Wakes(f), \A o \in Procs \ {p} : f[o].wake = e[o].wake,
         \A o \in ToSet(q) : f[p].wake <= f[o].wake
  PROVE  reschedule(q, f, p)[1] = p /\ Len(reschedule(q, f, p)) = Len(q) /\ Len(q) \in Nat \ {0}
<1> DEFINE r == remove(q, p)
<1>1. /\ r \in Seq(Procs) /\ Distinct(r) /\ ToSet(r) = ToSet(q) \ {p}
      /\ Len(q) \in Nat \ {0} /\ Len(r) = Len(q) - 1
  BY Taken
<1>2. Sorted(r, f)
  BY TakenSorted
<1>3. p \in Procs
  BY DEF ToSet
<1> HIDE DEF r
<1>4. \A j \in 1 .. Len(r) : f[p].wake <= f[r[j]].wake
  <2>1. \A j \in 1 .. Len(r) : r[j] \in ToSet(r)
    BY <1>1 DEF ToSet
  <2>2. QED  BY <2>1, <1>1
<1>5. enqueue(r, f, p) = InsertAt(r, 1, p)
  BY <1>1, <1>2, <1>3, <1>4, Found
<1>6. Len(InsertAt(r, 1, p)) = Len(r) + 1 /\ InsertAt(r, 1, p)[1] = p
  <2>1. 1 \in 1 .. Len(r) + 1
    BY <1>1
  <2> DEFINE s == InsertAt(r, 1, p)
  <2>2. /\ s \in Seq(Procs) /\ Len(s) = Len(r) + 1
        /\ Len(r) \in Nat
        /\ \A j \in 1 .. Len(r) + 1 : s[j] = IF j < 1 THEN r[j] ELSE IF j = 1 THEN p ELSE r[j - 1]
    BY <2>1, <1>1, <1>3, Inserted
  <2>3. QED  BY <2>1, <2>2
<1>7. QED  BY <1>1, <1>5, <1>6 DEF reschedule, r

LEMMA SweepHoldKeeps ==
  ASSUME IInv, SweepHold
  PROVE  IInv'
<1>1. PICK e : /\ e = new_top_request(ev, cursor, "kernel")
               /\ queue' = reschedule(queue, e, cursor)
               /\ ev' = [e EXCEPT ![cursor].when = held(@)]
  BY DEF SweepHold
<1>2. /\ phase = "sweep" /\ cursor # None /\ "kernel" \in DOMAIN ev[cursor].when
      /\ cursor' = successor(queue', cursor) /\ UNCHANGED <<time, asked, pending, cur, phase>>
  BY DEF SweepHold
<1>3. cursor \in ToSet(queue) /\ cursor \in Procs /\ pending = {}
  BY <1>2, Facts DEF IInv, Follows, Expecting
<1>4. /\ e \in [Procs -> Events] /\ e[cursor].wake = time
      /\ e[cursor].when = ev[cursor].when /\ ev[cursor].when["kernel"] = time
      /\ \A o \in Procs \ {cursor} : e[o] = ev[o]
  <2>1. ev[cursor].when["kernel"] = time
    BY <1>2, <1>3, Facts DEF IInv, Due
  <2>2. PICK d, p : d = ev /\ p = cursor
    OBVIOUS
  <2>3. /\ d \in [Procs -> Events] /\ p \in Procs /\ "kernel" \in DOMAIN d[p].when
        /\ e = new_top_request(d, p, "kernel")
    BY <2>2, <1>1, <1>2, <1>3, Facts
  <2>4. /\ e \in [Procs -> Events]
        /\ e[p].wake = d[p].when["kernel"] /\ e[p].when = d[p].when
        /\ \A o \in Procs \ {p} : e[o] = d[o]
    BY <2>3, NewTop
  <2>5. QED  BY <2>1, <2>2, <2>4
<1>5. /\ ev' \in [Procs -> Events] /\ ev'[cursor].wake = time
      /\ DOMAIN ev'[cursor].when = {"kernel"} /\ ev'[cursor].when["kernel"] = time
      /\ \A o \in Procs \ {cursor} : ev'[o] = ev[o]
  <2> DEFINE h == held(ev[cursor].when)
             x == [wake |-> e[cursor].wake, top |-> e[cursor].top, when |-> h]
  <2>1. h = [s \in {"kernel"} |-> time]
    BY <1>4 DEF held
  <2>2. {"kernel"} \in SUBSET AIs /\ time \in Times /\ e[cursor].top \in AIs
    BY <1>3, <1>4, Constants, Typed, Facts
  <2>3. h \in [{"kernel"} -> Times] /\ DOMAIN h = {"kernel"} /\ h["kernel"] = time
    BY <2>1, <2>2
  <2> HIDE DEF h
  <2>4. x \in Events
    BY <2>2, <2>3, <1>4, Event
  <2>5. ev' = [e EXCEPT ![cursor] = x]
    <3>1. e[cursor] \in Events
      BY <1>3, <1>4
    <3>2. [e[cursor] EXCEPT !.when = h] = x
      BY <3>1 DEF Events
    <3>3. ev' = [e EXCEPT ![cursor] = [e[cursor] EXCEPT !.when = h]]
      BY <1>1, <1>4 DEF h
    <3>4. QED  BY <3>2, <3>3
  <2>6. x.wake = time /\ x.when = h
    BY <1>4
  <2> HIDE DEF x
  <2>7. ev' \in [Procs -> Events] /\ ev'[cursor] = x /\ \A o \in Procs \ {cursor} : ev'[o] = e[o]
    BY <1>3, <1>4, <2>4, <2>5, Replaced
  <2>8. QED  BY <2>3, <2>6, <2>7, <1>4
<1>6. PICK q, d, p : q = queue /\ d = ev /\ p = cursor
  OBVIOUS
<1>7. /\ q \in Seq(Procs) /\ Distinct(q) /\ p \in ToSet(q) /\ Sorted(q, d) /\ Wakes(e)
      /\ \A o \in Procs \ {p} : e[o].wake = d[o].wake
  BY <1>3, <1>4, <1>6, Facts, Typed
<1>8. /\ queue' \in Seq(Procs) /\ Distinct(queue') /\ Sorted(queue', e) /\ ToSet(queue') = ToSet(queue)
  <2>1. /\ reschedule(q, e, p) \in Seq(Procs) /\ Distinct(reschedule(q, e, p))
        /\ Sorted(reschedule(q, e, p), e) /\ ToSet(reschedule(q, e, p)) = ToSet(q)
    BY <1>7, Rescheduled
  <2>2. QED  BY <2>1, <1>1, <1>6
<1>9. Sorted(queue', ev')
  <2>1. \A o \in Procs : ev'[o].wake = e[o].wake
    BY <1>4, <1>5
  <2>2. \A j \in 1 .. Len(queue') : queue'[j] \in Procs
    BY <1>8
  <2>3. QED  BY <2>1, <2>2, <1>8 DEF Sorted
<1>10. \/ place(queue', cursor) = Len(queue') /\ cursor' = None
       \/ /\ place(queue', cursor) \in 1 .. Len(queue') - 1
          /\ place(queue', cursor) + 1 \in 1 .. Len(queue')
          /\ cursor' = queue'[place(queue', cursor) + 1]
          /\ cursor' \in ToSet(queue') \ {cursor} /\ cursor' # None
  <2>1. cursor \in ToSet(queue')
    BY <1>3, <1>8
  <2>2. QED  BY <2>1, <1>2, <1>8, Successor
<1>11. TypeOK'
  <2>1. cursor' \in Procs \cup {None}
    BY <1>8, <1>10, Facts
  <2>2. QED  BY <2>1, <1>2, <1>5, <1>8 DEF IInv, TypeOK
<1>12. Linked' /\ Follows'
  BY <1>2, <1>8, <1>9, <1>10, Facts DEF Linked, Follows, Queued
<1>13. Expecting'
  BY <1>2, <1>3 DEF Expecting
<1>14. Future'
  <2>1. \A o \in ToSet(queue) : time <= ev[o].wake
    BY Facts DEF IInv, Future
  <2>2. \A o \in ToSet(queue) : time <= ev'[o].wake
    BY <2>1, <1>5, Facts
  <2>3. QED  BY <2>2, <1>2, <1>8 DEF Future, Queued
<1>15. Due'
  <2> SUFFICES ASSUME NEW o \in ToSet(queue), "kernel" \in DOMAIN ev'[o].when
               PROVE  ev'[o].when["kernel"] = time
    BY <1>2, <1>8 DEF Due, Queued
  <2>1. CASE o = cursor
    BY <2>1, <1>5
  <2>2. CASE o # cursor
    BY <2>2, <1>2, <1>3, <1>5, Facts DEF IInv, Due
  <2>3. QED  BY <2>1, <2>2
<1>16. Behind'
  <2> SUFFICES ASSUME ~ Det, NEW i \in 1 .. Len(queue'), cursor' # None => i < place(queue', cursor')
               PROVE  Held(queue[i])'
    BY DEF Behind
  <2>1. \A o \in ToSet(q) : e[p].wake <= e[o].wake
    <3>1. \A o \in ToSet(queue) : time <= ev[o].wake
      BY Facts DEF IInv, Future
    <3>2. \A o \in ToSet(queue) : o \in Procs /\ time <= time
      BY Facts
    <3>3. \A o \in ToSet(queue) : time <= e[o].wake
      BY <3>1, <3>2, <1>4
    <3>4. QED  BY <3>3, <1>4, <1>6
  <2>2. queue'[1] = cursor /\ Len(queue') \in Nat \ {0}
    <3>1. reschedule(q, e, p)[1] = p /\ Len(reschedule(q, e, p)) = Len(q) /\ Len(q) \in Nat \ {0}
      BY <2>1, <1>7, AtTheHead
    <3>2. QED  BY <3>1, <1>1, <1>6
  <2>3. 1 \in 1 .. Len(queue')
    BY <2>2
  <2>4. place(queue', cursor) = 1
    <3>1. place(queue', queue'[1]) = 1
      BY <2>3, <1>8, OnlyPlace
    <3>2. QED  BY <3>1, <2>2
  <2>5. i = 1
    <3>1. CASE cursor' = None
      <4>1. Len(queue') = 1
        BY <3>1, <1>10, <2>4
      <4>2. QED  BY <4>1
    <3>2. CASE cursor' # None
      <4>1. 1 + 1 \in 1 .. Len(queue') /\ cursor' = queue'[1 + 1]
        BY <3>2, <1>10, <2>4
      <4>2. place(queue', queue'[1 + 1]) = 1 + 1
        BY <4>1, <1>8, OnlyPlace
      <4>3. i < 1 + 1
        BY <3>2, <4>1, <4>2
      <4>4. QED  BY <4>3, <2>2
    <3>3. QED  BY <3>1, <3>2
  <2>6. QED  BY <2>2, <2>5, <1>2, <1>5 DEF Held
<1>17. QED  BY <1>11, <1>12, <1>13, <1>14, <1>15, <1>16 DEF IInv

LEMMA EndKeeps ==
  ASSUME IInv, SweepEnd \/ Done
  PROVE  IInv'
<1>1. CASE SweepEnd
  <2>1. TypeOK' /\ Linked' /\ Future'
    BY <1>1 DEF SweepEnd, IInv, TypeOK, Linked, Future
  <2>2. pending' = {}
    BY <1>1 DEF SweepEnd, IInv, Expecting
  <2>3. Expecting' /\ Due' /\ Follows' /\ Behind'
    BY <1>1, <2>2 DEF SweepEnd, Expecting, Due, Follows, Behind
  <2>4. QED  BY <2>1, <2>3 DEF IInv
<1>2. CASE Done
  <2>1. TypeOK'
    <3>1. ev' \in [Procs -> Events]
      BY <1>2, NoEventTyped DEF Done
    <3>2. QED  BY <1>2, <3>1 DEF Done, IInv, TypeOK
  <2>2. Len(queue') = 0 /\ Len(asked') = 0 /\ Queued(queue') = {} /\ Queued(asked') = {}
    BY <1>2 DEF Done, Queued, ToSet
  <2>3. Linked'
    BY <2>2 DEF Linked, Sorted, Distinct
  <2>4. Expecting' /\ Future' /\ Due' /\ Follows' /\ Behind'
    BY <1>2, <2>2 DEF Done, Expecting, Future, Due, Follows, Behind
  <2>5. QED  BY <2>1, <2>3, <2>4 DEF IInv
<1>3. QED  BY <1>1, <1>2

LEMMA NextKeeps == IInv /\ [Next]_vars => IInv'
<1> SUFFICES ASSUME IInv, [Next]_vars  PROVE IInv'
  OBVIOUS
<1>1. CASE Create
  BY <1>1, CreateKeeps
<1>2. CASE Signal \/ KernelTerminate \/ Return
  BY <1>2, LoopKeeps
<1>3. CASE Sweep
  BY <1>3, SweepBeginKeeps, SweepHoldKeeps, SweepDropKeeps, EndKeeps DEF Sweep
<1>4. CASE Done
  BY <1>4, EndKeeps
<1>5. ASSUME NEW p \in Procs, Get(p) \/ Trigger(p)
      PROVE  IInv'
  BY <1>5, GetKeeps, TriggerKeeps
<1>6. ASSUME NEW S \in Chains, NEW t \in 0 .. Horizon, Wait(S, t)
      PROVE  IInv'
  BY <1>6, WaitKeeps
<1>7. CASE UNCHANGED vars
  BY <1>7 DEF vars, IInv, TypeOK, Linked, Expecting, Future, Due, Follows, Behind, Waker, Held
<1>8. QED  BY <1>1, <1>2, <1>3, <1>4, <1>5, <1>6, <1>7 DEF Next

-----------------------------------------------------------------------------
(* The theorems                                                             *)

THEOREM Invariant == Spec => []IInv
<1>1. QED  BY InitInv, NextKeeps, PTL DEF Spec

\* Every pending event has the wake time and the chain of an event, in
\* whatever order it was stored, triggered and taken (ZZ_EVENT).
THEOREM Typing == Spec => []TypeOK
<1>1. IInv => TypeOK
  BY DEF IInv
<1>2. QED  BY <1>1, Invariant, PTL

\* zz_eq is ordered by wake time and links each pending event once (enqueue,
\* store, remove, reschedule in inlines.h), in both builds.
THEOREM Ordering == Spec => []QueueOrdered
<1>1. IInv => QueueOrdered
  BY DEF IInv, Linked, Sorted, Distinct, QueueOrdered
<1>2. QED  BY <1>1, Invariant, PTL

\* "Kernel->terminate: internal error -- illegal restart time" is never raised:
\* whoever waits for Kernel DEATH during the sweep has been triggered now, also
\* when its event showed another request (process.cc 594-595), in both builds.
THEOREM Restarting ==
  Spec => [](phase = "sweep" => \A p \in TWList("kernel") : ev[p].when["kernel"] = time)
<1>1. ASSUME IInv
      PROVE  phase = "sweep" => \A p \in TWList("kernel") : ev[p].when["kernel"] = time
  BY <1>1, Facts DEF IInv, Expecting, Due, TWList
<1>2. QED  BY <1>1, Invariant, PTL

\* Without ZZ_DET the sweep of terminate (Kernel) leaves holders only, each due
\* now, however many there are (process.cc 559-600).
THEOREM Sweeping ==
  ASSUME Det = FALSE
  PROVE  Spec => SweepLeavesOnlyHolders
<1>1. ASSUME IInv, [Next]_vars
      PROVE  [phase = "sweep" /\ phase' = "over" =>
                \A p \in Queued(queue) :
                   DOMAIN ev[p].when = {"kernel"} /\ ev[p].wake = time]_vars
  <2> SUFFICES ASSUME phase = "sweep", phase' = "over", NEW p \in ToSet(queue)
               PROVE  DOMAIN ev[p].when = {"kernel"} /\ ev[p].wake = time
    BY DEF Queued
  <2>1. cursor = None
    <3>1. pending = {}
      BY <1>1 DEF IInv, Expecting
    <3>2. QED
      BY <1>1, <3>1 DEF Next, vars, Create, Signal, Return, Running, KernelTerminate, Sweep, Done,
                        SweepBegin, SweepHold, SweepDrop, SweepEnd, Get, AtLoop, Trigger, Wait
  <2>2. PICK i \in 1 .. Len(queue) : p = queue[i]
    BY <1>1, Facts DEF ToSet
  <2>3. QED  BY <2>1, <2>2, <1>1 DEF IInv, Behind, Held
<1>2. QED  BY <1>1, Invariant, PTL DEF Spec, SweepLeavesOnlyHolders
=============================================================================
