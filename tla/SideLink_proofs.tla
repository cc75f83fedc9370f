----------------------------- MODULE SideLink_proofs -----------------------------
(***************************************************************************)
(* Proofs about links, for any number of ports, any distances, any number  *)
(* of activities, both types of link and any linger time.                  *)
(*                                                                         *)
(* Nothing is removed too early (IInv: Kept): an activity that is not in   *)
(* Alive has ended so long ago that every port has heard its end, since    *)
(* MaxDistance is greater than the distance of every port that can hear it *)
(* (Farthest), and one that is not in Archived either has ended earlier    *)
(* still by the linger time.                                               *)
(*                                                                         *)
(* What a new request is answered is right (the lemmas RightBOT to         *)
(* RightAnyEvent): the time is that at which the event comes next, told    *)
(* from all activities there ever were (Comes), and the packet is one that *)
(* the event is about (About).                                             *)
(*                                                                         *)
(* And it stays right (Expecting): each pending request is Formed (its     *)
(* packet is one that its event is about) and Timely (its time is when its *)
(* event comes next), and the event shows the earliest of them.  An        *)
(* operation of a port changes what another port hears from the time on at *)
(* which it hears of it (Grows, Ceases).  An event comes to mean more from *)
(* then on (Gains) or less (Loses), and reschedule does for each queue what*)
(* that takes (StartServes, StopServes); a queue that is left out has      *)
(* nothing to gain or to lose (Covers).  While the queues are gone through,*)
(* the event is Halfway: the requests of the queues done so far are right  *)
(* for the new link, the others still for the old one.                     *)
(***************************************************************************)
EXTENDS SideLink, SideSequences

-----------------------------------------------------------------------------
(* The inductive invariant                                                  *)

Shaped ==
  /\ link = [activity |-> link.activity, Alive |-> link.Alive, Archived |-> link.Archived,
             NAlive |-> link.NAlive, NAliveJams |-> link.NAliveJams]
  /\ Activity \in [Ports -> Nat]

\* What an activity's times say of its place, at time now.  A jam is addressed to nobody.
Placed(a, alive, archived, far, now) ==
  /\ a.Type = "JAM" => a.Receiver = {}
  /\ a.STime <= now
  /\ a.FTime # Inf => a.STime < a.FTime /\ a.FTime <= now
  /\ ~ alive => a.FTime # Inf /\ a.FTime + far <= now
  /\ ~ alive /\ ~ archived => a.FTime + far + PurgeDelay <= now

Kept ==
  \A n \in DOMAIN link.activity :
    LET a == link.activity[n]
    IN  Placed(a, n \in link.Alive, n \in link.Archived, MaxDistance(a.LRId), Time)

IInv == LinkTyped /\ Shaped /\ Kept

-----------------------------------------------------------------------------
(* Distances                                                               *)

LEMMA Greatest ==
  ASSUME NEW n \in Nat, NEW S \in SUBSET (0 .. n), S # {}
  PROVE  Max(S) \in S /\ \A x \in S : x <= Max(S)
<1>1. PICK x \in S : \A y \in S : x >= y
  BY Extremes
<1>2. Max(S) \in S /\ \A y \in S : Max(S) >= y
  BY <1>1 DEF Max
<1>3. QED  BY <1>2

LEMMA Constants ==
  /\ NPorts \in Nat \ {0} /\ Horizon \in Nat \ {0} /\ MaxActivities \in Nat
  /\ \A p, q \in Ports : Distances[p][q] \in Nat /\ Distances[p][q] = Distances[q][p]
  /\ \A p \in Ports : Distances[p][p] = 0
  /\ Ports \subseteq Nat /\ 0 \in Ports /\ IsFiniteSet(Ports)
  /\ PurgeDelay \in Nat
  /\ \A p \in Ports : Receivers[p] \subseteq SUBSET Ports
<1>1. /\ NPorts \in Nat \ {0} /\ Horizon \in Nat \ {0} /\ MaxActivities \in Nat /\ Linger \in Nat
      /\ Distances \in [Ports -> [Ports -> Nat]]
      /\ \A p, q \in Ports : Distances[p][q] = Distances[q][p] /\ (Distances[p][q] = 0 <=> p = q)
      /\ Receivers \in [Ports -> SUBSET (SUBSET Ports)]
  BY LinkAssumption DEF LinkAssumption
<1>2. Ports \subseteq Nat /\ 0 \in Ports /\ IsFiniteSet(Ports)
  BY <1>1, FS_Interval DEF Ports
<1>3. PurgeDelay \in Nat
  BY <1>1 DEF PurgeDelay
<1>4. QED  BY <1>1, <1>2, <1>3

LEMMA Reach == \E n \in Nat : \A p, q \in Ports : Distances[p][q] <= n
<1> DEFINE f == [x \in Ports \X Ports |-> Distances[x[1]][x[2]]]
<1>1. IsFiniteSet(Ports \X Ports)
  BY Constants, FS_Product
<1>2. f \in [Ports \X Ports -> Nat]
  BY Constants
<1>3. \A p, q \in Ports : f[<<p, q>>] = Distances[p][q]
  OBVIOUS
<1> HIDE DEF f
<1>4. PICK n \in Nat : \A x \in Ports \X Ports : f[x] <= n
  BY <1>1, <1>2, Bounded
<1>5. \A p, q \in Ports : Distances[p][q] <= n
  BY <1>3, <1>4
<1>6. QED  BY <1>5

\* Inf is later than anything that can be heard.
LEMMA InfIsLater ==
  /\ Inf \in Nat /\ Horizon < Inf
  /\ \A p, q \in Ports, t \in 0 .. Horizon : t + Distances[p][q] < Inf
<1>1. PICK n \in Nat : \A p, q \in Ports : Distances[p][q] <= n
  BY Reach
<1> DEFINE S == {Distances[p][q] : p, q \in Ports}
<1>2. S \in SUBSET (0 .. n) /\ S # {}
  BY <1>1, Constants
<1>3. \A p, q \in Ports : Distances[p][q] \in S
  OBVIOUS
<1>4. Inf = 2 * (Horizon + Max(S) + 1)
  BY DEF Inf
<1> HIDE DEF S
<1>5. Max(S) \in Nat /\ \A x \in S : x <= Max(S)
  <2>1. n \in Nat /\ S \in SUBSET (0 .. n) /\ S # {}
    BY <1>1, <1>2
  <2>2. Max(S) \in S /\ \A x \in S : x <= Max(S)
    BY <2>1, Greatest, Zenon
  <2>3. \A x \in S : x \in Nat
    BY <2>1
  <2>4. QED  BY <2>2, <2>3
<1>6. Inf \in Nat /\ Horizon < Inf /\ Horizon + Max(S) < Inf
  BY <1>4, <1>5, Constants
<1>7. ASSUME NEW p \in Ports, NEW q \in Ports, NEW t \in 0 .. Horizon
      PROVE  t + Distances[p][q] < Inf
  <2>1. Distances[p][q] <= Max(S) /\ Distances[p][q] \in Nat /\ t \in Nat /\ t <= Horizon
    BY <1>3, <1>5, Constants
  <2>2. QED  BY <2>1, <1>5, <1>6, Constants
<1>8. QED  BY <1>6, <1>7

\* MaxDistance exceeds the distance of every port that can hear p.
LEMMA Farthest ==
  ASSUME NEW p \in Ports
  PROVE  /\ MaxDistance(p) \in Nat
         /\ \A q \in Ports : hears(q, p) => Distances[q][p] < MaxDistance(p)
<1>1. PICK n \in Nat : \A q \in Ports : Distances[p][q] <= n
  BY Reach
<1> DEFINE K == {k \in Ports : Type = "broadcast" \/ k > p}
           S == {0} \cup {Distances[p][q] : q \in K}
<1>2. S \in SUBSET (0 .. n) /\ S # {}
  BY <1>1, Constants
<1>3. 0 \in S /\ \A q \in K : Distances[p][q] \in S
  OBVIOUS
<1>4. MaxDistance(p) = 1 + Max(S)
  BY DEF MaxDistance
<1>5. \A q \in Ports : hears(q, p) => q \in K \/ q = p
  BY Constants DEF hears
<1> HIDE DEF S, K
<1>6. Max(S) \in Nat /\ \A x \in S : x <= Max(S)
  <2>1. n \in Nat /\ S \in SUBSET (0 .. n) /\ S # {}
    BY <1>1, <1>2
  <2>2. Max(S) \in S /\ \A x \in S : x <= Max(S)
    BY <2>1, Greatest, Zenon
  <2>3. \A x \in S : x \in Nat
    BY <2>1
  <2>4. QED  BY <2>2, <2>3
<1>7. ASSUME NEW q \in Ports, hears(q, p)
      PROVE  Distances[q][p] \in Nat /\ Distances[q][p] \in S
  <2>1. CASE q \in K
    BY <2>1, <1>3, Constants
  <2>2. CASE q = p
    BY <2>2, <1>3, Constants
  <2>3. QED  BY <1>5, <1>7, <2>1, <2>2
<1>8. QED  BY <1>4, <1>6, <1>7

-----------------------------------------------------------------------------
(* What happens to a link                                                   *)

\* The port p starts an activity, or ends one.
Begun(p) ==
  /\ Activity[p] = 0 /\ Len(link.activity) < MaxActivities
  /\ \E type \in {"JAM", "TRANSMISSION_A"}, to \in SUBSET Ports :
       (type = "JAM" => to = {}) /\ link' = started(p, type, to)
  /\ Activity' = [Activity EXCEPT ![p] = Len(link'.activity)]
  /\ UNCHANGED <<Time, Type>>

Ended(p) ==
  /\ Activity[p] # 0 /\ Time > link.activity[Activity[p]].STime
  /\ \E type \in {"JAM", "TRANSMISSION", "TRANSMISSION_A"} :
       /\ type = "JAM" <=> isJam(link, Activity[p])
       /\ link' = finished(p, type)
  /\ Activity' = [Activity EXCEPT ![p] = 0]
  /\ UNCHANGED <<Time, Type>>

Purged(n) ==
  \/ n \in link.Alive /\ dueFromLk(n) /\ link' = gone(n)
  \/ n \in link.Archived /\ dueFromAr(n) /\ link' = [link EXCEPT !.Archived = @ \ {n}]

Passed == Time < Horizon /\ Time' = Time + 1 /\ UNCHANGED <<Type, link, Activity>>

LEMMA Steps ==
  ASSUME [Next]_vars
  PROVE  \/ \E p \in Ports : Begun(p) \/ Ended(p)
         \/ \E n \in link.Alive \cup link.Archived : Purged(n) /\ UNCHANGED <<Time, Type, Activity>>
         \/ Passed
         \/ UNCHANGED <<Time, Type, link, Activity>>
<1>1. ASSUME NEW p \in Ports, startTransmit(p)
      PROVE  Begun(p)
  BY <1>1, Constants DEF startTransmit, Start, Begun
<1>2. ASSUME NEW p \in Ports, startJam(p)
      PROVE  Begun(p)
  <2>1. {} \in SUBSET Ports
    OBVIOUS
  <2>2. QED  BY <1>2, <2>1 DEF startJam, Start, Begun
<1>3. ASSUME NEW p \in Ports, stopJam(p)
      PROVE  Ended(p)
  BY <1>3 DEF stopJam, Finish, Ended
<1>4. ASSUME NEW p \in Ports, stop(p)
      PROVE  Ended(p)
  BY <1>4 DEF stop, Finish, Ended
<1>5. ASSUME NEW p \in Ports, abort(p)
      PROVE  Ended(p)
  BY <1>5 DEF abort, Finish, Ended
<1>6. ASSUME NEW n \in link.Alive, RemFromLk(n)
      PROVE  Purged(n) /\ UNCHANGED <<Time, Type, Activity>>
  BY <1>6 DEF RemFromLk, Purged
<1>7. ASSUME NEW n \in link.Archived, RemFromAr(n)
      PROVE  Purged(n) /\ UNCHANGED <<Time, Type, Activity>>
  BY <1>7 DEF RemFromAr, Purged
<1>8. ASSUME NEW q \in Waiters, Dispatch(q) \/ Alarm(q) \/ \E ev \in Events : Wait(q, ev)
      PROVE  UNCHANGED <<Time, Type, link, Activity>>
  BY <1>8 DEF Dispatch, Alarm, Restart, Wait
<1>9. CASE Sleep
  BY <1>9 DEF Sleep
<1>10. CASE Tick
  BY <1>10 DEF Tick, Passed
<1>11. CASE UNCHANGED vars
  BY <1>11 DEF vars
<1>12. QED
  BY <1>1, <1>2, <1>3, <1>4, <1>5, <1>6, <1>7, <1>8, <1>9, <1>10, <1>11 DEF Next

\* What one activity and the lists are like.
LEMMA Typed ==
  ASSUME LinkTyped, Shaped
  PROVE  /\ link.activity \in Seq(Activities) /\ Len(link.activity) \in Nat
         /\ DOMAIN link.activity = 1 .. Len(link.activity)
         /\ link.Alive \subseteq DOMAIN link.activity /\ link.Archived \subseteq DOMAIN link.activity
         /\ IsFiniteSet(link.Alive) /\ link.NAlive \in Nat
         /\ Time \in Nat /\ Time \in 1 .. Horizon
         /\ \A n \in DOMAIN link.activity :
              /\ link.activity[n] \in Activities
              /\ link.activity[n].STime \in Nat /\ link.activity[n].FTime \in Nat
              /\ link.activity[n].LRId \in Ports
              /\ n \in Nat \ {0}
         /\ \A p \in Ports : Activity[p] # 0 =>
              /\ Activity[p] \in DOMAIN link.activity
              /\ link.activity[Activity[p]].FTime = Inf /\ link.activity[Activity[p]].LRId = p
<1>1. /\ link.activity \in Seq(Activities) /\ Len(link.activity) \in Nat
      /\ DOMAIN link.activity = 1 .. Len(link.activity)
      /\ \A n \in DOMAIN link.activity : link.activity[n] \in Activities
      /\ \A n \in DOMAIN link.activity : n \in Nat \ {0}
  BY DEF LinkTyped
<1>2. \A a \in Activities : a.STime \in Nat /\ a.FTime \in Nat /\ a.LRId \in Ports
  BY InfIsLater DEF Activities
<1>3. link.Alive \subseteq DOMAIN link.activity /\ link.Archived \subseteq DOMAIN link.activity
  BY DEF LinkTyped
<1>4. IsFiniteSet(link.Alive) /\ link.NAlive \in Nat
  <2>1. IsFiniteSet(1 .. Len(link.activity))
    BY <1>1, FS_Interval
  <2>2. IsFiniteSet(link.Alive)
    BY <2>1, <1>1, <1>3, FS_Subset
  <2>3. QED  BY <2>2, FS_CardinalityType DEF LinkTyped
<1>5. Time \in Nat /\ Time \in 1 .. Horizon
  BY Constants DEF LinkTyped
<1>6. ASSUME NEW p \in Ports, Activity[p] # 0
      PROVE  /\ Activity[p] \in DOMAIN link.activity
             /\ link.activity[Activity[p]].FTime = Inf /\ link.activity[Activity[p]].LRId = p
  <2>1. Activity[p] \in {n \in DOMAIN link.activity :
                           link.activity[n].LRId = p /\ link.activity[n].FTime = Inf}
    BY <1>6 DEF LinkTyped
  <2>2. QED  BY <2>1
<1>7. QED  BY <1>1, <1>2, <1>3, <1>4, <1>5, <1>6

\* MaxDistance does not change.
LEMMA StillKept ==
  ASSUME Type' = Type,
         \A m \in DOMAIN link'.activity :
           Placed(link'.activity[m], m \in link'.Alive, m \in link'.Archived,
                  MaxDistance(link'.activity[m].LRId), Time')
  PROVE  Kept'
BY DEF Kept, MaxDistance

LEMMA BegunKeeps ==
  ASSUME IInv, NEW p \in Ports, Begun(p)
  PROVE  IInv'
<1> DEFINE n == Len(link.activity) + 1
<1>1. LinkTyped /\ Shaped /\ Kept
  BY DEF IInv
<1>2. PICK type \in {"JAM", "TRANSMISSION_A"}, to \in SUBSET Ports :
        (type = "JAM" => to = {}) /\ link' = started(p, type, to)
  BY DEF Begun
<1>3. PICK a : a = [STime |-> Time, FTime |-> Inf, LRId |-> p, Type |-> type, Receiver |-> to]
  OBVIOUS
<1>4. /\ link'.activity = Append(link.activity, a)
      /\ link'.Alive = link.Alive \cup {n} /\ link'.Archived = link.Archived
      /\ link'.NAlive = link.NAlive + 1
      /\ link'.NAliveJams = IF type = "JAM" THEN link.NAliveJams + 1 ELSE link.NAliveJams
      /\ link' = [activity |-> link'.activity, Alive |-> link'.Alive, Archived |-> link'.Archived,
                  NAlive |-> link'.NAlive, NAliveJams |-> link'.NAliveJams]
  BY <1>1, <1>2, <1>3 DEF started, Shaped
<1>5. /\ Activity[p] = 0 /\ Len(link.activity) < MaxActivities
      /\ Activity' = [Activity EXCEPT ![p] = Len(link'.activity)]
      /\ Time' = Time /\ Type' = Type
  BY DEF Begun
<1>6. a \in Activities /\ Time # 0
  BY <1>1, <1>3, Typed DEF Activities
<1>7. /\ link'.activity \in Seq(Activities) /\ Len(link'.activity) = n
      /\ DOMAIN link'.activity = DOMAIN link.activity \cup {n} /\ n \notin DOMAIN link.activity
      /\ \A m \in DOMAIN link.activity : link'.activity[m] = link.activity[m]
      /\ link'.activity[n] = a
      /\ n \in Nat \ {0}
  <2>1. /\ link.activity \in Seq(Activities) /\ Len(link.activity) \in Nat
        /\ DOMAIN link.activity = 1 .. Len(link.activity)
    BY <1>1, Typed
  <2>2. DOMAIN Append(link.activity, a) = 1 .. Len(link.activity) + 1
    BY <2>1, <1>6
  <2>3. 1 .. Len(link.activity) + 1 = (1 .. Len(link.activity)) \cup {Len(link.activity) + 1}
    BY <2>1
  <2>4. /\ Append(link.activity, a) \in Seq(Activities) /\ Len(Append(link.activity, a)) = Len(link.activity) + 1
        /\ \A m \in 1 .. Len(link.activity) : Append(link.activity, a)[m] = link.activity[m]
        /\ Append(link.activity, a)[Len(link.activity) + 1] = a
    BY <2>1, <1>6, AddedSet
  <2>5. QED  BY <2>1, <2>2, <2>3, <2>4, <1>4
<1> HIDE DEF n
<1>8. link.Alive \subseteq DOMAIN link.activity /\ link.Archived \subseteq DOMAIN link.activity
  BY <1>1, Typed
<1>9. link'.NAlive = Cardinality(link'.Alive)
  <2>1. IsFiniteSet(link.Alive) /\ link.NAlive = Cardinality(link.Alive) /\ n \notin link.Alive
    BY <1>1, <1>7, <1>8, Typed DEF LinkTyped
  <2>2. Cardinality(link.Alive \cup {n}) = Cardinality(link.Alive) + 1
    BY <2>1, FS_AddElement, Zenon
  <2>3. QED  BY <2>1, <2>2, <1>4
<1>10. link'.NAliveJams = Cardinality({m \in link'.Alive : isJam(link', m)})
  <2> DEFINE J == {m \in link.Alive : isJam(link, m)}
  <2>1. IsFiniteSet(J) /\ link.NAliveJams = Cardinality(J) /\ n \notin J
    BY <1>1, <1>7, <1>8, Typed, FS_Subset DEF LinkTyped
  <2>2. {m \in link'.Alive : isJam(link', m)} = IF type = "JAM" THEN J \cup {n} ELSE J
    BY <1>3, <1>4, <1>7, <1>8 DEF isJam
  <2> HIDE DEF J
  <2>3. Cardinality(J \cup {n}) = Cardinality(J) + 1
    BY <2>1, FS_AddElement, Zenon
  <2>4. QED  BY <2>1, <2>2, <2>3, <1>4
<1>11. ASSUME NEW q \in Ports
       PROVE  {m \in DOMAIN link'.activity : link'.activity[m].LRId = q /\ link'.activity[m].FTime = Inf}
              = {Activity'[q]} \ {0}
  <2> DEFINE E == {m \in DOMAIN link.activity : link.activity[m].LRId = q /\ link.activity[m].FTime = Inf}
             F == {m \in DOMAIN link'.activity : link'.activity[m].LRId = q /\ link'.activity[m].FTime = Inf}
  <2>1. E = {Activity[q]} \ {0}
    BY <1>1 DEF LinkTyped
  <2>2. F = IF q = p THEN E \cup {n} ELSE E
    BY <1>3, <1>7
  <2>3. Activity'[q] = IF q = p THEN n ELSE Activity[q]
    BY <1>1, <1>5, <1>7 DEF Shaped
  <2> HIDE DEF E, F
  <2>4. F = {Activity'[q]} \ {0}
    BY <2>1, <2>2, <2>3, <1>5, <1>7
  <2>5. QED  BY <2>4 DEF F
<1>12. LinkTyped'
  <2>1. Len(link'.activity) <= MaxActivities
    BY <1>1, <1>5, <1>7, Typed, Constants DEF n
  <2>2. link'.Alive \cup link'.Archived \subseteq DOMAIN link'.activity /\ link'.Alive \cap link'.Archived = {}
    BY <1>1, <1>4, <1>7, <1>8 DEF LinkTyped
  <2>3. Time' \in 1 .. Horizon /\ Type' \in Types
    BY <1>1, <1>5 DEF LinkTyped
  <2>4. QED  BY <2>1, <2>2, <2>3, <1>7, <1>9, <1>10, <1>11 DEF LinkTyped
<1>13. Shaped'
  BY <1>1, <1>4, <1>5, <1>7 DEF Shaped
<1>14. Kept'
  <2>1. ASSUME NEW m \in DOMAIN link.activity
        PROVE  Placed(link'.activity[m], m \in link'.Alive, m \in link'.Archived,
                      MaxDistance(link'.activity[m].LRId), Time')
    BY <1>1, <1>4, <1>5, <1>7 DEF Kept
  <2>2. Placed(link'.activity[n], n \in link'.Alive, n \in link'.Archived,
               MaxDistance(link'.activity[n].LRId), Time')
    BY <1>1, <1>2, <1>3, <1>4, <1>5, <1>7, Typed DEF Placed
  <2>3. QED  BY <2>1, <2>2, <1>5, <1>7, StillKept
<1>15. QED  BY <1>12, <1>13, <1>14 DEF IInv

LEMMA EndedKeeps ==
  ASSUME IInv, NEW p \in Ports, Ended(p)
  PROVE  IInv'
<1>1. LinkTyped /\ Shaped /\ Kept
  BY DEF IInv
<1>2. PICK n : n = Activity[p]
  OBVIOUS
<1>3. /\ n # 0 /\ n \in DOMAIN link.activity
      /\ link.activity[n].FTime = Inf /\ link.activity[n].LRId = p
      /\ Time > link.activity[n].STime
  BY <1>1, <1>2, Typed DEF Ended
<1>4. PICK type \in {"JAM", "TRANSMISSION", "TRANSMISSION_A"} :
        (type = "JAM" <=> isJam(link, n)) /\ link' = finished(p, type)
  BY <1>2 DEF Ended
<1>5. Activity' = [Activity EXCEPT ![p] = 0] /\ Time' = Time /\ Type' = Type
  BY DEF Ended
<1>6. PICK a : a = [link.activity[n] EXCEPT !.FTime = Time, !.Type = type]
  OBVIOUS
<1>7. /\ link'.activity = [link.activity EXCEPT ![n] = a]
      /\ link'.Alive = link.Alive /\ link'.Archived = link.Archived
      /\ link'.NAlive = link.NAlive /\ link'.NAliveJams = link.NAliveJams
      /\ link' = [activity |-> link'.activity, Alive |-> link'.Alive, Archived |-> link'.Archived,
                  NAlive |-> link'.NAlive, NAliveJams |-> link'.NAliveJams]
  BY <1>1, <1>2, <1>3, <1>4, <1>6 DEF finished, Shaped
<1>8. /\ a \in Activities /\ a.STime = link.activity[n].STime /\ a.FTime = Time /\ a.LRId = p
      /\ a.Type = type /\ a.Receiver = link.activity[n].Receiver /\ Time # Inf
  <2>1. link.activity[n] \in Activities /\ Time \in 1 .. Horizon
    BY <1>1, <1>3, Typed
  <2>2. Time # Inf
    BY <2>1, InfIsLater, Constants
  <2>3. QED  BY <2>1, <2>2, <1>3, <1>6 DEF Activities
<1>9. /\ link'.activity \in Seq(Activities) /\ Len(link'.activity) = Len(link.activity)
      /\ DOMAIN link'.activity = DOMAIN link.activity
      /\ \A m \in DOMAIN link.activity : link'.activity[m] = IF m = n THEN a ELSE link.activity[m]
  <2>1. link.activity \in Seq(Activities)
    BY <1>1, Typed
  <2>2. QED  BY <2>1, <1>3, <1>7, <1>8
<1>10. link.Alive \subseteq DOMAIN link.activity
  BY <1>1, Typed
<1>11. {m \in link'.Alive : isJam(link', m)} = {m \in link.Alive : isJam(link, m)}
  BY <1>4, <1>7, <1>8, <1>9, <1>10 DEF isJam
<1>12. ASSUME NEW q \in Ports
       PROVE  {m \in DOMAIN link'.activity : link'.activity[m].LRId = q /\ link'.activity[m].FTime = Inf}
              = {Activity'[q]} \ {0}
  <2> DEFINE E == {m \in DOMAIN link.activity : link.activity[m].LRId = q /\ link.activity[m].FTime = Inf}
             F == {m \in DOMAIN link'.activity : link'.activity[m].LRId = q /\ link'.activity[m].FTime = Inf}
  <2>1. E = {Activity[q]} \ {0}
    BY <1>1 DEF LinkTyped
  <2>2. F = IF q = p THEN E \ {n} ELSE E
    BY <1>3, <1>8, <1>9
  <2>3. Activity'[q] = IF q = p THEN 0 ELSE Activity[q]
    BY <1>1, <1>5 DEF Shaped
  <2> HIDE DEF E, F
  <2>4. F = {Activity'[q]} \ {0}
    BY <2>1, <2>2, <2>3, <1>2
  <2>5. QED  BY <2>4 DEF F
<1>13. LinkTyped'
  <2>1. /\ Time' \in 1 .. Horizon /\ Type' \in Types /\ Len(link'.activity) <= MaxActivities
        /\ link'.Alive \cup link'.Archived \subseteq DOMAIN link'.activity
        /\ link'.Alive \cap link'.Archived = {}
        /\ link'.NAlive = Cardinality(link'.Alive)
    BY <1>1, <1>5, <1>7, <1>9 DEF LinkTyped
  <2>2. link'.NAliveJams = Cardinality({m \in link'.Alive : isJam(link', m)})
    BY <1>1, <1>7, <1>11 DEF LinkTyped
  <2>3. QED  BY <2>1, <2>2, <1>9, <1>12 DEF LinkTyped
<1>14. Shaped'
  BY <1>1, <1>5, <1>7 DEF Shaped
<1>15. Kept'
  <2>1. ASSUME NEW m \in DOMAIN link.activity, m # n
        PROVE  Placed(link'.activity[m], m \in link'.Alive, m \in link'.Archived,
                      MaxDistance(link'.activity[m].LRId), Time')
    BY <2>1, <1>1, <1>5, <1>7, <1>9 DEF Kept
  <2>2. n \in link.Alive
    BY <1>1, <1>3 DEF Kept, Placed
  <2>3. Placed(link'.activity[n], n \in link'.Alive, n \in link'.Archived,
               MaxDistance(link'.activity[n].LRId), Time')
    BY <2>2, <1>1, <1>3, <1>4, <1>5, <1>7, <1>8, <1>9, Typed DEF Placed, Kept, isJam
  <2>4. QED  BY <2>1, <2>3, <1>5, <1>9, StillKept
<1>16. QED  BY <1>13, <1>14, <1>15 DEF IInv

\* An activity that leaves a list has been there long enough.
LEMMA PurgedKeeps ==
  ASSUME IInv, NEW n \in link.Alive \cup link.Archived, Purged(n), UNCHANGED <<Time, Type, Activity>>
  PROVE  IInv'
<1>1. LinkTyped /\ Shaped /\ Kept
  BY DEF IInv
<1>2. /\ n \in DOMAIN link.activity /\ link.activity[n].FTime \in Nat /\ link.activity[n].LRId \in Ports
      /\ MaxDistance(link.activity[n].LRId) \in Nat /\ PurgeDelay \in Nat /\ Time \in Nat
  BY <1>1, Typed, Farthest, Constants
<1>3. /\ link'.activity = link.activity /\ link'.Alive \subseteq link.Alive
      /\ link'.Alive \cup link'.Archived \subseteq link.Alive \cup link.Archived
      /\ link'.Alive \cap link'.Archived = {}
      /\ link' = [activity |-> link'.activity, Alive |-> link'.Alive, Archived |-> link'.Archived,
                  NAlive |-> link'.NAlive, NAliveJams |-> link'.NAliveJams]
  <2>1. link.Alive \cap link.Archived = {}
    BY <1>1 DEF LinkTyped
  <2>2. QED  BY <2>1, <1>1 DEF Purged, gone, Shaped
<1>4. \A m \in DOMAIN link.activity : isJam(link', m) <=> isJam(link, m)
  BY <1>3 DEF isJam
<1>5. /\ link'.NAlive = Cardinality(link'.Alive)
      /\ link'.NAliveJams = Cardinality({m \in link'.Alive : isJam(link', m)})
  <2> DEFINE J == {m \in link.Alive : isJam(link, m)}
             K == {m \in link'.Alive : isJam(link', m)}
  <2>1. /\ IsFiniteSet(link.Alive) /\ link.Alive \subseteq DOMAIN link.activity
        /\ link.NAlive = Cardinality(link.Alive) /\ link.NAliveJams = Cardinality(J)
    BY <1>1, Typed DEF LinkTyped
  <2>2. IsFiniteSet(J)
    BY <2>1, FS_Subset
  <2>3. CASE n \in link.Alive /\ dueFromLk(n) /\ link' = gone(n)
    <3>1. /\ link'.Alive = link.Alive \ {n} /\ link'.NAlive = link.NAlive - 1
          /\ link'.NAliveJams = IF isJam(link, n) THEN link.NAliveJams - 1 ELSE link.NAliveJams
      BY <2>3, <1>1 DEF gone, Shaped
    <3>2. K = IF isJam(link, n) THEN J \ {n} ELSE J
      BY <2>1, <3>1, <1>4
    <3>3. isJam(link, n) => n \in J
      BY <2>3
    <3>4. Cardinality(link.Alive \ {n}) = Cardinality(link.Alive) - 1
      BY <2>1, <2>3, FS_RemoveElement, Zenon
    <3>5. n \in J => Cardinality(J \ {n}) = Cardinality(J) - 1
      BY <2>2, FS_RemoveElement, Zenon
    <3> HIDE DEF J, K
    <3>6. link'.NAliveJams = Cardinality(K)
      BY <2>1, <3>1, <3>2, <3>3, <3>5
    <3>7. QED  BY <2>1, <3>1, <3>4, <3>6 DEF K
  <2>4. CASE n \in link.Archived /\ link' = [link EXCEPT !.Archived = @ \ {n}]
    <3>1. link'.Alive = link.Alive /\ link'.NAlive = link.NAlive /\ link'.NAliveJams = link.NAliveJams
      BY <2>4, <1>1 DEF Shaped
    <3>2. K = J
      BY <2>1, <3>1, <1>4
    <3>3. QED  BY <2>1, <3>1, <3>2
  <2>5. QED  BY <2>3, <2>4 DEF Purged
<1>6. LinkTyped'
  BY <1>1, <1>3, <1>5 DEF LinkTyped
<1>7. Shaped'
  BY <1>1, <1>3 DEF Shaped
<1>8. ASSUME NEW m \in DOMAIN link.activity
      PROVE  Placed(link.activity[m], m \in link'.Alive, m \in link'.Archived,
                    MaxDistance(link.activity[m].LRId), Time)
  <2>1. Placed(link.activity[m], m \in link.Alive, m \in link.Archived,
               MaxDistance(link.activity[m].LRId), Time)
    BY <1>1 DEF Kept
  <2>2. CASE m # n
    <3>1. (m \in link'.Alive <=> m \in link.Alive) /\ (m \in link'.Archived <=> m \in link.Archived)
      <4>1. CASE link' = gone(n)
        <5>1. link'.Alive = link.Alive \ {n} /\ link'.Archived \in {link.Archived, link.Archived \cup {n}}
          BY <4>1, <1>1 DEF gone, Shaped
        <5>2. QED  BY <5>1, <2>2
      <4>2. CASE link' = [link EXCEPT !.Archived = @ \ {n}]
        <5>1. link'.Alive = link.Alive /\ link'.Archived = link.Archived \ {n}
          BY <4>2, <1>1 DEF Shaped
        <5>2. QED  BY <5>1, <2>2
      <4>3. QED  BY <4>1, <4>2 DEF Purged
    <3>2. QED  BY <2>1, <3>1 DEF Placed
  <2>3. CASE m = n /\ n \in link.Alive /\ dueFromLk(n) /\ link' = gone(n)
    <3>1. /\ link.activity[n].FTime # Inf
          /\ Time = link.activity[n].FTime + MaxDistance(link.activity[n].LRId)
      BY <2>3 DEF dueFromLk
    <3>2. n \in link'.Archived \/ PurgeDelay = 0
      BY <2>3, <1>1 DEF gone, Shaped
    <3>3. QED  BY <2>1, <2>3, <3>1, <3>2, <1>2 DEF Placed
  <2>4. CASE m = n /\ n \in link.Archived /\ dueFromAr(n) /\ link' = [link EXCEPT !.Archived = @ \ {n}]
    <3>1. n \notin link.Alive
      BY <2>4, <1>1 DEF LinkTyped
    <3>2. Time = link.activity[n].FTime + MaxDistance(link.activity[n].LRId) + PurgeDelay
      BY <2>4 DEF dueFromAr
    <3>3. QED  BY <2>1, <2>4, <3>1, <3>2, <1>2 DEF Placed
  <2>5. QED  BY <2>2, <2>3, <2>4 DEF Purged
<1>9. Kept'
  BY <1>3, <1>8, StillKept
<1>10. QED  BY <1>6, <1>7, <1>9 DEF IInv

LEMMA PassedKeeps ==
  ASSUME IInv, Passed
  PROVE  IInv'
<1>1. LinkTyped /\ Shaped /\ Kept
  BY DEF IInv
<1>2. /\ Time' = Time + 1 /\ Time < Horizon /\ link' = link /\ Activity' = Activity /\ Type' = Type
      /\ Time \in 1 .. Horizon
  BY <1>1, Typed DEF Passed
<1>3. LinkTyped'
  <2>1. Time' \in 1 .. Horizon
    BY <1>2, Constants
  <2>2. \A m : isJam(link', m) <=> isJam(link, m)
    BY <1>2
  <2>3. QED  BY <1>1, <1>2, <2>1 DEF LinkTyped, isJam
<1>4. Shaped'
  BY <1>1, <1>2 DEF Shaped
<1>5. ASSUME NEW m \in DOMAIN link.activity
      PROVE  Placed(link.activity[m], m \in link.Alive, m \in link.Archived,
                    MaxDistance(link.activity[m].LRId), Time + 1)
  <2>1. PICK a, far : a = link.activity[m] /\ far = MaxDistance(link.activity[m].LRId)
    OBVIOUS
  <2>2. Placed(a, m \in link.Alive, m \in link.Archived, far, Time)
    BY <2>1, <1>1 DEF Kept
  <2>3. a.STime \in Nat /\ a.FTime \in Nat /\ far \in Nat /\ PurgeDelay \in Nat /\ Time \in Nat
    BY <2>1, <1>1, Typed, Farthest, Constants
  <2>4. Placed(a, m \in link.Alive, m \in link.Archived, far, Time + 1)
    BY <2>2, <2>3 DEF Placed
  <2>5. QED  BY <2>1, <2>4
<1>6. Kept'
  BY <1>2, <1>5, StillKept
<1>7. QED  BY <1>3, <1>4, <1>6 DEF IInv

LEMMA InitHolds == Init => IInv
<1> SUFFICES ASSUME Init
             PROVE  IInv
  OBVIOUS
<1>1. /\ Time = 1 /\ Type \in Types /\ Activity = [p \in Ports |-> 0]
      /\ link = [activity |-> <<>>, Alive |-> {}, Archived |-> {}, NAlive |-> 0, NAliveJams |-> 0]
  BY DEF Init
<1>2. link.activity \in Seq(Activities) /\ Len(link.activity) = 0 /\ DOMAIN link.activity = {}
  BY <1>1
<1>3. Cardinality({}) = 0 /\ {n \in link.Alive : isJam(link, n)} = {}
  BY <1>1, FS_EmptySet
<1>4. \A p \in Ports : {n \in DOMAIN link.activity : link.activity[n].LRId = p /\ link.activity[n].FTime = Inf}
                       = {Activity[p]} \ {0}
  BY <1>1, <1>2
<1>5. LinkTyped
  BY <1>1, <1>2, <1>3, <1>4, Constants DEF LinkTyped
<1>6. Shaped /\ Kept
  BY <1>1, <1>2 DEF Shaped, Kept
<1>7. QED  BY <1>5, <1>6 DEF IInv

LEMMA NextKeeps == IInv /\ [Next]_vars => IInv'
<1> SUFFICES ASSUME IInv, [Next]_vars
             PROVE  IInv'
  OBVIOUS
<1>1. CASE UNCHANGED <<Time, Type, link, Activity>>
  <2>1. LinkTyped'
    BY <1>1 DEF IInv, LinkTyped, isJam
  <2>2. Shaped'
    BY <1>1 DEF IInv, Shaped
  <2>3. Kept'
    BY <1>1, StillKept DEF IInv, Kept
  <2>4. QED  BY <2>1, <2>2, <2>3 DEF IInv
<1>2. QED  BY <1>1, Steps, BegunKeeps, EndedKeeps, PurgedKeeps, PassedKeeps

LEMMA Invariance == Spec => []IInv
BY InitHolds, NextKeeps, PTL DEF Spec

-----------------------------------------------------------------------------
(* What a port can be told                                                  *)

\* The counters NAlive and NAliveJams, by which silenceTime, collisionTime and eojTime
\* decide that there is nothing to be looked at, agree with the list Alive, and a port
\* has one activity under way at most, through every start, end and purge.
THEOREM Counting == Spec => []LinkTyped
<1>1. IInv => LinkTyped
  BY DEF IInv
<1>2. QED  BY <1>1, Invariance, PTL

LEMMA Times ==
  ASSUME IInv, NEW p \in Ports, NEW n \in DOMAIN link.activity
  PROVE  /\ starts(link, p, n) \in Nat /\ ends(link, p, n) \in 0 .. Inf /\ Time \in Nat /\ Time < Inf
         /\ starts(link, p, n) < ends(link, p, n)
         /\ link.activity[n].FTime # Inf =>
              ends(link, p, n) = link.activity[n].FTime + Distances[p][link.activity[n].LRId]
<1>1. PICK a, d : a = link.activity[n] /\ d = Distances[p][link.activity[n].LRId]
  OBVIOUS
<1>2. /\ a \in Activities /\ a.STime \in Nat /\ a.FTime \in Nat /\ a.LRId \in Ports
      /\ Time \in 1 .. Horizon
  BY <1>1, Typed DEF IInv
<1>3. d \in Nat /\ Inf \in Nat /\ Horizon \in Nat /\ Horizon < Inf
  BY <1>1, <1>2, Constants, InfIsLater
<1>4. a.STime <= Time /\ (a.FTime # Inf => a.STime < a.FTime /\ a.FTime <= Time)
  BY <1>1 DEF IInv, Kept, Placed
<1>5. a.STime \in 0 .. Horizon /\ (a.FTime # Inf => a.FTime \in 0 .. Horizon)
  BY <1>2, <1>3, <1>4
<1>6. a.STime + d < Inf /\ (a.FTime # Inf => a.FTime + d < Inf)
  BY <1>1, <1>2, <1>5, InfIsLater
<1>7. /\ starts(link, p, n) = a.STime + d
      /\ ends(link, p, n) = IF a.FTime = Inf THEN Inf ELSE a.FTime + d
  BY <1>1 DEF starts, ends
<1>8. QED  BY <1>1, <1>2, <1>3, <1>4, <1>6, <1>7

\* How far back an activity that has left the lists was heard.
LEMMA Gone ==
  ASSUME IInv, NEW p \in Ports, NEW n \in Heard(link, p)
  PROVE  /\ n \in DOMAIN link.activity
         /\ n \notin link.Alive => ends(link, p, n) < Time
         /\ n \notin link.Alive \cup link.Archived => ends(link, p, n) + PurgeDelay < Time
<1>1. PICK a, far : a = link.activity[n] /\ far = MaxDistance(link.activity[n].LRId)
  OBVIOUS
<1>2. n \in DOMAIN link.activity /\ hears(p, a.LRId)
  BY <1>1 DEF Heard
<1>3. a.LRId \in Ports /\ a.FTime \in Nat /\ Time \in Nat
  BY <1>1, <1>2, Typed DEF IInv
<1>4. far \in Nat /\ Distances[p][a.LRId] < far /\ Distances[p][a.LRId] \in Nat /\ PurgeDelay \in Nat
  BY <1>1, <1>2, <1>3, Farthest, Constants
<1>5. Placed(a, n \in link.Alive, n \in link.Archived, far, Time)
  BY <1>1, <1>2 DEF IInv, Kept
<1>6. a.FTime # Inf => ends(link, p, n) = a.FTime + Distances[p][a.LRId]
  BY <1>1, <1>2, Times
<1>7. QED  BY <1>2, <1>3, <1>4, <1>5, <1>6 DEF Placed

\* Inquiries about the present (activities, events) look at the list Alive only, and yet
\* tell everything that is heard at the port: no activity leaves the link while some port
\* hears it or its end (LinkService, MaxDistance), for every topology and both types
\* of link.
THEOREM Present == Spec => []PresentIsKnown
<1>1. ASSUME IInv, NEW p \in Ports
      PROVE  /\ activities(p) = HeardAt(link, p, Time)
             /\ events(p, "BOT") \cup events(p, "BOJ") = Beginning(link, p, Time)
             /\ events(p, "EOT") \cup events(p, "EOJ") =
                  {n \in Ending(link, p, Time) : link.activity[n].Type # "TRANSMISSION_A"}
  <2>1. /\ Heard(link, p) \subseteq DOMAIN link.activity
        /\ sensed(link, p) = {n \in Heard(link, p) : n \in link.Alive}
    <3>1. link.Alive \subseteq DOMAIN link.activity
      BY <1>1, Typed DEF IInv
    <3>2. QED  BY <3>1 DEF Heard, sensed
  <2>2. \A n \in Heard(link, p) : ends(link, p, n) >= Time => n \in link.Alive
    <3>1. \A n \in Heard(link, p) : ends(link, p, n) \in Nat /\ Time \in Nat
      BY <1>1, <2>1, Times, InfIsLater
    <3>2. QED  BY <1>1, <3>1, Gone
  <2>3. \A n \in Heard(link, p) : /\ starts(link, p, n) \in Nat /\ ends(link, p, n) \in Nat /\ Time \in Nat
                            /\ starts(link, p, n) < ends(link, p, n)
    BY <1>1, <2>1, Times, InfIsLater
  <2>4. activities(p) = HeardAt(link, p, Time)
    BY <2>1, <2>2, <2>3 DEF activities, HeardAt
  <2>5. events(p, "BOT") \cup events(p, "BOJ") = Beginning(link, p, Time)
    BY <2>1, <2>2, <2>3 DEF events, Beginning
  <2>6. \A n \in Heard(link, p) :
          isJam(link, n) \/ link.activity[n].Type = "TRANSMISSION" <=> link.activity[n].Type # "TRANSMISSION_A"
    <3>1. \A n \in Heard(link, p) : link.activity[n] \in Activities
      BY <1>1, <2>1, Typed DEF IInv
    <3>2. QED  BY <3>1 DEF isJam, Activities
  <2>7. events(p, "EOT") \cup events(p, "EOJ") =
          {n \in Ending(link, p, Time) : link.activity[n].Type # "TRANSMISSION_A"}
    BY <2>1, <2>2, <2>3, <2>6 DEF events, Ending
  <2>8. QED  BY <2>4, <2>5, <2>7
<1>2. IInv => PresentIsKnown
  BY <1>1 DEF PresentIsKnown
<1>3. QED  BY <1>2, Invariance, PTL

\* The last end of an activity that a port has heard is found in the lists Alive and
\* Archived as long as the linger time has not passed since then (setPurgeDelay, lastEOA),
\* for every topology and both types of link.
THEOREM LastEnd == Spec => []LastEndIsKnown
<1>1. ASSUME IInv, NEW p \in Ports
      PROVE  LET eoa == Max({0} \cup {ends(link, p, n) : n \in Past(p)})
             IN  IF HeardAt(link, p, Time) # {} THEN lastEOA(p) = Inf
                 ELSE eoa # 0 /\ eoa + PurgeDelay >= Time => lastEOA(p) = eoa
  <2> DEFINE F == {ends(link, p, n) : n \in known(p)}
             G == {ends(link, p, n) : n \in Past(p)}
             eoa == Max({0} \cup G)
  <2>1. Heard(link, p) \subseteq DOMAIN link.activity /\ Past(p) \subseteq Heard(link, p)
    BY DEF Heard, Past
  <2>2. \A n \in Heard(link, p) : /\ starts(link, p, n) \in Nat /\ ends(link, p, n) \in 0 .. Inf
                            /\ starts(link, p, n) < ends(link, p, n)
    BY <1>1, <2>1, Times
  <2>3. known(p) = {n \in Past(p) : n \in link.Alive \cup link.Archived}
    <3>1. link.Alive \cup link.Archived \subseteq DOMAIN link.activity
      BY <1>1, Typed DEF IInv
    <3>2. QED  BY <3>1 DEF known, Past, Heard
  <2>4. Time \in Nat /\ Inf \in Nat /\ PurgeDelay \in Nat
    BY <1>1, Typed, InfIsLater, Constants DEF IInv
  <2>5. CASE HeardAt(link, p, Time) # {}
    <3>1. PICK n \in Heard(link, p) : starts(link, p, n) <= Time /\ Time < ends(link, p, n)
      BY <2>5 DEF HeardAt
    <3>2. n \in link.Alive
      BY <1>1, <2>2, <2>4, <3>1, Gone
    <3>3. n \in known(p)
      BY <2>3, <3>1, <3>2 DEF Past
    <3>4. \E f \in F : f > Time
      BY <3>1, <3>3
    <3>5. lastEOA(p) = Inf
      BY <3>4 DEF lastEOA
    <3>6. QED  BY <2>5, <3>5
  <2>6. CASE HeardAt(link, p, Time) = {} /\ eoa # 0 /\ eoa + PurgeDelay >= Time
    <3>1. {0} \cup G \in SUBSET (0 .. Inf) /\ {0} \cup G # {}
      BY <2>1, <2>2, <2>4
    <3> HIDE DEF G
    <3>2. eoa \in {0} \cup G /\ \A y \in {0} \cup G : y <= eoa
      BY <2>4, <3>1, Greatest, Zenon
    <3>3. PICK m \in Past(p) : eoa = ends(link, p, m)
      BY <2>6, <3>2 DEF G
    <3>4. m \in Heard(link, p) /\ eoa \in Nat
      BY <2>1, <2>2, <2>4, <3>3
    <3>5. m \in known(p)
      <4>1. m \notin link.Alive \cup link.Archived => ends(link, p, m) + PurgeDelay < Time
        BY <1>1, <3>4, Gone
      <4>2. ~ (ends(link, p, m) + PurgeDelay < Time)
        BY <2>4, <2>6, <3>3, <3>4
      <4>3. QED  BY <4>1, <4>2, <2>3
    <3>6. F \subseteq G /\ eoa \in F
      BY <2>3, <3>3, <3>5 DEF G
    <3>7. ASSUME NEW f \in F
          PROVE  ~ (f > Time)
      <4>1. PICK n \in known(p) : f = ends(link, p, n)
        OBVIOUS
      <4>2. n \in Heard(link, p) /\ starts(link, p, n) <= Time
        BY <4>1, <2>1, <2>3 DEF Past
      <4>3. QED  BY <4>1, <4>2, <2>2, <2>4, <2>6 DEF HeardAt
    <3>8. lastEOA(p) = Max({0} \cup F)
      BY <3>7 DEF lastEOA
    <3>9. {0} \cup F \in SUBSET (0 .. Inf) /\ {0} \cup F # {}
      BY <3>1, <3>6
    <3> HIDE DEF F
    <3>10. Max({0} \cup F) \in {0} \cup F /\ \A y \in {0} \cup F : y <= Max({0} \cup F)
      BY <2>4, <3>9, Greatest, Zenon
    <3>11. Max({0} \cup F) \in {0} \cup G /\ eoa \in {0} \cup F
      BY <3>6, <3>10
    <3>12. Max({0} \cup F) <= eoa /\ eoa <= Max({0} \cup F)
      BY <3>2, <3>10, <3>11
    <3>13. Max({0} \cup F) \in Nat
      BY <3>9, <3>10, <2>4
    <3>14. Max({0} \cup F) = eoa
      BY <3>4, <3>12, <3>13
    <3>15. QED  BY <2>6, <3>8, <3>14 DEF G
  <2>7. QED  BY <2>5, <2>6
<1>2. IInv => LastEndIsKnown
  BY <1>1 DEF LastEndIsKnown
<1>3. QED  BY <1>2, Invariance, PTL
-----------------------------------------------------------------------------
(* The activities of a link, as they are heard at a port                     *)

\* Link lk at the present time.  Kept says it of the link; it is also said of the link
\* that an operation makes, while the event of a port is brought up to date.
Fit(lk) ==
  /\ Time \in 1 .. Horizon /\ lk.activity \in Seq(Activities)
  /\ lk.Alive \subseteq DOMAIN lk.activity
  /\ lk.NAlive = Cardinality(lk.Alive)
  /\ lk.NAliveJams = Cardinality({n \in lk.Alive : isJam(lk, n)})
  /\ \A n \in DOMAIN lk.activity :
       Placed(lk.activity[n], n \in lk.Alive, n \in lk.Archived, MaxDistance(lk.activity[n].LRId), Time)

\* What port p can be told of lk is in the list Alive.
Aired(lk, p) ==
  /\ Time \in 1 .. LastHeard /\ LastHeard \in Nat /\ Inf \in Nat /\ LastHeard < Inf
  /\ IsFiniteSet(Heard(lk, p)) /\ Heard(lk, p) \subseteq DOMAIN lk.activity
  /\ DOMAIN lk.activity = 1 .. Len(lk.activity) /\ Len(lk.activity) \in Nat
  /\ sensed(lk, p) \subseteq Heard(lk, p)
  /\ \A n \in Heard(lk, p) :
       /\ starts(lk, p, n) \in 1 .. LastHeard
       /\ ends(lk, p, n) = Inf \/ ends(lk, p, n) \in 1 .. LastHeard
       /\ starts(lk, p, n) < ends(lk, p, n)
       /\ ends(lk, p, n) >= Time => n \in sensed(lk, p)
       /\ isJam(lk, n) => p \notin lk.activity[n].Receiver
       /\ lk.activity[n].Type \in {"JAM", "TRANSMISSION", "TRANSMISSION_A"}
       /\ lk.activity[n].FTime = Inf <=> ends(lk, p, n) = Inf
  /\ lk.NAlive = 0 => sensed(lk, p) = {}
  /\ lk.NAliveJams = 0 => \A n \in sensed(lk, p) : ~ isJam(lk, n)

\* Half of Inf is as late as anything can be heard.
LEMMA LastIsLast ==
  /\ LastHeard \in Nat /\ Inf \in Nat /\ Horizon <= LastHeard /\ LastHeard < Inf
  /\ \A p, q \in Ports, t \in 0 .. Horizon : t + Distances[p][q] <= LastHeard
<1>1. PICK n \in Nat : \A p, q \in Ports : Distances[p][q] <= n
  BY Reach
<1> DEFINE S == {Distances[p][q] : p, q \in Ports}
<1>2. S \in SUBSET (0 .. n) /\ S # {}
  BY <1>1, Constants
<1>3. \A p, q \in Ports : Distances[p][q] \in S
  OBVIOUS
<1>4. Inf = 2 * (Horizon + Max(S) + 1)
  BY DEF Inf
<1> HIDE DEF S
<1>5. Max(S) \in Nat /\ \A x \in S : x <= Max(S)
  <2>1. n \in Nat /\ S \in SUBSET (0 .. n) /\ S # {}
    BY <1>1, <1>2
  <2>2. Max(S) \in S /\ \A x \in S : x <= Max(S)
    BY <2>1, Greatest, Zenon
  <2>3. \A x \in S : x \in Nat
    BY <2>1
  <2>4. QED  BY <2>2, <2>3
<1>6. LastHeard = Horizon + Max(S) + 1
  <2>1. \A k \in Nat : (2 * k) \div 2 = k
    OBVIOUS
  <2>2. Horizon + Max(S) + 1 \in Nat
    BY <1>5, Constants
  <2>3. QED  BY <2>1, <2>2, <1>4 DEF LastHeard
<1>7. LastHeard \in Nat /\ Inf \in Nat /\ Horizon <= LastHeard /\ LastHeard < Inf
  BY <1>4, <1>5, <1>6, Constants
<1>8. ASSUME NEW p \in Ports, NEW q \in Ports, NEW t \in 0 .. Horizon
      PROVE  t + Distances[p][q] <= LastHeard
  <2>1. Distances[p][q] <= Max(S) /\ Distances[p][q] \in Nat /\ t \in Nat /\ t <= Horizon
    BY <1>3, <1>5, Constants
  <2>2. QED  BY <2>1, <1>5, <1>6, Constants
<1>9. QED  BY <1>7, <1>8

LEMMA FitNow == IInv => Fit(link)
BY DEF IInv, LinkTyped, Kept, Fit

LEMMA FitNext ==
  ASSUME IInv', Time' = Time, Type' = Type
  PROVE  Fit(link')
<1>1. \A p : MaxDistance(p)' = MaxDistance(p)
  BY DEF MaxDistance
<1>2. \A n : isJam(link, n)' <=> isJam(link', n)
  BY DEF isJam
<1>3. QED  BY <1>1, <1>2 DEF IInv, LinkTyped, Kept, Fit

LEMMA Airing ==
  ASSUME NEW lk, Fit(lk), NEW p \in Ports
  PROVE  Aired(lk, p)
<1>1. Time \in 1 .. Horizon /\ Time \in 1 .. LastHeard /\ LastHeard \in Nat /\ Inf \in Nat /\ LastHeard < Inf
  BY LastIsLast, Constants DEF Fit
<1>2. /\ lk.activity \in Seq(Activities) /\ DOMAIN lk.activity = 1 .. Len(lk.activity)
      /\ Len(lk.activity) \in Nat
      /\ Heard(lk, p) \subseteq DOMAIN lk.activity
      /\ \A n \in DOMAIN lk.activity : lk.activity[n] \in Activities
      /\ IsFiniteSet(DOMAIN lk.activity)
  <2>1. lk.activity \in Seq(Activities)
    BY DEF Fit
  <2>2. DOMAIN lk.activity = 1 .. Len(lk.activity) /\ Len(lk.activity) \in Nat
    BY <2>1
  <2>3. IsFiniteSet(DOMAIN lk.activity)
    BY <2>2, FS_Interval
  <2>4. \A n \in DOMAIN lk.activity : lk.activity[n] \in Activities
    BY <2>1
  <2>5. QED  BY <2>1, <2>2, <2>3, <2>4 DEF Heard
<1>3. IsFiniteSet(Heard(lk, p))
  BY <1>2, FS_Subset
<1>4. lk.Alive \subseteq DOMAIN lk.activity /\ sensed(lk, p) = {n \in Heard(lk, p) : n \in lk.Alive}
  BY DEF Fit, sensed, Heard
<1>5. ASSUME NEW n \in Heard(lk, p)
      PROVE  /\ starts(lk, p, n) \in 1 .. LastHeard
             /\ ends(lk, p, n) = Inf \/ ends(lk, p, n) \in 1 .. LastHeard
             /\ starts(lk, p, n) < ends(lk, p, n)
             /\ ends(lk, p, n) >= Time => n \in sensed(lk, p)
             /\ isJam(lk, n) => p \notin lk.activity[n].Receiver
             /\ lk.activity[n].Type \in {"JAM", "TRANSMISSION", "TRANSMISSION_A"}
             /\ lk.activity[n].FTime = Inf <=> ends(lk, p, n) = Inf
  <2>1. PICK a, d, far : /\ a = lk.activity[n] /\ d = Distances[p][lk.activity[n].LRId]
                         /\ far = MaxDistance(lk.activity[n].LRId)
    OBVIOUS
  <2>2. /\ a.STime \in 1 .. Horizon /\ (a.FTime = Inf \/ a.FTime \in 1 .. Horizon) /\ a.LRId \in Ports
        /\ a.Type \in {"JAM", "TRANSMISSION", "TRANSMISSION_A"}
    BY <1>2, <2>1 DEF Activities
  <2>3. d \in Nat /\ Horizon \in Nat
    BY <2>1, <2>2, Constants
  <2>4. a.STime + d <= LastHeard /\ (a.FTime # Inf => a.FTime + d <= LastHeard)
    <3>1. a.STime \in 0 .. Horizon /\ (a.FTime # Inf => a.FTime \in 0 .. Horizon)
      BY <2>2, <2>3
    <3>2. QED  BY <2>1, <2>2, <3>1, LastIsLast
  <2>5. far \in Nat /\ d < far
    BY <2>1, <2>2, Farthest DEF Heard
  <2>6. Placed(a, n \in lk.Alive, n \in lk.Archived, far, Time)
    BY <1>2, <2>1 DEF Fit
  <2>7. /\ starts(lk, p, n) = a.STime + d
        /\ ends(lk, p, n) = IF a.FTime = Inf THEN Inf ELSE a.FTime + d
    BY <2>1 DEF starts, ends
  <2>8. /\ starts(lk, p, n) \in 1 .. LastHeard
        /\ ends(lk, p, n) = Inf \/ ends(lk, p, n) \in 1 .. LastHeard
        /\ lk.activity[n].FTime = Inf <=> ends(lk, p, n) = Inf
    BY <1>1, <2>1, <2>2, <2>3, <2>4, <2>7
  <2>9. starts(lk, p, n) < ends(lk, p, n)
    <3>1. a.FTime # Inf => a.STime < a.FTime
      BY <2>6 DEF Placed
    <3>2. QED  BY <1>1, <2>2, <2>3, <2>4, <2>7, <3>1
  <2>10. ends(lk, p, n) >= Time => n \in sensed(lk, p)
    <3>1. n \notin lk.Alive => a.FTime # Inf /\ a.FTime + far <= Time
      BY <2>6 DEF Placed
    <3>2. QED  BY <1>1, <1>4, <2>2, <2>3, <2>5, <2>7, <3>1
  <2>11. isJam(lk, n) => p \notin lk.activity[n].Receiver
    BY <2>1, <2>6 DEF Placed, isJam
  <2>12. QED  BY <2>1, <2>2, <2>8, <2>9, <2>10, <2>11
<1>6. lk.NAlive = 0 => sensed(lk, p) = {}
  <2>1. IsFiniteSet(lk.Alive)
    BY <1>2, <1>4, FS_Subset
  <2>2. QED  BY <2>1, <1>4, FS_EmptySet DEF Fit
<1>7. lk.NAliveJams = 0 => \A n \in sensed(lk, p) : ~ isJam(lk, n)
  <2> DEFINE J == {n \in lk.Alive : isJam(lk, n)}
  <2>1. IsFiniteSet(J)
    <3>1. J \subseteq DOMAIN lk.activity
      BY <1>4
    <3> HIDE DEF J
    <3>2. QED  BY <1>2, <3>1, FS_Subset
  <2>2. lk.NAliveJams = 0 => J = {}
    BY <2>1, FS_EmptySet DEF Fit
  <2>3. QED  BY <2>2, <1>4
<1>8. QED  BY <1>1, <1>2, <1>3, <1>4, <1>5, <1>6, <1>7 DEF Aired

-----------------------------------------------------------------------------
(* Periods of activity                                                      *)

LEMMA Least ==
  ASSUME NEW S \in SUBSET Nat, S # {}
  PROVE  Min(S) \in S /\ \A x \in S : Min(S) <= x
<1>1. PICK n \in S : TRUE
  OBVIOUS
<1>2. n \in Nat /\ S \cap (0 .. n) \in SUBSET (0 .. n) /\ S \cap (0 .. n) # {}
  BY <1>1
<1>3. PICK x \in S \cap (0 .. n) : \A y \in S \cap (0 .. n) : x <= y
  BY <1>2, Extremes
<1>4. x \in S /\ \A y \in S : x <= y
  BY <1>2, <1>3
<1>5. Min(S) \in S /\ \A y \in S : Min(S) <= y
  BY <1>4 DEF Min
<1>6. QED  BY <1>5

\* s has all of S in the order of the key.
Arranged(s, n, S, key) ==
  /\ n \in Nat /\ s \in [1 .. n -> S]
  /\ \A i, j \in 1 .. n : i < j => s[i] # s[j] /\ key[s[i]] <= key[s[j]]
  /\ \A x \in S : \E i \in 1 .. n : s[i] = x

LEMMA Sorted ==
  ASSUME NEW S, IsFiniteSet(S), NEW key \in [S -> Nat], NEW n, n = Cardinality(S),
         NEW s, s = sorted(S, key)
  PROVE  Arranged(s, n, S, key)
<1>1. \E r : Ascending(r, S, key)
  BY InOrder
<1>2. /\ s \in [1 .. Cardinality(S) -> S]
      /\ \A i, j \in DOMAIN s : i < j => s[i] # s[j] /\ key[s[i]] <= key[s[j]]
  <2>1. \E r \in [1 .. Cardinality(S) -> S] :
          \A i, j \in DOMAIN r : i < j => r[i] # r[j] /\ key[r[i]] <= key[r[j]]
    BY <1>1 DEF Ascending
  <2>2. QED  BY <2>1 DEF sorted
<1>3. /\ s \in [1 .. n -> S]
      /\ \A i, j \in 1 .. n : i < j => s[i] # s[j] /\ key[s[i]] <= key[s[j]]
  BY <1>2
<1>4. Different(s, n, S)
  BY <1>3 DEF Different
<1>5. \A x \in S : \E i \in 1 .. n : s[i] = x
  BY <1>4, AllOf
<1>6. n \in Nat
  BY FS_CardinalityType
<1>7. QED  BY <1>3, <1>5, <1>6 DEF Arranged

\* The activities S in the order in which p hears their starts.
LEMMA ByStart ==
  ASSUME NEW lk, NEW p, Aired(lk, p), NEW S \in SUBSET Heard(lk, p),
         NEW m, m = Cardinality(S), NEW s, s = byStart(lk, p, S)
  PROVE  /\ m \in Nat /\ s \in [1 .. m -> S]
         /\ \A i, j \in 1 .. m : i < j => s[i] # s[j] /\ starts(lk, p, s[i]) <= starts(lk, p, s[j])
         /\ \A x \in S : \E i \in 1 .. m : s[i] = x
<1> DEFINE key == [n \in S |-> starts(lk, p, n)]
<1>1. key \in [S -> Nat] /\ IsFiniteSet(S)
  BY FS_Subset DEF Aired
<1>2. \A n \in S : key[n] = starts(lk, p, n)
  OBVIOUS
<1>3. s = sorted(S, key)
  BY DEF byStart
<1> HIDE DEF key
<1>4. /\ m \in Nat /\ s \in [1 .. m -> S]
      /\ \A i, j \in 1 .. m : i < j => s[i] # s[j] /\ key[s[i]] <= key[s[j]]
      /\ \A x \in S : \E i \in 1 .. m : s[i] = x
  <2>1. Arranged(s, m, S, key)
    BY <1>1, <1>3, Sorted
  <2>2. QED  BY <2>1 DEF Arranged
<1>5. QED  BY <1>2, <1>4

\* A period of the activities S that goes on at t lasts up to r.
Lasts(lk, p, t, S, r) ==
  /\ r = Inf \/ r \in 1 .. LastHeard
  /\ t <= r /\ (r = t \/ \E n \in S : r = ends(lk, p, n))
  /\ \A u \in Nat : t <= u /\ u < r => \E n \in S : starts(lk, p, n) <= u /\ u < ends(lk, p, n)
  /\ \A n \in S : ~ (starts(lk, p, n) <= r /\ r < ends(lk, p, n))

\* The end of a period is the first time from t on at which no activity of S is heard.
LEMMA PeriodEnd ==
  ASSUME NEW lk, NEW p, Aired(lk, p), NEW S \in SUBSET Heard(lk, p),
         NEW t \in (1 .. LastHeard) \cup {Inf}
  PROVE  Lasts(lk, p, t, S, periodEnd(lk, p, t, S))
<1> SUFFICES ASSUME NEW r, r = periodEnd(lk, p, t, S)
             PROVE  Lasts(lk, p, t, S, r)
  OBVIOUS
<1>0. PICK m, s : m = Cardinality(S) /\ s = byStart(lk, p, S)
  OBVIOUS
<1> DEFINE T == (1 .. LastHeard) \cup {Inf}
           F == [k \in 1 .. m |-> [x \in T |-> extended(lk, p, x, s[k])]]
           te[k \in 0 .. m] == IF k = 0 THEN t ELSE extended(lk, p, te[k - 1], s[k])
<1>1. r = te[m]
  BY <1>0 DEF periodEnd
<1>2. /\ LastHeard \in Nat /\ Inf \in Nat /\ LastHeard < Inf
      /\ \A n \in S : /\ starts(lk, p, n) \in 1 .. LastHeard /\ ends(lk, p, n) \in T
                     /\ starts(lk, p, n) < ends(lk, p, n)
  BY DEF Aired
<1>3. /\ m \in Nat /\ s \in [1 .. m -> S]
      /\ \A i, j \in 1 .. m : i < j => s[i] # s[j] /\ starts(lk, p, s[i]) <= starts(lk, p, s[j])
      /\ \A x \in S : \E i \in 1 .. m : s[i] = x
  BY <1>0, ByStart
<1>4. \A k \in 1 .. m, x \in T : extended(lk, p, x, s[k]) \in T
  BY <1>2, <1>3 DEF extended
<1>5. /\ te[0] = t
      /\ \A k \in 1 .. m : te[k] = extended(lk, p, te[k - 1], s[k])
      /\ \A k \in 0 .. m : te[k] \in T
  <2>1. F \in [1 .. m -> [T -> T]] /\ \A k \in 1 .. m : \A x \in T : F[k][x] = extended(lk, p, x, s[k])
    BY <1>4
  <2>2. t \in T
    OBVIOUS
  <2> HIDE DEF F, T
  <2>3. PICK f \in [0 .. m -> T] : f[0] = t /\ \A k \in 1 .. m : f[k] = F[k][f[k - 1]]
    <3>1. m \in Nat /\ F \in [1 .. m -> [T -> T]]
      BY <1>3, <2>1
    <3>2. \E f : Recurs(f, m, T, t, F)
      BY <2>2, <3>1, Recursive
    <3>3. QED  BY <3>2 DEF Recurs
  <2>4. \A k \in 1 .. m : f[k] = extended(lk, p, f[k - 1], s[k])
    <3>1. \A k \in 1 .. m : f[k - 1] \in T
      BY <1>3
    <3>2. QED  BY <2>1, <2>3, <3>1
  <2>5. f = [k \in 0 .. m |-> IF k = 0 THEN t ELSE extended(lk, p, f[k - 1], s[k])]
    BY <1>3, <2>3, <2>4
  <2>6. te = [k \in 0 .. m |-> IF k = 0 THEN t ELSE extended(lk, p, te[k - 1], s[k])]
    BY <2>5
  <2> HIDE DEF te
  <2>7. te[0] = t /\ \A k \in 1 .. m : te[k] = extended(lk, p, te[k - 1], s[k])
    BY <1>3, <2>6
  <2> DEFINE A == {k \in 0 .. m : te[k] \in T}
  <2>8. 0 \in A
    BY <1>3, <2>2, <2>7
  <2>9. ASSUME NEW k \in 0 .. m - 1, k \in A
        PROVE  k + 1 \in A
    <3>1. k + 1 \in 1 .. m /\ (k + 1) - 1 = k
      BY <1>3
    <3>2. QED  BY <1>4, <2>7, <2>9, <3>1
  <2> HIDE DEF A
  <2>10. \A k \in 0 .. m : k \in A
    BY <1>3, <2>8, <2>9, Reached
  <2>11. QED  BY <2>7, <2>10 DEF A
<1> HIDE DEF te
<1> DEFINE Good(k) ==
      /\ t <= te[k] /\ (te[k] = t \/ \E n \in S : te[k] = ends(lk, p, n))
      /\ \A u \in Nat : t <= u /\ u < te[k] => \E n \in S : starts(lk, p, n) <= u /\ u < ends(lk, p, n)
      /\ \A j \in 1 .. k : ~ (starts(lk, p, s[j]) <= te[k] /\ te[k] < ends(lk, p, s[j]))
    A == {k \in 0 .. m : Good(k)}
<1>6. 0 \in A
  BY <1>2, <1>3, <1>5
<1>7. ASSUME NEW k \in 0 .. m - 1, k \in A
      PROVE  k + 1 \in A
  <2>1. k + 1 \in 1 .. m /\ (k + 1) - 1 = k /\ k \in 0 .. m /\ k + 1 \in 0 .. m
    BY <1>3
  <2>2. Good(k)
    BY <1>7
  <2>3. PICK n \in S : n = s[k + 1]
    BY <1>3, <2>1
  <2>4. te[k] \in T /\ te[k + 1] = extended(lk, p, te[k], n)
    BY <1>5, <2>1, <2>3
  <2>5. \A j \in 1 .. k : s[j] \in S /\ starts(lk, p, s[j]) <= starts(lk, p, n)
    BY <1>3, <2>1, <2>3
  <2>6. 1 .. k + 1 = (1 .. k) \cup {k + 1}
    BY <2>1
  <2>7. Good(k + 1)
    <3>1. CASE starts(lk, p, n) <= te[k] /\ ends(lk, p, n) > te[k]
      <4>1. te[k + 1] = ends(lk, p, n)
        BY <3>1, <2>4 DEF extended
      <4>2. t <= te[k + 1]
        BY <1>2, <2>2, <2>4, <3>1, <4>1
      <4>3. ASSUME NEW u \in Nat, t <= u, u < te[k + 1]
            PROVE  \E x \in S : starts(lk, p, x) <= u /\ u < ends(lk, p, x)
        <5>1. CASE u < te[k]
          BY <5>1, <4>3, <2>2
        <5>2. CASE te[k] <= u
          <6>1. starts(lk, p, n) <= u /\ u < ends(lk, p, n)
            BY <5>2, <4>1, <4>3, <1>2, <2>4, <3>1
          <6>2. QED  BY <6>1
        <5>3. QED  BY <5>1, <5>2, <1>2, <2>4
      <4>4. ASSUME NEW j \in 1 .. k
            PROVE  ~ (starts(lk, p, s[j]) <= te[k + 1] /\ te[k + 1] < ends(lk, p, s[j]))
        <5>1. ends(lk, p, s[j]) <= te[k]
          BY <1>2, <2>2, <2>4, <2>5, <3>1
        <5>2. ends(lk, p, s[j]) \in Nat /\ te[k] \in Nat /\ te[k + 1] \in Nat /\ te[k] < te[k + 1]
          BY <1>2, <2>4, <2>5, <3>1, <4>1
        <5>3. QED  BY <5>1, <5>2
      <4>5. ~ (te[k + 1] < ends(lk, p, n))
        BY <4>1, <1>2
      <4>6. QED  BY <4>1, <4>2, <4>3, <4>4, <4>5, <2>3, <2>6
    <3>2. CASE ~ (starts(lk, p, n) <= te[k] /\ ends(lk, p, n) > te[k])
      <4>1. te[k + 1] = te[k]
        BY <3>2, <2>4 DEF extended
      <4>2. QED  BY <3>2, <4>1, <1>2, <2>2, <2>3, <2>4, <2>6
    <3>3. QED  BY <3>1, <3>2
  <2>8. QED  BY <2>1, <2>7
<1> HIDE DEF A
<1>8. \A k \in 0 .. m : k \in A
  BY <1>3, <1>6, <1>7, Reached
<1>9. Good(m)
  BY <1>3, <1>8 DEF A
<1>10. r \in T
  BY <1>1, <1>3, <1>5
<1>11. QED  BY <1>1, <1>3, <1>9, <1>10 DEF Lasts

\* The first collision of activities S is the first time at which two of them are heard.
LEMMA FirstOverlap ==
  ASSUME NEW lk, NEW p, Aired(lk, p), NEW S \in SUBSET Heard(lk, p),
         NEW r, r = firstOverlap(lk, p, S)
  PROVE  /\ \/ r = Inf
            \/ /\ r \in 1 .. LastHeard
               /\ \E x, y \in S : /\ x # y /\ starts(lk, p, x) <= r /\ r < ends(lk, p, x)
                                  /\ r = starts(lk, p, y)
         /\ \A u \in Nat, x, y \in S :
              /\ x # y
              /\ starts(lk, p, x) <= u /\ u < ends(lk, p, x)
              /\ starts(lk, p, y) <= u /\ u < ends(lk, p, y)
              => r <= u
<1>0. PICK m, s : m = Cardinality(S) /\ s = byStart(lk, p, S)
  OBVIOUS
<1> DEFINE V == (1 .. LastHeard) \cup {Inf}
           T == [tc : V, tfa : {0} \cup V]
           b == [tc |-> Inf, tfa |-> 0]
           F == [k \in 1 .. m |-> [x \in T |-> met(lk, p, x, s[k])]]
           c[k \in 0 .. m] == IF k = 0 THEN [tc |-> Inf, tfa |-> 0] ELSE met(lk, p, c[k - 1], s[k])
<1>1. r = c[m].tc
  BY <1>0 DEF firstOverlap
<1>2. /\ LastHeard \in Nat /\ Inf \in Nat /\ LastHeard < Inf
      /\ \A n \in S : /\ starts(lk, p, n) \in 1 .. LastHeard /\ ends(lk, p, n) \in V
                     /\ starts(lk, p, n) < ends(lk, p, n)
  BY DEF Aired
<1>3. /\ m \in Nat /\ s \in [1 .. m -> S]
      /\ \A i, j \in 1 .. m : i < j => s[i] # s[j] /\ starts(lk, p, s[i]) <= starts(lk, p, s[j])
      /\ \A x \in S : \E i \in 1 .. m : s[i] = x
  BY <1>0, ByStart
<1>4. \A k \in 1 .. m, x \in T : met(lk, p, x, s[k]) \in T
  BY <1>2, <1>3 DEF met
<1>5. /\ c[0] = b
      /\ \A k \in 1 .. m : c[k] = met(lk, p, c[k - 1], s[k])
      /\ \A k \in 0 .. m : c[k] \in T
  <2>1. F \in [1 .. m -> [T -> T]] /\ \A k \in 1 .. m : \A x \in T : F[k][x] = met(lk, p, x, s[k])
    BY <1>4
  <2>2. b \in T /\ b = [tc |-> Inf, tfa |-> 0]
    OBVIOUS
  <2> HIDE DEF F, T, b
  <2>3. PICK f \in [0 .. m -> T] : f[0] = b /\ \A k \in 1 .. m : f[k] = F[k][f[k - 1]]
    <3>1. m \in Nat /\ F \in [1 .. m -> [T -> T]]
      BY <1>3, <2>1
    <3>2. \E f : Recurs(f, m, T, b, F)
      BY <2>2, <3>1, Recursive
    <3>3. QED  BY <3>2 DEF Recurs
  <2>4. \A k \in 1 .. m : f[k] = met(lk, p, f[k - 1], s[k])
    <3>1. \A k \in 1 .. m : f[k - 1] \in T
      BY <1>3
    <3>2. QED  BY <2>1, <2>3, <3>1
  <2>5. f = [k \in 0 .. m |-> IF k = 0 THEN [tc |-> Inf, tfa |-> 0] ELSE met(lk, p, f[k - 1], s[k])]
    BY <1>3, <2>2, <2>3, <2>4
  <2>6. c = [k \in 0 .. m |-> IF k = 0 THEN [tc |-> Inf, tfa |-> 0] ELSE met(lk, p, c[k - 1], s[k])]
    BY <2>5
  <2> HIDE DEF c
  <2>7. c[0] = b /\ \A k \in 1 .. m : c[k] = met(lk, p, c[k - 1], s[k])
    BY <1>3, <2>2, <2>6
  <2> DEFINE A == {k \in 0 .. m : c[k] \in T}
  <2>8. 0 \in A
    BY <1>3, <2>2, <2>7
  <2>9. ASSUME NEW k \in 0 .. m - 1, k \in A
        PROVE  k + 1 \in A
    <3>1. k + 1 \in 1 .. m /\ (k + 1) - 1 = k
      BY <1>3
    <3>2. QED  BY <1>4, <2>7, <2>9, <3>1
  <2> HIDE DEF A
  <2>10. \A k \in 0 .. m : k \in A
    BY <1>3, <2>8, <2>9, Reached
  <2>11. QED  BY <2>7, <2>10 DEF A
<1> HIDE DEF c
<1> DEFINE Found(k) == \E j \in 1 .. k : \E i \in 1 .. j - 1 :
                         c[k].tc = starts(lk, p, s[j]) /\ c[k].tc < ends(lk, p, s[i])
           First(k) == \A j \in 1 .. k : \A i \in 1 .. j - 1 :
                         starts(lk, p, s[j]) < ends(lk, p, s[i]) => c[k].tc <= starts(lk, p, s[j])
           Latest(k) == /\ \A j \in 1 .. k : ends(lk, p, s[j]) <= c[k].tfa
                        /\ c[k].tfa = 0 \/ \E j \in 1 .. k : c[k].tfa = ends(lk, p, s[j])
           Good(k) == (c[k].tc # Inf => Found(k)) /\ First(k) /\ (c[k].tc = Inf => Latest(k))
           A == {k \in 0 .. m : Good(k)}
<1>6. 0 \in A
  BY <1>2, <1>3, <1>5
<1>7. ASSUME NEW k \in 0 .. m - 1, k \in A
      PROVE  k + 1 \in A
  <2>1. k + 1 \in 1 .. m /\ (k + 1) - 1 = k /\ k \in 0 .. m /\ k + 1 \in 0 .. m /\ k \in Nat
    BY <1>3
  <2>2. Good(k)
    BY <1>7
  <2>3. PICK n \in S : n = s[k + 1]
    BY <1>3, <2>1
  <2>4. /\ c[k] \in T /\ c[k + 1] \in T /\ c[k + 1] = met(lk, p, c[k], n)
        /\ c[k].tc \in Nat /\ c[k].tfa \in Nat /\ c[k + 1].tc \in Nat /\ c[k + 1].tfa \in Nat
    BY <1>2, <1>5, <2>1, <2>3
  <2>5. \A j \in 1 .. k : /\ s[j] \in S /\ starts(lk, p, s[j]) <= starts(lk, p, n)
                          /\ starts(lk, p, s[j]) \in Nat /\ ends(lk, p, s[j]) \in Nat
    BY <1>2, <1>3, <2>1, <2>3
  <2>6. \A j \in 1 .. k + 1 : j \in 1 .. k \/ j = k + 1
    BY <2>1
  <2>7. /\ starts(lk, p, n) \in Nat /\ ends(lk, p, n) \in Nat /\ starts(lk, p, n) < Inf
        /\ ends(lk, p, n) <= Inf
    BY <1>2
  <2>8. CASE c[k].tc # Inf
    <3>1. c[k + 1] = c[k]
      BY <2>4, <2>8 DEF met
    <3>2. Found(k + 1)
      <4>1. PICK j \in 1 .. k : \E i \in 1 .. j - 1 : c[k].tc = starts(lk, p, s[j]) /\ c[k].tc < ends(lk, p, s[i])
        BY <2>2, <2>8
      <4>2. j \in 1 .. k + 1
        BY <2>1
      <4>3. QED  BY <3>1, <4>1, <4>2
    <3>3. First(k + 1)
      <4>1. c[k].tc <= starts(lk, p, n)
        BY <2>2, <2>5, <2>8
      <4>2. QED  BY <2>2, <2>3, <2>6, <3>1, <4>1
    <3>4. QED  BY <2>1, <2>8, <3>1, <3>2, <3>3
  <2>9. CASE c[k].tc = Inf /\ c[k].tfa # 0 /\ starts(lk, p, n) < c[k].tfa
    <3>1. c[k + 1] = [tc |-> starts(lk, p, n), tfa |-> c[k].tfa]
      BY <2>4, <2>9 DEF met
    <3>2. Found(k + 1)
      <4>1. PICK i \in 1 .. k : c[k].tfa = ends(lk, p, s[i])
        BY <2>2, <2>9
      <4>2. i \in 1 .. (k + 1) - 1 /\ k + 1 \in 1 .. k + 1
        BY <2>1
      <4>3. c[k + 1].tc = starts(lk, p, s[k + 1]) /\ c[k + 1].tc < ends(lk, p, s[i])
        BY <2>3, <2>9, <3>1, <4>1
      <4>4. QED  BY <4>2, <4>3
    <3>3. First(k + 1)
      <4>1. ASSUME NEW j \in 1 .. k, NEW i \in 1 .. j - 1
            PROVE  ~ (starts(lk, p, s[j]) < ends(lk, p, s[i]))
        <5>1. starts(lk, p, s[j]) \in Nat /\ starts(lk, p, s[j]) < Inf
          BY <1>2, <2>5
        <5>2. starts(lk, p, s[j]) < ends(lk, p, s[i]) => Inf <= starts(lk, p, s[j])
          BY <2>2, <2>9
        <5>3. QED  BY <1>2, <5>1, <5>2
      <4>2. c[k + 1].tc <= starts(lk, p, n)
        BY <2>7, <3>1
      <4>3. QED  BY <2>3, <2>6, <4>1, <4>2
    <3>4. c[k + 1].tc # Inf
      BY <1>2, <2>7, <3>1
    <3>5. QED  BY <2>1, <3>2, <3>3, <3>4
  <2>10. CASE c[k].tc = Inf /\ ~ (c[k].tfa # 0 /\ starts(lk, p, n) < c[k].tfa)
    <3>1. c[k + 1] = [tc |-> Inf, tfa |-> IF ends(lk, p, n) > c[k].tfa THEN ends(lk, p, n) ELSE c[k].tfa]
      <4>1. c[k + 1] = met(lk, p, c[k], n) /\ c[k].tc = Inf
        BY <2>4, <2>10
      <4>2. QED  BY <2>10, <4>1 DEF met
    <3>2. c[k + 1].tc = Inf /\ c[k + 1].tfa = IF ends(lk, p, n) > c[k].tfa THEN ends(lk, p, n) ELSE c[k].tfa
      BY <3>1
    <3>3. First(k + 1)
      <4>1. ASSUME NEW j \in 1 .. k, NEW i \in 1 .. j - 1
            PROVE  ~ (starts(lk, p, s[j]) < ends(lk, p, s[i]))
        <5>1. starts(lk, p, s[j]) \in Nat /\ starts(lk, p, s[j]) < Inf
          BY <1>2, <2>5
        <5>2. starts(lk, p, s[j]) < ends(lk, p, s[i]) => Inf <= starts(lk, p, s[j])
          BY <2>2, <2>10
        <5>3. QED  BY <1>2, <5>1, <5>2
      <4>2. ASSUME NEW i \in 1 .. k
            PROVE  ~ (starts(lk, p, n) < ends(lk, p, s[i]))
        <5>1. ends(lk, p, s[i]) <= c[k].tfa /\ ends(lk, p, s[i]) \in Nat /\ ends(lk, p, s[i]) # 0
          BY <1>2, <2>2, <2>5, <2>10
        <5>2. QED  BY <2>4, <2>7, <2>10, <5>1
      <4>3. QED  BY <2>1, <2>3, <2>6, <4>1, <4>2
    <3>4. Latest(k + 1)
      <4>1. \A j \in 1 .. k : ends(lk, p, s[j]) <= c[k].tfa
        BY <2>2, <2>10
      <4>2. \A j \in 1 .. k + 1 : ends(lk, p, s[j]) <= c[k + 1].tfa
        BY <2>3, <2>4, <2>5, <2>6, <2>7, <3>2, <4>1
      <4>3. c[k + 1].tfa = 0 \/ \E j \in 1 .. k + 1 : c[k + 1].tfa = ends(lk, p, s[j])
        <5>1. CASE ends(lk, p, n) > c[k].tfa
          <6>1. k + 1 \in 1 .. k + 1
            BY <2>1
          <6>2. QED  BY <2>3, <3>2, <5>1, <6>1
        <5>2. CASE ~ (ends(lk, p, n) > c[k].tfa)
          <6>1. c[k].tfa = 0 \/ \E j \in 1 .. k : c[k].tfa = ends(lk, p, s[j])
            BY <2>2, <2>10
          <6>2. \A j \in 1 .. k : j \in 1 .. k + 1
            BY <2>1
          <6>3. QED  BY <3>2, <5>2, <6>1, <6>2
        <5>3. QED  BY <5>1, <5>2
      <4>4. QED  BY <4>2, <4>3
    <3>5. QED  BY <2>1, <3>2, <3>3, <3>4
  <2>11. QED  BY <2>8, <2>9, <2>10
<1> HIDE DEF A
<1>8. \A k \in 0 .. m : k \in A
  BY <1>3, <1>6, <1>7, Reached
<1>9. Good(m) /\ r \in V
  <2>1. m \in 0 .. m
    BY <1>3
  <2>2. QED  BY <1>1, <1>5, <1>8, <2>1 DEF A
<1>10. ASSUME r # Inf
       PROVE  /\ r \in 1 .. LastHeard
              /\ \E x, y \in S : /\ x # y /\ starts(lk, p, x) <= r /\ r < ends(lk, p, x)
                                 /\ r = starts(lk, p, y)
  <2>1. PICK j \in 1 .. m : \E i \in 1 .. j - 1 : r = starts(lk, p, s[j]) /\ r < ends(lk, p, s[i])
    BY <1>1, <1>9, <1>10
  <2>2. PICK i \in 1 .. j - 1 : r = starts(lk, p, s[j]) /\ r < ends(lk, p, s[i])
    BY <2>1
  <2>3. i \in 1 .. m /\ i < j
    BY <1>3
  <2>4. s[i] \in S /\ s[j] \in S /\ s[i] # s[j] /\ starts(lk, p, s[i]) <= r
    BY <1>3, <2>2, <2>3
  <2>5. QED  BY <1>9, <1>10, <2>2, <2>4
<1>11. ASSUME NEW u \in Nat, NEW x \in S, NEW y \in S, x # y,
              starts(lk, p, x) <= u, u < ends(lk, p, x),
              starts(lk, p, y) <= u, u < ends(lk, p, y)
       PROVE  r <= u
  <2>1. PICK i \in 1 .. m, j \in 1 .. m : x = s[i] /\ y = s[j]
    BY <1>3
  <2>2. \A k \in 1 .. m : \A l \in 1 .. k - 1 :
          starts(lk, p, s[k]) < ends(lk, p, s[l]) => r <= starts(lk, p, s[k])
    BY <1>1, <1>9
  <2>3. /\ starts(lk, p, x) \in Nat /\ ends(lk, p, x) \in Nat
        /\ starts(lk, p, y) \in Nat /\ ends(lk, p, y) \in Nat /\ r \in Nat
    BY <1>2, <1>9
  <2>4. CASE i < j
    <3>1. i \in 1 .. j - 1
      BY <2>4
    <3>2. r <= starts(lk, p, y)
      BY <1>11, <2>1, <2>2, <2>3, <3>1
    <3>3. QED  BY <1>11, <2>3, <3>2
  <2>5. CASE j < i
    <3>1. j \in 1 .. i - 1
      BY <2>5
    <3>2. r <= starts(lk, p, x)
      BY <1>11, <2>1, <2>2, <2>3, <3>1
    <3>3. QED  BY <1>11, <2>3, <3>2
  <2>6. QED  BY <1>11, <2>1, <2>4, <2>5
<1>12. QED  BY <1>9, <1>10, <1>11

-----------------------------------------------------------------------------
(* The next time of an event                                                *)

\* From time t on, the event of this queue comes to port p at w first.
Comes(lk, p, queue, t, w) ==
  /\ w = Inf \/ (w \in t .. LastHeard /\ Happens(lk, p, queue, w))
  /\ \A u \in t .. LastHeard : Happens(lk, p, queue, u) => w <= u

Queues == Events \cup {"MY_COLLISION"}

LEMMA ComesNext ==
  ASSUME NEW lk, NEW p, NEW queue, NEW t \in Nat, NEW w, Comes(lk, p, queue, t, w)
  PROVE  w = Min({Inf} \cup {u \in t .. LastHeard : Happens(lk, p, queue, u)})
<1> DEFINE S == {Inf} \cup {u \in t .. LastHeard : Happens(lk, p, queue, u)}
<1>1. LastHeard \in Nat /\ Inf \in Nat /\ LastHeard < Inf
  BY LastIsLast
<1>2. S \in SUBSET Nat /\ S # {} /\ w \in S /\ w \in Nat /\ \A u \in S : w <= u
  BY <1>1 DEF Comes
<1> HIDE DEF S
<1>3. Min(S) \in S /\ \A x \in S : Min(S) <= x
  BY <1>2, Least
<1>4. Min(S) \in Nat /\ Min(S) <= w /\ w <= Min(S)
  BY <1>2, <1>3
<1>5. w = Min(S)
  BY <1>2, <1>4
<1>6. QED  BY <1>5 DEF S

LEMMA Two ==
  ASSUME NEW S, IsFiniteSet(S)
  PROVE  Cardinality(S) >= 2 <=> \E x, y \in S : x # y
<1>1. Cardinality(S) \in Nat
  BY FS_CardinalityType
<1>2. ASSUME NEW x \in S, NEW y \in S, x # y
      PROVE  Cardinality(S) >= 2
  <2>1. IsFiniteSet(S \ {x}) /\ Cardinality(S \ {x}) = Cardinality(S) - 1
    BY FS_RemoveElement
  <2>2. y \in S \ {x}
    BY <1>2
  <2>3. Cardinality((S \ {x}) \ {y}) = Cardinality(S \ {x}) - 1 /\ IsFiniteSet((S \ {x}) \ {y})
    BY <2>1, <2>2, FS_RemoveElement
  <2>4. Cardinality((S \ {x}) \ {y}) \in Nat
    BY <2>3, FS_CardinalityType
  <2>5. QED  BY <1>1, <2>1, <2>3, <2>4
<1>3. ASSUME Cardinality(S) >= 2
      PROVE  \E x, y \in S : x # y
  <2>1. S # {}
    BY <1>3, FS_EmptySet
  <2>2. PICK x \in S : TRUE
    BY <2>1
  <2>3. IsFiniteSet(S \ {x}) /\ Cardinality(S \ {x}) = Cardinality(S) - 1
    BY FS_RemoveElement
  <2>4. S \ {x} # {}
    BY <1>1, <1>3, <2>3, FS_EmptySet
  <2>5. QED  BY <2>2, <2>4
<1>4. QED  BY <1>2, <1>3

\* What the events mean, activity by activity.
LEMMA Meaning ==
  ASSUME NEW lk, NEW p, IsFiniteSet(Heard(lk, p)), NEW t
  PROVE  LET H == Heard(lk, p)
             on(n) == starts(lk, p, n) <= t /\ t < ends(lk, p, n)
             begins(n) == starts(lk, p, n) = t
             stops(n) == ends(lk, p, n) = t
         IN  /\ Happens(lk, p, "ACTIVITY", t) <=> \E n \in H : on(n)
             /\ Happens(lk, p, "SILENCE", t) <=> \A n \in H : ~ on(n)
             /\ Happens(lk, p, "BOT", t) <=> \E n \in H : begins(n) /\ ~ isJam(lk, n)
             /\ Happens(lk, p, "BMP", t) <=> \E n \in H : begins(n) /\ p \in lk.activity[n].Receiver
             /\ Happens(lk, p, "EOT", t) <=> \E n \in H : stops(n) /\ lk.activity[n].Type = "TRANSMISSION"
             /\ Happens(lk, p, "EMP", t) <=> \E n \in H : /\ stops(n) /\ lk.activity[n].Type = "TRANSMISSION"
                                                          /\ p \in lk.activity[n].Receiver
             /\ Happens(lk, p, "BOJ", t) <=> \E n \in H : on(n) /\ isJam(lk, n)
             /\ Happens(lk, p, "EOJ", t) <=> /\ \E n \in H : stops(n) /\ isJam(lk, n)
                                             /\ \A n \in H : on(n) => ~ isJam(lk, n)
             /\ Happens(lk, p, "COLLISION", t) <=> \/ \E n \in H : on(n) /\ isJam(lk, n)
                                                   \/ \E x, y \in H : x # y /\ on(x) /\ on(y)
             /\ Happens(lk, p, "MY_COLLISION", t) <=> \E n \in H : on(n) /\ lk.activity[n].LRId # p
             /\ Happens(lk, p, "ANYEVENT", t) <=> \E n \in H : begins(n) \/ stops(n)
<1>1. IsFiniteSet(HeardAt(lk, p, t))
  BY FS_Subset DEF HeardAt
<1>2. Cardinality(HeardAt(lk, p, t)) >= 2 <=> \E x, y \in HeardAt(lk, p, t) : x # y
  BY <1>1, Two
<1>3. \A n : n \in HeardAt(lk, p, t) <=> n \in Heard(lk, p) /\ starts(lk, p, n) <= t /\ t < ends(lk, p, n)
  BY DEF HeardAt
<1>4. \A n : n \in Beginning(lk, p, t) <=> n \in Heard(lk, p) /\ starts(lk, p, n) = t
  BY DEF Beginning
<1>5. \A n : n \in Ending(lk, p, t) <=> n \in Heard(lk, p) /\ ends(lk, p, n) = t
  BY DEF Ending
<1>6. /\ Happens(lk, p, "ACTIVITY", t) <=> HeardAt(lk, p, t) # {}
      /\ Happens(lk, p, "SILENCE", t) <=> HeardAt(lk, p, t) = {}
      /\ Happens(lk, p, "ANYEVENT", t) <=> Beginning(lk, p, t) \cup Ending(lk, p, t) # {}
      /\ Happens(lk, p, "MY_COLLISION", t) <=> \E n \in HeardAt(lk, p, t) : lk.activity[n].LRId # p
  BY DEF Happens
<1>7. Happens(lk, p, "COLLISION", t) <=> \/ \E n \in HeardAt(lk, p, t) : isJam(lk, n)
                                         \/ Cardinality(HeardAt(lk, p, t)) >= 2
  BY DEF Happens
<1>8. /\ Happens(lk, p, "BOT", t) <=> \E n \in Beginning(lk, p, t) : ~ isJam(lk, n)
      /\ Happens(lk, p, "BMP", t) <=> \E n \in Beginning(lk, p, t) : p \in lk.activity[n].Receiver
      /\ Happens(lk, p, "EOT", t) <=> \E n \in Ending(lk, p, t) : lk.activity[n].Type = "TRANSMISSION"
      /\ Happens(lk, p, "EMP", t) <=> \E n \in Ending(lk, p, t) : /\ lk.activity[n].Type = "TRANSMISSION"
                                                                  /\ p \in lk.activity[n].Receiver
  BY DEF Happens
<1>9. /\ Happens(lk, p, "BOJ", t) <=> \E n \in HeardAt(lk, p, t) : isJam(lk, n)
      /\ Happens(lk, p, "EOJ", t) <=> /\ \E n \in Ending(lk, p, t) : isJam(lk, n)
                                      /\ \A n \in HeardAt(lk, p, t) : ~ isJam(lk, n)
  BY DEF Happens
<1> HIDE DEF Happens
<1>10. QED  BY <1>2, <1>3, <1>4, <1>5, <1>6, <1>7, <1>8, <1>9

\* The earliest of some starts, or of some ends, with the packet that it is about.
LEMMA EarliestStart ==
  ASSUME NEW lk, NEW p, Aired(lk, p), NEW S \in SUBSET Heard(lk, p),
         NEW a, a = earliestStart(lk, p, S)
  PROVE  \/ S = {} /\ a = Unknown
         \/ \E n \in S : /\ a = answer(starts(lk, p, n), packet(lk, n), "none")
                         /\ \A m \in S : starts(lk, p, n) <= starts(lk, p, m)
<1>1. CASE S = {}
  BY <1>1 DEF earliestStart
<1>2. CASE S # {}
  <2> DEFINE K == {starts(lk, p, n) : n \in S}
  <2>1. K \in SUBSET Nat /\ K # {}
    BY <1>2 DEF Aired
  <2>2. PICK t : t = Min(K)
    OBVIOUS
  <2>3. t \in K /\ \A u \in K : t <= u
    <3> HIDE DEF K
    <3>1. QED  BY <2>1, <2>2, Least
  <2> DEFINE F == {n \in S : starts(lk, p, n) = t}
  <2>4. a = answer(t, packet(lk, Max(F)), "none")
    BY <1>2, <2>2 DEF earliestStart
  <2>5. Len(lk.activity) \in Nat /\ F \in SUBSET (0 .. Len(lk.activity)) /\ F # {}
    BY <2>3 DEF Aired
  <2>6. Max(F) \in F
    <3> HIDE DEF F
    <3>1. QED  BY <2>5, Greatest
  <2>7. QED  BY <2>3, <2>4, <2>6
<1>3. QED  BY <1>1, <1>2

LEMMA EarliestEnd ==
  ASSUME NEW lk, NEW p, Aired(lk, p), NEW S \in SUBSET Heard(lk, p),
         NEW a, a = earliestEnd(lk, p, S)
  PROVE  \/ S = {} /\ a = Unknown
         \/ \E n \in S : /\ a = answer(ends(lk, p, n), packet(lk, n), "none")
                         /\ \A m \in S : ends(lk, p, n) <= ends(lk, p, m)
<1>1. CASE S = {}
  BY <1>1 DEF earliestEnd
<1>2. CASE S # {}
  <2> DEFINE K == {ends(lk, p, n) : n \in S}
  <2>1. K \in SUBSET Nat /\ K # {}
    BY <1>2 DEF Aired
  <2>2. PICK t : t = Min(K)
    OBVIOUS
  <2>3. t \in K /\ \A u \in K : t <= u
    <3> HIDE DEF K
    <3>1. QED  BY <2>1, <2>2, Least
  <2> DEFINE F == {n \in S : ends(lk, p, n) = t}
  <2>4. a = answer(t, packet(lk, Max(F)), "none")
    BY <1>2, <2>2 DEF earliestEnd
  <2>5. Len(lk.activity) \in Nat /\ F \in SUBSET (0 .. Len(lk.activity)) /\ F # {}
    BY <2>3 DEF Aired
  <2>6. Max(F) \in F
    <3> HIDE DEF F
    <3>1. QED  BY <2>5, Greatest
  <2>7. QED  BY <2>3, <2>4, <2>6
<1>3. QED  BY <1>1, <1>2

\* What a request of this queue may be told that comes at w.
About(lk, p, queue, w, n, info) ==
  /\ queue \in {"SILENCE", "BOJ", "EOJ", "COLLISION", "MY_COLLISION"} => n = 0
  /\ w # Inf =>
       /\ queue \in {"BOT", "BMP"} => n \in Heard(lk, p) /\ starts(lk, p, n) = w
       /\ queue \in {"EOT", "EMP"} => n \in Heard(lk, p) /\ ends(lk, p, n) = w
       /\ queue \in {"BMP", "EMP"} => p \in lk.activity[n].Receiver
       /\ queue = "ACTIVITY" => \E m \in Heard(lk, p) : /\ starts(lk, p, m) <= w /\ w < ends(lk, p, m)
                                                        /\ n = packet(lk, m)
       /\ queue = "ANYEVENT" => \E m \in Heard(lk, p) :
            \/ starts(lk, p, m) = w /\ info = beginning(lk, m) /\ n = packet(lk, m)
            \/ ends(lk, p, m) = w /\ info = ending(lk, m) /\ n \in {0, packet(lk, m)}

Infos == {"none", "BOT", "EOT", "BOJ", "EOJ", "ABTPACKET"}

\* The answer a to a request of the queue is right.
Right(lk, p, queue, a) ==
  /\ Comes(lk, p, queue, Time, a.when)
  /\ About(lk, p, queue, a.when, a.pkt, a.info)
  /\ a.pkt \in 0 .. Len(lk.activity) /\ a.info \in Infos

LEMMA RightBOT ==
  ASSUME NEW lk, NEW p, Aired(lk, p)
  PROVE  Right(lk, p, "BOT", botTime(lk, p))
<1> DEFINE S == {n \in sensed(lk, p) : ~ isJam(lk, n) /\ starts(lk, p, n) >= Time}
<1>1. \A u : Happens(lk, p, "BOT", u) <=> \E n \in Heard(lk, p) : starts(lk, p, n) = u /\ ~ isJam(lk, n)
  BY Meaning DEF Aired
<1>2. PICK a : a = botTime(lk, p)
  OBVIOUS
<1>3. S \in SUBSET Heard(lk, p)
  BY DEF Aired
<1>4. \/ S = {} /\ a = Unknown
      \/ \E n \in S : /\ a = answer(starts(lk, p, n), packet(lk, n), "none")
                      /\ \A m \in S : starts(lk, p, n) <= starts(lk, p, m)
  <2>1. a = earliestStart(lk, p, S)
    BY <1>2 DEF botTime
  <2> HIDE DEF S
  <2>2. QED  BY <2>1, <1>3, EarliestStart
<1>5. ASSUME NEW u \in Time .. LastHeard, Happens(lk, p, "BOT", u)
      PROVE  \E n \in S : starts(lk, p, n) = u
  BY <1>1, <1>5 DEF Aired
<1>6. CASE S = {} /\ a = Unknown
  BY <1>2, <1>5, <1>6 DEF Right, Comes, About, Unknown, answer, Infos, Aired
<1>7. ASSUME NEW n \in S, a = answer(starts(lk, p, n), packet(lk, n), "none"),
             \A m \in S : starts(lk, p, n) <= starts(lk, p, m)
      PROVE  Right(lk, p, "BOT", a)
  <2>1. /\ n \in Heard(lk, p) /\ starts(lk, p, n) \in Time .. LastHeard /\ packet(lk, n) = n
        /\ n \in 0 .. Len(lk.activity)
    BY <1>3 DEF Aired, packet
  <2>2. a.when = starts(lk, p, n) /\ a.pkt = n /\ a.info = "none"
    BY <1>7, <2>1 DEF answer
  <2>3. Comes(lk, p, "BOT", Time, starts(lk, p, n))
    BY <1>1, <1>5, <1>7, <2>1 DEF Comes
  <2>4. QED  BY <2>1, <2>2, <2>3 DEF Right, About, Infos
<1>8. QED  BY <1>2, <1>4, <1>6, <1>7

LEMMA RightBMP ==
  ASSUME NEW lk, NEW p, Aired(lk, p)
  PROVE  Right(lk, p, "BMP", bmpTime(lk, p))
<1> DEFINE S == {n \in sensed(lk, p) :
                   ~ isJam(lk, n) /\ starts(lk, p, n) >= Time /\ p \in lk.activity[n].Receiver}
<1>1. \A u : Happens(lk, p, "BMP", u) <=> \E n \in Heard(lk, p) : starts(lk, p, n) = u /\ p \in lk.activity[n].Receiver
  BY Meaning DEF Aired
<1>2. PICK a : a = bmpTime(lk, p)
  OBVIOUS
<1>3. S \in SUBSET Heard(lk, p)
  BY DEF Aired
<1>4. \/ S = {} /\ a = Unknown
      \/ \E n \in S : /\ a = answer(starts(lk, p, n), packet(lk, n), "none")
                      /\ \A m \in S : starts(lk, p, n) <= starts(lk, p, m)
  <2>1. a = earliestStart(lk, p, S)
    BY <1>2 DEF bmpTime
  <2> HIDE DEF S
  <2>2. QED  BY <2>1, <1>3, EarliestStart
<1>5. ASSUME NEW u \in Time .. LastHeard, Happens(lk, p, "BMP", u)
      PROVE  \E n \in S : starts(lk, p, n) = u
  BY <1>1, <1>5 DEF Aired
<1>6. CASE S = {} /\ a = Unknown
  BY <1>2, <1>5, <1>6 DEF Right, Comes, About, Unknown, answer, Infos, Aired
<1>7. ASSUME NEW n \in S, a = answer(starts(lk, p, n), packet(lk, n), "none"),
             \A m \in S : starts(lk, p, n) <= starts(lk, p, m)
      PROVE  Right(lk, p, "BMP", a)
  <2>1. /\ n \in Heard(lk, p) /\ starts(lk, p, n) \in Time .. LastHeard /\ packet(lk, n) = n
        /\ n \in 0 .. Len(lk.activity)
    BY <1>3 DEF Aired, packet
  <2>2. a.when = starts(lk, p, n) /\ a.pkt = n /\ a.info = "none"
    BY <1>7, <2>1 DEF answer
  <2>3. Comes(lk, p, "BMP", Time, starts(lk, p, n))
    BY <1>1, <1>5, <1>7, <2>1 DEF Comes
  <2>4. QED  BY <2>1, <2>2, <2>3 DEF Right, About, Infos
<1>8. QED  BY <1>2, <1>4, <1>6, <1>7

LEMMA RightEOT ==
  ASSUME NEW lk, NEW p, Aired(lk, p)
  PROVE  Right(lk, p, "EOT", eotTime(lk, p))
<1> DEFINE S == {n \in sensed(lk, p) : lk.activity[n].Type = "TRANSMISSION" /\ ends(lk, p, n) >= Time}
<1>1. \A u : Happens(lk, p, "EOT", u) <=>
               \E n \in Heard(lk, p) : ends(lk, p, n) = u /\ lk.activity[n].Type = "TRANSMISSION"
  BY Meaning DEF Aired
<1>2. PICK a : a = eotTime(lk, p)
  OBVIOUS
<1>3. S \in SUBSET Heard(lk, p)
  BY DEF Aired
<1>4. \/ S = {} /\ a = Unknown
      \/ \E n \in S : /\ a = answer(ends(lk, p, n), packet(lk, n), "none")
                      /\ \A m \in S : ends(lk, p, n) <= ends(lk, p, m)
  <2>1. a = earliestEnd(lk, p, S)
    BY <1>2 DEF eotTime
  <2> HIDE DEF S
  <2>2. QED  BY <2>1, <1>3, EarliestEnd
<1>5. ASSUME NEW u \in Time .. LastHeard, Happens(lk, p, "EOT", u)
      PROVE  \E n \in S : ends(lk, p, n) = u
  BY <1>1, <1>5 DEF Aired
<1>6. CASE S = {} /\ a = Unknown
  BY <1>2, <1>5, <1>6 DEF Right, Comes, About, Unknown, answer, Infos, Aired
<1>7. ASSUME NEW n \in S, a = answer(ends(lk, p, n), packet(lk, n), "none"),
             \A m \in S : ends(lk, p, n) <= ends(lk, p, m)
      PROVE  Right(lk, p, "EOT", a)
  <2>1. /\ n \in Heard(lk, p) /\ packet(lk, n) = n
        /\ ends(lk, p, n) = Inf \/ ends(lk, p, n) \in Time .. LastHeard
        /\ n \in 0 .. Len(lk.activity)
    BY <1>3 DEF Aired, packet, isJam
  <2>2. a.when = ends(lk, p, n) /\ a.pkt = n /\ a.info = "none"
    BY <1>7, <2>1 DEF answer
  <2>3. Comes(lk, p, "EOT", Time, ends(lk, p, n))
    BY <1>1, <1>5, <1>7, <2>1 DEF Comes
  <2>4. QED  BY <2>1, <2>2, <2>3 DEF Right, About, Infos
<1>8. QED  BY <1>2, <1>4, <1>6, <1>7

LEMMA RightEMP ==
  ASSUME NEW lk, NEW p, Aired(lk, p)
  PROVE  Right(lk, p, "EMP", empTime(lk, p))
<1> DEFINE S == {n \in sensed(lk, p) :
                   /\ lk.activity[n].Type = "TRANSMISSION" /\ ends(lk, p, n) >= Time
                   /\ p \in lk.activity[n].Receiver}
<1>1. \A u : Happens(lk, p, "EMP", u) <=>
               \E n \in Heard(lk, p) : /\ ends(lk, p, n) = u /\ lk.activity[n].Type = "TRANSMISSION"
                                       /\ p \in lk.activity[n].Receiver
  BY Meaning DEF Aired
<1>2. PICK a : a = empTime(lk, p)
  OBVIOUS
<1>3. S \in SUBSET Heard(lk, p)
  BY DEF Aired
<1>4. \/ S = {} /\ a = Unknown
      \/ \E n \in S : /\ a = answer(ends(lk, p, n), packet(lk, n), "none")
                      /\ \A m \in S : ends(lk, p, n) <= ends(lk, p, m)
  <2>1. a = earliestEnd(lk, p, S)
    BY <1>2 DEF empTime
  <2> HIDE DEF S
  <2>2. QED  BY <2>1, <1>3, EarliestEnd
<1>5. ASSUME NEW u \in Time .. LastHeard, Happens(lk, p, "EMP", u)
      PROVE  \E n \in S : ends(lk, p, n) = u
  BY <1>1, <1>5 DEF Aired
<1>6. CASE S = {} /\ a = Unknown
  BY <1>2, <1>5, <1>6 DEF Right, Comes, About, Unknown, answer, Infos, Aired
<1>7. ASSUME NEW n \in S, a = answer(ends(lk, p, n), packet(lk, n), "none"),
             \A m \in S : ends(lk, p, n) <= ends(lk, p, m)
      PROVE  Right(lk, p, "EMP", a)
  <2>1. /\ n \in Heard(lk, p) /\ packet(lk, n) = n
        /\ ends(lk, p, n) = Inf \/ ends(lk, p, n) \in Time .. LastHeard
        /\ n \in 0 .. Len(lk.activity)
    BY <1>3 DEF Aired, packet, isJam
  <2>2. a.when = ends(lk, p, n) /\ a.pkt = n /\ a.info = "none"
    BY <1>7, <2>1 DEF answer
  <2>3. Comes(lk, p, "EMP", Time, ends(lk, p, n))
    BY <1>1, <1>5, <1>7, <2>1 DEF Comes
  <2>4. QED  BY <2>1, <2>2, <2>3 DEF Right, About, Infos
<1>8. QED  BY <1>2, <1>4, <1>6, <1>7

LEMMA RightActivity ==
  ASSUME NEW lk, NEW p, Aired(lk, p)
  PROVE  Right(lk, p, "ACTIVITY", activityTime(lk, p))
<1> DEFINE now == {n \in sensed(lk, p) : starts(lk, p, n) <= Time /\ ends(lk, p, n) > Time}
           S == {n \in sensed(lk, p) : starts(lk, p, n) > Time}
<1>1. \A u : Happens(lk, p, "ACTIVITY", u) <=>
               \E n \in Heard(lk, p) : starts(lk, p, n) <= u /\ u < ends(lk, p, n)
  BY Meaning DEF Aired
<1>2. PICK a : a = activityTime(lk, p)
  OBVIOUS
<1>3. CASE now # {}
  <2>1. Len(lk.activity) \in Nat /\ now \in SUBSET (0 .. Len(lk.activity))
    BY DEF Aired
  <2>2. PICK n \in now : n = Max(now)
    <3> HIDE DEF now
    <3>1. QED  BY <1>3, <2>1, Greatest
  <2>3. a = answer(Time, packet(lk, n), "none")
    BY <1>2, <1>3, <2>2 DEF activityTime
  <2>4. /\ n \in Heard(lk, p) /\ Time \in Time .. LastHeard /\ Time < ends(lk, p, n)
        /\ packet(lk, n) \in 0 .. Len(lk.activity)
    BY <2>2 DEF Aired, packet
  <2>5. Comes(lk, p, "ACTIVITY", Time, Time)
    BY <1>1, <2>2, <2>4 DEF Comes
  <2>6. a.when = Time /\ a.pkt = packet(lk, n) /\ a.info = "none"
    BY <2>3 DEF answer
  <2>7. About(lk, p, "ACTIVITY", Time, packet(lk, n), "none")
    BY <2>2, <2>4 DEF About
  <2>8. QED  BY <1>2, <2>4, <2>5, <2>6, <2>7 DEF Right, Infos
<1>4. CASE now = {}
  <2>1. S \in SUBSET Heard(lk, p)
    BY DEF Aired
  <2>2. \/ S = {} /\ a = Unknown
        \/ \E n \in S : /\ a = answer(starts(lk, p, n), packet(lk, n), "none")
                        /\ \A m \in S : starts(lk, p, n) <= starts(lk, p, m)
    <3>1. a = earliestStart(lk, p, S)
      BY <1>2, <1>4 DEF activityTime
    <3> HIDE DEF S
    <3>2. QED  BY <3>1, <2>1, EarliestStart
  <2>3. ASSUME NEW u \in Time .. LastHeard, Happens(lk, p, "ACTIVITY", u)
        PROVE  \E n \in S : starts(lk, p, n) <= u
    <3>1. PICK n \in Heard(lk, p) : starts(lk, p, n) <= u /\ u < ends(lk, p, n)
      BY <1>1, <2>3
    <3>2. n \in sensed(lk, p) /\ starts(lk, p, n) \in Nat /\ ends(lk, p, n) > Time /\ Time \in Nat
      BY <3>1 DEF Aired
    <3>3. n \notin now
      BY <1>4
    <3>4. QED  BY <3>1, <3>2, <3>3
  <2>4. CASE S = {} /\ a = Unknown
    BY <1>2, <2>3, <2>4 DEF Right, Comes, About, Unknown, answer, Infos, Aired
  <2>5. ASSUME NEW n \in S, a = answer(starts(lk, p, n), packet(lk, n), "none"),
               \A m \in S : starts(lk, p, n) <= starts(lk, p, m)
        PROVE  Right(lk, p, "ACTIVITY", a)
    <3>1. /\ n \in Heard(lk, p) /\ starts(lk, p, n) \in Time .. LastHeard
          /\ starts(lk, p, n) <= starts(lk, p, n) /\ starts(lk, p, n) < ends(lk, p, n)
          /\ packet(lk, n) \in 0 .. Len(lk.activity)
      BY <2>1 DEF Aired, packet
    <3>2. a.when = starts(lk, p, n) /\ a.pkt = packet(lk, n) /\ a.info = "none"
      BY <2>5 DEF answer
    <3>3. Comes(lk, p, "ACTIVITY", Time, starts(lk, p, n))
      <4>1. \A m \in S : starts(lk, p, m) \in Nat
        BY <2>1 DEF Aired
      <4>2. QED  BY <1>1, <2>3, <2>5, <3>1, <4>1 DEF Comes
    <3>4. QED  BY <3>1, <3>2, <3>3 DEF Right, About, Infos
  <2>6. QED  BY <1>2, <2>2, <2>4, <2>5
<1>5. QED  BY <1>3, <1>4

LEMMA RightBOJ ==
  ASSUME NEW lk, NEW p, Aired(lk, p)
  PROVE  Right(lk, p, "BOJ", answer(bojTime(lk, p), 0, "none"))
<1> DEFINE J == {n \in sensed(lk, p) : isJam(lk, n)}
           S == {n \in J : starts(lk, p, n) > Time}
<1>1. \A u : Happens(lk, p, "BOJ", u) <=>
               \E n \in Heard(lk, p) : starts(lk, p, n) <= u /\ u < ends(lk, p, n) /\ isJam(lk, n)
  BY Meaning DEF Aired
<1>2. PICK w : w = bojTime(lk, p)
  OBVIOUS
<1>3. Comes(lk, p, "BOJ", Time, w)
  <2>1. CASE \E n \in J : starts(lk, p, n) <= Time /\ ends(lk, p, n) > Time
    <3>1. w = Time
      BY <1>2, <2>1 DEF bojTime
    <3>2. QED  BY <1>1, <2>1, <3>1 DEF Comes, Aired
  <2>2. CASE ~ \E n \in J : starts(lk, p, n) <= Time /\ ends(lk, p, n) > Time
    <3>1. S \in SUBSET Heard(lk, p)
      BY DEF Aired
    <3>2. PICK a : a = earliestStart(lk, p, S) /\ w = a.when
      BY <1>2, <2>2 DEF bojTime
    <3>3. \/ S = {} /\ a = Unknown
          \/ \E n \in S : /\ a = answer(starts(lk, p, n), packet(lk, n), "none")
                          /\ \A m \in S : starts(lk, p, n) <= starts(lk, p, m)
      <4> HIDE DEF S
      <4>1. QED  BY <3>1, <3>2, EarliestStart
    <3>4. ASSUME NEW u \in Time .. LastHeard, Happens(lk, p, "BOJ", u)
          PROVE  \E n \in S : starts(lk, p, n) <= u
      <4>1. PICK n \in Heard(lk, p) : starts(lk, p, n) <= u /\ u < ends(lk, p, n) /\ isJam(lk, n)
        BY <1>1, <3>4
      <4>2. n \in J /\ starts(lk, p, n) \in Nat /\ ends(lk, p, n) > Time /\ Time \in Nat
        BY <4>1 DEF Aired
      <4>3. QED  BY <2>2, <4>1, <4>2
    <3>5. CASE S = {} /\ a = Unknown
      BY <3>2, <3>4, <3>5 DEF Comes, Unknown, answer
    <3>6. ASSUME NEW n \in S, a = answer(starts(lk, p, n), packet(lk, n), "none"),
                 \A m \in S : starts(lk, p, n) <= starts(lk, p, m)
          PROVE  Comes(lk, p, "BOJ", Time, w)
      <4>1. /\ n \in Heard(lk, p) /\ isJam(lk, n) /\ starts(lk, p, n) \in Time .. LastHeard
            /\ starts(lk, p, n) < ends(lk, p, n) /\ starts(lk, p, n) <= starts(lk, p, n)
        BY <3>1 DEF Aired
      <4>2. w = starts(lk, p, n)
        BY <3>2, <3>6 DEF answer
      <4>3. \A m \in S : starts(lk, p, m) \in Nat
        BY <3>1 DEF Aired
      <4>4. QED  BY <1>1, <3>4, <3>6, <4>1, <4>2, <4>3 DEF Comes
    <3>7. QED  BY <3>3, <3>5, <3>6
  <2>3. QED  BY <2>1, <2>2
<1>4. QED  BY <1>2, <1>3 DEF Right, About, answer, Infos, Aired

LEMMA RightSilence ==
  ASSUME NEW lk, NEW p, Aired(lk, p)
  PROVE  Right(lk, p, "SILENCE", answer(silenceTime(lk, p), 0, "none"))
<1> DEFINE A == sensed(lk, p)
           quiet == lk.NAlive = 0 \/ \A n \in A : starts(lk, p, n) <= Time => ends(lk, p, n) <= Time
<1>1. \A u : Happens(lk, p, "SILENCE", u) <=>
               \A n \in Heard(lk, p) : ~ (starts(lk, p, n) <= u /\ u < ends(lk, p, n))
  BY Meaning DEF Aired
<1>2. PICK w : w = silenceTime(lk, p)
  OBVIOUS
<1>3. Comes(lk, p, "SILENCE", Time, w)
  <2>1. CASE quiet
    <3>1. w = Time
      BY <1>2, <2>1 DEF silenceTime
    <3>2. ASSUME NEW n \in Heard(lk, p)
          PROVE  ~ (starts(lk, p, n) <= Time /\ Time < ends(lk, p, n))
      <4>1. n \in A => ~ (starts(lk, p, n) <= Time /\ Time < ends(lk, p, n))
        BY <2>1 DEF Aired
      <4>2. n \notin A => ~ (Time < ends(lk, p, n))
        BY DEF Aired
      <4>3. QED  BY <4>1, <4>2
    <3>3. QED  BY <1>1, <3>1, <3>2 DEF Comes, Aired
  <2>2. CASE ~ quiet
    <3>1. w = periodEnd(lk, p, Time, A)
      BY <1>2, <2>2 DEF silenceTime
    <3>2. A \in SUBSET Heard(lk, p) /\ Time \in 1 .. LastHeard
      BY DEF Aired
    <3>3. /\ w = Inf \/ w \in 1 .. LastHeard
          /\ Time <= w
          /\ \A u \in Nat : Time <= u /\ u < w => \E n \in A : starts(lk, p, n) <= u /\ u < ends(lk, p, n)
          /\ \A n \in A : ~ (starts(lk, p, n) <= w /\ w < ends(lk, p, n))
      <4>1. Time \in (1 .. LastHeard) \cup {Inf}
        BY <3>2
      <4> HIDE DEF A
      <4>2. Lasts(lk, p, Time, A, w)
        BY <3>1, <3>2, <4>1, PeriodEnd
      <4>3. QED  BY <4>2 DEF Lasts
    <3>4. \A n \in Heard(lk, p) : n \notin A => ends(lk, p, n) < Time /\ ends(lk, p, n) \in Nat /\ w \in Nat
      BY <3>3 DEF Aired
    <3>5. w # Inf => Happens(lk, p, "SILENCE", w)
      <4>1. \A n \in Heard(lk, p) : ~ (starts(lk, p, n) <= w /\ w < ends(lk, p, n))
        BY <3>2, <3>3, <3>4
      <4>2. QED  BY <1>1, <4>1
    <3>6. ASSUME NEW u \in Time .. LastHeard, Happens(lk, p, "SILENCE", u)
          PROVE  w <= u
      <4>1. u \in Nat /\ w \in Nat /\ Time <= u
        BY <3>2, <3>3 DEF Aired
      <4>2. ~ (u < w)
        BY <1>1, <3>2, <3>3, <3>6, <4>1
      <4>3. QED  BY <4>1, <4>2
    <3>7. QED  BY <3>2, <3>3, <3>5, <3>6 DEF Comes
  <2>3. QED  BY <2>1, <2>2
<1>4. QED  BY <1>2, <1>3 DEF Right, About, answer, Infos, Aired

LEMMA RightEOJ ==
  ASSUME NEW lk, NEW p, Aired(lk, p)
  PROVE  Right(lk, p, "EOJ", answer(eojTime(lk, p), 0, "none"))
<1> DEFINE J == {n \in sensed(lk, p) : isJam(lk, n) /\ ends(lk, p, n) >= Time}
<1>1. \A u : Happens(lk, p, "EOJ", u) <=>
               /\ \E n \in Heard(lk, p) : ends(lk, p, n) = u /\ isJam(lk, n)
               /\ \A n \in Heard(lk, p) : starts(lk, p, n) <= u /\ u < ends(lk, p, n) => ~ isJam(lk, n)
  BY Meaning DEF Aired
<1>2. PICK w : w = eojTime(lk, p)
  OBVIOUS
<1>3. ASSUME NEW u \in Time .. LastHeard, NEW n \in Heard(lk, p), isJam(lk, n), ends(lk, p, n) >= u
      PROVE  n \in J
  BY <1>3 DEF Aired
<1>4. Comes(lk, p, "EOJ", Time, w)
  <2>1. CASE lk.NAliveJams = 0 \/ J = {}
    <3>1. w = Inf
      BY <1>2, <2>1 DEF eojTime
    <3>2. J = {}
      BY <2>1 DEF Aired
    <3>3. ASSUME NEW u \in Time .. LastHeard, Happens(lk, p, "EOJ", u)
          PROVE  FALSE
      <4>1. PICK n \in Heard(lk, p) : ends(lk, p, n) = u /\ isJam(lk, n)
        BY <1>1, <3>3
      <4>2. ends(lk, p, n) >= u
        BY <4>1
      <4>3. QED  BY <1>3, <3>2, <4>1, <4>2
    <3>4. QED  BY <3>1, <3>3 DEF Comes
  <2>2. CASE ~ (lk.NAliveJams = 0 \/ J = {})
    <3>1. PICK m, s : m = Cardinality(J) /\ s = byStart(lk, p, J)
      OBVIOUS
    <3>2. J \in SUBSET Heard(lk, p)
      BY DEF Aired
    <3>3. /\ m \in Nat /\ s \in [1 .. m -> J]
          /\ \A i, j \in 1 .. m : i < j => s[i] # s[j] /\ starts(lk, p, s[i]) <= starts(lk, p, s[j])
          /\ \A x \in J : \E i \in 1 .. m : s[i] = x
      <4> HIDE DEF J
      <4>1. QED  BY <3>1, <3>2, ByStart
    <3>4. 1 \in 1 .. m /\ s[1] \in J
      BY <2>2, <3>3
    <3>5. PICK f \in J : f = s[1]
      BY <3>4
    <3>6. PICK t : t = ends(lk, p, f)
      OBVIOUS
    <3>7. /\ t = Inf \/ t \in 1 .. LastHeard
          /\ Time \in Nat /\ Inf \in Nat /\ LastHeard \in Nat /\ LastHeard < Inf
          /\ Time <= t /\ starts(lk, p, f) < t
      BY <3>2, <3>5, <3>6 DEF Aired
    <3>8. \A n \in J : /\ starts(lk, p, n) \in Nat /\ starts(lk, p, f) <= starts(lk, p, n)
                       /\ ends(lk, p, n) \in Nat /\ starts(lk, p, n) < ends(lk, p, n)
      <4>1. \A n \in J : /\ starts(lk, p, n) \in Nat
                         /\ ends(lk, p, n) \in Nat /\ starts(lk, p, n) < ends(lk, p, n)
        BY <3>2 DEF Aired
      <4>2. ASSUME NEW n \in J
            PROVE  starts(lk, p, f) <= starts(lk, p, n)
        <5>1. PICK i \in 1 .. m : s[i] = n
          BY <3>3
        <5>2. CASE i = 1
          BY <4>1, <5>1, <5>2, <3>5
        <5>3. CASE i # 1
          BY <3>3, <3>4, <3>5, <5>1, <5>3
        <5>4. QED  BY <5>2, <5>3
      <4>3. QED  BY <4>1, <4>2
    <3>9. w = periodEnd(lk, p, t, J)
      BY <1>2, <2>2, <3>1, <3>5, <3>6 DEF eojTime
    <3>10. /\ w = Inf \/ w \in 1 .. LastHeard
           /\ t <= w /\ (w = t \/ \E n \in J : w = ends(lk, p, n))
           /\ \A u \in Nat : t <= u /\ u < w => \E n \in J : starts(lk, p, n) <= u /\ u < ends(lk, p, n)
           /\ \A n \in J : ~ (starts(lk, p, n) <= w /\ w < ends(lk, p, n))
      <4>1. t \in (1 .. LastHeard) \cup {Inf}
        BY <3>7
      <4> HIDE DEF J
      <4>2. Lasts(lk, p, t, J, w)
        BY <3>2, <3>9, <4>1, PeriodEnd
      <4>3. QED  BY <4>2 DEF Lasts
    <3>11. w = Inf \/ w \in Time .. LastHeard
      BY <3>7, <3>10
    <3>12. w # Inf => Happens(lk, p, "EOJ", w)
      <4>1. \E n \in J : w = ends(lk, p, n)
        BY <3>5, <3>6, <3>10
      <4>2. \A n \in J : n \in Heard(lk, p) /\ isJam(lk, n)
        BY <3>2
      <4>3. ASSUME NEW n \in Heard(lk, p), w # Inf, starts(lk, p, n) <= w, w < ends(lk, p, n)
            PROVE  ~ isJam(lk, n)
        <5>1. w \in Time .. LastHeard /\ ends(lk, p, n) >= w
          BY <3>7, <3>11, <4>3 DEF Aired
        <5>2. isJam(lk, n) => n \in J
          BY <1>3, <5>1
        <5>3. QED  BY <3>10, <4>3, <5>2
      <4>4. QED  BY <1>1, <4>1, <4>2, <4>3
    <3>13. ASSUME NEW u \in Time .. LastHeard, Happens(lk, p, "EOJ", u)
           PROVE  w <= u
      <4>1. u \in Nat /\ Time <= u /\ u <= LastHeard /\ w \in Nat /\ t \in Nat
        BY <3>7, <3>11
      <4>2. PICK n \in Heard(lk, p) : ends(lk, p, n) = u /\ isJam(lk, n)
        BY <1>1, <3>13
      <4>3. n \in J
        BY <1>3, <4>1, <4>2
      <4>4. \A x \in J : ~ (starts(lk, p, x) <= u /\ u < ends(lk, p, x))
        BY <1>1, <3>2, <3>13
      <4>5. CASE u < t
        <5>1. starts(lk, p, f) <= u
          BY <3>8, <4>1, <4>2, <4>3
        <5>2. QED  BY <3>5, <3>6, <4>4, <4>5, <5>1
      <4>6. CASE t <= u
        <5>1. ~ (u < w)
          BY <3>10, <4>1, <4>4, <4>6
        <5>2. QED  BY <4>1, <5>1
      <4>7. QED  BY <4>1, <4>5, <4>6
    <3>14. QED  BY <3>11, <3>12, <3>13 DEF Comes
  <2>3. QED  BY <2>1, <2>2
<1>5. QED  BY <1>2, <1>4 DEF Right, About, answer, Infos, Aired

\* A collision of transfers comes at w, or one of a jam with anything.
Collides(lk, p, w, lookatjams) ==
  /\ w = Inf \/ (w \in Time .. LastHeard /\ Happens(lk, p, "COLLISION", w))
  /\ \A u \in Time .. LastHeard : \A x, y \in Heard(lk, p) :
       /\ x # y /\ ~ isJam(lk, x) /\ ~ isJam(lk, y)
       /\ starts(lk, p, x) <= u /\ u < ends(lk, p, x)
       /\ starts(lk, p, y) <= u /\ u < ends(lk, p, y)
       => w <= u
  /\ lookatjams => \A u \in Time .. LastHeard : \A n \in Heard(lk, p) :
       isJam(lk, n) /\ starts(lk, p, n) <= u /\ u < ends(lk, p, n) => w <= u

LEMMA CollisionTime ==
  ASSUME NEW lk, NEW p, Aired(lk, p), NEW lookatjams
  PROVE  Collides(lk, p, collisionTime(lk, p, lookatjams), lookatjams)
<1> SUFFICES ASSUME NEW w, w = collisionTime(lk, p, lookatjams)
             PROVE  Collides(lk, p, w, lookatjams)
  OBVIOUS
<1> DEFINE A == {n \in sensed(lk, p) : ends(lk, p, n) > Time}
           J == {n \in A : isJam(lk, n)}
           K == {starts(lk, p, n) : n \in IF lookatjams THEN J ELSE {}}
<1>1. \A u : Happens(lk, p, "COLLISION", u) <=>
               \/ \E n \in Heard(lk, p) : starts(lk, p, n) <= u /\ u < ends(lk, p, n) /\ isJam(lk, n)
               \/ \E x, y \in Heard(lk, p) :
                    /\ x # y /\ starts(lk, p, x) <= u /\ u < ends(lk, p, x)
                    /\ starts(lk, p, y) <= u /\ u < ends(lk, p, y)
  BY Meaning DEF Aired
<1>2. /\ Time \in Nat /\ Inf \in Nat /\ LastHeard \in Nat /\ LastHeard < Inf /\ Time <= LastHeard
      /\ A \in SUBSET Heard(lk, p) /\ J \subseteq A
      /\ \A n \in Heard(lk, p) : /\ starts(lk, p, n) \in Nat /\ ends(lk, p, n) \in Nat
                                 /\ starts(lk, p, n) <= LastHeard /\ starts(lk, p, n) < ends(lk, p, n)
                                 /\ ends(lk, p, n) <= Inf
  BY DEF Aired
<1>3. ASSUME NEW u \in Time .. LastHeard, NEW n \in Heard(lk, p), u < ends(lk, p, n)
      PROVE  n \in A
  BY <1>3 DEF Aired
<1>4. CASE lk.NAlive = 0
  <2>1. w = Inf /\ A = {}
    BY <1>4 DEF collisionTime, Aired
  <2>2. QED  BY <1>3, <2>1 DEF Collides
<1>5. CASE lk.NAlive # 0
  <2>1. PICK o, tc : o = firstOverlap(lk, p, A \ J) /\ tc = Min({o} \cup K)
    OBVIOUS
  <2>2. w = Max({tc, Time})
    BY <1>5, <2>1 DEF collisionTime
  <2>3. A \ J \in SUBSET Heard(lk, p)
    BY <1>2
  <2>4. /\ \/ o = Inf
           \/ /\ o \in 1 .. LastHeard
              /\ \E x, y \in A \ J : /\ x # y /\ starts(lk, p, x) <= o /\ o < ends(lk, p, x)
                                     /\ o = starts(lk, p, y)
        /\ \A u \in Nat, x, y \in A \ J :
             /\ x # y
             /\ starts(lk, p, x) <= u /\ u < ends(lk, p, x)
             /\ starts(lk, p, y) <= u /\ u < ends(lk, p, y)
             => o <= u
    <3> HIDE DEF A, J
    <3>1. QED  BY <2>1, <2>3, FirstOverlap
  <2>5. tc \in {o} \cup K /\ \A k \in {o} \cup K : tc <= k
    <3>1. {o} \cup K \in SUBSET Nat /\ {o} \cup K # {}
      BY <1>2, <2>4
    <3> HIDE DEF K
    <3>2. QED  BY <2>1, <3>1, Least
  <2>6. tc \in Nat /\ (tc = Inf \/ tc <= LastHeard)
    BY <1>2, <2>4, <2>5
  <2>7. w = IF tc <= Time THEN Time ELSE tc
    <3>1. {tc, Time} \in SUBSET (0 .. Inf) /\ {tc, Time} # {}
      BY <1>2, <2>6
    <3>2. Max({tc, Time}) \in {tc, Time} /\ \A x \in {tc, Time} : x <= Max({tc, Time})
      BY <1>2, <3>1, Greatest
    <3>3. w \in {tc, Time} /\ tc <= w /\ Time <= w
      BY <2>2, <3>2
    <3>4. QED  BY <1>2, <2>6, <3>3
  <2>8. w = Inf \/ w \in Time .. LastHeard
    BY <1>2, <2>6, <2>7
  <2>9. ASSUME w # Inf
        PROVE  Happens(lk, p, "COLLISION", w)
    <3>1. tc # Inf
      BY <1>2, <2>7, <2>9
    <3>2. CASE tc \in K
      <4>1. PICK n \in J : tc = starts(lk, p, n)
        BY <3>2
      <4>2. n \in Heard(lk, p) /\ starts(lk, p, n) <= w /\ w < ends(lk, p, n) /\ isJam(lk, n)
        BY <1>2, <2>6, <2>7, <4>1
      <4>3. QED  BY <1>1, <4>2
    <3>3. CASE tc = o
      <4>1. PICK x \in A \ J, y \in A \ J : /\ x # y /\ starts(lk, p, x) <= o /\ o < ends(lk, p, x)
                                            /\ o = starts(lk, p, y)
        BY <2>4, <3>1, <3>3
      <4>2. /\ x \in Heard(lk, p) /\ y \in Heard(lk, p)
            /\ ends(lk, p, x) > Time /\ ends(lk, p, y) > Time
        BY <1>2
      <4>3. /\ starts(lk, p, x) <= w /\ w < ends(lk, p, x)
            /\ starts(lk, p, y) <= w /\ w < ends(lk, p, y)
        BY <1>2, <2>6, <2>7, <3>3, <4>1, <4>2
      <4>4. QED  BY <1>1, <4>1, <4>2, <4>3
    <3>4. QED  BY <2>5, <3>2, <3>3
  <2>10. ASSUME NEW u \in Time .. LastHeard, NEW x \in Heard(lk, p), NEW y \in Heard(lk, p),
                x # y, ~ isJam(lk, x), ~ isJam(lk, y),
                starts(lk, p, x) <= u, u < ends(lk, p, x), starts(lk, p, y) <= u, u < ends(lk, p, y)
         PROVE  w <= u
    <3>1. x \in A \ J /\ y \in A \ J /\ u \in Nat
      BY <1>2, <1>3, <2>10
    <3>2. o <= u
      BY <2>4, <2>10, <3>1
    <3>3. tc <= u
      BY <1>2, <2>4, <2>5, <2>6, <3>1, <3>2
    <3>4. QED  BY <1>2, <2>6, <2>7, <3>3
  <2>11. ASSUME lookatjams, NEW u \in Time .. LastHeard, NEW n \in Heard(lk, p),
                isJam(lk, n), starts(lk, p, n) <= u, u < ends(lk, p, n)
         PROVE  w <= u
    <3>1. n \in J
      BY <1>3, <2>11
    <3>2. starts(lk, p, n) \in K
      BY <2>11, <3>1
    <3>3. tc <= starts(lk, p, n)
      BY <2>5, <3>2
    <3>4. tc <= u /\ u \in Nat
      BY <1>2, <2>6, <2>11, <3>3
    <3>5. QED  BY <1>2, <2>6, <2>7, <3>4
  <2>12. QED  BY <2>8, <2>9, <2>10, <2>11 DEF Collides
<1>6. QED  BY <1>4, <1>5

LEMMA RightCollision ==
  ASSUME NEW lk, NEW p, Aired(lk, p)
  PROVE  Right(lk, p, "COLLISION", answer(collisionTime(lk, p, TRUE), 0, "none"))
<1>1. \A u : Happens(lk, p, "COLLISION", u) <=>
               \/ \E n \in Heard(lk, p) : starts(lk, p, n) <= u /\ u < ends(lk, p, n) /\ isJam(lk, n)
               \/ \E x, y \in Heard(lk, p) :
                    /\ x # y /\ starts(lk, p, x) <= u /\ u < ends(lk, p, x)
                    /\ starts(lk, p, y) <= u /\ u < ends(lk, p, y)
  BY Meaning DEF Aired
<1>2. PICK w : w = collisionTime(lk, p, TRUE)
  OBVIOUS
<1>3. Collides(lk, p, w, TRUE)
  BY <1>2, CollisionTime
<1>4. ASSUME NEW u \in Time .. LastHeard, Happens(lk, p, "COLLISION", u)
      PROVE  w <= u
  <2>1. CASE \E n \in Heard(lk, p) : starts(lk, p, n) <= u /\ u < ends(lk, p, n) /\ isJam(lk, n)
    BY <2>1, <1>3 DEF Collides
  <2>2. CASE ~ \E n \in Heard(lk, p) : starts(lk, p, n) <= u /\ u < ends(lk, p, n) /\ isJam(lk, n)
    <3>1. PICK x, y \in Heard(lk, p) :
            /\ x # y /\ starts(lk, p, x) <= u /\ u < ends(lk, p, x)
            /\ starts(lk, p, y) <= u /\ u < ends(lk, p, y)
      BY <1>1, <1>4, <2>2
    <3>2. QED  BY <1>3, <2>2, <3>1 DEF Collides
  <2>3. QED  BY <2>1, <2>2
<1>5. Comes(lk, p, "COLLISION", Time, w)
  BY <1>3, <1>4 DEF Collides, Comes
<1>6. PICK a : a = answer(w, 0, "none")
  OBVIOUS
<1>7. a.when = w /\ a.pkt = 0 /\ a.info = "none"
  BY <1>6 DEF answer
<1>8. Right(lk, p, "COLLISION", a)
  BY <1>5, <1>7 DEF Right, About, Infos, Aired
<1>9. QED  BY <1>2, <1>6, <1>8

LEMMA RightMyCollision ==
  ASSUME NEW lk, NEW p, Aired(lk, p)
  PROVE  Right(lk, p, "MY_COLLISION", answer(myCollisionTime(lk, p), 0, "none"))
<1> DEFINE A == {n \in sensed(lk, p) : lk.activity[n].LRId # p}
           K == {Inf} \cup {starts(lk, p, n) : n \in {m \in A : starts(lk, p, m) >= Time}}
<1>1. \A u : Happens(lk, p, "MY_COLLISION", u) <=>
               \E n \in Heard(lk, p) : starts(lk, p, n) <= u /\ u < ends(lk, p, n) /\ lk.activity[n].LRId # p
  BY Meaning DEF Aired
<1>2. PICK w : w = myCollisionTime(lk, p)
  OBVIOUS
<1>3. Comes(lk, p, "MY_COLLISION", Time, w)
  <2>1. CASE \E n \in A : starts(lk, p, n) < Time /\ ends(lk, p, n) > Time
    <3>1. w = Time
      BY <1>2, <2>1 DEF myCollisionTime
    <3>2. PICK n \in A : starts(lk, p, n) < Time /\ ends(lk, p, n) > Time
      BY <2>1
    <3>3. /\ n \in Heard(lk, p) /\ starts(lk, p, n) <= Time /\ Time < ends(lk, p, n)
          /\ lk.activity[n].LRId # p /\ Time \in Time .. LastHeard
      BY <3>2 DEF Aired
    <3>4. Happens(lk, p, "MY_COLLISION", Time)
      BY <1>1, <3>3
    <3>5. QED  BY <3>1, <3>3, <3>4 DEF Comes
  <2>2. CASE ~ \E n \in A : starts(lk, p, n) < Time /\ ends(lk, p, n) > Time
    <3>1. w = Min(K)
      BY <1>2, <2>2 DEF myCollisionTime
    <3>2. K \in SUBSET Nat /\ K # {}
      BY DEF Aired
    <3>3. w \in K /\ \A k \in K : w <= k
      <4> HIDE DEF K
      <4>1. QED  BY <3>1, <3>2, Least
    <3>4. ASSUME w # Inf
          PROVE  w \in Time .. LastHeard /\ Happens(lk, p, "MY_COLLISION", w)
      <4>1. PICK n \in A : starts(lk, p, n) >= Time /\ w = starts(lk, p, n)
        BY <3>3, <3>4
      <4>2. /\ n \in Heard(lk, p) /\ w \in Time .. LastHeard
            /\ starts(lk, p, n) <= w /\ w < ends(lk, p, n) /\ lk.activity[n].LRId # p
        BY <4>1 DEF Aired
      <4>3. QED  BY <1>1, <4>2
    <3>5. ASSUME NEW u \in Time .. LastHeard, Happens(lk, p, "MY_COLLISION", u)
          PROVE  w <= u
      <4>1. PICK n \in Heard(lk, p) : starts(lk, p, n) <= u /\ u < ends(lk, p, n) /\ lk.activity[n].LRId # p
        BY <1>1, <3>5
      <4>2. n \in A /\ starts(lk, p, n) \in Nat /\ Time \in Nat /\ u \in Nat /\ ends(lk, p, n) > Time
        BY <4>1 DEF Aired
      <4>3. starts(lk, p, n) >= Time
        BY <2>2, <4>2
      <4>4. w <= starts(lk, p, n) /\ w \in Nat
        BY <3>2, <3>3, <4>2, <4>3
      <4>5. QED  BY <4>1, <4>2, <4>4
    <3>6. QED  BY <3>4, <3>5 DEF Comes
  <2>3. QED  BY <2>1, <2>2
<1>4. QED  BY <1>2, <1>3 DEF Right, About, answer, Infos, Aired

LEMMA RightAnyEvent ==
  ASSUME NEW lk, NEW p, Aired(lk, p), NEW a \in aevTimes(lk, p)
  PROVE  Right(lk, p, "ANYEVENT", a)
<1> DEFINE next(n) == IF starts(lk, p, n) < Time
                      THEN answer(ends(lk, p, n), packet(lk, n), ending(lk, n))
                      ELSE answer(starts(lk, p, n), packet(lk, n), beginning(lk, n))
           R == {m \in sensed(lk, p) : ends(lk, p, m) >= Time}
           F == {b \in {next(n) : n \in R} : b.when # Inf}
<1>1. \A u : Happens(lk, p, "ANYEVENT", u) <=>
               \E n \in Heard(lk, p) : starts(lk, p, n) = u \/ ends(lk, p, n) = u
  BY Meaning DEF Aired
<1>2. a \in IF F = {} THEN {Unknown} ELSE {b \in F : \A d \in F : b.when <= d.when}
  BY DEF aevTimes
<1>3. \A n : next(n).when = IF starts(lk, p, n) < Time THEN ends(lk, p, n) ELSE starts(lk, p, n)
  BY DEF answer
<1>4. ASSUME NEW u \in Time .. LastHeard, Happens(lk, p, "ANYEVENT", u)
      PROVE  \E b \in F : b.when <= u
  <2>1. PICK n \in Heard(lk, p) : starts(lk, p, n) = u \/ ends(lk, p, n) = u
    BY <1>1, <1>4
  <2>2. n \in R /\ starts(lk, p, n) \in Nat /\ starts(lk, p, n) < ends(lk, p, n) /\ u \in Nat /\ u # Inf
        /\ Time \in Nat /\ ends(lk, p, n) \in Nat /\ starts(lk, p, n) # Inf /\ u >= Time
    BY <2>1 DEF Aired
  <2>3. next(n).when <= u /\ next(n).when # Inf
    BY <1>3, <2>1, <2>2
  <2> HIDE DEF next
  <2>4. next(n) \in F
    BY <2>2, <2>3
  <2>5. QED  BY <2>3, <2>4
<1>5. CASE F = {}
  <2>1. a = Unknown
    BY <1>2, <1>5
  <2>2. \A u \in Time .. LastHeard : ~ Happens(lk, p, "ANYEVENT", u)
    BY <1>4, <1>5
  <2>3. QED  BY <2>1, <2>2 DEF Right, Comes, About, Unknown, answer, Infos, Aired
<1>6. CASE F # {}
  <2>1. a \in F /\ \A d \in F : a.when <= d.when
    BY <1>2, <1>6
  <2>2. PICK n \in R : a = next(n)
    BY <2>1
  <2>3. a.when # Inf
    BY <2>1
  <2>4. /\ n \in Heard(lk, p) /\ starts(lk, p, n) \in 1 .. LastHeard /\ starts(lk, p, n) < ends(lk, p, n)
        /\ Time \in Nat /\ ends(lk, p, n) >= Time
        /\ ends(lk, p, n) = Inf \/ ends(lk, p, n) \in 1 .. LastHeard
        /\ packet(lk, n) \in 0 .. Len(lk.activity)
        /\ beginning(lk, n) \in Infos /\ ending(lk, n) \in Infos
    BY DEF Aired, packet, beginning, ending, Infos, isJam
  <2>5. CASE starts(lk, p, n) < Time
    <3>1. a = answer(ends(lk, p, n), packet(lk, n), ending(lk, n))
      BY <2>2, <2>5
    <3>2. a.when = ends(lk, p, n) /\ a.pkt = packet(lk, n) /\ a.info = ending(lk, n)
      BY <3>1 DEF answer
    <3>3. a.when \in Time .. LastHeard /\ Happens(lk, p, "ANYEVENT", a.when)
      BY <1>1, <2>3, <2>4, <3>2
    <3>4. \A u \in Time .. LastHeard : Happens(lk, p, "ANYEVENT", u) => a.when <= u
      <4>1. \A b \in F : b.when \in Nat
        BY <1>3 DEF Aired
      <4> HIDE DEF F
      <4>2. QED  BY <1>4, <2>1, <3>3, <4>1
    <3>5. About(lk, p, "ANYEVENT", a.when, a.pkt, a.info)
      BY <2>4, <3>2 DEF About
    <3>6. QED  BY <2>4, <3>2, <3>3, <3>4, <3>5 DEF Right, Comes
  <2>6. CASE ~ (starts(lk, p, n) < Time)
    <3>1. a = answer(starts(lk, p, n), packet(lk, n), beginning(lk, n))
      BY <2>2, <2>6
    <3>2. a.when = starts(lk, p, n) /\ a.pkt = packet(lk, n) /\ a.info = beginning(lk, n)
      BY <3>1 DEF answer
    <3>3. a.when \in Time .. LastHeard /\ Happens(lk, p, "ANYEVENT", a.when)
      BY <1>1, <2>3, <2>4, <2>6, <3>2
    <3>4. \A u \in Time .. LastHeard : Happens(lk, p, "ANYEVENT", u) => a.when <= u
      <4>1. \A b \in F : b.when \in Nat
        BY <1>3 DEF Aired
      <4> HIDE DEF F
      <4>2. QED  BY <1>4, <2>1, <3>3, <4>1
    <3>5. About(lk, p, "ANYEVENT", a.when, a.pkt, a.info)
      BY <2>4, <3>2 DEF About
    <3>6. QED  BY <2>4, <3>2, <3>3, <3>4, <3>5 DEF Right, Comes
  <2>7. QED  BY <2>5, <2>6
<1>7. QED  BY <1>5, <1>6

-----------------------------------------------------------------------------
(* Requests, while the event of a port is brought up to date                  *)

RequestsOf(lk) ==
  [queue : Queues, id : Events, when : 1 .. Inf, pkt : 0 .. Len(lk.activity), info : Infos]

\* A request, up to the question whether its time is still the next one.
Asked(lk, q, r) ==
  /\ r \in RequestsOf(lk)
  /\ r.id = r.queue \/ (r.queue = "MY_COLLISION" /\ r.id = "COLLISION")
  /\ About(lk, q, r.queue, r.when, r.pkt, r.info)

\* An event with requests shows one that is due first.
Formed(lk, q, e) ==
  /\ e = [reqs |-> e.reqs, top |-> e.top, wake |-> e.wake, pkt |-> e.pkt, info |-> e.info]
  /\ e.reqs \in Seq(RequestsOf(lk))
  /\ \A i \in DOMAIN e.reqs : Asked(lk, q, e.reqs[i])
  /\ e.top \in DOMAIN e.reqs /\ e.wake = e.reqs[e.top].when
  /\ \A i \in DOMAIN e.reqs : e.wake <= e.reqs[i].when
  /\ e.pkt \in 0 .. Len(lk.activity) /\ e.info \in Infos
  /\ About(lk, q, e.reqs[e.top].queue, e.wake, e.pkt, e.info)

Timely(lk, q, r) == Comes(lk, q, r.queue, Time, r.when)

\* Of e, request i has been brought up to date, and this made it e2.
Turned(lk, q, e, e2, i) ==
  /\ Formed(lk, q, e2)
  /\ DOMAIN e2.reqs = DOMAIN e.reqs
  /\ \A j \in DOMAIN e.reqs : /\ j # i => e2.reqs[j] = e.reqs[j]
                              /\ e2.reqs[j].queue = e.reqs[j].queue
  /\ Timely(lk, q, e2.reqs[i])

LEMMA Kept_Turns ==
  ASSUME NEW lk, NEW q, NEW e, Formed(lk, q, e), NEW i, Timely(lk, q, e.reqs[i])
  PROVE  Turned(lk, q, e, e, i)
BY DEF Turned

\* The requests s come from those of e when request i becomes r.
Replaces(lk, q, e, i, r, s) ==
  /\ s \in Seq(RequestsOf(lk)) /\ DOMAIN s = DOMAIN e.reqs
  /\ s[i] = r /\ \A j \in DOMAIN s : j # i => s[j] = e.reqs[j]
  /\ \A j \in DOMAIN s : Asked(lk, q, s[j]) /\ s[j].queue = e.reqs[j].queue
  /\ \A j \in DOMAIN s : s[j].when \in Nat /\ e.reqs[j].when \in Nat
  /\ e.wake \in Nat
  /\ \A e2 : \A j \in DOMAIN s :
       /\ e2 = [reqs |-> s, top |-> j, wake |-> s[j].when, pkt |-> s[j].pkt, info |-> s[j].info]
       /\ \A k \in DOMAIN s : s[j].when <= s[k].when
       => Turned(lk, q, e, e2, i)

LEMMA Replaced ==
  ASSUME NEW lk, NEW q, NEW e, Formed(lk, q, e), NEW i \in DOMAIN e.reqs,
         NEW r, Asked(lk, q, r), r.queue = e.reqs[i].queue, Timely(lk, q, r)
  PROVE  Replaces(lk, q, e, i, r, [e.reqs EXCEPT ![i] = r])
<1> SUFFICES ASSUME NEW s, s = [e.reqs EXCEPT ![i] = r]
             PROVE  Replaces(lk, q, e, i, r, s)
  OBVIOUS
<1>1. Inf \in Nat
  BY InfIsLater
<1>2. r \in RequestsOf(lk) /\ e.reqs \in Seq(RequestsOf(lk))
  BY DEF Asked, Formed
<1>3. /\ s \in Seq(RequestsOf(lk)) /\ DOMAIN s = DOMAIN e.reqs
      /\ s[i] = r /\ \A j \in DOMAIN s : j # i => s[j] = e.reqs[j]
  BY <1>2
<1>4. \A j \in DOMAIN s : Asked(lk, q, s[j]) /\ s[j].queue = e.reqs[j].queue
  BY <1>3 DEF Formed
<1>5. \A x \in RequestsOf(lk) : x.when \in Nat /\ x.pkt \in 0 .. Len(lk.activity) /\ x.info \in Infos
  BY <1>1 DEF RequestsOf
<1>6. \A j \in DOMAIN s : s[j] \in RequestsOf(lk) /\ e.reqs[j] \in RequestsOf(lk)
  BY <1>2, <1>3
<1>7. (\A j \in DOMAIN s : s[j].when \in Nat /\ e.reqs[j].when \in Nat) /\ e.wake \in Nat
  BY <1>3, <1>5, <1>6 DEF Formed
<1>8. ASSUME NEW e2, NEW j \in DOMAIN s,
             e2 = [reqs |-> s, top |-> j, wake |-> s[j].when, pkt |-> s[j].pkt, info |-> s[j].info],
             \A k \in DOMAIN s : s[j].when <= s[k].when
      PROVE  Turned(lk, q, e, e2, i)
  <2>1. /\ e2.reqs = s /\ e2.top = j /\ e2.wake = s[j].when /\ e2.pkt = s[j].pkt /\ e2.info = s[j].info
        /\ e2 = [reqs |-> e2.reqs, top |-> e2.top, wake |-> e2.wake, pkt |-> e2.pkt, info |-> e2.info]
    BY <1>8
  <2>2. About(lk, q, s[j].queue, s[j].when, s[j].pkt, s[j].info)
    BY <1>4, <1>8 DEF Asked
  <2>3. Formed(lk, q, e2)
    BY <1>3, <1>4, <1>5, <1>6, <1>8, <2>1, <2>2 DEF Formed
  <2>4. QED  BY <1>3, <1>4, <2>1, <2>3 DEF Turned
<1>9. QED  BY <1>3, <1>4, <1>7, <1>8 DEF Replaces

LEMMA RetimeTurns ==
  ASSUME NEW lk, NEW q, NEW e, Formed(lk, q, e), NEW i \in DOMAIN e.reqs,
         NEW a, Right(lk, q, e.reqs[i].queue, a), a.when \in 1 .. Inf, a.when <= e.reqs[i].when,
         NEW e2 \in retime(e, i, a)
  PROVE  Turned(lk, q, e, e2, i)
<1>1. PICK r : r = request(e.reqs[i].queue, e.reqs[i].id, a)
  OBVIOUS
<1>2. /\ r.queue = e.reqs[i].queue /\ r.id = e.reqs[i].id /\ r.when = a.when /\ r.pkt = a.pkt /\ r.info = a.info
      /\ r = [queue |-> r.queue, id |-> r.id, when |-> r.when, pkt |-> r.pkt, info |-> r.info]
  BY <1>1 DEF request
<1>3. Asked(lk, q, e.reqs[i]) /\ e.reqs[i] \in RequestsOf(lk)
  BY DEF Formed, Asked
<1>4. Asked(lk, q, r) /\ Timely(lk, q, r)
  BY <1>2, <1>3 DEF Asked, RequestsOf, Right, Timely
<1>5. PICK s : s = [e.reqs EXCEPT ![i] = r]
  OBVIOUS
<1>6. /\ s \in Seq(RequestsOf(lk)) /\ DOMAIN s = DOMAIN e.reqs
      /\ s[i] = r /\ \A j \in DOMAIN s : j # i => s[j] = e.reqs[j]
      /\ \A j \in DOMAIN s : Asked(lk, q, s[j]) /\ s[j].queue = e.reqs[j].queue
      /\ \A j \in DOMAIN s : s[j].when \in Nat /\ e.reqs[j].when \in Nat
      /\ e.wake \in Nat
      /\ \A x : \A j \in DOMAIN s :
           /\ x = [reqs |-> s, top |-> j, wake |-> s[j].when, pkt |-> s[j].pkt, info |-> s[j].info]
           /\ \A k \in DOMAIN s : s[j].when <= s[k].when
           => Turned(lk, q, e, x, i)
  <2>1. Replaces(lk, q, e, i, r, s)
    BY <1>2, <1>4, <1>5, Replaced
  <2>2. QED  BY <2>1 DEF Replaces
<1>7. /\ e = [reqs |-> e.reqs, top |-> e.top, wake |-> e.wake, pkt |-> e.pkt, info |-> e.info]
      /\ e.top \in DOMAIN e.reqs /\ e.wake = e.reqs[e.top].when
      /\ \A j \in DOMAIN e.reqs : e.wake <= e.reqs[j].when
      /\ e.pkt \in 0 .. Len(lk.activity) /\ e.info \in Infos
      /\ About(lk, q, e.reqs[e.top].queue, e.wake, e.pkt, e.info)
  BY DEF Formed
<1>8. PICK e1 : e1 = [e EXCEPT !.reqs[i] = r]
  OBVIOUS
<1>9. e1 = [reqs |-> s, top |-> e.top, wake |-> e.wake, pkt |-> e.pkt, info |-> e.info]
  BY <1>5, <1>7, <1>8
<1>10. \/ e.wake <= a.when /\ e2 = e1
       \/ e.wake >= a.when /\ e2 = show(e1, i)
  BY <1>1, <1>8 DEF retime
<1>11. CASE e.wake <= a.when /\ e2 = e1
  <2>1. /\ e2.reqs = s /\ e2.top = e.top /\ e2.wake = e.wake /\ e2.pkt = e.pkt /\ e2.info = e.info
        /\ e2 = [reqs |-> e2.reqs, top |-> e2.top, wake |-> e2.wake, pkt |-> e2.pkt, info |-> e2.info]
    BY <1>9, <1>11
  <2>2. s[e.top].queue = e.reqs[e.top].queue
    BY <1>6, <1>7
  <2>3. e.wake = s[e.top].when
    <3>1. CASE e.top = i
      BY <3>1, <1>2, <1>6, <1>7, <1>11
    <3>2. CASE e.top # i
      BY <3>2, <1>6, <1>7
    <3>3. QED  BY <3>1, <3>2
  <2>4. \A j \in DOMAIN s : e.wake <= s[j].when
    BY <1>2, <1>6, <1>7, <1>11
  <2>5. Formed(lk, q, e2)
    BY <1>6, <1>7, <2>1, <2>2, <2>3, <2>4 DEF Formed
  <2>6. QED  BY <1>4, <1>6, <2>1, <2>5 DEF Turned
<1>12. CASE e.wake >= a.when /\ e2 = show(e1, i)
  <2>1. e2 = [reqs |-> s, top |-> i, wake |-> s[i].when, pkt |-> s[i].pkt, info |-> s[i].info]
    BY <1>9, <1>12 DEF show
  <2>2. \A k \in DOMAIN s : s[i].when <= s[k].when
    <3>1. ASSUME NEW k \in DOMAIN s
          PROVE  s[i].when <= s[k].when
      <4>1. CASE k = i
        BY <4>1, <1>6
      <4>2. CASE k # i
        <5>1. e.wake <= s[k].when /\ s[k].when \in Nat /\ s[i].when = a.when /\ s[i].when \in Nat
          BY <4>2, <1>2, <1>6, <1>7
        <5>2. QED  BY <5>1, <1>6, <1>12
      <4>3. QED  BY <4>1, <4>2
    <3>2. QED  BY <3>1
  <2>3. QED  BY <1>6, <2>1, <2>2
<1>13. QED  BY <1>10, <1>11, <1>12

LEMMA SoonerTurns ==
  ASSUME NEW lk, NEW q, NEW e, Formed(lk, q, e), NEW i \in DOMAIN e.reqs,
         NEW a, a.when \in 1 .. Inf,
         e.reqs[i].when <= a.when => Timely(lk, q, e.reqs[i]),
         a.when < e.reqs[i].when => Right(lk, q, e.reqs[i].queue, a),
         NEW e2 \in sooner(e, i, a)
  PROVE  Turned(lk, q, e, e2, i)
<1>1. CASE e.reqs[i].when <= a.when
  BY <1>1, Kept_Turns DEF sooner
<1>2. CASE ~ (e.reqs[i].when <= a.when)
  <2>1. e.reqs[i].when \in Nat /\ a.when \in Nat
    <3>1. e.reqs[i] \in RequestsOf(lk)
      BY DEF Formed
    <3>2. QED  BY <3>1, InfIsLater DEF RequestsOf
  <2>2. a.when < e.reqs[i].when
    BY <1>2, <2>1
  <2>3. e2 \in retime(e, i, a)
    BY <1>2 DEF sooner
  <2>4. QED  BY <2>1, <2>2, <2>3, RetimeTurns
<1>3. QED  BY <1>1, <1>2

LEMMA AgainTurns ==
  ASSUME NEW lk, NEW q, NEW e, Formed(lk, q, e), NEW i \in DOMAIN e.reqs,
         NEW t \in 1 .. Inf, t <= e.reqs[i].when,
         e.reqs[i].queue \in {"SILENCE", "EOJ"},
         Comes(lk, q, e.reqs[i].queue, Time, t),
         NEW e2 \in again(e, i, t)
  PROVE  Turned(lk, q, e, e2, i)
<1>1. PICK a : a = answer(t, e.reqs[i].pkt, e.reqs[i].info)
  OBVIOUS
<1>2. a.when = t /\ a.pkt = e.reqs[i].pkt /\ a.info = e.reqs[i].info
  BY <1>1 DEF answer
<1>3. Asked(lk, q, e.reqs[i]) /\ e.reqs[i] \in RequestsOf(lk)
  BY DEF Formed
<1>4. Inf \in Nat /\ e.reqs[i].when \in Nat /\ t \in Nat
  BY <1>3, InfIsLater DEF RequestsOf
<1>5. e2 \in sooner(e, i, a)
  BY <1>1, <1>4 DEF again
<1>6. Right(lk, q, e.reqs[i].queue, a)
  <2>1. a.pkt = 0
    BY <1>2, <1>3 DEF Asked, About
  <2>2. About(lk, q, e.reqs[i].queue, a.when, a.pkt, a.info)
    BY <2>1 DEF About
  <2>3. QED  BY <1>2, <1>3, <2>2 DEF Right, RequestsOf
<1>7. e.reqs[i].when <= a.when => Timely(lk, q, e.reqs[i])
  <2>1. e.reqs[i].when <= a.when => e.reqs[i].when = t
    BY <1>2, <1>4
  <2>2. QED  BY <2>1 DEF Timely
<1>8. QED  BY <1>2, <1>5, <1>6, <1>7, SoonerTurns

LEMMA LaterTurns ==
  ASSUME NEW lk, NEW q, NEW e, Formed(lk, q, e), NEW i \in DOMAIN e.reqs,
         NEW t \in 1 .. Inf, e.reqs[i].when <= t,
         e.reqs[i].queue \in {"SILENCE", "EOJ", "COLLISION"},
         Comes(lk, q, e.reqs[i].queue, Time, t),
         NEW e2 \in later(e, i, t)
  PROVE  Turned(lk, q, e, e2, i)
<1>1. Asked(lk, q, e.reqs[i]) /\ e.reqs[i] \in RequestsOf(lk)
  BY DEF Formed
<1>2. Inf \in Nat /\ e.reqs[i].when \in Nat /\ t \in Nat
  BY <1>1, InfIsLater DEF RequestsOf
<1>3. CASE e.reqs[i].when = t
  <2>1. e2 = e
    BY <1>2, <1>3 DEF later
  <2>2. QED  BY <1>3, <2>1, Kept_Turns DEF Timely
<1>4. CASE e.reqs[i].when # t
  <2>1. PICK r : r = [e.reqs[i] EXCEPT !.when = t]
    OBVIOUS
  <2>2. /\ r.queue = e.reqs[i].queue /\ r.id = e.reqs[i].id /\ r.when = t
        /\ r.pkt = e.reqs[i].pkt /\ r.info = e.reqs[i].info
        /\ r \in RequestsOf(lk)
    BY <1>1, <2>1 DEF RequestsOf
  <2>3. Asked(lk, q, r) /\ Timely(lk, q, r)
    <3>1. About(lk, q, r.queue, r.when, r.pkt, r.info)
      BY <1>1, <2>2 DEF Asked, About
    <3>2. QED  BY <1>1, <2>2, <3>1 DEF Asked, Timely
  <2>4. PICK s : s = [e.reqs EXCEPT ![i] = r]
    OBVIOUS
  <2>5. /\ s \in Seq(RequestsOf(lk)) /\ DOMAIN s = DOMAIN e.reqs
        /\ s[i] = r /\ \A j \in DOMAIN s : j # i => s[j] = e.reqs[j]
        /\ \A j \in DOMAIN s : Asked(lk, q, s[j]) /\ s[j].queue = e.reqs[j].queue
        /\ \A j \in DOMAIN s : s[j].when \in Nat /\ e.reqs[j].when \in Nat
        /\ e.wake \in Nat
        /\ \A x : \A j \in DOMAIN s :
             /\ x = [reqs |-> s, top |-> j, wake |-> s[j].when, pkt |-> s[j].pkt, info |-> s[j].info]
             /\ \A k \in DOMAIN s : s[j].when <= s[k].when
             => Turned(lk, q, e, x, i)
    <3>1. Replaces(lk, q, e, i, r, s)
      BY <2>2, <2>3, <2>4, Replaced
    <3>2. QED  BY <3>1 DEF Replaces
  <2>6. /\ e = [reqs |-> e.reqs, top |-> e.top, wake |-> e.wake, pkt |-> e.pkt, info |-> e.info]
        /\ e.top \in DOMAIN e.reqs /\ e.wake = e.reqs[e.top].when
        /\ \A j \in DOMAIN e.reqs : e.wake <= e.reqs[j].when
        /\ e.pkt \in 0 .. Len(lk.activity) /\ e.info \in Infos
        /\ About(lk, q, e.reqs[e.top].queue, e.wake, e.pkt, e.info)
    BY DEF Formed
  <2>7. PICK e1 : e1 = [e EXCEPT !.reqs[i].when = t]
    OBVIOUS
  <2>8. e1 = [reqs |-> s, top |-> e.top, wake |-> e.wake, pkt |-> e.pkt, info |-> e.info]
    BY <2>1, <2>4, <2>6, <2>7
  <2>9. e2 \in IF e.top = i THEN {show(e1, j) : j \in min_requests(e1)} ELSE {e1}
    BY <1>2, <1>4, <2>7 DEF later
  <2>10. CASE e.top = i
    <3>1. PICK j \in min_requests(e1) : e2 = show(e1, j)
      BY <2>9, <2>10
    <3>2. j \in DOMAIN s /\ \A k \in DOMAIN s : s[j].when <= s[k].when
      BY <2>8, <3>1 DEF min_requests
    <3>3. e2 = [reqs |-> s, top |-> j, wake |-> s[j].when, pkt |-> s[j].pkt, info |-> s[j].info]
      BY <2>8, <3>1 DEF show
    <3>4. QED  BY <2>5, <3>2, <3>3
  <2>11. CASE e.top # i
    <3>1. e2 = e1
      BY <2>9, <2>11
    <3>2. /\ e2.reqs = s /\ e2.top = e.top /\ e2.wake = e.wake /\ e2.pkt = e.pkt /\ e2.info = e.info
          /\ e2 = [reqs |-> e2.reqs, top |-> e2.top, wake |-> e2.wake, pkt |-> e2.pkt, info |-> e2.info]
      BY <2>8, <3>1
    <3>3. s[e.top] = e.reqs[e.top]
      BY <2>5, <2>6, <2>11
    <3>4. \A j \in DOMAIN s : e.wake <= s[j].when
      <4>1. e.wake <= t
        BY <1>2, <2>5, <2>6
      <4>2. QED  BY <4>1, <2>2, <2>5, <2>6
    <3>5. Formed(lk, q, e2)
      BY <2>5, <2>6, <3>2, <3>3, <3>4 DEF Formed
    <3>6. QED  BY <2>3, <2>5, <3>2, <3>5 DEF Turned
  <2>12. QED  BY <2>10, <2>11
<1>5. QED  BY <1>3, <1>4

-----------------------------------------------------------------------------
(* How an event that is to come changes when an activity starts or ends       *)

\* Port p hears activity n at time t.
On(lk, p, n, t) == starts(lk, p, n) <= t /\ t < ends(lk, p, n)

\* Port q hears activity m of lk2 as it does in lk.
Same(lk, lk2, q, m) ==
  /\ starts(lk2, q, m) = starts(lk, q, m) /\ ends(lk2, q, m) = ends(lk, q, m)
  /\ lk2.activity[m] = lk.activity[m]

\* In lk2, port q hears the same as in lk.
Unheard(lk, lk2, q) ==
  /\ Heard(lk2, q) = Heard(lk, q)
  /\ \A m \in Heard(lk, q) : Same(lk, lk2, q, m)

\* In lk2, activity n of another port has started; it is heard from h on.
Grows(lk, lk2, q, n, h) ==
  /\ Heard(lk2, q) = Heard(lk, q) \cup {n} /\ n \notin Heard(lk, q)
  /\ \A m \in Heard(lk, q) : Same(lk, lk2, q, m)
  /\ starts(lk2, q, n) = h /\ ends(lk2, q, n) = Inf /\ h \in Time .. LastHeard
  /\ lk2.activity[n].LRId # q
  /\ isJam(lk2, n) => lk2.activity[n].Receiver = {}

\* In lk2, activity n of another port has ended; it is heard up to h.
Ceases(lk, lk2, q, n, h) ==
  /\ Heard(lk2, q) = Heard(lk, q) /\ n \in Heard(lk, q)
  /\ \A m \in Heard(lk, q) : m # n => Same(lk, lk2, q, m)
  /\ starts(lk2, q, n) = starts(lk, q, n) /\ starts(lk, q, n) < h
  /\ ends(lk, q, n) = Inf /\ ends(lk2, q, n) = h /\ Time < h /\ h \in Time .. LastHeard
  /\ lk.activity[n].LRId # q /\ lk2.activity[n].LRId = lk.activity[n].LRId
  /\ isJam(lk2, n) <=> isJam(lk, n)
  /\ lk2.activity[n].Receiver = lk.activity[n].Receiver

\* At time t, what an event of port q means in lk.
Means(lk, q, t) ==
  /\ Happens(lk, q, "ACTIVITY", t) <=> \E n \in Heard(lk, q) : On(lk, q, n, t)
  /\ Happens(lk, q, "SILENCE", t) <=> \A n \in Heard(lk, q) : ~ On(lk, q, n, t)
  /\ Happens(lk, q, "BOT", t) <=> \E n \in Heard(lk, q) : starts(lk, q, n) = t /\ ~ isJam(lk, n)
  /\ Happens(lk, q, "BMP", t) <=> \E n \in Heard(lk, q) : starts(lk, q, n) = t /\ q \in lk.activity[n].Receiver
  /\ Happens(lk, q, "EOT", t) <=>
       \E n \in Heard(lk, q) : ends(lk, q, n) = t /\ lk.activity[n].Type = "TRANSMISSION"
  /\ Happens(lk, q, "EMP", t) <=>
       \E n \in Heard(lk, q) : /\ ends(lk, q, n) = t /\ lk.activity[n].Type = "TRANSMISSION"
                               /\ q \in lk.activity[n].Receiver
  /\ Happens(lk, q, "BOJ", t) <=> \E n \in Heard(lk, q) : On(lk, q, n, t) /\ isJam(lk, n)
  /\ Happens(lk, q, "EOJ", t) <=> /\ \E n \in Heard(lk, q) : ends(lk, q, n) = t /\ isJam(lk, n)
                                  /\ \A n \in Heard(lk, q) : On(lk, q, n, t) => ~ isJam(lk, n)
  /\ Happens(lk, q, "COLLISION", t) <=>
       \/ \E n \in Heard(lk, q) : On(lk, q, n, t) /\ isJam(lk, n)
       \/ \E x, y \in Heard(lk, q) : x # y /\ On(lk, q, x, t) /\ On(lk, q, y, t)
  /\ Happens(lk, q, "MY_COLLISION", t) <=> \E n \in Heard(lk, q) : On(lk, q, n, t) /\ lk.activity[n].LRId # q
  /\ Happens(lk, q, "ANYEVENT", t) <=>
       \E n \in Heard(lk, q) : starts(lk, q, n) = t \/ ends(lk, q, n) = t

LEMMA MeansThat ==
  ASSUME NEW lk, NEW q, Aired(lk, q), NEW t
  PROVE  Means(lk, q, t)
<1>1. IsFiniteSet(Heard(lk, q))
  BY DEF Aired
<1>2. QED  BY <1>1, Meaning DEF Means, On

\* From h on, the event of this queue comes in lk2 more often, or less often; never if h is Inf.
Gains(lk, lk2, q, queue, h) ==
  \A t \in Time .. LastHeard :
    /\ Happens(lk, q, queue, t) => Happens(lk2, q, queue, t)
    /\ Happens(lk2, q, queue, t) => Happens(lk, q, queue, t) \/ h <= t

Loses(lk, lk2, q, queue, h) ==
  \A t \in Time .. LastHeard :
    /\ Happens(lk2, q, queue, t) => Happens(lk, q, queue, t)
    /\ Happens(lk, q, queue, t) => Happens(lk2, q, queue, t) \/ h <= t

LEMMA GainsKeeps ==
  ASSUME NEW lk, NEW lk2, NEW q, NEW queue, NEW h \in Nat, Gains(lk, lk2, q, queue, h), Time \in Nat,
         NEW w \in 1 .. Inf, Comes(lk, q, queue, Time, w), w <= h
  PROVE  Comes(lk2, q, queue, Time, w)
<1>1. LastHeard \in Nat /\ Inf \in Nat
  BY LastIsLast
<1>2. \A t \in Time .. LastHeard : Happens(lk2, q, queue, t) => w <= t
  BY <1>1 DEF Gains, Comes
<1>3. QED  BY <1>1, <1>2 DEF Gains, Comes

LEMMA GainsAt ==
  ASSUME NEW lk, NEW lk2, NEW q, NEW queue, NEW h \in Time .. LastHeard, Gains(lk, lk2, q, queue, h), Time \in Nat,
         NEW w \in 1 .. Inf, Comes(lk, q, queue, Time, w), h <= w, Happens(lk2, q, queue, h)
  PROVE  Comes(lk2, q, queue, Time, h)
<1>1. LastHeard \in Nat /\ Inf \in Nat
  BY LastIsLast
<1>2. \A t \in Time .. LastHeard : Happens(lk2, q, queue, t) => h <= t
  BY <1>1 DEF Gains, Comes
<1>3. QED  BY <1>1, <1>2 DEF Comes

LEMMA GainsSooner ==
  ASSUME NEW lk, NEW lk2, NEW q, NEW queue, NEW h, Gains(lk, lk2, q, queue, h), Time \in Nat,
         NEW w \in 1 .. Inf, Comes(lk, q, queue, Time, w), NEW t, Comes(lk2, q, queue, Time, t)
  PROVE  t <= w
<1>1. LastHeard \in Nat /\ Inf \in Nat /\ LastHeard < Inf
  BY LastIsLast
<1>2. CASE w = Inf
  BY <1>1, <1>2 DEF Comes
<1>3. CASE w # Inf
  BY <1>3, <1>1 DEF Gains, Comes
<1>4. QED  BY <1>2, <1>3

LEMMA LosesKeeps ==
  ASSUME NEW lk, NEW lk2, NEW q, NEW queue, NEW h \in Nat, Loses(lk, lk2, q, queue, h), Time \in Nat,
         NEW w \in 1 .. Inf, Comes(lk, q, queue, Time, w), w < h \/ w = Inf
  PROVE  Comes(lk2, q, queue, Time, w)
<1>1. LastHeard \in Nat /\ Inf \in Nat /\ LastHeard < Inf
  BY LastIsLast
<1>2. \A t \in Time .. LastHeard : Happens(lk2, q, queue, t) => w <= t
  BY <1>1 DEF Loses, Comes
<1>3. QED  BY <1>1, <1>2 DEF Loses, Comes

LEMMA LosesLater ==
  ASSUME NEW lk, NEW lk2, NEW q, NEW queue, NEW h, Loses(lk, lk2, q, queue, h), Time \in Nat,
         NEW w \in 1 .. Inf, Comes(lk, q, queue, Time, w), NEW t, Comes(lk2, q, queue, Time, t)
  PROVE  w <= t
<1>1. LastHeard \in Nat /\ Inf \in Nat /\ LastHeard < Inf
  BY LastIsLast
<1>2. CASE t = Inf
  BY <1>1, <1>2
<1>3. CASE t # Inf
  BY <1>3, <1>1 DEF Loses, Comes
<1>4. QED  BY <1>2, <1>3

LEMMA UnheardMeans ==
  ASSUME NEW lk, NEW lk2, NEW q, Aired(lk, q), Aired(lk2, q), Unheard(lk, lk2, q), NEW queue \in Queues
  PROVE  Gains(lk, lk2, q, queue, Inf)
<1> SUFFICES ASSUME NEW t \in Time .. LastHeard
             PROVE  Happens(lk2, q, queue, t) <=> Happens(lk, q, queue, t)
  BY DEF Gains
<1>1. Means(lk, q, t) /\ Means(lk2, q, t)
  BY MeansThat
<1>2. /\ Heard(lk2, q) = Heard(lk, q)
      /\ \A m \in Heard(lk, q) : /\ starts(lk2, q, m) = starts(lk, q, m) /\ ends(lk2, q, m) = ends(lk, q, m)
                                 /\ lk2.activity[m] = lk.activity[m] /\ (isJam(lk2, m) <=> isJam(lk, m))
                                 /\ On(lk2, q, m, t) <=> On(lk, q, m, t)
  BY DEF Unheard, Same, isJam, On
<1>3. CASE queue \in {"ACTIVITY", "SILENCE", "BOJ", "MY_COLLISION"}
  BY <1>1, <1>2, <1>3 DEF Means
<1>4. CASE queue \in {"BOT", "BMP", "EOT", "EMP", "ANYEVENT"}
  BY <1>1, <1>2, <1>4 DEF Means
<1>5. CASE queue \in {"EOJ", "COLLISION"}
  BY <1>1, <1>2, <1>5 DEF Means
<1>6. QED  BY <1>3, <1>4, <1>5 DEF Queues, Events

\* What the start of an activity means for the events of a port that hears it.
LEMMA GrowsMeans ==
  ASSUME NEW lk, NEW lk2, NEW q, Aired(lk, q), Aired(lk2, q), NEW n, NEW h, Grows(lk, lk2, q, n, h),
         NEW t \in Time .. LastHeard
  PROVE  /\ Happens(lk2, q, "ACTIVITY", t) <=> Happens(lk, q, "ACTIVITY", t) \/ h <= t
         /\ Happens(lk2, q, "SILENCE", t) <=> Happens(lk, q, "SILENCE", t) /\ ~ (h <= t)
         /\ Happens(lk2, q, "BOT", t) <=> Happens(lk, q, "BOT", t) \/ (t = h /\ ~ isJam(lk2, n))
         /\ Happens(lk2, q, "BMP", t) <=> Happens(lk, q, "BMP", t) \/ (t = h /\ q \in lk2.activity[n].Receiver)
         /\ Happens(lk2, q, "EOT", t) <=> Happens(lk, q, "EOT", t)
         /\ Happens(lk2, q, "EMP", t) <=> Happens(lk, q, "EMP", t)
         /\ Happens(lk2, q, "BOJ", t) <=> Happens(lk, q, "BOJ", t) \/ (h <= t /\ isJam(lk2, n))
         /\ Happens(lk2, q, "EOJ", t) <=> Happens(lk, q, "EOJ", t) /\ ~ (h <= t /\ isJam(lk2, n))
         /\ Happens(lk2, q, "COLLISION", t) <=>
              \/ Happens(lk, q, "COLLISION", t)
              \/ h <= t /\ (isJam(lk2, n) \/ \E m \in Heard(lk, q) : On(lk, q, m, t))
         /\ Happens(lk2, q, "MY_COLLISION", t) <=> Happens(lk, q, "MY_COLLISION", t) \/ h <= t
         /\ Happens(lk2, q, "ANYEVENT", t) <=> Happens(lk, q, "ANYEVENT", t) \/ t = h
<1>1. Means(lk, q, t) /\ Means(lk2, q, t)
  BY MeansThat
<1>2. \A m \in Heard(lk, q) : /\ starts(lk2, q, m) = starts(lk, q, m) /\ ends(lk2, q, m) = ends(lk, q, m)
                              /\ lk2.activity[m] = lk.activity[m] /\ (isJam(lk2, m) <=> isJam(lk, m))
                              /\ On(lk2, q, m, t) <=> On(lk, q, m, t)
  BY DEF Grows, Same, isJam, On
<1>3. /\ Heard(lk2, q) = Heard(lk, q) \cup {n} /\ n \notin Heard(lk, q)
      /\ lk2.activity[n].LRId # q
      /\ starts(lk2, q, n) = h /\ ends(lk2, q, n) # t
      /\ On(lk2, q, n, t) <=> h <= t
  <2>1. LastHeard \in Nat /\ Inf \in Nat /\ LastHeard < Inf /\ Time \in Nat
    BY DEF Aired
  <2>2. QED  BY <2>1 DEF Grows, On
<1>4. /\ Happens(lk2, q, "ACTIVITY", t) <=> Happens(lk, q, "ACTIVITY", t) \/ h <= t
      /\ Happens(lk2, q, "SILENCE", t) <=> Happens(lk, q, "SILENCE", t) /\ ~ (h <= t)
  BY <1>1, <1>2, <1>3 DEF Means
<1>5. /\ Happens(lk2, q, "BOT", t) <=> Happens(lk, q, "BOT", t) \/ (t = h /\ ~ isJam(lk2, n))
      /\ Happens(lk2, q, "BMP", t) <=> Happens(lk, q, "BMP", t) \/ (t = h /\ q \in lk2.activity[n].Receiver)
  BY <1>1, <1>2, <1>3 DEF Means
<1>6. /\ Happens(lk2, q, "EOT", t) <=> Happens(lk, q, "EOT", t)
      /\ Happens(lk2, q, "EMP", t) <=> Happens(lk, q, "EMP", t)
  BY <1>1, <1>2, <1>3 DEF Means
<1>7. Happens(lk2, q, "BOJ", t) <=> Happens(lk, q, "BOJ", t) \/ (h <= t /\ isJam(lk2, n))
  BY <1>1, <1>2, <1>3 DEF Means
<1>8. Happens(lk2, q, "EOJ", t) <=> Happens(lk, q, "EOJ", t) /\ ~ (h <= t /\ isJam(lk2, n))
  BY <1>1, <1>2, <1>3 DEF Means
<1>9. Happens(lk2, q, "COLLISION", t) <=>
        \/ Happens(lk, q, "COLLISION", t)
        \/ h <= t /\ (isJam(lk2, n) \/ \E m \in Heard(lk, q) : On(lk, q, m, t))
  BY <1>1, <1>2, <1>3 DEF Means
<1>10. Happens(lk2, q, "MY_COLLISION", t) <=> Happens(lk, q, "MY_COLLISION", t) \/ h <= t
  BY <1>1, <1>2, <1>3 DEF Means
<1>11. Happens(lk2, q, "ANYEVENT", t) <=> Happens(lk, q, "ANYEVENT", t) \/ t = h
  BY <1>1, <1>2, <1>3 DEF Means
<1>12. QED  BY <1>4, <1>5, <1>6, <1>7, <1>8, <1>9, <1>10, <1>11

\* What the end of an activity means for the events of a port that hears it.
LEMMA CeasesMeans ==
  ASSUME NEW lk, NEW lk2, NEW q, Aired(lk, q), Aired(lk2, q), NEW n, NEW h, Ceases(lk, lk2, q, n, h),
         NEW t \in Time .. LastHeard
  PROVE  /\ Happens(lk2, q, "ACTIVITY", t) => Happens(lk, q, "ACTIVITY", t)
         /\ Happens(lk, q, "ACTIVITY", t) => Happens(lk2, q, "ACTIVITY", t) \/ h <= t
         /\ starts(lk, q, n) <= t => Happens(lk, q, "ACTIVITY", t)
         /\ Happens(lk, q, "SILENCE", t) => Happens(lk2, q, "SILENCE", t)
         /\ Happens(lk2, q, "SILENCE", t) => Happens(lk, q, "SILENCE", t) \/ h <= t
         /\ Happens(lk2, q, "BOT", t) <=> Happens(lk, q, "BOT", t)
         /\ Happens(lk2, q, "BMP", t) <=> Happens(lk, q, "BMP", t)
         /\ Happens(lk2, q, "EOT", t) <=>
              Happens(lk, q, "EOT", t) \/ (t = h /\ lk2.activity[n].Type = "TRANSMISSION")
         /\ Happens(lk2, q, "EMP", t) <=>
              \/ Happens(lk, q, "EMP", t)
              \/ t = h /\ lk2.activity[n].Type = "TRANSMISSION" /\ q \in lk2.activity[n].Receiver
         /\ Happens(lk2, q, "BOJ", t) => Happens(lk, q, "BOJ", t)
         /\ Happens(lk, q, "BOJ", t) => Happens(lk2, q, "BOJ", t) \/ (h <= t /\ isJam(lk, n))
         /\ isJam(lk, n) /\ starts(lk, q, n) <= t => Happens(lk, q, "BOJ", t)
         /\ Happens(lk, q, "EOJ", t) => Happens(lk2, q, "EOJ", t)
         /\ Happens(lk2, q, "EOJ", t) => Happens(lk, q, "EOJ", t) \/ (h <= t /\ isJam(lk, n))
         /\ Happens(lk2, q, "COLLISION", t) => Happens(lk, q, "COLLISION", t)
         /\ Happens(lk, q, "COLLISION", t) => Happens(lk2, q, "COLLISION", t) \/ h <= t
         /\ isJam(lk, n) /\ starts(lk, q, n) <= t => Happens(lk, q, "COLLISION", t)
         /\ Happens(lk2, q, "MY_COLLISION", t) => Happens(lk, q, "MY_COLLISION", t)
         /\ Happens(lk, q, "MY_COLLISION", t) => Happens(lk2, q, "MY_COLLISION", t) \/ h <= t
         /\ starts(lk, q, n) <= t => Happens(lk, q, "MY_COLLISION", t)
         /\ Happens(lk2, q, "ANYEVENT", t) <=> Happens(lk, q, "ANYEVENT", t) \/ t = h
<1>1. Means(lk, q, t) /\ Means(lk2, q, t)
  BY MeansThat
<1>2. \A m \in Heard(lk, q) \ {n} :
        /\ starts(lk2, q, m) = starts(lk, q, m) /\ ends(lk2, q, m) = ends(lk, q, m)
        /\ lk2.activity[m] = lk.activity[m] /\ (isJam(lk2, m) <=> isJam(lk, m))
        /\ On(lk2, q, m, t) <=> On(lk, q, m, t)
  BY DEF Ceases, Same, isJam, On
<1>3. /\ Heard(lk2, q) = Heard(lk, q) /\ n \in Heard(lk, q)
      /\ starts(lk2, q, n) = starts(lk, q, n)
      /\ ends(lk, q, n) # t /\ (ends(lk2, q, n) = t <=> t = h)
      /\ On(lk, q, n, t) <=> starts(lk, q, n) <= t
      /\ On(lk2, q, n, t) <=> On(lk, q, n, t) /\ ~ (h <= t)
      /\ lk.activity[n].LRId # q /\ lk2.activity[n].LRId = lk.activity[n].LRId
      /\ isJam(lk2, n) <=> isJam(lk, n)
      /\ lk2.activity[n].Receiver = lk.activity[n].Receiver
  <2>1. LastHeard \in Nat /\ Inf \in Nat /\ LastHeard < Inf /\ Time \in Nat
    BY DEF Aired
  <2>2. QED  BY <2>1 DEF Ceases, On
<1>4. /\ Happens(lk2, q, "ACTIVITY", t) => Happens(lk, q, "ACTIVITY", t)
      /\ Happens(lk, q, "ACTIVITY", t) => Happens(lk2, q, "ACTIVITY", t) \/ h <= t
      /\ starts(lk, q, n) <= t => Happens(lk, q, "ACTIVITY", t)
      /\ Happens(lk, q, "SILENCE", t) => Happens(lk2, q, "SILENCE", t)
      /\ Happens(lk2, q, "SILENCE", t) => Happens(lk, q, "SILENCE", t) \/ h <= t
  BY <1>1, <1>2, <1>3 DEF Means
<1>5. /\ Happens(lk2, q, "BOT", t) <=> Happens(lk, q, "BOT", t)
      /\ Happens(lk2, q, "BMP", t) <=> Happens(lk, q, "BMP", t)
  BY <1>1, <1>2, <1>3 DEF Means
<1>6. Happens(lk2, q, "EOT", t) <=>
        Happens(lk, q, "EOT", t) \/ (t = h /\ lk2.activity[n].Type = "TRANSMISSION")
  BY <1>1, <1>2, <1>3 DEF Means
<1>7. Happens(lk2, q, "EMP", t) <=>
        \/ Happens(lk, q, "EMP", t)
        \/ t = h /\ lk2.activity[n].Type = "TRANSMISSION" /\ q \in lk2.activity[n].Receiver
  BY <1>1, <1>2, <1>3 DEF Means
<1>8. /\ Happens(lk2, q, "BOJ", t) => Happens(lk, q, "BOJ", t)
      /\ Happens(lk, q, "BOJ", t) => Happens(lk2, q, "BOJ", t) \/ (h <= t /\ isJam(lk, n))
      /\ isJam(lk, n) /\ starts(lk, q, n) <= t => Happens(lk, q, "BOJ", t)
  BY <1>1, <1>2, <1>3 DEF Means
<1>9. /\ Happens(lk, q, "EOJ", t) => Happens(lk2, q, "EOJ", t)
      /\ Happens(lk2, q, "EOJ", t) => Happens(lk, q, "EOJ", t) \/ (h <= t /\ isJam(lk, n))
  BY <1>1, <1>2, <1>3 DEF Means
<1>10. /\ Happens(lk2, q, "COLLISION", t) => Happens(lk, q, "COLLISION", t)
       /\ Happens(lk, q, "COLLISION", t) => Happens(lk2, q, "COLLISION", t) \/ h <= t
       /\ isJam(lk, n) /\ starts(lk, q, n) <= t => Happens(lk, q, "COLLISION", t)
  BY <1>1, <1>2, <1>3 DEF Means
<1>11. /\ Happens(lk2, q, "MY_COLLISION", t) => Happens(lk, q, "MY_COLLISION", t)
       /\ Happens(lk, q, "MY_COLLISION", t) => Happens(lk2, q, "MY_COLLISION", t) \/ h <= t
       /\ starts(lk, q, n) <= t => Happens(lk, q, "MY_COLLISION", t)
  BY <1>1, <1>2, <1>3 DEF Means
<1>12. Happens(lk2, q, "ANYEVENT", t) <=> Happens(lk, q, "ANYEVENT", t) \/ t = h
  BY <1>1, <1>2, <1>3 DEF Means
<1>13. QED  BY <1>4, <1>5, <1>6, <1>7, <1>8, <1>9, <1>10, <1>11, <1>12

-----------------------------------------------------------------------------
(* What becomes of the requests for the events of one queue                  *)

\* An operation that makes lk2 of lk does not look at this queue, and need not.
Spared(lk, lk2, q, queue) ==
  \A w \in 1 .. Inf : Comes(lk, q, queue, Time, w) => Comes(lk2, q, queue, Time, w)

\* It brings every request of this queue up to date.
Served(lk, lk2, q, n, act, queue) ==
  \A e : \A i \in DOMAIN e.reqs : \A e2 \in reschedule(lk2, q, n, act, queue, e, i) :
    Formed(lk2, q, e) /\ e.reqs[i].queue = queue /\ Timely(lk, q, e.reqs[i]) => Turned(lk2, q, e, e2, i)

\* A request of the queue that was right before the operation.
Due(lk, lk2, q, queue, e, i) ==
  /\ Formed(lk2, q, e) /\ i \in DOMAIN e.reqs
  /\ e.reqs[i].queue = queue /\ e.reqs[i].when \in 1 .. Inf /\ Comes(lk, q, queue, Time, e.reqs[i].when)

LEMMA ServedIf ==
  ASSUME NEW lk, NEW lk2, NEW q, NEW n, NEW act, NEW queue,
         \A e, i : \A e2 \in reschedule(lk2, q, n, act, queue, e, i) :
           Due(lk, lk2, q, queue, e, i) => Turned(lk2, q, e, e2, i)
  PROVE  Served(lk, lk2, q, n, act, queue)
<1> SUFFICES ASSUME NEW e, NEW i \in DOMAIN e.reqs, NEW e2 \in reschedule(lk2, q, n, act, queue, e, i),
                    Formed(lk2, q, e), e.reqs[i].queue = queue, Timely(lk, q, e.reqs[i])
             PROVE  Turned(lk2, q, e, e2, i)
  BY DEF Served
<1>1. e.reqs[i].when \in 1 .. Inf
  <2>1. e.reqs[i] \in RequestsOf(lk2)
    BY DEF Formed
  <2>2. QED  BY <2>1 DEF RequestsOf
<1>2. Due(lk, lk2, q, queue, e, i)
  BY <1>1 DEF Due, Timely
<1>3. QED  BY <1>2

\* The new answer is a time at which the event comes now; it came there before at the earliest.
LEMMA ByGain ==
  ASSUME NEW lk, NEW lk2, NEW q, Aired(lk2, q), NEW queue,
         NEW h \in Time .. LastHeard, Gains(lk, lk2, q, queue, h), Happens(lk2, q, queue, h),
         NEW pkt \in 0 .. Len(lk2.activity), NEW info \in Infos, About(lk2, q, queue, h, pkt, info),
         NEW e, NEW i, Due(lk, lk2, q, queue, e, i)
  PROVE  /\ \A e2 \in sooner(e, i, answer(h, pkt, info)) : Turned(lk2, q, e, e2, i)
         /\ e.reqs[i].when <= h => Turned(lk2, q, e, e, i)
         /\ e.reqs[i].when >= h => \A e2 \in retime(e, i, answer(h, pkt, info)) : Turned(lk2, q, e, e2, i)
<1>1. PICK a : a = answer(h, pkt, info)
  OBVIOUS
<1>2. a.when = h /\ a.pkt = pkt /\ a.info = info
  BY <1>1 DEF answer
<1>3. /\ LastHeard \in Nat /\ Inf \in Nat /\ LastHeard < Inf /\ Time \in Nat /\ Time >= 1
      /\ h \in Nat /\ h \in 1 .. Inf
  BY DEF Aired
<1>4. /\ Formed(lk2, q, e) /\ i \in DOMAIN e.reqs /\ e.reqs[i].queue = queue
      /\ e.reqs[i].when \in 1 .. Inf /\ Comes(lk, q, queue, Time, e.reqs[i].when)
  BY DEF Due
<1>5. e.reqs[i].when <= h => Timely(lk2, q, e.reqs[i])
  <2>1. e.reqs[i].when <= h => Comes(lk2, q, queue, Time, e.reqs[i].when)
    BY <1>3, <1>4, GainsKeeps
  <2>2. QED  BY <1>4, <2>1 DEF Timely
<1>6. h <= e.reqs[i].when => Right(lk2, q, e.reqs[i].queue, a)
  <2>1. h <= e.reqs[i].when => Comes(lk2, q, queue, Time, h)
    BY <1>3, <1>4, GainsAt
  <2>2. QED  BY <1>2, <1>4, <2>1 DEF Right
<1>7. ASSUME NEW e2 \in sooner(e, i, a)
      PROVE  Turned(lk2, q, e, e2, i)
  <2>1. a.when < e.reqs[i].when => Right(lk2, q, e.reqs[i].queue, a)
    BY <1>2, <1>3, <1>4, <1>6
  <2>2. e.reqs[i].when <= a.when => Timely(lk2, q, e.reqs[i])
    BY <1>2, <1>5
  <2>3. QED  BY <1>2, <1>3, <1>4, <1>7, <2>1, <2>2, SoonerTurns
<1>8. e.reqs[i].when <= h => Turned(lk2, q, e, e, i)
  BY <1>4, <1>5, Kept_Turns
<1>9. ASSUME e.reqs[i].when >= h, NEW e2 \in retime(e, i, a)
      PROVE  Turned(lk2, q, e, e2, i)
  <2>1. a.when <= e.reqs[i].when /\ Right(lk2, q, e.reqs[i].queue, a) /\ a.when \in 1 .. Inf
    BY <1>2, <1>3, <1>4, <1>6, <1>9
  <2>2. QED  BY <1>4, <1>9, <2>1, RetimeTurns
<1>10. QED  BY <1>1, <1>7, <1>8, <1>9

\* The event comes more often from h on: a request put for later is computed again.
LEMMA ByAgain ==
  ASSUME NEW lk, NEW lk2, NEW q, Aired(lk2, q), NEW queue \in {"SILENCE", "EOJ"},
         NEW h \in Time .. LastHeard, Gains(lk, lk2, q, queue, h),
         NEW t \in 1 .. Inf, Comes(lk2, q, queue, Time, t),
         NEW e, NEW i, Due(lk, lk2, q, queue, e, i),
         NEW e2 \in IF e.reqs[i].when <= h THEN {e} ELSE again(e, i, t)
  PROVE  Turned(lk2, q, e, e2, i)
<1>1. /\ LastHeard \in Nat /\ Inf \in Nat /\ LastHeard < Inf /\ Time \in Nat /\ Time >= 1
      /\ h \in Nat
  BY DEF Aired
<1>2. /\ Formed(lk2, q, e) /\ i \in DOMAIN e.reqs /\ e.reqs[i].queue = queue
      /\ e.reqs[i].when \in 1 .. Inf /\ Comes(lk, q, queue, Time, e.reqs[i].when)
  BY DEF Due
<1>3. CASE e.reqs[i].when <= h
  <2>1. Comes(lk2, q, queue, Time, e.reqs[i].when)
    BY <1>1, <1>2, <1>3, GainsKeeps
  <2>2. QED  BY <1>2, <1>3, <2>1, Kept_Turns DEF Timely
<1>4. CASE ~ (e.reqs[i].when <= h)
  <2>1. t <= e.reqs[i].when
    BY <1>1, <1>2, GainsSooner
  <2>2. QED  BY <1>2, <1>4, <2>1, AgainTurns
<1>5. QED  BY <1>3, <1>4

\* The event comes less often from h on: a request put for then or later is put off.
LEMMA ByLoss ==
  ASSUME NEW lk, NEW lk2, NEW q, Aired(lk2, q), NEW queue \in {"SILENCE", "EOJ", "COLLISION"},
         NEW h \in Time .. LastHeard, Loses(lk, lk2, q, queue, h),
         NEW t \in 1 .. Inf, Comes(lk2, q, queue, Time, t),
         NEW e, NEW i, Due(lk, lk2, q, queue, e, i),
         NEW e2 \in IF e.reqs[i].when < h THEN {e} ELSE later(e, i, t)
  PROVE  Turned(lk2, q, e, e2, i)
<1>1. /\ LastHeard \in Nat /\ Inf \in Nat /\ LastHeard < Inf /\ Time \in Nat /\ Time >= 1
      /\ h \in Nat
  BY DEF Aired
<1>2. /\ Formed(lk2, q, e) /\ i \in DOMAIN e.reqs /\ e.reqs[i].queue = queue
      /\ e.reqs[i].when \in 1 .. Inf /\ Comes(lk, q, queue, Time, e.reqs[i].when)
  BY DEF Due
<1>3. CASE e.reqs[i].when < h
  <2>1. Comes(lk2, q, queue, Time, e.reqs[i].when)
    BY <1>1, <1>2, <1>3, LosesKeeps
  <2>2. QED  BY <1>2, <1>3, <2>1, Kept_Turns DEF Timely
<1>4. CASE ~ (e.reqs[i].when < h)
  <2>1. e.reqs[i].when <= t
    BY <1>1, <1>2, LosesLater
  <2>2. QED  BY <1>2, <1>4, <2>1, LaterTurns
<1>5. QED  BY <1>3, <1>4

\* The event comes as before.
LEMMA ByNothing ==
  ASSUME NEW lk, NEW lk2, NEW q, Aired(lk2, q), NEW queue, Gains(lk, lk2, q, queue, Inf)
  PROVE  /\ Spared(lk, lk2, q, queue)
         /\ \A e, i : Due(lk, lk2, q, queue, e, i) => Turned(lk2, q, e, e, i)
<1>1. Inf \in Nat /\ Time \in Nat
  BY DEF Aired
<1>2. ASSUME NEW w \in 1 .. Inf, Comes(lk, q, queue, Time, w)
      PROVE  Comes(lk2, q, queue, Time, w)
  BY <1>1, <1>2, GainsKeeps
<1>3. Spared(lk, lk2, q, queue)
  BY <1>2 DEF Spared
<1>4. ASSUME NEW e, NEW i, Due(lk, lk2, q, queue, e, i)
      PROVE  Turned(lk2, q, e, e, i)
  <2>1. /\ Formed(lk2, q, e) /\ i \in DOMAIN e.reqs /\ e.reqs[i].queue = queue
        /\ e.reqs[i].when \in 1 .. Inf /\ Comes(lk, q, queue, Time, e.reqs[i].when)
    BY <1>4 DEF Due
  <2>2. Timely(lk2, q, e.reqs[i])
    BY <1>2, <2>1 DEF Timely
  <2>3. QED  BY <2>1, <2>2, Kept_Turns
<1>5. QED  BY <1>3, <1>4

\* When an activity starts, what a request for its beginning is told.
LEMMA GrowsTells ==
  ASSUME NEW lk, NEW lk2, NEW q, Aired(lk2, q), NEW n, NEW h, Grows(lk, lk2, q, n, h)
  PROVE  /\ h \in Time .. LastHeard /\ n \in 0 .. Len(lk2.activity) /\ packet(lk2, n) \in 0 .. Len(lk2.activity)
         /\ "none" \in Infos /\ 0 \in 0 .. Len(lk2.activity)
         /\ About(lk2, q, "ACTIVITY", h, packet(lk2, n), "none")
         /\ About(lk2, q, "BOJ", h, 0, "none")
         /\ ~ isJam(lk2, n) => About(lk2, q, "BOT", h, packet(lk2, n), "none")
         /\ q \in lk2.activity[n].Receiver => About(lk2, q, "BMP", h, packet(lk2, n), "none")
         /\ About(lk2, q, "COLLISION", h, 0, "none") /\ About(lk2, q, "MY_COLLISION", h, 0, "none")
         /\ About(lk2, q, "ANYEVENT", h, packet(lk2, n), beginning(lk2, n))
         /\ beginning(lk2, n) \in Infos
<1>1. /\ n \in Heard(lk2, q) /\ starts(lk2, q, n) = h /\ ends(lk2, q, n) = Inf /\ h \in Time .. LastHeard
      /\ isJam(lk2, n) => lk2.activity[n].Receiver = {}
  BY DEF Grows
<1>2. n \in 1 .. Len(lk2.activity) /\ Len(lk2.activity) \in Nat /\ h < Inf /\ h \in Nat
  BY <1>1 DEF Aired
<1>3. packet(lk2, n) \in 0 .. Len(lk2.activity) /\ n \in 0 .. Len(lk2.activity) /\ 0 \in 0 .. Len(lk2.activity)
  BY <1>2 DEF packet
<1>4. About(lk2, q, "ACTIVITY", h, packet(lk2, n), "none")
  BY <1>1, <1>2 DEF About
<1>5. ~ isJam(lk2, n) => packet(lk2, n) = n /\ About(lk2, q, "BOT", h, packet(lk2, n), "none")
  BY <1>1 DEF About, packet
<1>6. q \in lk2.activity[n].Receiver => About(lk2, q, "BMP", h, packet(lk2, n), "none")
  BY <1>1 DEF About, packet
<1>7. About(lk2, q, "ANYEVENT", h, packet(lk2, n), beginning(lk2, n))
  BY <1>1 DEF About
<1>8. About(lk2, q, "BOJ", h, 0, "none") /\ About(lk2, q, "COLLISION", h, 0, "none")
      /\ About(lk2, q, "MY_COLLISION", h, 0, "none")
  BY DEF About
<1>9. beginning(lk2, n) \in Infos /\ "none" \in Infos
  BY DEF beginning, Infos
<1>10. QED  BY <1>1, <1>3, <1>4, <1>5, <1>6, <1>7, <1>8, <1>9

LEMMA StartServes ==
  ASSUME NEW lk, NEW lk2, NEW q, Aired(lk, q), Aired(lk2, q), NEW n, NEW h, h = hearsAt(lk2, q, n),
         Grows(lk, lk2, q, n, h), NEW act, act = IF isJam(lk2, n) THEN "BOJ" ELSE "BOT"
  PROVE  /\ \A queue \in {"ACTIVITY", "MY_COLLISION", "SILENCE", "ANYEVENT"} : Served(lk, lk2, q, n, act, queue)
         /\ act = "BOJ" => Served(lk, lk2, q, n, act, "BOJ") /\ Served(lk, lk2, q, n, act, "EOJ")
         /\ act = "BOT" => Served(lk, lk2, q, n, act, "BOT") /\ Served(lk, lk2, q, n, act, "BMP")
         /\ act = "BOJ" => Spared(lk, lk2, q, "BOT") /\ Spared(lk, lk2, q, "BMP")
         /\ act = "BOT" => Spared(lk, lk2, q, "BOJ") /\ Spared(lk, lk2, q, "EOJ")
         /\ Spared(lk, lk2, q, "EOT") /\ Spared(lk, lk2, q, "EMP")
<1> DEFINE p0 == packet(lk2, n)
<1>1. /\ h \in Time .. LastHeard /\ n \in 0 .. Len(lk2.activity) /\ p0 \in 0 .. Len(lk2.activity)
      /\ "none" \in Infos /\ 0 \in 0 .. Len(lk2.activity)
      /\ About(lk2, q, "ACTIVITY", h, p0, "none")
      /\ About(lk2, q, "BOJ", h, 0, "none")
      /\ ~ isJam(lk2, n) => About(lk2, q, "BOT", h, p0, "none")
      /\ q \in lk2.activity[n].Receiver => About(lk2, q, "BMP", h, p0, "none")
      /\ About(lk2, q, "COLLISION", h, 0, "none") /\ About(lk2, q, "MY_COLLISION", h, 0, "none")
      /\ About(lk2, q, "ANYEVENT", h, p0, beginning(lk2, n))
      /\ beginning(lk2, n) \in Infos
  BY GrowsTells
<1>2. LastHeard \in Nat /\ Inf \in Nat /\ LastHeard < Inf /\ Time \in Nat /\ Time >= 1 /\ h \in Nat
  BY <1>1 DEF Aired
<1>3. h \in Time .. LastHeard /\ h <= h
  BY <1>1, <1>2
<1> HIDE DEF p0
<1>4. Served(lk, lk2, q, n, act, "ACTIVITY")
  <2>1. Gains(lk, lk2, q, "ACTIVITY", h) /\ Happens(lk2, q, "ACTIVITY", h)
    BY <1>3, GrowsMeans DEF Gains
  <2>2. ASSUME NEW e, NEW i, NEW e2 \in reschedule(lk2, q, n, act, "ACTIVITY", e, i),
               Due(lk, lk2, q, "ACTIVITY", e, i)
        PROVE  Turned(lk2, q, e, e2, i)
    <3>1. e2 \in sooner(e, i, answer(h, p0, "none"))
      BY <2>2 DEF reschedule, reschedule_act, p0
    <3>2. QED  BY <1>1, <2>1, <2>2, <3>1, ByGain
  <2>3. QED  BY <2>2, ServedIf
<1>5. Served(lk, lk2, q, n, act, "MY_COLLISION")
  <2>1. Gains(lk, lk2, q, "MY_COLLISION", h) /\ Happens(lk2, q, "MY_COLLISION", h)
    BY <1>3, GrowsMeans DEF Gains
  <2>2. ASSUME NEW e, NEW i, NEW e2 \in reschedule(lk2, q, n, act, "MY_COLLISION", e, i),
               Due(lk, lk2, q, "MY_COLLISION", e, i)
        PROVE  Turned(lk2, q, e, e2, i)
    <3>1. e2 \in sooner(e, i, answer(h, 0, "none"))
      BY <2>2 DEF reschedule, reschedule_myc
    <3>2. QED  BY <1>1, <2>1, <2>2, <3>1, ByGain
  <2>3. QED  BY <2>2, ServedIf
<1>6. Served(lk, lk2, q, n, act, "ANYEVENT")
  <2>1. Gains(lk, lk2, q, "ANYEVENT", h) /\ Happens(lk2, q, "ANYEVENT", h)
    BY <1>3, GrowsMeans DEF Gains
  <2>2. ASSUME NEW e, NEW i, NEW e2 \in reschedule(lk2, q, n, act, "ANYEVENT", e, i),
               Due(lk, lk2, q, "ANYEVENT", e, i)
        PROVE  Turned(lk2, q, e, e2, i)
    <3>1. \/ e.reqs[i].when <= h /\ e2 = e
          \/ e.reqs[i].when >= h /\ e2 \in retime(e, i, answer(h, p0, beginning(lk2, n)))
      BY <2>2 DEF reschedule, reschedule_aev, p0, packet, beginning
    <3>2. CASE e.reqs[i].when <= h /\ e2 = e
      BY <1>1, <2>1, <2>2, <3>2, ByGain
    <3>3. CASE e.reqs[i].when >= h /\ e2 \in retime(e, i, answer(h, p0, beginning(lk2, n)))
      BY <1>1, <2>1, <2>2, <3>3, ByGain
    <3>4. QED  BY <3>1, <3>2, <3>3
  <2>3. QED  BY <2>2, ServedIf
<1>7. Served(lk, lk2, q, n, act, "SILENCE")
  <2>1. Loses(lk, lk2, q, "SILENCE", h)
    BY <1>3, GrowsMeans DEF Loses
  <2>2. silenceTime(lk2, q) \in 1 .. Inf /\ Comes(lk2, q, "SILENCE", Time, silenceTime(lk2, q))
    <3>1. Comes(lk2, q, "SILENCE", Time, silenceTime(lk2, q))
      BY RightSilence DEF Right, answer
    <3>2. QED  BY <1>2, <3>1 DEF Comes
  <2>3. ASSUME NEW e, NEW i, NEW e2 \in reschedule(lk2, q, n, act, "SILENCE", e, i),
               Due(lk, lk2, q, "SILENCE", e, i)
        PROVE  Turned(lk2, q, e, e2, i)
    <3>1. e2 \in IF e.reqs[i].when < h THEN {e} ELSE later(e, i, silenceTime(lk2, q))
      BY <2>3 DEF reschedule, reschedule_sil, Endings
    <3>2. QED  BY <1>1, <2>1, <2>2, <2>3, <3>1, ByLoss
  <2>4. QED  BY <2>3, ServedIf
<1>8. ASSUME act = "BOJ"
      PROVE  Served(lk, lk2, q, n, act, "BOJ")
  <2>1. Gains(lk, lk2, q, "BOJ", h) /\ Happens(lk2, q, "BOJ", h)
    BY <1>3, <1>8, GrowsMeans DEF Gains
  <2>2. ASSUME NEW e, NEW i, NEW e2 \in reschedule(lk2, q, n, act, "BOJ", e, i), Due(lk, lk2, q, "BOJ", e, i)
        PROVE  Turned(lk2, q, e, e2, i)
    <3>1. e2 \in sooner(e, i, answer(h, 0, "none"))
      BY <1>8, <2>2 DEF reschedule, reschedule_act, packet
    <3>2. QED  BY <1>1, <2>1, <2>2, <3>1, ByGain
  <2>3. QED  BY <2>2, ServedIf
<1>9. ASSUME act = "BOJ"
      PROVE  Served(lk, lk2, q, n, act, "EOJ")
  <2>1. Loses(lk, lk2, q, "EOJ", h)
    BY <1>3, <1>9, GrowsMeans DEF Loses
  <2>2. eojTime(lk2, q) \in 1 .. Inf /\ Comes(lk2, q, "EOJ", Time, eojTime(lk2, q))
    <3>1. Comes(lk2, q, "EOJ", Time, eojTime(lk2, q))
      BY RightEOJ DEF Right, answer
    <3>2. QED  BY <1>2, <3>1 DEF Comes
  <2>3. ASSUME NEW e, NEW i, NEW e2 \in reschedule(lk2, q, n, act, "EOJ", e, i), Due(lk, lk2, q, "EOJ", e, i)
        PROVE  Turned(lk2, q, e, e2, i)
    <3>1. e2 \in IF e.reqs[i].when < h THEN {e} ELSE later(e, i, eojTime(lk2, q))
      BY <1>9, <2>3 DEF reschedule, reschedule_eoj
    <3>2. QED  BY <1>1, <2>1, <2>2, <2>3, <3>1, ByLoss
  <2>4. QED  BY <2>3, ServedIf
<1>10. ASSUME act = "BOT"
       PROVE  Served(lk, lk2, q, n, act, "BOT")
  <2>1. Gains(lk, lk2, q, "BOT", h) /\ Happens(lk2, q, "BOT", h)
    BY <1>3, <1>10, GrowsMeans DEF Gains
  <2>2. ASSUME NEW e, NEW i, NEW e2 \in reschedule(lk2, q, n, act, "BOT", e, i), Due(lk, lk2, q, "BOT", e, i)
        PROVE  Turned(lk2, q, e, e2, i)
    <3>1. e2 \in sooner(e, i, answer(h, p0, "none"))
      BY <2>2 DEF reschedule, reschedule_act, p0
    <3>2. QED  BY <1>1, <1>10, <2>1, <2>2, <3>1, ByGain
  <2>3. QED  BY <2>2, ServedIf
<1>11. q \notin lk2.activity[n].Receiver => Gains(lk, lk2, q, "BMP", Inf)
  BY GrowsMeans DEF Gains
<1>12. ASSUME act = "BOT"
       PROVE  Served(lk, lk2, q, n, act, "BMP")
  <2>1. CASE q \in lk2.activity[n].Receiver
    <3>1. Gains(lk, lk2, q, "BMP", h) /\ Happens(lk2, q, "BMP", h)
      BY <1>3, <2>1, GrowsMeans DEF Gains
    <3>2. ASSUME NEW e, NEW i, NEW e2 \in reschedule(lk2, q, n, act, "BMP", e, i), Due(lk, lk2, q, "BMP", e, i)
          PROVE  Turned(lk2, q, e, e2, i)
      <4>1. e2 \in sooner(e, i, answer(h, p0, "none"))
        BY <2>1, <3>2 DEF reschedule, reschedule_mpa, reschedule_act, p0
      <4>2. QED  BY <1>1, <2>1, <3>1, <3>2, <4>1, ByGain
    <3>3. QED  BY <3>2, ServedIf
  <2>2. CASE q \notin lk2.activity[n].Receiver
    <3>1. ASSUME NEW e, NEW i, NEW e2 \in reschedule(lk2, q, n, act, "BMP", e, i), Due(lk, lk2, q, "BMP", e, i)
          PROVE  Turned(lk2, q, e, e2, i)
      <4>1. e2 = e
        BY <2>2, <3>1 DEF reschedule, reschedule_mpa
      <4>2. QED  BY <1>11, <2>2, <3>1, <4>1, ByNothing
    <3>2. QED  BY <3>1, ServedIf
  <2>3. QED  BY <2>1, <2>2
<1>13. act = "BOJ" => Spared(lk, lk2, q, "BOT") /\ Spared(lk, lk2, q, "BMP")
  <2>1. act = "BOJ" => Gains(lk, lk2, q, "BOT", Inf)
    BY GrowsMeans DEF Gains
  <2>2. act = "BOJ" => q \notin lk2.activity[n].Receiver
    BY DEF Grows
  <2>3. QED  BY <1>11, <2>1, <2>2, ByNothing
<1>14. act = "BOT" => Spared(lk, lk2, q, "BOJ") /\ Spared(lk, lk2, q, "EOJ")
  <2>1. act = "BOT" => Gains(lk, lk2, q, "BOJ", Inf) /\ Gains(lk, lk2, q, "EOJ", Inf)
    BY GrowsMeans DEF Gains
  <2>2. QED  BY <2>1, ByNothing
<1>15. Spared(lk, lk2, q, "EOT") /\ Spared(lk, lk2, q, "EMP")
  <2>1. Gains(lk, lk2, q, "EOT", Inf) /\ Gains(lk, lk2, q, "EMP", Inf)
    BY GrowsMeans DEF Gains
  <2>2. QED  BY <2>1, ByNothing
<1>16. QED
  BY <1>4, <1>5, <1>6, <1>7, <1>8, <1>9, <1>10, <1>12, <1>13, <1>14, <1>15

\* A packet collides with what is heard when it comes; only the jams among that are left out.
LEMMA StartCollides ==
  ASSUME NEW lk, NEW lk2, NEW q, Aired(lk, q), Aired(lk2, q), NEW n, NEW h, h = hearsAt(lk2, q, n),
         Grows(lk, lk2, q, n, h), NEW act, act = IF isJam(lk2, n) THEN "BOJ" ELSE "BOT"
  PROVE  Served(lk, lk2, q, n, act, "COLLISION")
<1>1. /\ h \in Time .. LastHeard /\ "none" \in Infos /\ 0 \in 0 .. Len(lk2.activity)
      /\ About(lk2, q, "COLLISION", h, 0, "none")
  BY GrowsTells
<1>2. /\ LastHeard \in Nat /\ Inf \in Nat /\ LastHeard < Inf /\ Time \in Nat /\ Time >= 1 /\ h \in Nat
      /\ h <= h /\ h \in 1 .. Inf
  BY <1>1 DEF Aired
<1>3. Gains(lk, lk2, q, "COLLISION", h)
  BY GrowsMeans DEF Gains
<1>4. CASE act = "BOJ"
  <2>1. Happens(lk2, q, "COLLISION", h)
    BY <1>1, <1>2, <1>4, GrowsMeans
  <2>2. ASSUME NEW e, NEW i, NEW e2 \in reschedule(lk2, q, n, act, "COLLISION", e, i),
               Due(lk, lk2, q, "COLLISION", e, i)
        PROVE  Turned(lk2, q, e, e2, i)
    <3>1. e2 \in sooner(e, i, answer(h, 0, "none"))
      BY <1>4, <2>2 DEF reschedule, reschedule_col, Endings
    <3>2. QED  BY <1>1, <1>3, <2>1, <2>2, <3>1, ByGain
  <2>3. QED  BY <2>2, ServedIf
<1>5. CASE act = "BOT"
  <2>1. PICK c : c = collisionTime(lk2, q, FALSE)
    OBVIOUS
  <2>2. /\ c = Inf \/ (c \in Time .. LastHeard /\ Happens(lk2, q, "COLLISION", c))
        /\ \A u \in Time .. LastHeard : \A x, y \in Heard(lk2, q) :
             /\ x # y /\ ~ isJam(lk2, x) /\ ~ isJam(lk2, y)
             /\ On(lk2, q, x, u) /\ On(lk2, q, y, u)
             => c <= u
    <3>1. Collides(lk2, q, c, FALSE)
      BY <2>1, CollisionTime
    <3>2. QED  BY <3>1 DEF Collides, On
  <2>3. c \in 1 .. Inf
    BY <1>2, <2>2
  \* A time at which there is a collision only in lk2.
  <2>4. ASSUME NEW u \in Time .. LastHeard, Happens(lk2, q, "COLLISION", u)
        PROVE  Happens(lk, q, "COLLISION", u) \/ c <= u
    <3>1. SUFFICES ASSUME ~ Happens(lk, q, "COLLISION", u)
                   PROVE  c <= u
      OBVIOUS
    <3>2. PICK m \in Heard(lk, q) : h <= u /\ On(lk, q, m, u)
      BY <1>5, <2>4, <3>1, GrowsMeans
    <3>3. ~ isJam(lk, m)
      <4>1. Means(lk, q, u)
        BY MeansThat
      <4>2. QED  BY <3>1, <3>2, <4>1 DEF Means
    <3>4. /\ m \in Heard(lk2, q) /\ n \in Heard(lk2, q) /\ m # n
          /\ ~ isJam(lk2, m) /\ ~ isJam(lk2, n) /\ On(lk2, q, m, u)
      BY <1>5, <3>2, <3>3 DEF Grows, Same, isJam, On
    <3>5. On(lk2, q, n, u)
      BY <1>2, <3>2 DEF Grows, On
    <3>6. QED  BY <2>2, <3>4, <3>5
  <2>5. ASSUME NEW e, NEW i, NEW e2 \in reschedule(lk2, q, n, act, "COLLISION", e, i),
               Due(lk, lk2, q, "COLLISION", e, i)
        PROVE  Turned(lk2, q, e, e2, i)
    <3>1. /\ Formed(lk2, q, e) /\ i \in DOMAIN e.reqs /\ e.reqs[i].queue = "COLLISION"
          /\ e.reqs[i].when \in 1 .. Inf /\ Comes(lk, q, "COLLISION", Time, e.reqs[i].when)
      BY <2>5 DEF Due
    <3>2. e2 \in IF e.reqs[i].when <= h THEN {e} ELSE sooner(e, i, answer(c, 0, "none"))
      BY <1>5, <2>1, <2>5 DEF reschedule, reschedule_col, Endings
    <3>3. PICK w : w = e.reqs[i].when
      OBVIOUS
    <3>4. CASE w <= h
      <4>1. Comes(lk2, q, "COLLISION", Time, w)
        BY <1>2, <1>3, <3>1, <3>3, <3>4, GainsKeeps
      <4>2. QED  BY <3>1, <3>2, <3>3, <3>4, <4>1, Kept_Turns DEF Timely
    <3>5. CASE ~ (w <= h)
      <4>1. PICK a : a = answer(c, 0, "none")
        OBVIOUS
      <4>2. a.when = c /\ a.pkt = 0 /\ a.info = "none"
        BY <4>1 DEF answer
      <4>3. \A u \in Time .. LastHeard : Happens(lk2, q, "COLLISION", u) => w <= u \/ c <= u
        BY <2>4, <3>1, <3>3 DEF Comes
      <4>4. w \in Nat /\ c \in Nat
        BY <1>2, <2>3, <3>1, <3>3
      <4>5. w <= c => Comes(lk2, q, "COLLISION", Time, w)
        <5>1. w = Inf \/ (w \in Time .. LastHeard /\ Happens(lk2, q, "COLLISION", w))
          BY <1>3, <3>1, <3>3 DEF Comes, Gains
        <5>2. w <= c => \A u \in Time .. LastHeard : Happens(lk2, q, "COLLISION", u) => w <= u
          BY <1>2, <4>3, <4>4
        <5>3. QED  BY <5>1, <5>2 DEF Comes
      <4>6. c < w => Comes(lk2, q, "COLLISION", Time, c)
        <5>1. c < w => \A u \in Time .. LastHeard : Happens(lk2, q, "COLLISION", u) => c <= u
          BY <1>2, <4>3, <4>4
        <5>2. QED  BY <2>2, <5>1 DEF Comes
      <4>7. About(lk2, q, "COLLISION", c, 0, "none")
        BY DEF About
      <4>8. e.reqs[i].when <= a.when => Timely(lk2, q, e.reqs[i])
        BY <3>1, <3>3, <4>2, <4>5 DEF Timely
      <4>9. a.when < e.reqs[i].when => Right(lk2, q, e.reqs[i].queue, a)
        BY <1>1, <3>1, <3>3, <4>2, <4>6, <4>7 DEF Right
      <4>10. e2 \in sooner(e, i, a)
        BY <3>2, <3>3, <3>5, <4>1
      <4>11. QED  BY <2>3, <3>1, <4>2, <4>8, <4>9, <4>10, SoonerTurns
    <3>6. QED  BY <3>4, <3>5
  <2>6. QED  BY <2>5, ServedIf
<1>6. QED  BY <1>4, <1>5

\* When an activity ends, what a request for its end is told.
LEMMA CeasesTells ==
  ASSUME NEW lk, NEW lk2, NEW q, Aired(lk2, q), NEW n, NEW h, Ceases(lk, lk2, q, n, h),
         NEW act, act = ending(lk2, n)
  PROVE  /\ h \in Time .. LastHeard /\ packet(lk2, n) \in 0 .. Len(lk2.activity) /\ "none" \in Infos
         /\ act \in {"EOT", "EOJ", "ABTPACKET"} /\ act \in Infos
         /\ (IF act = "EOT" THEN n ELSE 0) \in 0 .. Len(lk2.activity)
         /\ act = "EOJ" <=> isJam(lk2, n)
         /\ act = "EOT" <=> lk2.activity[n].Type = "TRANSMISSION"
         /\ act = "EOT" => About(lk2, q, "EOT", h, packet(lk2, n), "none")
         /\ act = "EOT" /\ q \in lk2.activity[n].Receiver => About(lk2, q, "EMP", h, packet(lk2, n), "none")
         /\ About(lk2, q, "ANYEVENT", h, IF act = "EOT" THEN n ELSE 0, act)
<1>1. n \in Heard(lk2, q) /\ ends(lk2, q, n) = h /\ h \in Time .. LastHeard
  BY DEF Ceases
<1>2. n \in 1 .. Len(lk2.activity) /\ Len(lk2.activity) \in Nat
      /\ lk2.activity[n].Type \in {"JAM", "TRANSMISSION", "TRANSMISSION_A"}
  BY <1>1 DEF Aired
<1>3. packet(lk2, n) \in 0 .. Len(lk2.activity) /\ (IF act = "EOT" THEN n ELSE 0) \in 0 .. Len(lk2.activity)
  BY <1>2 DEF packet
<1>4. /\ act \in {"EOT", "EOJ", "ABTPACKET"} /\ act \in Infos
      /\ act = "EOJ" <=> isJam(lk2, n)
      /\ act = "EOT" <=> lk2.activity[n].Type = "TRANSMISSION"
  BY <1>2 DEF ending, isJam, Infos
<1>5. act = "EOT" => packet(lk2, n) = n
  BY <1>4 DEF packet
<1>6. act = "EOT" => About(lk2, q, "EOT", h, packet(lk2, n), "none")
  BY <1>1, <1>5 DEF About
<1>7. act = "EOT" /\ q \in lk2.activity[n].Receiver => About(lk2, q, "EMP", h, packet(lk2, n), "none")
  BY <1>1, <1>5 DEF About
<1>8. About(lk2, q, "ANYEVENT", h, IF act = "EOT" THEN n ELSE 0, act)
  BY <1>1, <1>5 DEF About
<1>9. QED  BY <1>1, <1>3, <1>4, <1>6, <1>7, <1>8 DEF Infos

\* The event of this queue is heard before the activity that has ended ceases.
LEMMA LossIsLater ==
  ASSUME NEW lk, NEW lk2, NEW q, Aired(lk, q), Aired(lk2, q), NEW n, NEW h, Ceases(lk, lk2, q, n, h),
         NEW queue, Loses(lk, lk2, q, queue, h),
         \A t \in Time .. LastHeard : starts(lk, q, n) <= t => Happens(lk, q, queue, t)
  PROVE  Spared(lk, lk2, q, queue)
<1> SUFFICES ASSUME NEW w \in 1 .. Inf, Comes(lk, q, queue, Time, w)
             PROVE  Comes(lk2, q, queue, Time, w)
  BY DEF Spared
<1>1. LastHeard \in Nat /\ Inf \in Nat /\ LastHeard < Inf /\ Time \in Nat /\ starts(lk, q, n) \in Nat
  BY DEF Aired, Ceases
<1>2. h \in Nat /\ Time < h /\ h <= LastHeard /\ starts(lk, q, n) < h
  BY <1>1 DEF Ceases
<1>3. PICK t \in Time .. LastHeard : t < h /\ starts(lk, q, n) <= t
  <2>1. CASE starts(lk, q, n) <= Time
    BY <1>1, <1>2, <2>1
  <2>2. CASE Time <= starts(lk, q, n)
    BY <1>1, <1>2, <2>2
  <2>3. QED  BY <1>1, <2>1, <2>2
<1>4. w <= t
  BY <1>3 DEF Comes
<1>5. w < h
  BY <1>1, <1>2, <1>3, <1>4
<1>6. QED  BY <1>1, <1>2, <1>5, LosesKeeps

LEMMA StopServes ==
  ASSUME NEW lk, NEW lk2, NEW q, Aired(lk, q), Aired(lk2, q), NEW n, NEW h, h = hearsAt(lk2, q, n),
         Ceases(lk, lk2, q, n, h), NEW act, act = ending(lk2, n)
  PROVE  /\ \A queue \in {"SILENCE", "ANYEVENT"} : Served(lk, lk2, q, n, act, queue)
         /\ act = "EOJ" => Served(lk, lk2, q, n, act, "EOJ")
         /\ act # "EOJ" => Served(lk, lk2, q, n, act, "COLLISION")
         /\ act = "EOT" => Served(lk, lk2, q, n, act, "EOT") /\ Served(lk, lk2, q, n, act, "EMP")
         /\ \A queue \in {"ACTIVITY", "MY_COLLISION", "BOT", "BMP", "BOJ"} : Spared(lk, lk2, q, queue)
         /\ act = "EOJ" => Spared(lk, lk2, q, "COLLISION")
         /\ act # "EOJ" => Spared(lk, lk2, q, "EOJ")
         /\ act # "EOT" => Spared(lk, lk2, q, "EOT") /\ Spared(lk, lk2, q, "EMP")
<1> DEFINE p0 == packet(lk2, n)
           p1 == IF act = "EOT" THEN n ELSE 0
<1>1. /\ h \in Time .. LastHeard /\ p0 \in 0 .. Len(lk2.activity) /\ "none" \in Infos
      /\ act \in {"EOT", "EOJ", "ABTPACKET"} /\ act \in Infos
      /\ p1 \in 0 .. Len(lk2.activity)
      /\ act = "EOJ" <=> isJam(lk2, n)
      /\ act = "EOT" <=> lk2.activity[n].Type = "TRANSMISSION"
      /\ act = "EOT" => About(lk2, q, "EOT", h, p0, "none")
      /\ act = "EOT" /\ q \in lk2.activity[n].Receiver => About(lk2, q, "EMP", h, p0, "none")
      /\ About(lk2, q, "ANYEVENT", h, p1, act)
  BY CeasesTells
<1>2. LastHeard \in Nat /\ Inf \in Nat /\ LastHeard < Inf /\ Time \in Nat /\ Time >= 1 /\ h \in Nat /\ h <= h
  BY <1>1 DEF Aired
<1>3. isJam(lk, n) <=> act = "EOJ"
  BY <1>1 DEF Ceases
<1> HIDE DEF p0, p1
<1>4. Served(lk, lk2, q, n, act, "SILENCE")
  <2>1. Gains(lk, lk2, q, "SILENCE", h)
    BY CeasesMeans DEF Gains
  <2>2. silenceTime(lk2, q) \in 1 .. Inf /\ Comes(lk2, q, "SILENCE", Time, silenceTime(lk2, q))
    <3>1. Comes(lk2, q, "SILENCE", Time, silenceTime(lk2, q))
      BY RightSilence DEF Right, answer
    <3>2. QED  BY <1>2, <3>1 DEF Comes
  <2>3. ASSUME NEW e, NEW i, NEW e2 \in reschedule(lk2, q, n, act, "SILENCE", e, i),
               Due(lk, lk2, q, "SILENCE", e, i)
        PROVE  Turned(lk2, q, e, e2, i)
    <3>1. e2 \in IF e.reqs[i].when <= h THEN {e} ELSE again(e, i, silenceTime(lk2, q))
      BY <1>1, <2>3 DEF reschedule, reschedule_sil, Endings
    <3>2. QED  BY <1>1, <2>1, <2>2, <2>3, <3>1, ByAgain
  <2>4. QED  BY <2>3, ServedIf
<1>5. Served(lk, lk2, q, n, act, "ANYEVENT")
  <2>1. Gains(lk, lk2, q, "ANYEVENT", h) /\ Happens(lk2, q, "ANYEVENT", h)
    BY <1>1, <1>2, CeasesMeans DEF Gains
  <2>2. ASSUME NEW e, NEW i, NEW e2 \in reschedule(lk2, q, n, act, "ANYEVENT", e, i),
               Due(lk, lk2, q, "ANYEVENT", e, i)
        PROVE  Turned(lk2, q, e, e2, i)
    <3>1. \/ e.reqs[i].when <= h /\ e2 = e
          \/ e.reqs[i].when >= h /\ e2 \in retime(e, i, answer(h, p1, act))
      BY <1>1, <2>2 DEF reschedule, reschedule_aev, p1
    <3>2. CASE e.reqs[i].when <= h /\ e2 = e
      BY <1>1, <2>1, <2>2, <3>2, ByGain
    <3>3. CASE e.reqs[i].when >= h /\ e2 \in retime(e, i, answer(h, p1, act))
      BY <1>1, <2>1, <2>2, <3>3, ByGain
    <3>4. QED  BY <3>1, <3>2, <3>3
  <2>3. QED  BY <2>2, ServedIf
<1>6. ASSUME act = "EOJ"
      PROVE  Served(lk, lk2, q, n, act, "EOJ")
  <2>1. Gains(lk, lk2, q, "EOJ", h)
    BY CeasesMeans DEF Gains
  <2>2. eojTime(lk2, q) \in 1 .. Inf /\ Comes(lk2, q, "EOJ", Time, eojTime(lk2, q))
    <3>1. Comes(lk2, q, "EOJ", Time, eojTime(lk2, q))
      BY RightEOJ DEF Right, answer
    <3>2. QED  BY <1>2, <3>1 DEF Comes
  <2>3. ASSUME NEW e, NEW i, NEW e2 \in reschedule(lk2, q, n, act, "EOJ", e, i), Due(lk, lk2, q, "EOJ", e, i)
        PROVE  Turned(lk2, q, e, e2, i)
    <3>1. e2 \in IF e.reqs[i].when <= h THEN {e} ELSE again(e, i, eojTime(lk2, q))
      BY <1>6, <2>3 DEF reschedule, reschedule_eoj
    <3>2. QED  BY <1>1, <2>1, <2>2, <2>3, <3>1, ByAgain
  <2>4. QED  BY <2>3, ServedIf
<1>7. ASSUME act # "EOJ"
      PROVE  Served(lk, lk2, q, n, act, "COLLISION")
  <2>1. Loses(lk, lk2, q, "COLLISION", h)
    BY CeasesMeans DEF Loses
  <2>2. PICK c : c = collisionTime(lk2, q, TRUE)
    OBVIOUS
  <2>3. c \in 1 .. Inf /\ Comes(lk2, q, "COLLISION", Time, c)
    <3>1. Comes(lk2, q, "COLLISION", Time, c)
      BY <2>2, RightCollision DEF Right, answer
    <3>2. QED  BY <1>2, <3>1 DEF Comes
  <2>4. ASSUME NEW e, NEW i, NEW e2 \in reschedule(lk2, q, n, act, "COLLISION", e, i),
               Due(lk, lk2, q, "COLLISION", e, i)
        PROVE  Turned(lk2, q, e, e2, i)
    <3>1. e2 \in IF e.reqs[i].when < h THEN {e} ELSE later(e, i, c)
      <4>1. act \in Endings /\ act # "BOJ" /\ act # "BOT"
        BY <1>1 DEF Endings
      <4>2. QED  BY <2>2, <2>4, <4>1 DEF reschedule, reschedule_col
    <3>2. QED  BY <1>1, <2>1, <2>3, <2>4, <3>1, ByLoss
  <2>5. QED  BY <2>4, ServedIf
<1>8. ASSUME act = "EOT"
      PROVE  Served(lk, lk2, q, n, act, "EOT")
  <2>1. Gains(lk, lk2, q, "EOT", h) /\ Happens(lk2, q, "EOT", h)
    BY <1>1, <1>2, <1>8, CeasesMeans DEF Gains
  <2>2. ASSUME NEW e, NEW i, NEW e2 \in reschedule(lk2, q, n, act, "EOT", e, i), Due(lk, lk2, q, "EOT", e, i)
        PROVE  Turned(lk2, q, e, e2, i)
    <3>1. e2 \in sooner(e, i, answer(h, p0, "none"))
      BY <2>2 DEF reschedule, reschedule_act, p0
    <3>2. QED  BY <1>1, <1>8, <2>1, <2>2, <3>1, ByGain
  <2>3. QED  BY <2>2, ServedIf
<1>9. ~ (act = "EOT" /\ q \in lk2.activity[n].Receiver) => Gains(lk, lk2, q, "EMP", Inf)
  BY <1>1, CeasesMeans DEF Gains
<1>10. ASSUME act = "EOT"
       PROVE  Served(lk, lk2, q, n, act, "EMP")
  <2>1. CASE q \in lk2.activity[n].Receiver
    <3>1. Gains(lk, lk2, q, "EMP", h) /\ Happens(lk2, q, "EMP", h)
      BY <1>1, <1>2, <1>10, <2>1, CeasesMeans DEF Gains
    <3>2. ASSUME NEW e, NEW i, NEW e2 \in reschedule(lk2, q, n, act, "EMP", e, i), Due(lk, lk2, q, "EMP", e, i)
          PROVE  Turned(lk2, q, e, e2, i)
      <4>1. e2 \in sooner(e, i, answer(h, p0, "none"))
        BY <2>1, <3>2 DEF reschedule, reschedule_mpa, reschedule_act, p0
      <4>2. QED  BY <1>1, <1>10, <2>1, <3>1, <3>2, <4>1, ByGain
    <3>3. QED  BY <3>2, ServedIf
  <2>2. CASE q \notin lk2.activity[n].Receiver
    <3>1. ASSUME NEW e, NEW i, NEW e2 \in reschedule(lk2, q, n, act, "EMP", e, i), Due(lk, lk2, q, "EMP", e, i)
          PROVE  Turned(lk2, q, e, e2, i)
      <4>1. e2 = e
        BY <2>2, <3>1 DEF reschedule, reschedule_mpa
      <4>2. QED  BY <1>9, <2>2, <3>1, <4>1, ByNothing
    <3>2. QED  BY <3>1, ServedIf
  <2>3. QED  BY <2>1, <2>2
<1>11. Spared(lk, lk2, q, "ACTIVITY") /\ Spared(lk, lk2, q, "MY_COLLISION")
  <2>1. Loses(lk, lk2, q, "ACTIVITY", h) /\ Loses(lk, lk2, q, "MY_COLLISION", h)
    BY CeasesMeans DEF Loses
  <2>2. \A t \in Time .. LastHeard : starts(lk, q, n) <= t =>
          Happens(lk, q, "ACTIVITY", t) /\ Happens(lk, q, "MY_COLLISION", t)
    BY CeasesMeans
  <2>3. QED  BY <2>1, <2>2, LossIsLater
<1>12. Spared(lk, lk2, q, "BOT") /\ Spared(lk, lk2, q, "BMP")
  <2>1. Gains(lk, lk2, q, "BOT", Inf) /\ Gains(lk, lk2, q, "BMP", Inf)
    BY CeasesMeans DEF Gains
  <2>2. QED  BY <2>1, ByNothing
<1>13. Spared(lk, lk2, q, "BOJ") /\ (act = "EOJ" => Spared(lk, lk2, q, "COLLISION"))
  <2>1. CASE act = "EOJ"
    <3>1. Loses(lk, lk2, q, "BOJ", h) /\ Loses(lk, lk2, q, "COLLISION", h)
      BY CeasesMeans DEF Loses
    <3>2. \A t \in Time .. LastHeard : starts(lk, q, n) <= t =>
            Happens(lk, q, "BOJ", t) /\ Happens(lk, q, "COLLISION", t)
      BY <1>3, <2>1, CeasesMeans
    <3>3. QED  BY <3>1, <3>2, LossIsLater
  <2>2. CASE act # "EOJ"
    <3>1. Gains(lk, lk2, q, "BOJ", Inf)
      BY <1>3, <2>2, CeasesMeans DEF Gains
    <3>2. QED  BY <2>2, <3>1, ByNothing
  <2>3. QED  BY <2>1, <2>2
<1>14. act # "EOJ" => Spared(lk, lk2, q, "EOJ")
  <2>1. act # "EOJ" => Gains(lk, lk2, q, "EOJ", Inf)
    BY <1>3, CeasesMeans DEF Gains
  <2>2. QED  BY <2>1, ByNothing
<1>15. act # "EOT" => Spared(lk, lk2, q, "EOT") /\ Spared(lk, lk2, q, "EMP")
  <2>1. act # "EOT" => Gains(lk, lk2, q, "EOT", Inf)
    BY <1>1, CeasesMeans DEF Gains
  <2>2. QED  BY <1>9, <2>1, ByNothing
<1>16. QED
  BY <1>4, <1>5, <1>6, <1>7, <1>8, <1>10, <1>11, <1>12, <1>13, <1>14, <1>15

-----------------------------------------------------------------------------
(* A request that was right is still about the same packet                   *)

LEMMA AboutSame ==
  ASSUME NEW lk, NEW lk2, NEW q, Heard(lk, q) \subseteq Heard(lk2, q),
         \A m \in Heard(lk, q) : Same(lk, lk2, q, m),
         NEW queue, NEW w, NEW pkt, NEW info, About(lk, q, queue, w, pkt, info)
  PROVE  About(lk2, q, queue, w, pkt, info)
<1>1. \A m \in Heard(lk, q) :
        /\ m \in Heard(lk2, q)
        /\ starts(lk2, q, m) = starts(lk, q, m) /\ ends(lk2, q, m) = ends(lk, q, m)
        /\ lk2.activity[m] = lk.activity[m]
        /\ packet(lk2, m) = packet(lk, m) /\ beginning(lk2, m) = beginning(lk, m) /\ ending(lk2, m) = ending(lk, m)
  BY DEF Same, packet, isJam, beginning, ending
<1>2. CASE queue \in {"BMP", "EMP"}
  BY <1>1, <1>2 DEF About
<1>3. CASE queue = "ANYEVENT"
  BY <1>1, <1>3 DEF About
<1>4. CASE queue = "ACTIVITY"
  BY <1>1, <1>4 DEF About
<1>5. CASE queue \notin {"BMP", "EMP", "ANYEVENT", "ACTIVITY"}
  BY <1>1, <1>5 DEF About
<1>6. QED  BY <1>2, <1>3, <1>4, <1>5

LEMMA AboutCeased ==
  ASSUME NEW lk, NEW lk2, NEW q, Aired(lk, q), Aired(lk2, q), NEW n, NEW h, Ceases(lk, lk2, q, n, h),
         NEW queue, NEW w \in 1 .. Inf, Comes(lk, q, queue, Time, w),
         NEW pkt, NEW info, About(lk, q, queue, w, pkt, info)
  PROVE  About(lk2, q, queue, w, pkt, info)
<1>1. \A m \in Heard(lk, q) \ {n} :
        /\ starts(lk2, q, m) = starts(lk, q, m) /\ ends(lk2, q, m) = ends(lk, q, m)
        /\ lk2.activity[m] = lk.activity[m]
        /\ packet(lk2, m) = packet(lk, m) /\ beginning(lk2, m) = beginning(lk, m) /\ ending(lk2, m) = ending(lk, m)
  BY DEF Ceases, Same, packet, isJam, beginning, ending
<1>2. /\ Heard(lk2, q) = Heard(lk, q) /\ n \in Heard(lk, q)
      /\ starts(lk2, q, n) = starts(lk, q, n) /\ ends(lk, q, n) = Inf /\ ends(lk2, q, n) = h
      /\ lk2.activity[n].Receiver = lk.activity[n].Receiver
      /\ packet(lk2, n) = packet(lk, n) /\ beginning(lk2, n) = beginning(lk, n)
  BY DEF Ceases, packet, beginning
<1>3. CASE queue \in {"BMP", "EMP"}
  BY <1>1, <1>2, <1>3 DEF About
<1>4. CASE queue = "ANYEVENT"
  BY <1>1, <1>2, <1>4 DEF About
<1>5. CASE queue = "ACTIVITY"
  <2>1. /\ LastHeard \in Nat /\ Inf \in Nat /\ LastHeard < Inf /\ Time \in Nat /\ starts(lk, q, n) \in Nat
        /\ h \in Nat /\ Time < h /\ h <= LastHeard /\ starts(lk, q, n) < h
    BY DEF Aired, Ceases
  <2>2. PICK t \in Time .. LastHeard : t < h /\ starts(lk, q, n) <= t
    <3>1. CASE starts(lk, q, n) <= Time
      BY <2>1, <3>1
    <3>2. CASE Time <= starts(lk, q, n)
      BY <2>1, <3>2
    <3>3. QED  BY <2>1, <3>1, <3>2
  <2>3. w < h
    <3>1. Happens(lk, q, "ACTIVITY", t)
      BY <2>2, CeasesMeans
    <3>2. w <= t
      BY <1>5, <3>1 DEF Comes
    <3>3. QED  BY <2>1, <2>2, <3>2
  <2>4. w # Inf
    BY <2>1, <2>3
  <2>5. PICK m \in Heard(lk, q) : starts(lk, q, m) <= w /\ w < ends(lk, q, m) /\ pkt = packet(lk, m)
    BY <1>5, <2>4 DEF About
  <2>6. starts(lk2, q, m) <= w /\ w < ends(lk2, q, m) /\ pkt = packet(lk2, m)
    BY <1>1, <1>2, <2>3, <2>5
  <2>7. QED  BY <1>2, <1>5, <2>5, <2>6 DEF About
<1>6. CASE queue \notin {"BMP", "EMP", "ANYEVENT", "ACTIVITY"}
  BY <1>1, <1>2, <1>6 DEF About
<1>7. QED  BY <1>3, <1>4, <1>5, <1>6

\* lk2 is lk after an operation of another port, as port q hears it.
Follows(lk, lk2, q, n) ==
  /\ Aired(lk, q) /\ Aired(lk2, q) /\ Len(lk.activity) <= Len(lk2.activity)
  /\ \/ Unheard(lk, lk2, q) \/ Grows(lk, lk2, q, n, hearsAt(lk2, q, n))
     \/ Ceases(lk, lk2, q, n, hearsAt(lk2, q, n))

LEMMA StillAbout ==
  ASSUME NEW lk, NEW lk2, NEW q, NEW n, Follows(lk, lk2, q, n),
         NEW queue, NEW w \in 1 .. Inf, Comes(lk, q, queue, Time, w),
         NEW pkt, NEW info, About(lk, q, queue, w, pkt, info)
  PROVE  About(lk2, q, queue, w, pkt, info)
<1>1. Aired(lk, q) /\ Aired(lk2, q)
  BY DEF Follows
<1>2. CASE Unheard(lk, lk2, q)
  BY <1>2, AboutSame DEF Unheard
<1>3. CASE Grows(lk, lk2, q, n, hearsAt(lk2, q, n))
  BY <1>3, AboutSame DEF Grows
<1>4. CASE Ceases(lk, lk2, q, n, hearsAt(lk2, q, n))
  BY <1>1, <1>4, AboutCeased
<1>5. QED  BY <1>2, <1>3, <1>4 DEF Follows

\* An event whose requests are right; whether they are still in time is another question.
LEMMA StillFormed ==
  ASSUME NEW lk, NEW lk2, NEW q, NEW n, Follows(lk, lk2, q, n),
         NEW e, Formed(lk, q, e), \A i \in DOMAIN e.reqs : Timely(lk, q, e.reqs[i])
  PROVE  Formed(lk2, q, e)
<1>1. Len(lk.activity) <= Len(lk2.activity) /\ Len(lk.activity) \in Nat /\ Len(lk2.activity) \in Nat
  BY DEF Follows, Aired
<1>2. RequestsOf(lk) \subseteq RequestsOf(lk2)
  BY <1>1 DEF RequestsOf
<1>3. e.reqs \in Seq(RequestsOf(lk2))
  <2>1. e.reqs \in Seq(RequestsOf(lk))
    BY DEF Formed
  <2> HIDE DEF RequestsOf
  <2>2. QED  BY <1>2, <2>1
<1>4. ASSUME NEW i \in DOMAIN e.reqs
      PROVE  Asked(lk2, q, e.reqs[i])
  <2>1. Asked(lk, q, e.reqs[i]) /\ Timely(lk, q, e.reqs[i])
    BY DEF Formed
  <2>2. e.reqs[i].when \in 1 .. Inf
    BY <2>1 DEF Asked, RequestsOf
  <2>3. About(lk2, q, e.reqs[i].queue, e.reqs[i].when, e.reqs[i].pkt, e.reqs[i].info)
    BY <2>1, <2>2, StillAbout DEF Asked, Timely
  <2>4. QED  BY <1>2, <2>1, <2>3 DEF Asked
<1>5. About(lk2, q, e.reqs[e.top].queue, e.wake, e.pkt, e.info)
  <2>1. /\ e.top \in DOMAIN e.reqs /\ e.wake = e.reqs[e.top].when
        /\ About(lk, q, e.reqs[e.top].queue, e.wake, e.pkt, e.info)
        /\ e.reqs[e.top] \in RequestsOf(lk)
    BY DEF Formed, Asked
  <2>2. Comes(lk, q, e.reqs[e.top].queue, Time, e.wake) /\ e.wake \in 1 .. Inf
    BY <2>1 DEF Timely, RequestsOf
  <2>3. QED  BY <2>1, <2>2, StillAbout
<1>6. QED  BY <1>1, <1>3, <1>4, <1>5 DEF Formed

-----------------------------------------------------------------------------
(* An operation goes through the queues of a port                            *)

EventsOf(lk) ==
  [reqs : Seq(RequestsOf(lk)), top : Nat, wake : 1 .. Inf, pkt : 0 .. Len(lk.activity), info : Infos]

\* Of the requests that the process of port q has made, those in D have been brought up to date.
Halfway(lk, lk2, q, e, D) ==
  /\ e \in EventsOf(lk2) /\ Formed(lk2, q, e)
  /\ DOMAIN e.reqs = DOMAIN event[q].reqs
  /\ \A i \in DOMAIN event[q].reqs :
       /\ e.reqs[i].queue = event[q].reqs[i].queue
       /\ IF i \in D THEN Timely(lk2, q, e.reqs[i]) ELSE Timely(lk, q, e.reqs[i])

\* Every event in S is so.
AllHalfway(lk, lk2, q, S, D) == S \subseteq EventsOf(lk2) /\ \A e \in S : Halfway(lk, lk2, q, e, D)

LEMMA FormedIsEvent ==
  ASSUME NEW lk, NEW q, NEW e, Formed(lk, q, e)
  PROVE  e \in EventsOf(lk)
<1>1. e.reqs[e.top] \in RequestsOf(lk) /\ e.wake = e.reqs[e.top].when /\ e.top \in Nat
  BY DEF Formed
<1>2. e.wake \in 1 .. Inf
  BY <1>1 DEF RequestsOf
<1>3. QED  BY <1>1, <1>2 DEF Formed, EventsOf

\* One request is visited.
LEMMA VisitTurns ==
  ASSUME NEW lk, NEW lk2, NEW q, NEW n, NEW act, NEW queue, Served(lk, lk2, q, n, act, queue),
         NEW D, NEW i \in DOMAIN event[q].reqs, event[q].reqs[i].queue = queue => i \notin D,
         NEW S, AllHalfway(lk, lk2, q, S, D),
         NEW D2, D2 = IF event[q].reqs[i].queue = queue THEN D \cup {i} ELSE D
  PROVE  AllHalfway(lk, lk2, q, visited(lk2, q, n, act, queue, S, i), D2)
<1> SUFFICES ASSUME NEW e2 \in visited(lk2, q, n, act, queue, S, i)
             PROVE  Halfway(lk, lk2, q, e2, D2)
  BY DEF AllHalfway, Halfway
<1>1. PICK e \in S : e2 \in IF e.info = "failed" \/ e.reqs[i].queue # queue THEN {e}
                           ELSE reschedule(lk2, q, n, act, queue, e, i)
  BY DEF visited
<1>2. /\ Halfway(lk, lk2, q, e, D) /\ Formed(lk2, q, e)
      /\ DOMAIN e.reqs = DOMAIN event[q].reqs
      /\ \A j \in DOMAIN event[q].reqs :
           /\ e.reqs[j].queue = event[q].reqs[j].queue
           /\ IF j \in D THEN Timely(lk2, q, e.reqs[j]) ELSE Timely(lk, q, e.reqs[j])
  BY DEF AllHalfway, Halfway
<1>3. e.info # "failed"
  BY <1>2 DEF Formed, Infos
<1>4. CASE event[q].reqs[i].queue # queue
  <2>1. e2 = e /\ D2 = D
    BY <1>1, <1>2, <1>4
  <2>2. QED  BY <1>2, <2>1
<1>5. CASE event[q].reqs[i].queue = queue
  <2>1. e2 \in reschedule(lk2, q, n, act, queue, e, i) /\ D2 = D \cup {i}
    BY <1>1, <1>2, <1>3, <1>5
  <2>2. Turned(lk2, q, e, e2, i)
    BY <1>2, <1>5, <2>1 DEF Served
  <2>3. /\ Formed(lk2, q, e2)
        /\ DOMAIN e2.reqs = DOMAIN e.reqs
        /\ \A j \in DOMAIN e.reqs : /\ j # i => e2.reqs[j] = e.reqs[j]
                                    /\ e2.reqs[j].queue = e.reqs[j].queue
        /\ Timely(lk2, q, e2.reqs[i])
    BY <2>2 DEF Turned
  <2>4. e2 \in EventsOf(lk2)
    BY <2>3, FormedIsEvent
  <2>5. ASSUME NEW j \in DOMAIN event[q].reqs
        PROVE  /\ e2.reqs[j].queue = event[q].reqs[j].queue
               /\ IF j \in D2 THEN Timely(lk2, q, e2.reqs[j]) ELSE Timely(lk, q, e2.reqs[j])
    <3>1. CASE j = i
      BY <3>1, <1>2, <2>1, <2>3
    <3>2. CASE j # i
      BY <3>2, <1>2, <2>1, <2>3
    <3>3. QED  BY <3>1, <3>2
  <2>6. QED  BY <1>2, <2>3, <2>4, <2>5 DEF Halfway
<1>6. QED  BY <1>4, <1>5

\* The requests of this queue.
OfQueue(q, queue) == {i \in DOMAIN event[q].reqs : event[q].reqs[i].queue = queue}

\* A queue is gone through.
LEMMA WalkTurns ==
  ASSUME NEW lk, NEW lk2, NEW q, NEW n, NEW act, NEW queue, Served(lk, lk2, q, n, act, queue),
         NEW m \in Nat, m = Len(event[q].reqs), DOMAIN event[q].reqs = 1 .. m,
         NEW D, D \cap OfQueue(q, queue) = {}, D \subseteq DOMAIN event[q].reqs,
         NEW S, AllHalfway(lk, lk2, q, S, D)
  PROVE  AllHalfway(lk, lk2, q, walked(lk2, q, n, act, queue, S), D \cup OfQueue(q, queue))
<1> DEFINE R[k \in 0 .. m] == IF k = 0 THEN S ELSE visited(lk2, q, n, act, queue, R[k - 1], m + 1 - k)
           done(k) == D \cup {i \in OfQueue(q, queue) : i > m - k}
           T == [k \in 0 .. m |-> {A \in SUBSET EventsOf(lk2) : AllHalfway(lk, lk2, q, A, done(k))}]
           F == [k \in 1 .. m |-> [A \in T[k - 1] |-> visited(lk2, q, n, act, queue, A, m + 1 - k)]]
<1>1. walked(lk2, q, n, act, queue, S) = R[m]
  BY DEF walked
<1>2. m \in Nat /\ DOMAIN event[q].reqs = 1 .. m
  OBVIOUS
<1>3. \A k \in 0 .. m : \A A : A \in T[k] <=> AllHalfway(lk, lk2, q, A, done(k))
  BY DEF AllHalfway
<1>4. \A k \in 1 .. m : k \in 0 .. m /\ k - 1 \in 0 .. m /\ m + 1 - k \in 1 .. m /\ m - (k - 1) = m + 1 - k
  BY <1>2
<1>5. done(0) = D /\ done(m) = D \cup OfQueue(q, queue)
  BY <1>2 DEF OfQueue
<1> HIDE DEF done, T
<1>6. ASSUME NEW k \in 1 .. m, NEW A \in T[k - 1]
      PROVE  visited(lk2, q, n, act, queue, A, m + 1 - k) \in T[k]
  <2>1. PICK i : i = m + 1 - k
    OBVIOUS
  <2>2. i \in 1 .. m /\ ~ (i > m - (k - 1)) /\ \A j \in 1 .. m : j > m - k <=> j > m - (k - 1) \/ j = i
    <3>1. m \in Int /\ k \in Int /\ i \in Int /\ 1 <= k /\ k <= m
      BY <2>1
    <3>2. i \in 1 .. m /\ ~ (i > m - (k - 1))
      BY <2>1, <3>1
    <3>3. ASSUME NEW j \in 1 .. m
          PROVE  j > m - k <=> j > m - (k - 1) \/ j = i
      <4>1. j \in Int /\ m - (k - 1) = i /\ m - k = i - 1
        BY <2>1, <3>1
      <4>2. QED  BY <3>1, <4>1
    <3>4. QED  BY <3>2, <3>3
  <2>3. i \in DOMAIN event[q].reqs /\ (event[q].reqs[i].queue = queue => i \notin done(k - 1))
    BY <2>2 DEF done, OfQueue
  <2>4. done(k) = IF event[q].reqs[i].queue = queue THEN done(k - 1) \cup {i} ELSE done(k - 1)
    BY <2>2 DEF OfQueue, done
  <2>5. AllHalfway(lk, lk2, q, A, done(k - 1))
    BY <1>3, <1>4, <1>6
  <2>6. AllHalfway(lk, lk2, q, visited(lk2, q, n, act, queue, A, i), done(k))
    BY <2>3, <2>4, <2>5, VisitTurns
  <2>7. QED  BY <1>3, <1>4, <2>1, <2>6
<1>7. S \in T[0]
  <2>1. 0 \in 0 .. m
    BY <1>2
  <2>2. QED  BY <2>1, <1>3, <1>5
<1>8. Stages(m, T, F)
  <2>1. ASSUME NEW k \in 1 .. m
        PROVE  F[k] \in [T[k - 1] -> T[k]]
    BY <1>6
  <2>2. QED  BY <2>1 DEF Stages
<1>9. \A k \in 1 .. m : \A A \in T[k - 1] : F[k][A] = visited(lk2, q, n, act, queue, A, m + 1 - k)
  OBVIOUS
<1> HIDE DEF F
<1>10. PICK f : Passes(f, m, T, S, F)
  BY <1>2, <1>7, <1>8, Staged
<1>11. /\ f = [k \in 0 .. m |-> f[k]] /\ f[0] = S
       /\ \A k \in 1 .. m : f[k] = F[k][f[k - 1]]
       /\ \A k \in 0 .. m : f[k] \in T[k]
  BY <1>10, Zenon DEF Passes
<1>12. \A k \in 1 .. m : f[k] = visited(lk2, q, n, act, queue, f[k - 1], m + 1 - k)
  BY <1>4, <1>9, <1>11
<1>13. f = [k \in 0 .. m |-> IF k = 0 THEN S ELSE visited(lk2, q, n, act, queue, f[k - 1], m + 1 - k)]
  <2>1. \A k \in 0 .. m : f[k] = IF k = 0 THEN S ELSE visited(lk2, q, n, act, queue, f[k - 1], m + 1 - k)
    <3>1. ASSUME NEW k \in 0 .. m, k # 0
          PROVE  k \in 1 .. m
      BY <1>2, <3>1
    <3>2. QED  BY <1>11, <1>12, <3>1
  <2>2. [k \in 0 .. m |-> f[k]]
        = [k \in 0 .. m |-> IF k = 0 THEN S ELSE visited(lk2, q, n, act, queue, f[k - 1], m + 1 - k)]
    BY <2>1
  <2>3. QED  BY <1>11, <2>2
<1>14. R = [k \in 0 .. m |-> IF k = 0 THEN S ELSE visited(lk2, q, n, act, queue, R[k - 1], m + 1 - k)]
  BY <1>13
<1> HIDE DEF R
<1> DEFINE B == {k \in 0 .. m : R[k] = f[k]}
<1>15. 0 \in B
  BY <1>2, <1>11, <1>14
<1>16. ASSUME NEW k \in 0 .. m - 1, k \in B
       PROVE  k + 1 \in B
  <2>1. k + 1 \in 1 .. m /\ (k + 1) - 1 = k /\ k + 1 \in 0 .. m /\ k + 1 # 0
    BY <1>2
  <2>2. R[k + 1] = visited(lk2, q, n, act, queue, R[k], m + 1 - (k + 1))
    BY <1>14, <2>1
  <2>3. QED  BY <1>12, <1>16, <2>1, <2>2
<1> HIDE DEF B
<1>17. \A k \in 0 .. m : k \in B
  BY <1>2, <1>15, <1>16, Reached
<1>18. R[m] = f[m]
  BY <1>2, <1>17 DEF B
<1>19. AllHalfway(lk, lk2, q, R[m], done(m))
  <2>1. m \in 0 .. m
    BY <1>2
  <2>2. QED  BY <2>1, <1>3, <1>11, <1>18
<1>20. QED  BY <1>1, <1>5, <1>19

\* The operation goes through each of these queues once, and through every queue that has to be.
Covers(lk, lk2, q, n, act, queues, l) ==
  /\ \A k \in 1 .. l : Served(lk, lk2, q, n, act, queues[k])
  /\ \A j, k \in 1 .. l : queues[j] = queues[k] => j = k
  /\ \A queue \in Queues : Spared(lk, lk2, q, queue) \/ \E k \in 1 .. l : queues[k] = queue

LEMMA QueuesTurn ==
  ASSUME NEW lk, NEW lk2, NEW q, NEW n, NEW act, NEW queues, NEW l \in Nat, l = Len(queues),
         Covers(lk, lk2, q, n, act, queues, l), hears(q, lk2.activity[n].LRId),
         Len(event[q].reqs) \in Nat, DOMAIN event[q].reqs = 1 .. Len(event[q].reqs),
         Halfway(lk, lk2, q, event[q], {}),
         NEW e2 \in rescheduled(lk2, q, n, act, queues)
  PROVE  Halfway(lk, lk2, q, e2, DOMAIN event[q].reqs)
<1> DEFINE W[k \in 0 .. l] == IF k = 0 THEN {event[q]} ELSE walked(lk2, q, n, act, queues[k], W[k - 1])
           done(k) == {i \in DOMAIN event[q].reqs : \E j \in 1 .. k : event[q].reqs[i].queue = queues[j]}
           T == [k \in 0 .. l |-> {A \in SUBSET EventsOf(lk2) : AllHalfway(lk, lk2, q, A, done(k))}]
           F == [k \in 1 .. l |-> [A \in T[k - 1] |-> walked(lk2, q, n, act, queues[k], A)]]
           S == {event[q]}
<1>1. e2 \in W[l]
  BY DEF rescheduled
<1>2. \A k \in 0 .. l : \A A : A \in T[k] <=> AllHalfway(lk, lk2, q, A, done(k))
  BY DEF AllHalfway
<1>3. \A k \in 1 .. l : k \in 0 .. l /\ k - 1 \in 0 .. l
  OBVIOUS
<1>4. done(0) = {}
  OBVIOUS
<1>5. \A k \in 1 .. l : done(k) = done(k - 1) \cup OfQueue(q, queues[k])
  <2>1. \A k \in 1 .. l : 1 .. k = (1 .. k - 1) \cup {k}
    OBVIOUS
  <2>2. QED  BY <2>1 DEF OfQueue
<1>6. \A k \in 1 .. l : done(k - 1) \cap OfQueue(q, queues[k]) = {} /\ done(k - 1) \subseteq DOMAIN event[q].reqs
  <2>1. ASSUME NEW k \in 1 .. l, NEW i \in DOMAIN event[q].reqs, NEW j \in 1 .. k - 1,
               event[q].reqs[i].queue = queues[j], event[q].reqs[i].queue = queues[k]
        PROVE  FALSE
    <3>1. j \in 1 .. l /\ j # k
      BY <2>1
    <3>2. QED  BY <2>1, <3>1 DEF Covers
  <2>2. QED  BY <2>1 DEF OfQueue
<1> HIDE DEF done, T
<1>7. ASSUME NEW k \in 1 .. l, NEW A \in T[k - 1]
      PROVE  walked(lk2, q, n, act, queues[k], A) \in T[k]
  <2>1. AllHalfway(lk, lk2, q, A, done(k - 1)) /\ Served(lk, lk2, q, n, act, queues[k])
    BY <1>2, <1>3, <1>7 DEF Covers
  <2>2. AllHalfway(lk, lk2, q, walked(lk2, q, n, act, queues[k], A), done(k - 1) \cup OfQueue(q, queues[k]))
    BY <1>6, <2>1, WalkTurns
  <2>3. QED  BY <1>2, <1>3, <1>5, <2>2
<1>8. S \in T[0]
  <2>1. event[q] \in EventsOf(lk2)
    BY DEF Halfway
  <2>2. AllHalfway(lk, lk2, q, S, done(0))
    BY <1>4, <2>1 DEF AllHalfway
  <2>3. 0 \in 0 .. l
    OBVIOUS
  <2>4. QED  BY <1>2, <2>2, <2>3
<1>9. Stages(l, T, F)
  <2>1. ASSUME NEW k \in 1 .. l
        PROVE  F[k] \in [T[k - 1] -> T[k]]
    BY <1>7
  <2>2. QED  BY <2>1 DEF Stages
<1>10. \A k \in 1 .. l : \A A \in T[k - 1] : F[k][A] = walked(lk2, q, n, act, queues[k], A)
  OBVIOUS
<1> HIDE DEF F, S
<1>11. PICK f : Passes(f, l, T, S, F)
  BY <1>8, <1>9, Staged
<1>12. /\ f = [k \in 0 .. l |-> f[k]] /\ f[0] = S
       /\ \A k \in 1 .. l : f[k] = F[k][f[k - 1]]
       /\ \A k \in 0 .. l : f[k] \in T[k]
  BY <1>11, Zenon DEF Passes
<1>13. \A k \in 1 .. l : f[k] = walked(lk2, q, n, act, queues[k], f[k - 1])
  BY <1>3, <1>10, <1>12
<1>14. f = [k \in 0 .. l |-> IF k = 0 THEN S ELSE walked(lk2, q, n, act, queues[k], f[k - 1])]
  <2>1. \A k \in 0 .. l : f[k] = IF k = 0 THEN S ELSE walked(lk2, q, n, act, queues[k], f[k - 1])
    <3>1. ASSUME NEW k \in 0 .. l, k # 0
          PROVE  k \in 1 .. l
      BY <3>1
    <3>2. QED  BY <1>12, <1>13, <3>1
  <2>2. [k \in 0 .. l |-> f[k]] = [k \in 0 .. l |-> IF k = 0 THEN S ELSE walked(lk2, q, n, act, queues[k], f[k - 1])]
    BY <2>1
  <2>3. QED  BY <1>12, <2>2
<1>15. W = [k \in 0 .. l |-> IF k = 0 THEN {event[q]} ELSE walked(lk2, q, n, act, queues[k], W[k - 1])]
  BY <1>14 DEF S
<1> HIDE DEF W
<1> DEFINE B == {k \in 0 .. l : W[k] = f[k]}
<1>16. 0 \in B
  BY <1>12, <1>15 DEF S
<1>17. ASSUME NEW k \in 0 .. l - 1, k \in B
       PROVE  k + 1 \in B
  <2>1. k + 1 \in 1 .. l /\ (k + 1) - 1 = k /\ k + 1 \in 0 .. l /\ k + 1 # 0
    OBVIOUS
  <2>2. W[k + 1] = walked(lk2, q, n, act, queues[k + 1], W[k])
    BY <1>15, <2>1
  <2>3. QED  BY <1>13, <1>17, <2>1, <2>2
<1> HIDE DEF B
<1>18. \A k \in 0 .. l : k \in B
  BY <1>16, <1>17, Reached
<1>19. W[l] = f[l] /\ l \in 0 .. l
  BY <1>18 DEF B
<1>20. Halfway(lk, lk2, q, e2, done(l))
  BY <1>1, <1>2, <1>12, <1>19 DEF AllHalfway
<1>21. /\ e2 \in EventsOf(lk2) /\ Formed(lk2, q, e2)
       /\ DOMAIN e2.reqs = DOMAIN event[q].reqs
       /\ \A i \in DOMAIN event[q].reqs :
            /\ e2.reqs[i].queue = event[q].reqs[i].queue
            /\ IF i \in done(l) THEN Timely(lk2, q, e2.reqs[i]) ELSE Timely(lk, q, e2.reqs[i])
  BY <1>20 DEF Halfway
<1>22. ASSUME NEW i \in DOMAIN event[q].reqs
       PROVE  Timely(lk2, q, e2.reqs[i])
  <2>1. CASE i \in done(l)
    BY <1>21, <2>1
  <2>2. CASE i \notin done(l)
    <3>1. e2.reqs[i] \in RequestsOf(lk2)
      BY <1>21 DEF Formed
    <3>2. e2.reqs[i].queue \in Queues /\ e2.reqs[i].when \in 1 .. Inf
      BY <3>1 DEF RequestsOf
    <3>3. ~ \E k \in 1 .. l : queues[k] = e2.reqs[i].queue
      BY <1>21, <2>2 DEF done
    <3>4. Spared(lk, lk2, q, e2.reqs[i].queue)
      BY <3>2, <3>3 DEF Covers
    <3>5. Timely(lk, q, e2.reqs[i])
      BY <1>21, <2>2
    <3>6. QED  BY <3>2, <3>4, <3>5 DEF Spared, Timely
  <2>3. QED  BY <2>1, <2>2
<1>23. QED  BY <1>21, <1>22 DEF Halfway

-----------------------------------------------------------------------------
(* What the other ports hear of an operation                                 *)

\* Another port hears an activity that starts now, or ends, later.
LEMMA HearsLater ==
  ASSUME IInv, NEW p \in Ports, NEW q \in Ports, p # q
  PROVE  /\ Distances[q][p] \in Nat /\ Distances[q][p] > 0
         /\ Time \in Nat /\ Time >= 1 /\ Time # Inf
         /\ Time + Distances[q][p] \in Time .. LastHeard /\ Time < Time + Distances[q][p]
         /\ LastHeard \in Nat /\ Inf \in Nat /\ LastHeard < Inf
<1>1. Distances[q][p] \in Nat /\ Distances[q][p] > 0
  <2>1. Distances[q][p] = 0 <=> q = p
    BY LinkAssumption DEF LinkAssumption
  <2>2. QED  BY <2>1, Constants
<1>2. Time \in 1 .. Horizon /\ Horizon \in Nat
  BY Constants DEF IInv, LinkTyped
<1>3. Time \in Nat /\ Time >= 1 /\ Time # Inf /\ Time \in 0 .. Horizon
  BY <1>2, InfIsLater
<1>4. LastHeard \in Nat /\ Inf \in Nat /\ LastHeard < Inf /\ Time + Distances[q][p] <= LastHeard
  BY <1>3, LastIsLast
<1>5. QED  BY <1>1, <1>3, <1>4

LEMMA StartFollows ==
  ASSUME IInv, IInv', Time' = Time, Type' = Type, NEW p \in Ports,
         NEW type \in {"JAM", "TRANSMISSION_A"}, NEW to \in SUBSET Ports, type = "JAM" => to = {},
         link' = started(p, type, to), NEW n, n = Len(link'.activity), NEW q \in Ports, q # p
  PROVE  /\ Follows(link, link', q, n) /\ link'.activity[n].LRId = p
         /\ isJam(link', n) <=> type = "JAM"
         /\ IF hears(q, p) THEN Grows(link, link', q, n, hearsAt(link', q, n)) ELSE Unheard(link, link', q)
<1>1. PICK a : a = [STime |-> Time, FTime |-> Inf, LRId |-> p, Type |-> type, Receiver |-> to]
  OBVIOUS
<1>2. LinkTyped /\ Shaped
  BY DEF IInv
<1>3. link'.activity = Append(link.activity, a)
  BY <1>1, <1>2 DEF started, Shaped
<1>4. a \in Activities
  BY <1>1, <1>2, Typed DEF Activities
<1>5. /\ DOMAIN link'.activity = DOMAIN link.activity \cup {n} /\ n \notin DOMAIN link.activity
      /\ \A m \in DOMAIN link.activity : link'.activity[m] = link.activity[m]
      /\ link'.activity[n] = a
      /\ Len(link.activity) <= Len(link'.activity)
  <2>1. /\ link.activity \in Seq(Activities) /\ Len(link.activity) \in Nat
        /\ DOMAIN link.activity = 1 .. Len(link.activity)
    BY <1>2, Typed
  <2>2. DOMAIN Append(link.activity, a) = 1 .. Len(link.activity) + 1
    BY <2>1, <1>4
  <2>3. 1 .. Len(link.activity) + 1 = (1 .. Len(link.activity)) \cup {Len(link.activity) + 1}
    BY <2>1
  <2>4. /\ Len(Append(link.activity, a)) = Len(link.activity) + 1
        /\ \A m \in 1 .. Len(link.activity) : Append(link.activity, a)[m] = link.activity[m]
        /\ Append(link.activity, a)[Len(link.activity) + 1] = a
    BY <2>1, <1>4, AddedSet
  <2>5. QED  BY <2>1, <2>2, <2>3, <2>4, <1>3
<1>6. Aired(link, q) /\ Aired(link', q)
  BY FitNow, FitNext, Airing
<1>7. \A m \in Heard(link, q) : Same(link, link', q, m)
  BY <1>5 DEF Heard, Same, starts, ends
<1>8. Heard(link', q) = IF hears(q, p) THEN Heard(link, q) \cup {n} ELSE Heard(link, q)
  BY <1>1, <1>5 DEF Heard
<1>9. /\ starts(link', q, n) = Time + Distances[q][p] /\ ends(link', q, n) = Inf
      /\ hearsAt(link', q, n) = Time + Distances[q][p]
      /\ link'.activity[n].LRId = p
      /\ isJam(link', n) <=> type = "JAM"
      /\ isJam(link', n) => link'.activity[n].Receiver = {}
  BY <1>1, <1>5 DEF starts, ends, hearsAt, isJam
<1>10. CASE hears(q, p)
  <2>1. n \notin Heard(link, q)
    BY <1>5 DEF Heard
  <2>2. Grows(link, link', q, n, hearsAt(link', q, n))
    BY <1>7, <1>8, <1>9, <1>10, <2>1, HearsLater DEF Grows
  <2>3. QED  BY <1>5, <1>6, <1>9, <1>10, <2>2 DEF Follows
<1>11. CASE ~ hears(q, p)
  <2>1. Unheard(link, link', q)
    BY <1>7, <1>8, <1>11 DEF Unheard
  <2>2. QED  BY <1>5, <1>6, <1>9, <1>11, <2>1 DEF Follows
<1>12. QED  BY <1>10, <1>11

LEMMA FinishFollows ==
  ASSUME IInv, IInv', Time' = Time, Type' = Type, NEW p \in Ports, Activity[p] # 0,
         Time > link.activity[Activity[p]].STime,
         NEW type \in {"JAM", "TRANSMISSION", "TRANSMISSION_A"}, type = "JAM" <=> isJam(link, Activity[p]),
         link' = finished(p, type), NEW n, n = Activity[p], NEW q \in Ports, q # p
  PROVE  /\ Follows(link, link', q, n) /\ link'.activity[n].LRId = p
         /\ link'.activity[n].Type = type
         /\ IF hears(q, p) THEN Ceases(link, link', q, n, hearsAt(link', q, n)) ELSE Unheard(link, link', q)
<1>1. LinkTyped /\ Shaped
  BY DEF IInv
<1>2. /\ n \in DOMAIN link.activity /\ link.activity[n].FTime = Inf /\ link.activity[n].LRId = p
      /\ link.activity[n] \in Activities /\ link.activity[n].STime \in Nat
  BY <1>1, Typed
<1>3. PICK a : a = [link.activity[n] EXCEPT !.FTime = Time, !.Type = type]
  OBVIOUS
<1>4. /\ a.STime = link.activity[n].STime /\ a.FTime = Time /\ a.LRId = p
      /\ a.Type = type /\ a.Receiver = link.activity[n].Receiver
  BY <1>2, <1>3 DEF Activities
<1>5. /\ link'.activity = [link.activity EXCEPT ![n] = a]
      /\ DOMAIN link'.activity = DOMAIN link.activity
      /\ \A m \in DOMAIN link.activity : link'.activity[m] = IF m = n THEN a ELSE link.activity[m]
      /\ Len(link'.activity) = Len(link.activity) /\ Len(link.activity) \in Nat
  <2>1. link'.activity = [link.activity EXCEPT ![n] = a]
    BY <1>1, <1>2, <1>3 DEF finished, Shaped
  <2>2. link.activity \in Seq(Activities) /\ a \in Activities
    <3>1. Time \in 1 .. Horizon
      BY <1>1 DEF LinkTyped
    <3>2. QED  BY <1>1, <1>2, <1>3, <3>1, Typed DEF Activities
  <2>3. QED  BY <1>2, <2>1, <2>2
<1>6. Aired(link, q) /\ Aired(link', q)
  BY FitNow, FitNext, Airing
<1>7. \A m \in Heard(link, q) : m # n => Same(link, link', q, m)
  BY <1>5 DEF Heard, Same, starts, ends
<1>8. Heard(link', q) = Heard(link, q) /\ (n \in Heard(link, q) <=> hears(q, p))
  BY <1>2, <1>4, <1>5 DEF Heard
<1>9. /\ starts(link', q, n) = starts(link, q, n) /\ starts(link, q, n) = link.activity[n].STime + Distances[q][p]
      /\ ends(link, q, n) = Inf /\ ends(link', q, n) = Time + Distances[q][p]
      /\ hearsAt(link', q, n) = Time + Distances[q][p]
      /\ link'.activity[n].LRId = p /\ link.activity[n].LRId = p
      /\ isJam(link', n) <=> isJam(link, n)
      /\ link'.activity[n].Type = type
      /\ link'.activity[n].Receiver = link.activity[n].Receiver
  BY <1>2, <1>4, <1>5, HearsLater DEF starts, ends, hearsAt, isJam
<1>10. CASE hears(q, p)
  <2>1. starts(link, q, n) < hearsAt(link', q, n)
    BY <1>2, <1>9, HearsLater
  <2>2. Ceases(link, link', q, n, hearsAt(link', q, n))
    BY <1>7, <1>8, <1>9, <1>10, <2>1, HearsLater DEF Ceases
  <2>3. QED  BY <1>5, <1>6, <1>9, <1>10, <2>2 DEF Follows
<1>11. CASE ~ hears(q, p)
  <2>1. \A m \in Heard(link, q) : m # n
    BY <1>8, <1>11
  <2>2. Unheard(link, link', q)
    BY <1>7, <1>8, <2>1 DEF Unheard
  <2>3. QED  BY <1>5, <1>6, <1>9, <1>11, <2>2 DEF Follows
<1>12. QED  BY <1>10, <1>11

\* The queues that the operations go through.
TransmitQueues == <<"ACTIVITY", "BOT", "COLLISION", "MY_COLLISION", "SILENCE", "BMP", "ANYEVENT">>
JamQueues      == <<"ACTIVITY", "COLLISION", "MY_COLLISION", "SILENCE", "BOJ", "EOJ", "ANYEVENT">>
StopJamQueues  == <<"SILENCE", "EOJ", "ANYEVENT">>
StopQueues     == <<"EOT", "EMP", "ANYEVENT", "SILENCE", "COLLISION">>
AbortQueues    == <<"ANYEVENT", "SILENCE", "COLLISION">>

LEMMA TransmitCovers ==
  ASSUME NEW lk, NEW lk2, NEW q, Aired(lk, q), Aired(lk2, q), NEW n,
         Grows(lk, lk2, q, n, hearsAt(lk2, q, n)), ~ isJam(lk2, n)
  PROVE  Covers(lk, lk2, q, n, "BOT", TransmitQueues, 7)
<1>1. /\ \A queue \in {"ACTIVITY", "MY_COLLISION", "SILENCE", "ANYEVENT"} : Served(lk, lk2, q, n, "BOT", queue)
      /\ Served(lk, lk2, q, n, "BOT", "BOT") /\ Served(lk, lk2, q, n, "BOT", "BMP")
      /\ Spared(lk, lk2, q, "BOJ") /\ Spared(lk, lk2, q, "EOJ")
      /\ Spared(lk, lk2, q, "EOT") /\ Spared(lk, lk2, q, "EMP")
  BY StartServes
<1>2. Served(lk, lk2, q, n, "BOT", "COLLISION")
  BY StartCollides
<1>3. \A k \in 1 .. 7 : Served(lk, lk2, q, n, "BOT", TransmitQueues[k])
  <2>1. 1 .. 7 = {1, 2, 3, 4, 5, 6, 7}
    OBVIOUS
  <2>2. QED  BY <1>1, <1>2, <2>1 DEF TransmitQueues
<1>4. \A j, k \in 1 .. 7 : TransmitQueues[j] = TransmitQueues[k] => j = k
  BY DEF TransmitQueues
<1>5. \A queue \in {"ACTIVITY", "BOT", "COLLISION", "MY_COLLISION", "SILENCE", "BMP", "ANYEVENT"} :
        \E k \in 1 .. 7 : TransmitQueues[k] = queue
  <2>1. /\ TransmitQueues[1] = "ACTIVITY" /\ TransmitQueues[2] = "BOT" /\ TransmitQueues[3] = "COLLISION"
        /\ TransmitQueues[4] = "MY_COLLISION" /\ TransmitQueues[5] = "SILENCE" /\ TransmitQueues[6] = "BMP"
        /\ TransmitQueues[7] = "ANYEVENT"
    BY DEF TransmitQueues
  <2>2. QED  BY <2>1
<1>6. QED  BY <1>1, <1>3, <1>4, <1>5 DEF Covers, Queues, Events

LEMMA JamCovers ==
  ASSUME NEW lk, NEW lk2, NEW q, Aired(lk, q), Aired(lk2, q), NEW n,
         Grows(lk, lk2, q, n, hearsAt(lk2, q, n)), isJam(lk2, n)
  PROVE  Covers(lk, lk2, q, n, "BOJ", JamQueues, 7)
<1>1. /\ \A queue \in {"ACTIVITY", "MY_COLLISION", "SILENCE", "ANYEVENT"} : Served(lk, lk2, q, n, "BOJ", queue)
      /\ Served(lk, lk2, q, n, "BOJ", "BOJ") /\ Served(lk, lk2, q, n, "BOJ", "EOJ")
      /\ Spared(lk, lk2, q, "BOT") /\ Spared(lk, lk2, q, "BMP")
      /\ Spared(lk, lk2, q, "EOT") /\ Spared(lk, lk2, q, "EMP")
  BY StartServes
<1>2. Served(lk, lk2, q, n, "BOJ", "COLLISION")
  BY StartCollides
<1>3. \A k \in 1 .. 7 : Served(lk, lk2, q, n, "BOJ", JamQueues[k])
  <2>1. 1 .. 7 = {1, 2, 3, 4, 5, 6, 7}
    OBVIOUS
  <2>2. QED  BY <1>1, <1>2, <2>1 DEF JamQueues
<1>4. \A j, k \in 1 .. 7 : JamQueues[j] = JamQueues[k] => j = k
  BY DEF JamQueues
<1>5. \A queue \in {"ACTIVITY", "COLLISION", "MY_COLLISION", "SILENCE", "BOJ", "EOJ", "ANYEVENT"} :
        \E k \in 1 .. 7 : JamQueues[k] = queue
  <2>1. /\ JamQueues[1] = "ACTIVITY" /\ JamQueues[2] = "COLLISION" /\ JamQueues[3] = "MY_COLLISION"
        /\ JamQueues[4] = "SILENCE" /\ JamQueues[5] = "BOJ" /\ JamQueues[6] = "EOJ" /\ JamQueues[7] = "ANYEVENT"
    BY DEF JamQueues
  <2>2. QED  BY <2>1
<1>6. QED  BY <1>1, <1>3, <1>4, <1>5 DEF Covers, Queues, Events

LEMMA EndCovers ==
  ASSUME NEW lk, NEW lk2, NEW q, Aired(lk, q), Aired(lk2, q), NEW n,
         Ceases(lk, lk2, q, n, hearsAt(lk2, q, n))
  PROVE  /\ lk2.activity[n].Type = "JAM" => Covers(lk, lk2, q, n, "EOJ", StopJamQueues, 3)
         /\ lk2.activity[n].Type = "TRANSMISSION" => Covers(lk, lk2, q, n, "EOT", StopQueues, 5)
         /\ lk2.activity[n].Type = "TRANSMISSION_A" => Covers(lk, lk2, q, n, "ABTPACKET", AbortQueues, 3)
<1> DEFINE act == ending(lk2, n)
<1>1. /\ lk2.activity[n].Type = "JAM" => act = "EOJ"
      /\ lk2.activity[n].Type = "TRANSMISSION" => act = "EOT"
      /\ lk2.activity[n].Type = "TRANSMISSION_A" => act = "ABTPACKET"
  BY DEF ending
<1>2. /\ \A queue \in {"SILENCE", "ANYEVENT"} : Served(lk, lk2, q, n, act, queue)
      /\ act = "EOJ" => Served(lk, lk2, q, n, act, "EOJ")
      /\ act # "EOJ" => Served(lk, lk2, q, n, act, "COLLISION")
      /\ act = "EOT" => Served(lk, lk2, q, n, act, "EOT") /\ Served(lk, lk2, q, n, act, "EMP")
      /\ \A queue \in {"ACTIVITY", "MY_COLLISION", "BOT", "BMP", "BOJ"} : Spared(lk, lk2, q, queue)
      /\ act = "EOJ" => Spared(lk, lk2, q, "COLLISION")
      /\ act # "EOJ" => Spared(lk, lk2, q, "EOJ")
      /\ act # "EOT" => Spared(lk, lk2, q, "EOT") /\ Spared(lk, lk2, q, "EMP")
  BY StopServes
<1> HIDE DEF act
<1>3. ASSUME act = "EOJ"
      PROVE  Covers(lk, lk2, q, n, "EOJ", StopJamQueues, 3)
  <2>1. 1 .. 3 = {1, 2, 3}
    OBVIOUS
  <2>2. StopJamQueues[1] = "SILENCE" /\ StopJamQueues[2] = "EOJ" /\ StopJamQueues[3] = "ANYEVENT"
    BY DEF StopJamQueues
  <2>3. QED  BY <1>2, <1>3, <2>1, <2>2 DEF Covers, Queues, Events
<1>4. ASSUME act = "EOT"
      PROVE  Covers(lk, lk2, q, n, "EOT", StopQueues, 5)
  <2>1. 1 .. 5 = {1, 2, 3, 4, 5}
    OBVIOUS
  <2>2. /\ StopQueues[1] = "EOT" /\ StopQueues[2] = "EMP" /\ StopQueues[3] = "ANYEVENT"
        /\ StopQueues[4] = "SILENCE" /\ StopQueues[5] = "COLLISION"
    BY DEF StopQueues
  <2>3. QED  BY <1>2, <1>4, <2>1, <2>2 DEF Covers, Queues, Events
<1>5. ASSUME act = "ABTPACKET"
      PROVE  Covers(lk, lk2, q, n, "ABTPACKET", AbortQueues, 3)
  <2>1. 1 .. 3 = {1, 2, 3}
    OBVIOUS
  <2>2. AbortQueues[1] = "ANYEVENT" /\ AbortQueues[2] = "SILENCE" /\ AbortQueues[3] = "COLLISION"
    BY DEF AbortQueues
  <2>3. QED  BY <1>2, <1>5, <2>1, <2>2 DEF Covers, Queues, Events
<1>6. QED  BY <1>1, <1>3, <1>4, <1>5

\* The event e of port q is right for link lk.
Settled(lk, q, e) == e = NoEvent \/ (Formed(lk, q, e) /\ \A i \in DOMAIN e.reqs : Timely(lk, q, e.reqs[i]))

\* Nothing is done to a process that waits for nothing.
LEMMA Idle ==
  ASSUME NEW q, event[q] = NoEvent, NEW lk, NEW n, NEW act, NEW queues, NEW l \in Nat, l = Len(queues)
  PROVE  rescheduled(lk, q, n, act, queues) = {event[q]}
<1>1. Len(event[q].reqs) = 0
  BY DEF NoEvent
<1>2. ASSUME NEW queue, NEW S
      PROVE  walked(lk, q, n, act, queue, S) = S
  <2> DEFINE R[k \in 0 .. 0] == IF k = 0 THEN S ELSE visited(lk, q, n, act, queue, R[k - 1], 0 + 1 - k)
             g == [k \in 0 .. 0 |-> S]
  <2>1. walked(lk, q, n, act, queue, S) = R[0]
    BY <1>1 DEF walked
  <2>2. g = [k \in 0 .. 0 |-> IF k = 0 THEN S ELSE visited(lk, q, n, act, queue, g[k - 1], 0 + 1 - k)]
    OBVIOUS
  <2> HIDE DEF g
  <2>3. R = [k \in 0 .. 0 |-> IF k = 0 THEN S ELSE visited(lk, q, n, act, queue, R[k - 1], 0 + 1 - k)]
    BY <2>2
  <2> HIDE DEF R
  <2>4. R[0] = S
    BY <2>3
  <2>5. QED  BY <2>1, <2>4
<1> DEFINE E == {event[q]}
           W[k \in 0 .. l] == IF k = 0 THEN E ELSE walked(lk, q, n, act, queues[k], W[k - 1])
           g == [k \in 0 .. l |-> E]
<1>3. rescheduled(lk, q, n, act, queues) \in {W[l], E}
  BY DEF rescheduled
<1>4. g = [k \in 0 .. l |-> IF k = 0 THEN E ELSE walked(lk, q, n, act, queues[k], g[k - 1])]
  <2>1. \A k \in 0 .. l : k # 0 => g[k - 1] = E
    OBVIOUS
  <2>2. \A k \in 0 .. l : E = IF k = 0 THEN E ELSE walked(lk, q, n, act, queues[k], g[k - 1])
    BY <1>2, <2>1
  <2>3. QED  BY <2>2
<1> HIDE DEF g
<1>5. W = [k \in 0 .. l |-> IF k = 0 THEN E ELSE walked(lk, q, n, act, queues[k], W[k - 1])]
  BY <1>4
<1> HIDE DEF W
<1> DEFINE B == {k \in 0 .. l : W[k] = E}
<1>6. 0 \in B
  BY <1>5
<1>7. ASSUME NEW k \in 0 .. l - 1, k \in B
      PROVE  k + 1 \in B
  <2>1. k + 1 \in 0 .. l /\ (k + 1) - 1 = k /\ k + 1 # 0
    OBVIOUS
  <2>2. W[k + 1] = walked(lk, q, n, act, queues[k + 1], W[k])
    BY <1>5, <2>1
  <2>3. QED  BY <1>2, <1>7, <2>1, <2>2
<1> HIDE DEF B
<1>8. \A k \in 0 .. l : k \in B
  BY <1>6, <1>7, Reached
<1>9. W[l] = E
  BY <1>8 DEF B
<1>10. QED  BY <1>3, <1>9

\* The events e and e2 have requests of the same queues.
Alike(e, e2) ==
  DOMAIN e2.reqs = DOMAIN e.reqs /\ \A i \in DOMAIN e2.reqs : e2.reqs[i].queue = e.reqs[i].queue

\* An operation leaves the event of another port right for what the link has become.
LEMMA Settles ==
  ASSUME NEW lk, NEW lk2, NEW q, NEW n, Follows(lk, lk2, q, n), Settled(lk, q, event[q]),
         NEW act, NEW queues, NEW l \in Nat, l = Len(queues),
         IF hears(q, lk2.activity[n].LRId) THEN Covers(lk, lk2, q, n, act, queues, l) ELSE Unheard(lk, lk2, q),
         NEW e2 \in rescheduled(lk2, q, n, act, queues)
  PROVE  Settled(lk2, q, e2) /\ Alike(event[q], e2)
<1>1. CASE event[q] = NoEvent
  <2>1. e2 = event[q]
    BY <1>1, Idle
  <2>2. QED  BY <1>1, <2>1 DEF Settled, Alike
<1>2. CASE event[q] # NoEvent
  <2>1. Formed(lk, q, event[q]) /\ \A i \in DOMAIN event[q].reqs : Timely(lk, q, event[q].reqs[i])
    BY <1>2 DEF Settled
  <2>2. Formed(lk2, q, event[q])
    BY <2>1, StillFormed
  <2>3. CASE hears(q, lk2.activity[n].LRId)
    <3>1. Halfway(lk, lk2, q, event[q], {})
      BY <2>1, <2>2, FormedIsEvent DEF Halfway
    <3>2. Len(event[q].reqs) \in Nat /\ DOMAIN event[q].reqs = 1 .. Len(event[q].reqs)
      BY <2>1 DEF Formed
    <3>3. Halfway(lk, lk2, q, e2, DOMAIN event[q].reqs)
      BY <2>3, <3>1, <3>2, QueuesTurn
    <3>4. QED  BY <3>3 DEF Halfway, Settled, Alike
  <2>4. CASE ~ hears(q, lk2.activity[n].LRId)
    <3>1. e2 = event[q]
      BY <2>4 DEF rescheduled
    <3>2. ASSUME NEW i \in DOMAIN e2.reqs
          PROVE  Timely(lk2, q, e2.reqs[i])
      <4>1. e2.reqs[i] \in RequestsOf(lk) /\ Timely(lk, q, e2.reqs[i])
        BY <2>1, <3>1 DEF Formed
      <4>2. e2.reqs[i].when \in 1 .. Inf /\ e2.reqs[i].queue \in Queues
        BY <4>1 DEF RequestsOf
      <4>3. Spared(lk, lk2, q, e2.reqs[i].queue)
        BY <2>4, <4>2, UnheardMeans, ByNothing DEF Follows
      <4>4. QED  BY <4>1, <4>2, <4>3 DEF Timely, Spared
    <3>3. QED  BY <2>2, <3>1, <3>2 DEF Settled, Alike
  <2>5. QED  BY <2>3, <2>4
<1>3. QED  BY <1>1, <1>2

-----------------------------------------------------------------------------
(* What the processes wait for                                               *)

\* Every pending request is right.  The running process has asked the port for nothing
\* yet, or tmin is the earliest of what it has asked for.  A process waits for what it
\* hears of others only while its port is active.
Expecting ==
  /\ event = [q \in Waiters |-> event[q]]
  /\ \A q \in Waiters : Settled(link, q, event[q])
  /\ \A q \in Waiters : \A i \in DOMAIN event[q].reqs :
       event[q].reqs[i].queue = "MY_COLLISION" => Activity[q] # 0
  /\ TheProcess \in Waiters \cup {None}
  /\ tmin = IF TheProcess \in Waiters /\ event[TheProcess] # NoEvent THEN event[TheProcess].wake ELSE Inf

\* What an event means, and whether its requests are well formed, depends on the link and
\* its type alone.
LEMMA MeansNext ==
  ASSUME Type' = Type, NEW q
  PROVE  /\ \A queue, t : Happens(link, q, queue, t)' <=> Happens(link', q, queue, t)
         /\ \A e : Formed(link, q, e)' <=> Formed(link', q, e)
<1>1. Heard(link, q)' = Heard(link', q)
  BY DEF Heard, hears
<1>2. \A n : starts(link, q, n)' = starts(link', q, n) /\ ends(link, q, n)' = ends(link', q, n)
  BY DEF starts, ends
<1>3. \A n : /\ isJam(link, n)' <=> isJam(link', n)
             /\ packet(link, n)' = packet(link', n) /\ beginning(link, n)' = beginning(link', n)
             /\ ending(link, n)' = ending(link', n)
  BY DEF isJam, packet, beginning, ending
<1>4. \A t : /\ HeardAt(link, q, t)' = HeardAt(link', q, t)
             /\ Beginning(link, q, t)' = Beginning(link', q, t) /\ Ending(link, q, t)' = Ending(link', q, t)
  BY <1>1, <1>2 DEF HeardAt, Beginning, Ending
<1>5. ASSUME NEW queue, NEW t
      PROVE  Happens(link, q, queue, t)' <=> Happens(link', q, queue, t)
  <2>1. PICK A, B, F : /\ A = HeardAt(link, q, t)' /\ A = HeardAt(link', q, t)
                       /\ B = Beginning(link, q, t)' /\ B = Beginning(link', q, t)
                       /\ F = Ending(link, q, t)' /\ F = Ending(link', q, t)
    BY <1>4
  <2>2. QED  BY <1>3, <2>1 DEF Happens
<1>6. \A queue, w, n, info : About(link, q, queue, w, n, info)' <=> About(link', q, queue, w, n, info)
  BY <1>1, <1>2, <1>3 DEF About
<1>7. \A r : Asked(link, q, r)' <=> Asked(link', q, r)
  BY <1>6 DEF Asked, RequestsOf
<1>8. \A e : Formed(link, q, e)' <=> Formed(link', q, e)
  BY <1>6, <1>7 DEF Formed, RequestsOf
<1>9. QED  BY <1>5, <1>8

\* What is right for the new link stays so in the new state, when neither time nor the
\* type of the link changes.
LEMMA SettledNext ==
  ASSUME Time' = Time, Type' = Type, NEW q, Settled(link', q, event'[q])
  PROVE  Settled(link, q, event[q])'
<1>1. \A r : Timely(link, q, r)' <=> Timely(link', q, r)
  BY MeansNext DEF Timely, Comes
<1>2. QED  BY <1>1, MeansNext DEF Settled

\* Time passes when no process is due.
LEMMA SettledLater ==
  ASSUME IInv, Time' = Time + 1, Type' = Type, link' = link, NEW q, event'[q] = event[q],
         Settled(link, q, event[q]), event[q].wake # Time
  PROVE  Settled(link, q, event[q])'
<1>1. CASE event[q] = NoEvent
  <2>1. event'[q] = NoEvent
    BY <1>1
  <2>2. QED  BY <2>1 DEF Settled
<1>2. CASE event[q] # NoEvent
  <2>1. PICK e : e = event[q]
    OBVIOUS
  <2>2. Formed(link, q, e) /\ \A i \in DOMAIN e.reqs : Timely(link, q, e.reqs[i])
    BY <1>2, <2>1 DEF Settled
  <2>3. Time \in Nat /\ LastHeard \in Nat /\ Inf \in Nat /\ Time < Inf /\ LastHeard < Inf
    BY LastIsLast, Constants DEF IInv, LinkTyped
  <2>4. ASSUME NEW i \in DOMAIN e.reqs
        PROVE  Timely(link, q, e.reqs[i])'
    <3>1. PICK w, queue : w = e.reqs[i].when /\ queue = e.reqs[i].queue
      OBVIOUS
    <3>2. /\ Comes(link, q, queue, Time, w) /\ e.wake <= w
          /\ Comes(link, q, e.reqs[e.top].queue, Time, e.wake) /\ e.wake # Time
      BY <2>1, <2>2, <3>1 DEF Formed, Timely
    <3>3. w # Time
      <4>1. (e.wake = Inf \/ e.wake \in Time .. LastHeard) /\ (w = Inf \/ w \in Time .. LastHeard)
        BY <3>2 DEF Comes
      <4>2. QED  BY <2>3, <3>2, <4>1
    <3>4. w = Inf \/ (w \in Time + 1 .. LastHeard /\ Happens(link, q, queue, w))
      BY <2>3, <3>2, <3>3 DEF Comes
    <3>5. \A u \in Time + 1 .. LastHeard : Happens(link, q, queue, u) => w <= u
      <4>1. Time + 1 .. LastHeard \subseteq Time .. LastHeard
        BY <2>3
      <4>2. QED  BY <3>2, <4>1 DEF Comes
    <3>6. QED  BY <3>1, <3>4, <3>5, MeansNext DEF Timely, Comes
  <2>5. Formed(link, q, e)'
    BY <2>2, MeansNext
  <2>6. QED  BY <2>1, <2>4, <2>5 DEF Settled
<1>3. QED  BY <1>1, <1>2

LEMMA NoProcess == None \notin Waiters /\ Waiters \subseteq Ports
<1>1. None \notin Nat /\ Waiters \subseteq Ports
  BY LinkAssumption DEF LinkAssumption
<1>2. QED  BY <1>1, Constants

\* A process that has made no request waits for nothing.
LEMMA NoRequests ==
  ASSUME NEW lk, NEW q, NEW e, Settled(lk, q, e)
  PROVE  e.reqs = <<>> <=> e = NoEvent
<1>1. NoEvent.reqs = <<>>
  BY DEF NoEvent
<1>2. Formed(lk, q, e) => e.reqs # <<>>
  BY DEF Formed
<1>3. QED  BY <1>1, <1>2 DEF Settled

LEMMA InitExpects == Init => Expecting
<1> SUFFICES ASSUME Init
             PROVE  Expecting
  OBVIOUS
<1>1. event = [q \in Waiters |-> NoEvent] /\ TheProcess = None /\ tmin = Inf
  BY DEF Init
<1>2. \A q \in Waiters : Settled(link, q, event[q]) /\ DOMAIN event[q].reqs = {}
  BY <1>1 DEF Settled, NoEvent
<1>3. QED  BY <1>1, <1>2, NoProcess DEF Expecting

\* An operation of port p on activity n: the requests of the other ports are brought up to
\* date, and the process of p has made none.
LEMMA Operated ==
  ASSUME Expecting, NEW p \in Ports, active(p), Time' = Time, Type' = Type,
         UNCHANGED <<tmin, TheProcess>>, \A q \in Ports : q # p => Activity'[q] = Activity[q],
         NEW n, NEW act, NEW queues, NEW l \in Nat, l = Len(queues), link'.activity[n].LRId = p,
         \A q \in Ports : q # p =>
           /\ Follows(link, link', q, n)
           /\ IF hears(q, p) THEN Covers(link, link', q, n, act, queues, l) ELSE Unheard(link, link', q),
         RescheduleAll(link', n, act, queues)
  PROVE  Expecting'
<1>1. PICK f \in [Waiters -> UNION {rescheduled(link', q, n, act, queues) : q \in Waiters}] :
        (\A q \in Waiters : f[q] \in rescheduled(link', q, n, act, queues)) /\ event' = f
  BY DEF RescheduleAll
<1>2. event' = [q \in Waiters |-> event'[q]] /\ \A q \in Waiters : event'[q] \in rescheduled(link', q, n, act, queues)
  BY <1>1
<1>3. p \in Waiters => event[p] = NoEvent /\ TheProcess = p
  BY NoRequests DEF active, Expecting
<1>4. p \in Waiters => event'[p] = NoEvent
  BY <1>2, <1>3, Idle
<1>5. ASSUME NEW q \in Waiters
      PROVE  /\ Settled(link', q, event'[q])
             /\ \A i \in DOMAIN event'[q].reqs :
                  event'[q].reqs[i].queue = "MY_COLLISION" => Activity'[q] # 0
  <2>1. CASE q = p
    <3>1. event'[q] = NoEvent
      BY <1>4, <2>1
    <3>2. DOMAIN event'[q].reqs = {}
      BY <3>1 DEF NoEvent
    <3>3. QED  BY <3>1, <3>2 DEF Settled
  <2>2. CASE q # p
    <3>1. q \in Ports /\ Settled(link, q, event[q])
      BY NoProcess DEF Expecting
    <3>2. PICK e2 : e2 = event'[q] /\ e2 \in rescheduled(link', q, n, act, queues)
      BY <1>2
    <3>3. /\ Follows(link, link', q, n)
          /\ IF hears(q, link'.activity[n].LRId) THEN Covers(link, link', q, n, act, queues, l)
             ELSE Unheard(link, link', q)
      BY <2>2, <3>1
    <3>4. Settled(link', q, e2) /\ Alike(event[q], e2)
      BY <3>1, <3>2, <3>3, Settles
    <3>5. QED  BY <2>2, <3>1, <3>2, <3>4 DEF Expecting, Alike
  <2>3. QED  BY <2>1, <2>2
<1>6. \A q \in Waiters : Settled(link, q, event[q])'
  BY <1>5, SettledNext
<1>7. TheProcess' \in Waiters \cup {None} /\ tmin' = Inf /\ (TheProcess' \in Waiters => event'[TheProcess'] = NoEvent)
  <2>1. CASE p \in Waiters
    BY <1>3, <1>4, <2>1 DEF Expecting
  <2>2. CASE p \notin Waiters
    BY <2>2, NoProcess DEF Expecting, active
  <2>3. QED  BY <2>1, <2>2
<1>8. QED  BY <1>2, <1>5, <1>6, <1>7 DEF Expecting

LEMMA StartExpects ==
  ASSUME IInv, IInv', Expecting, NEW p \in Ports, active(p), Time' = Time, Type' = Type,
         UNCHANGED <<tmin, TheProcess>>, Activity' = [Activity EXCEPT ![p] = Len(link'.activity)],
         NEW type \in {"JAM", "TRANSMISSION_A"}, NEW to \in SUBSET Ports, type = "JAM" => to = {},
         link' = started(p, type, to),
         RescheduleAll(link', Len(link'.activity), IF type = "JAM" THEN "BOJ" ELSE "BOT",
                       IF type = "JAM" THEN JamQueues ELSE TransmitQueues)
  PROVE  Expecting'
<1>1. PICK n : n = Len(link'.activity)
  OBVIOUS
<1>2. PICK act, queues : /\ act = IF type = "JAM" THEN "BOJ" ELSE "BOT"
                         /\ queues = IF type = "JAM" THEN JamQueues ELSE TransmitQueues
  OBVIOUS
<1>3. Len(queues) = 7
  BY <1>2 DEF JamQueues, TransmitQueues
<1>4. ASSUME NEW q \in Ports, q # p
      PROVE  /\ Follows(link, link', q, n) /\ link'.activity[n].LRId = p
             /\ IF hears(q, p) THEN Covers(link, link', q, n, act, queues, 7) ELSE Unheard(link, link', q)
  <2>1. /\ Follows(link, link', q, n) /\ link'.activity[n].LRId = p
        /\ isJam(link', n) <=> type = "JAM"
        /\ IF hears(q, p) THEN Grows(link, link', q, n, hearsAt(link', q, n)) ELSE Unheard(link, link', q)
    BY <1>1, <1>4, StartFollows
  <2>2. Aired(link, q) /\ Aired(link', q)
    BY <2>1 DEF Follows
  <2>3. CASE type = "JAM"
    BY <1>2, <2>1, <2>2, <2>3, JamCovers
  <2>4. CASE type # "JAM"
    BY <1>2, <2>1, <2>2, <2>4, TransmitCovers
  <2>5. QED  BY <2>1, <2>3, <2>4
<1>5. link'.activity[n].LRId = p
  <2>1. LinkTyped' /\ Shaped' /\ Activity \in [Ports -> Nat]
    BY DEF IInv, Shaped
  <2>2. Activity'[p] = n
    BY <1>1, <2>1
  <2>3. link'.activity = Append(link.activity, [STime |-> Time, FTime |-> Inf, LRId |-> p,
                                                Type |-> type, Receiver |-> to])
    BY DEF started, IInv, Shaped
  <2>4. link.activity \in Seq(Activities) /\ Len(link.activity) \in Nat
    BY DEF IInv, LinkTyped
  <2>5. [STime |-> Time, FTime |-> Inf, LRId |-> p, Type |-> type, Receiver |-> to] \in Activities
    BY DEF Activities, IInv, LinkTyped
  <2>6. QED  BY <1>1, <2>3, <2>4, <2>5, AddedSet
<1>6. \A q \in Ports : q # p => Activity'[q] = Activity[q]
  BY DEF IInv, Shaped
<1>7. RescheduleAll(link', n, act, queues)
  BY <1>1, <1>2
<1>8. QED  BY <1>3, <1>4, <1>5, <1>6, <1>7, Operated

LEMMA FinishExpects ==
  ASSUME IInv, IInv', Expecting, NEW p \in Ports, active(p), Time' = Time, Type' = Type,
         UNCHANGED <<tmin, TheProcess>>, Activity' = [Activity EXCEPT ![p] = 0],
         Activity[p] # 0, Time > link.activity[Activity[p]].STime,
         NEW type \in {"JAM", "TRANSMISSION", "TRANSMISSION_A"}, type = "JAM" <=> isJam(link, Activity[p]),
         link' = finished(p, type), NEW act, NEW queues,
         \/ type = "JAM" /\ act = "EOJ" /\ queues = StopJamQueues
         \/ type = "TRANSMISSION" /\ act = "EOT" /\ queues = StopQueues
         \/ type = "TRANSMISSION_A" /\ act = "ABTPACKET" /\ queues = AbortQueues,
         RescheduleAll(link', Activity[p], act, queues)
  PROVE  Expecting'
<1>1. PICK n : n = Activity[p]
  OBVIOUS
<1>2. PICK l \in Nat : l = Len(queues) /\ l = IF type = "TRANSMISSION" THEN 5 ELSE 3
  <2>1. Len(StopJamQueues) = 3 /\ Len(StopQueues) = 5 /\ Len(AbortQueues) = 3
    BY DEF StopJamQueues, StopQueues, AbortQueues
  <2>2. Len(queues) = IF type = "TRANSMISSION" THEN 5 ELSE 3
    BY <2>1
  <2>3. QED  BY <2>2
<1>3. ASSUME NEW q \in Ports, q # p
      PROVE  /\ Follows(link, link', q, n)
             /\ IF hears(q, p) THEN Covers(link, link', q, n, act, queues, l) ELSE Unheard(link, link', q)
  <2>1. /\ Follows(link, link', q, n) /\ link'.activity[n].Type = type
        /\ IF hears(q, p) THEN Ceases(link, link', q, n, hearsAt(link', q, n)) ELSE Unheard(link, link', q)
    BY <1>1, <1>3, FinishFollows
  <2>2. Aired(link, q) /\ Aired(link', q)
    BY <2>1 DEF Follows
  <2>3. QED  BY <1>2, <2>1, <2>2, EndCovers
<1>4. link'.activity[n].LRId = p
  <2>1. LinkTyped /\ Shaped
    BY DEF IInv
  <2>2. n \in DOMAIN link.activity /\ link.activity[n].LRId = p /\ link.activity[n] \in Activities
    BY <1>1, <2>1, Typed
  <2>3. link'.activity = [link.activity EXCEPT ![n] = [link.activity[n] EXCEPT !.FTime = Time, !.Type = type]]
    BY <1>1, <2>1, <2>2 DEF finished, Shaped
  <2>4. QED  BY <2>2, <2>3 DEF Activities
<1>5. \A q \in Ports : q # p => Activity'[q] = Activity[q]
  BY DEF IInv, Shaped
<1>6. QED  BY <1>1, <1>2, <1>3, <1>4, <1>5, Operated

\* A purge of the link changes nothing of what can still be heard.
LEMMA PurgeExpects ==
  ASSUME IInv, IInv', Expecting, link'.activity = link.activity,
         UNCHANGED <<Time, Type, Activity, event, tmin, TheProcess>>
  PROVE  Expecting'
<1>1. ASSUME NEW q \in Waiters
      PROVE  Settled(link', q, event'[q])
  <2>1. q \in Ports /\ Settled(link, q, event[q])
    BY NoProcess DEF Expecting
  <2>2. Aired(link, q) /\ Aired(link', q) /\ Len(link.activity) \in Nat
    BY <2>1, FitNow, FitNext, Airing, Typed DEF IInv
  <2>3. Unheard(link, link', q)
    BY DEF Unheard, Same, Heard, starts, ends
  <2>4. Follows(link, link', q, 0)
    BY <2>2, <2>3 DEF Follows
  <2>5. CASE event[q] = NoEvent
    BY <2>5 DEF Settled
  <2>6. CASE event[q] # NoEvent
    <3>1. PICK e : e = event[q] /\ e = event'[q]
      OBVIOUS
    <3>2. Formed(link, q, e) /\ \A i \in DOMAIN e.reqs : Timely(link, q, e.reqs[i])
      BY <2>1, <2>6, <3>1 DEF Settled
    <3>3. Formed(link', q, e)
      BY <2>4, <3>2, StillFormed
    <3>4. ASSUME NEW i \in DOMAIN e.reqs
          PROVE  Timely(link', q, e.reqs[i])
      <4>1. e.reqs[i] \in RequestsOf(link) /\ Timely(link, q, e.reqs[i])
        BY <3>2 DEF Formed
      <4>2. e.reqs[i].when \in 1 .. Inf /\ e.reqs[i].queue \in Queues
        BY <4>1 DEF RequestsOf
      <4>3. Spared(link, link', q, e.reqs[i].queue)
        BY <2>2, <2>3, <4>2, UnheardMeans, ByNothing
      <4>4. QED  BY <4>1, <4>2, <4>3 DEF Timely, Spared
    <3>5. QED  BY <3>1, <3>3, <3>4 DEF Settled
  <2>7. QED  BY <2>5, <2>6
<1>2. \A q \in Waiters : Settled(link, q, event[q])'
  BY <1>1, SettledNext
<1>3. QED  BY <1>2 DEF Expecting

\* What a process is told when it makes a request.
LEMMA Answered ==
  ASSUME IInv, NEW p \in Ports, NEW ev \in Events, NEW a \in answers(p, ev)
  PROVE  Right(link, p, queueOf(p, ev), a)
<1>1. Aired(link, p)
  BY FitNow, Airing
<1>2. CASE ev = "COLLISION"
  <2>1. CASE Activity[p] # 0
    <3>1. a = answer(myCollisionTime(link, p), 0, "none") /\ queueOf(p, ev) = "MY_COLLISION"
      BY <1>2, <2>1 DEF answers, queueOf
    <3>2. QED  BY <1>1, <3>1, RightMyCollision
  <2>2. CASE Activity[p] = 0
    <3>1. PICK c : c = collisionTime(link, p, TRUE)
      OBVIOUS
    <3>2. a = answer(c, 0, "none") /\ queueOf(p, ev) = "COLLISION"
      BY <1>2, <2>2, <3>1 DEF answers, queueOf
    <3>3. QED  BY <1>1, <3>1, <3>2, RightCollision
  <2>3. QED  BY <2>1, <2>2
<1>3. ASSUME ev # "COLLISION"
      PROVE  queueOf(p, ev) = ev
  BY <1>3 DEF queueOf
<1>4. CASE ev = "ANYEVENT"
  <2>1. a \in aevTimes(link, p)
    BY <1>4 DEF answers
  <2>2. QED  BY <1>1, <1>3, <1>4, <2>1, RightAnyEvent
<1>5. CASE ev \in {"ACTIVITY", "BOT", "BMP", "EOT", "EMP"}
  <2>1. CASE ev = "ACTIVITY"
    <3>1. a = activityTime(link, p)
      BY <2>1 DEF answers
    <3>2. QED  BY <1>1, <1>3, <2>1, <3>1, RightActivity
  <2>2. CASE ev = "BOT"
    <3>1. a = botTime(link, p)
      BY <2>2 DEF answers
    <3>2. QED  BY <1>1, <1>3, <2>2, <3>1, RightBOT
  <2>3. CASE ev = "BMP"
    <3>1. a = bmpTime(link, p)
      BY <2>3 DEF answers
    <3>2. QED  BY <1>1, <1>3, <2>3, <3>1, RightBMP
  <2>4. CASE ev = "EOT"
    <3>1. a = eotTime(link, p)
      BY <2>4 DEF answers
    <3>2. QED  BY <1>1, <1>3, <2>4, <3>1, RightEOT
  <2>5. CASE ev = "EMP"
    <3>1. a = empTime(link, p)
      BY <2>5 DEF answers
    <3>2. QED  BY <1>1, <1>3, <2>5, <3>1, RightEMP
  <2>6. QED  BY <1>5, <2>1, <2>2, <2>3, <2>4, <2>5
<1>6. CASE ev = "SILENCE"
  <2>1. a = answer(silenceTime(link, p), 0, "none")
    BY <1>6 DEF answers
  <2>2. QED  BY <1>1, <1>3, <1>6, <2>1, RightSilence
<1>7. CASE ev = "BOJ"
  <2>1. a = answer(bojTime(link, p), 0, "none")
    BY <1>7 DEF answers
  <2>2. QED  BY <1>1, <1>3, <1>7, <2>1, RightBOJ
<1>8. CASE ev = "EOJ"
  <2>1. a = answer(eojTime(link, p), 0, "none")
    BY <1>8 DEF answers
  <2>2. QED  BY <1>1, <1>3, <1>8, <2>1, RightEOJ
<1>9. QED  BY <1>2, <1>4, <1>5, <1>6, <1>7, <1>8 DEF Events

LEMMA TickExpects ==
  ASSUME IInv, Expecting, Tick
  PROVE  Expecting'
<1>1. /\ Time' = Time + 1 /\ UNCHANGED <<Type, link, Activity, event, tmin, TheProcess, woke>>
      /\ \A q \in Waiters : event[q].wake # Time
  BY DEF Tick
<1>2. \A q \in Waiters : Settled(link, q, event[q])'
  BY <1>1, SettledLater DEF Expecting
<1>3. QED  BY <1>1, <1>2 DEF Expecting

LEMMA RestartExpects ==
  ASSUME Expecting, NEW q \in Waiters, NEW id, NEW pkt, NEW info, Restart(q, id, pkt, info)
  PROVE  Expecting'
<1>1. /\ TheProcess' = q /\ event' = [event EXCEPT ![q] = NoEvent] /\ tmin' = Inf
      /\ UNCHANGED <<Time, Type, link, Activity>>
  BY DEF Restart
<1>2. /\ event' = [r \in Waiters |-> event'[r]] /\ event'[q] = NoEvent
      /\ \A r \in Waiters : r # q => event'[r] = event[r]
  BY <1>1 DEF Expecting
<1>3. Settled(link', q, NoEvent) /\ DOMAIN NoEvent.reqs = {}
  BY DEF Settled, NoEvent
<1>4. \A r \in Waiters : Settled(link', r, event'[r])
  BY <1>1, <1>2, <1>3 DEF Expecting
<1>5. \A r \in Waiters : Settled(link, r, event[r])'
  BY <1>1, <1>4, SettledNext
<1>6. \A r \in Waiters : \A i \in DOMAIN event'[r].reqs :
        event'[r].reqs[i].queue = "MY_COLLISION" => Activity'[r] # 0
  BY <1>1, <1>2, <1>3 DEF Expecting
<1>7. QED  BY <1>1, <1>2, <1>5, <1>6 DEF Expecting

LEMMA SleepExpects ==
  ASSUME Expecting, Sleep
  PROVE  Expecting'
<1>1. TheProcess' = None /\ tmin' = Inf /\ UNCHANGED <<Time, Type, link, Activity, event>>
  BY DEF Sleep
<1>2. \A r \in Waiters : Settled(link, r, event[r])'
  BY <1>1, SettledNext DEF Expecting
<1>3. QED  BY <1>1, <1>2, NoProcess DEF Expecting

LEMMA Fields ==
  ASSUME NEW s, NEW top, NEW w, NEW n, NEW info,
         NEW e, e = [reqs |-> s, top |-> top, wake |-> w, pkt |-> n, info |-> info]
  PROVE  /\ e.reqs = s /\ e.top = top /\ e.wake = w /\ e.pkt = n /\ e.info = info
         /\ e = [reqs |-> e.reqs, top |-> e.top, wake |-> e.wake, pkt |-> e.pkt, info |-> e.info]
OBVIOUS

LEMMA Shown ==
  ASSUME NEW s, NEW top, NEW w, NEW n, NEW info, NEW i,
         NEW e, e = [reqs |-> s, top |-> top, wake |-> w, pkt |-> n, info |-> info],
         NEW e2, e2 = show(e, i)
  PROVE  e2 = [reqs |-> s, top |-> i, wake |-> s[i].when, pkt |-> s[i].pkt, info |-> s[i].info]
BY DEF show

\* An event with one more request r, which it shows or not.
asking(e, r, overtakes) ==
  LET e1 == [e EXCEPT !.reqs = Append(@, r)]
  IN  IF overtakes THEN show(e1, Len(e1.reqs)) ELSE e1

LEMMA Asking ==
  ASSUME Fit(link), NEW q \in Ports, NEW e, Settled(link, q, e), NEW r, Asked(link, q, r), Timely(link, q, r),
         NEW overtakes \in BOOLEAN,
         ~ overtakes => e # NoEvent /\ e.wake <= r.when,
         overtakes /\ e # NoEvent => r.when <= e.wake,
         NEW e2, e2 = asking(e, r, overtakes)
  PROVE  /\ Settled(link, q, e2) /\ e2 # NoEvent
         /\ e2.wake = IF overtakes THEN r.when ELSE e.wake
         /\ \A i \in DOMAIN e2.reqs : e2.reqs[i] = r \/ (i \in DOMAIN e.reqs /\ e2.reqs[i] = e.reqs[i])
<1>1. r \in RequestsOf(link) /\ r.when \in Nat /\ r.when \in 1 .. Inf /\ Inf \in Nat
  BY LastIsLast DEF Asked, RequestsOf
<1>2. PICK s : s = e.reqs
  OBVIOUS
<1>3. /\ e = [reqs |-> s, top |-> e.top, wake |-> e.wake, pkt |-> e.pkt, info |-> e.info]
      /\ s \in Seq(RequestsOf(link))
      /\ \A i \in DOMAIN s : Asked(link, q, s[i]) /\ Timely(link, q, s[i])
  <2>1. CASE e = NoEvent
    BY <1>2, <2>1 DEF NoEvent
  <2>2. CASE e # NoEvent
    BY <1>2, <2>2 DEF Settled, Formed
  <2>3. QED  BY <2>1, <2>2
<1>4. PICK m \in Nat : m = Len(s) /\ DOMAIN s = 1 .. m
  <2> HIDE DEF RequestsOf
  <2>1. QED  BY <1>3
<1>5. PICK t : t = Append(s, r)
  OBVIOUS
<1>6. /\ t \in Seq(RequestsOf(link)) /\ Len(t) = m + 1 /\ DOMAIN t = 1 .. m + 1
      /\ \A i \in 1 .. m : t[i] = s[i]
      /\ t[m + 1] = r
  <2> HIDE DEF RequestsOf
  <2>1. QED  BY <1>1, <1>3, <1>4, <1>5, AddedSet
<1>7. \A i \in 1 .. m + 1 : t[i] = r \/ (i \in 1 .. m /\ t[i] = s[i])
  <2>1. \A i \in 1 .. m + 1 : i \in 1 .. m \/ i = m + 1
    BY <1>4
  <2>2. QED  BY <1>6, <2>1
<1>8. \A i \in DOMAIN t : Asked(link, q, t[i]) /\ Timely(link, q, t[i]) /\ t[i] \in RequestsOf(link)
  BY <1>3, <1>4, <1>6, <1>7 DEF Asked
<1>9. PICK e1 : /\ e1 = [reqs |-> t, top |-> e.top, wake |-> e.wake, pkt |-> e.pkt, info |-> e.info]
               /\ e2 = IF overtakes THEN show(e1, Len(e1.reqs)) ELSE e1
  <2>1. PICK e1 : e1 = [e EXCEPT !.reqs = Append(@, r)]
    OBVIOUS
  <2>2. e2 = IF overtakes THEN show(e1, Len(e1.reqs)) ELSE e1
    BY <2>1 DEF asking
  <2>3. e1 = [reqs |-> t, top |-> e.top, wake |-> e.wake, pkt |-> e.pkt, info |-> e.info]
    BY <1>2, <1>3, <1>5, <2>1
  <2>4. QED  BY <2>2, <2>3
<1>10. m + 1 \in DOMAIN t /\ t # <<>>
  BY <1>6
<1>11. e # NoEvent => /\ e.top \in 1 .. m /\ e.wake = s[e.top].when /\ e.wake \in Nat
                      /\ \A i \in 1 .. m : e.wake <= s[i].when /\ s[i].when \in Nat
                      /\ e.pkt \in 0 .. Len(link.activity) /\ e.info \in Infos
                      /\ About(link, q, s[e.top].queue, e.wake, e.pkt, e.info)
  <2>1. ASSUME e # NoEvent
        PROVE  Formed(link, q, e)
    BY <2>1 DEF Settled
  <2>2. \A i \in 1 .. m : s[i] \in RequestsOf(link)
    BY <1>3, <1>4 DEF Asked
  <2>3. \A i \in 1 .. m : s[i].when \in Nat
    BY <1>1, <2>2 DEF RequestsOf
  <2>4. QED  BY <1>2, <1>4, <2>1, <2>3 DEF Formed
<1>12. CASE overtakes
  <2>1. e2 = [reqs |-> t, top |-> m + 1, wake |-> r.when, pkt |-> r.pkt, info |-> r.info]
    <3>1. e1.reqs = t
      BY <1>9, Fields
    <3>2. e2 = show(e1, m + 1)
      BY <1>6, <1>9, <1>12, <3>1
    <3>3. PICK a, b, c, d : a = e.top /\ b = e.wake /\ c = e.pkt /\ d = e.info
      OBVIOUS
    <3>4. e1 = [reqs |-> t, top |-> a, wake |-> b, pkt |-> c, info |-> d]
      BY <1>9, <3>3
    <3>5. e2 = [reqs |-> t, top |-> m + 1, wake |-> t[m + 1].when, pkt |-> t[m + 1].pkt,
                info |-> t[m + 1].info]
      BY <3>2, <3>4, Shown
    <3>6. QED  BY <1>6, <3>5
  <2>2. \A i \in DOMAIN t : r.when <= t[i].when
    <3>1. CASE e = NoEvent
      <4>1. m = 0
        BY <1>2, <1>4, <3>1 DEF NoEvent
      <4>2. QED  BY <1>1, <1>6, <1>7, <4>1
    <3>2. CASE e # NoEvent
      <4>1. \A i \in 1 .. m : r.when <= s[i].when
        BY <1>1, <1>11, <1>12, <3>2
      <4>2. QED  BY <1>1, <1>6, <1>7, <4>1
    <3>3. QED  BY <3>1, <3>2
  <2>3. /\ r.pkt \in 0 .. Len(link.activity) /\ r.info \in Infos
        /\ About(link, q, r.queue, r.when, r.pkt, r.info)
    BY <1>1 DEF Asked, RequestsOf
  <2>4. /\ e2.reqs = t /\ e2.top = m + 1 /\ e2.wake = r.when /\ e2.pkt = r.pkt /\ e2.info = r.info
        /\ e2 = [reqs |-> e2.reqs, top |-> e2.top, wake |-> e2.wake, pkt |-> e2.pkt, info |-> e2.info]
    BY <2>1, Fields
  <2>5. Formed(link, q, e2)
    BY <1>6, <1>8, <1>10, <2>2, <2>3, <2>4 DEF Formed
  <2>6. e2 # NoEvent
    BY <1>10, <2>4 DEF NoEvent
  <2>7. Settled(link, q, e2)
    BY <1>8, <2>4, <2>5 DEF Settled
  <2>8. \A i \in DOMAIN e2.reqs : e2.reqs[i] = r \/ (i \in DOMAIN e.reqs /\ e2.reqs[i] = e.reqs[i])
    BY <1>2, <1>4, <1>6, <1>7, <2>4
  <2>9. QED  BY <1>12, <2>4, <2>6, <2>7, <2>8
<1>13. CASE ~ overtakes
  <2>1. e2 = [reqs |-> t, top |-> e.top, wake |-> e.wake, pkt |-> e.pkt, info |-> e.info]
    BY <1>9, <1>13
  <2>2. \A i \in DOMAIN t : e.wake <= t[i].when
    BY <1>6, <1>7, <1>11, <1>13
  <2>3. e.top \in DOMAIN t /\ t[e.top] = s[e.top]
    BY <1>4, <1>6, <1>11, <1>13
  <2>4. /\ e2.reqs = t /\ e2.top = e.top /\ e2.wake = e.wake /\ e2.pkt = e.pkt /\ e2.info = e.info
        /\ e2 = [reqs |-> e2.reqs, top |-> e2.top, wake |-> e2.wake, pkt |-> e2.pkt, info |-> e2.info]
    BY <2>1, Fields
  <2>5. Formed(link, q, e2)
    BY <1>6, <1>8, <1>11, <1>13, <2>2, <2>3, <2>4 DEF Formed
  <2>6. e2 # NoEvent
    BY <1>10, <2>4 DEF NoEvent
  <2>7. Settled(link, q, e2)
    BY <1>8, <2>4, <2>5 DEF Settled
  <2>8. \A i \in DOMAIN e2.reqs : e2.reqs[i] = r \/ (i \in DOMAIN e.reqs /\ e2.reqs[i] = e.reqs[i])
    BY <1>2, <1>4, <1>6, <1>7, <2>4
  <2>9. QED  BY <1>13, <2>4, <2>6, <2>7, <2>8
<1>14. QED  BY <1>12, <1>13

LEMMA WaitExpects ==
  ASSUME IInv, Expecting, NEW p \in Waiters, NEW ev \in Events, Wait(p, ev)
  PROVE  Expecting'
<1>1. TheProcess = p /\ UNCHANGED <<Time, Type, link, Activity, TheProcess>>
  BY DEF Wait
<1>2. PICK a \in answers(p, ev), FLIP \in BOOLEAN :
        LET e == [event[p] EXCEPT !.reqs = Append(@, request(queueOf(p, ev), ev, a))]
            overtakes == \/ event[p].reqs = <<>>
                         \/ a.when < Inf /\ (a.when < tmin \/ (a.when = tmin /\ FLIP))
        IN  /\ event' = [event EXCEPT ![p] = IF overtakes THEN show(e, Len(e.reqs)) ELSE e]
            /\ tmin' = IF overtakes THEN a.when ELSE tmin
  BY DEF Wait
<1>3. PICK overtakes \in BOOLEAN :
        overtakes <=> \/ event[p].reqs = <<>>
                      \/ a.when < Inf /\ (a.when < tmin \/ (a.when = tmin /\ FLIP))
  OBVIOUS
<1>4. PICK queue, r : queue = queueOf(p, ev) /\ r = request(queue, ev, a)
  OBVIOUS
<1>5. PICK e : e = event[p]
  OBVIOUS
<1>6. PICK e2 : e2 = asking(e, r, overtakes)
  OBVIOUS
<1>7. event' = [event EXCEPT ![p] = e2] /\ tmin' = IF overtakes THEN a.when ELSE tmin
  <2>1. PICK e1 : e1 = [e EXCEPT !.reqs = Append(@, r)]
    OBVIOUS
  <2>2. e2 = IF overtakes THEN show(e1, Len(e1.reqs)) ELSE e1
    BY <1>6, <2>1 DEF asking
  <2>3. e1 = [event[p] EXCEPT !.reqs = Append(@, request(queueOf(p, ev), ev, a))]
    BY <1>4, <1>5, <2>1
  <2>4. CASE overtakes
    <3>1. event' = [event EXCEPT ![p] = show(e1, Len(e1.reqs))] /\ tmin' = a.when
      BY <1>2, <1>3, <2>3, <2>4
    <3>2. QED  BY <2>2, <2>4, <3>1
  <2>5. CASE ~ overtakes
    <3>1. event' = [event EXCEPT ![p] = e1] /\ tmin' = tmin
      BY <1>2, <1>3, <2>3, <2>5
    <3>2. QED  BY <2>2, <2>5, <3>1
  <2>6. QED  BY <2>4, <2>5
<1>8. p \in Ports /\ Settled(link, p, e) /\ Fit(link)
  BY <1>5, NoProcess, FitNow DEF Expecting
<1>9. r = [queue |-> queue, id |-> ev, when |-> a.when, pkt |-> a.pkt, info |-> a.info]
  BY <1>4 DEF request
<1>10. Right(link, p, queue, a)
  BY <1>4, <1>8, Answered
<1>11. /\ Comes(link, p, queue, Time, a.when) /\ About(link, p, queue, a.when, a.pkt, a.info)
       /\ a.pkt \in 0 .. Len(link.activity) /\ a.info \in Infos
  BY <1>10 DEF Right
<1>12. /\ Inf \in Nat /\ LastHeard \in Nat /\ LastHeard < Inf /\ Time \in Nat /\ Time >= 1
       /\ a.when \in 1 .. Inf
  <2>1. /\ Inf \in Nat /\ LastHeard \in Nat /\ LastHeard < Inf /\ Time \in Nat /\ Time >= 1 /\ Horizon <= LastHeard
        /\ Time <= Horizon /\ Horizon \in Nat
    BY LastIsLast, Constants DEF IInv, LinkTyped
  <2>2. a.when = Inf \/ a.when \in Time .. LastHeard
    BY <1>11 DEF Comes
  <2>3. QED  BY <2>1, <2>2
<1>13. /\ queue \in Queues /\ (ev = queue \/ (queue = "MY_COLLISION" /\ ev = "COLLISION"))
       /\ queue = "MY_COLLISION" => Activity[p] # 0
  BY <1>4 DEF queueOf, Queues, Events
<1>14. Asked(link, p, r) /\ Timely(link, p, r)
  BY <1>9, <1>11, <1>12, <1>13 DEF Asked, Timely, RequestsOf
<1>15. tmin = IF e # NoEvent THEN e.wake ELSE Inf
  BY <1>1, <1>5 DEF Expecting
<1>16. e # NoEvent => e.wake \in 1 .. Inf
  <2>1. ASSUME e # NoEvent
        PROVE  e.wake \in 1 .. Inf
    <3>1. Formed(link, p, e)
      BY <1>8, <2>1 DEF Settled
    <3>2. e.reqs[e.top] \in RequestsOf(link) /\ e.wake = e.reqs[e.top].when
      BY <3>1 DEF Formed, Asked
    <3>3. QED  BY <3>2 DEF RequestsOf
  <2>2. QED  BY <2>1
<1>17. e.reqs = <<>> <=> e = NoEvent
  BY <1>8, NoRequests
<1>18. ~ overtakes => e # NoEvent /\ e.wake <= r.when
  <2>1. ASSUME ~ overtakes
        PROVE  e # NoEvent /\ e.wake <= a.when
    <3>1. e # NoEvent /\ ~ (a.when < Inf /\ a.when < tmin)
      BY <1>3, <1>5, <1>17, <2>1
    <3>2. QED  BY <1>12, <1>15, <1>16, <3>1
  <2>2. QED  BY <1>9, <2>1
<1>19. overtakes /\ e # NoEvent => r.when <= e.wake
  <2>1. ASSUME overtakes, e # NoEvent
        PROVE  a.when <= e.wake
    <3>1. a.when < tmin \/ a.when = tmin
      BY <1>3, <1>5, <1>17, <2>1
    <3>2. QED  BY <1>12, <1>15, <1>16, <2>1, <3>1
  <2>2. QED  BY <1>9, <2>1
<1>20. /\ Settled(link, p, e2) /\ e2 # NoEvent
       /\ e2.wake = IF overtakes THEN r.when ELSE e.wake
       /\ \A i \in DOMAIN e2.reqs : e2.reqs[i] = r \/ (i \in DOMAIN e.reqs /\ e2.reqs[i] = e.reqs[i])
  BY <1>6, <1>8, <1>14, <1>18, <1>19, Asking
<1>21. /\ event' = [q \in Waiters |-> event'[q]] /\ event'[p] = e2
       /\ \A q \in Waiters : q # p => event'[q] = event[q]
  BY <1>7 DEF Expecting
<1>22. link' = link
  BY <1>1
<1>23. \A q \in Waiters : Settled(link', q, event'[q])
  BY <1>20, <1>21, <1>22 DEF Expecting
<1>24. \A q \in Waiters : Settled(link, q, event[q])'
  BY <1>1, <1>23, SettledNext
<1>25. ASSUME NEW q \in Waiters, NEW i \in DOMAIN event'[q].reqs, event'[q].reqs[i].queue = "MY_COLLISION"
       PROVE  Activity'[q] # 0
  <2>1. CASE q # p
    BY <1>1, <1>21, <1>25, <2>1 DEF Expecting
  <2>2. CASE q = p
    <3>1. CASE e2.reqs[i] = r
      BY <1>1, <1>9, <1>13, <1>21, <1>25, <2>2, <3>1
    <3>2. CASE i \in DOMAIN e.reqs /\ e2.reqs[i] = e.reqs[i]
      BY <1>1, <1>5, <1>21, <1>25, <2>2, <3>2 DEF Expecting
    <3>3. QED  BY <1>20, <1>21, <1>25, <2>2, <3>1, <3>2
  <2>3. QED  BY <2>1, <2>2
<1>26. tmin' = event'[p].wake
  <2>1. tmin' = IF overtakes THEN a.when ELSE e.wake
    BY <1>7, <1>15, <1>18
  <2>2. QED  BY <1>9, <1>20, <1>21, <2>1
<1>27. TheProcess' = p /\ event'[p] # NoEvent
  BY <1>1, <1>20, <1>21
<1>28. QED  BY <1>21, <1>24, <1>25, <1>26, <1>27 DEF Expecting

LEMMA NextExpects == IInv /\ IInv' /\ Expecting /\ [Next]_vars => Expecting'
<1> SUFFICES ASSUME IInv, IInv', Expecting, [Next]_vars
             PROVE  Expecting'
  OBVIOUS
<1>1. ASSUME NEW p \in Ports, startTransmit(p)
      PROVE  Expecting'
  <2>1. PICK to \in Receivers[p] :
          Start(p, started(p, "TRANSMISSION_A", to), "BOT", TransmitQueues)
    BY <1>1 DEF startTransmit, TransmitQueues
  <2>2. to \in SUBSET Ports
    BY Constants
  <2>3. /\ active(p) /\ Time' = Time /\ Type' = Type /\ UNCHANGED <<tmin, TheProcess>>
        /\ link' = started(p, "TRANSMISSION_A", to)
        /\ Activity' = [Activity EXCEPT ![p] = Len(link'.activity)]
        /\ RescheduleAll(link', Len(link'.activity), "BOT", TransmitQueues)
    BY <2>1 DEF Start
  <2>4. PICK type, act, queues : type = "TRANSMISSION_A" /\ act = "BOT" /\ queues = TransmitQueues
    OBVIOUS
  <2>5. act = (IF type = "JAM" THEN "BOJ" ELSE "BOT") /\ queues = IF type = "JAM" THEN JamQueues ELSE TransmitQueues
    BY <2>4
  <2>6. QED  BY <2>2, <2>3, <2>4, <2>5, StartExpects
<1>2. ASSUME NEW p \in Ports, startJam(p)
      PROVE  Expecting'
  <2>1. Start(p, started(p, "JAM", {}), "BOJ", JamQueues)
    BY <1>2 DEF startJam, JamQueues
  <2>2. /\ active(p) /\ Time' = Time /\ Type' = Type /\ UNCHANGED <<tmin, TheProcess>>
        /\ link' = started(p, "JAM", {})
        /\ Activity' = [Activity EXCEPT ![p] = Len(link'.activity)]
        /\ RescheduleAll(link', Len(link'.activity), "BOJ", JamQueues)
    BY <2>1 DEF Start
  <2>3. PICK type, to, act, queues : type = "JAM" /\ to = {} /\ act = "BOJ" /\ queues = JamQueues
    OBVIOUS
  <2>4. act = (IF type = "JAM" THEN "BOJ" ELSE "BOT") /\ queues = IF type = "JAM" THEN JamQueues ELSE TransmitQueues
    BY <2>3
  <2>5. type \in {"JAM", "TRANSMISSION_A"} /\ to \in SUBSET Ports /\ link' = started(p, type, to)
    BY <2>2, <2>3
  <2>6. QED  BY <2>2, <2>3, <2>4, <2>5, StartExpects
<1>3. ASSUME NEW p \in Ports, stopJam(p)
      PROVE  Expecting'
  <2>1. /\ Activity[p] # 0 /\ isJam(link, Activity[p])
        /\ Finish(p, finished(p, "JAM"), "EOJ", StopJamQueues)
    BY <1>3 DEF stopJam, StopJamQueues
  <2>2. QED  BY <2>1, FinishExpects DEF Finish
<1>4. ASSUME NEW p \in Ports, stop(p)
      PROVE  Expecting'
  <2>1. /\ Activity[p] # 0 /\ ~ isJam(link, Activity[p])
        /\ Finish(p, finished(p, "TRANSMISSION"), "EOT", StopQueues)
    BY <1>4 DEF stop, StopQueues
  <2>2. QED  BY <2>1, FinishExpects DEF Finish
<1>5. ASSUME NEW p \in Ports, abort(p)
      PROVE  Expecting'
  <2>1. /\ Activity[p] # 0 /\ ~ isJam(link, Activity[p])
        /\ Finish(p, finished(p, "TRANSMISSION_A"), "ABTPACKET", AbortQueues)
    BY <1>5 DEF abort, AbortQueues
  <2>2. QED  BY <2>1, FinishExpects DEF Finish
<1>6. ASSUME NEW n, RemFromLk(n) \/ RemFromAr(n)
      PROVE  Expecting'
  <2>1. link'.activity = link.activity
    BY <1>6 DEF RemFromLk, RemFromAr, gone, IInv, Shaped
  <2>2. QED  BY <1>6, <2>1, PurgeExpects DEF RemFromLk, RemFromAr
<1>7. ASSUME NEW q \in Waiters, Dispatch(q) \/ Alarm(q)
      PROVE  Expecting'
  BY <1>7, RestartExpects DEF Dispatch, Alarm
<1>8. ASSUME NEW q \in Waiters, NEW ev \in Events, Wait(q, ev)
      PROVE  Expecting'
  BY <1>8, WaitExpects
<1>9. CASE UNCHANGED vars
  <2>1. UNCHANGED <<Time, Type, link, Activity, event, tmin, TheProcess>>
    BY <1>9 DEF vars
  <2>2. \A q \in Waiters : Settled(link, q, event[q])'
    BY <2>1, SettledNext DEF Expecting
  <2>3. QED  BY <2>1, <2>2 DEF Expecting
<1>10. QED
  BY <1>1, <1>2, <1>3, <1>4, <1>5, <1>6, <1>7, <1>8, <1>9, SleepExpects, TickExpects DEF Next

LEMMA Expectation == Spec => [](IInv /\ Expecting)
<1>1. Init => IInv /\ Expecting
  BY InitHolds, InitExpects
<1>2. IInv /\ Expecting /\ [Next]_vars => (IInv /\ Expecting)'
  BY NextKeeps, NextExpects
<1>3. QED  BY <1>1, <1>2, PTL DEF Spec

\* Types of the link and of the requests: in particular a request always has a queue, a
\* time from 1 to Inf and the number of an activity that the link has had, or 0, through
\* every rescheduling and every change of queue between COLLISION and MY_COLLISION.
THEOREM Typing == Spec => []TypeOK
<1>1. ASSUME IInv, Expecting
      PROVE  TypeOK
  <2>1. LinkTyped /\ Len(link.activity) \in Nat /\ Len(link.activity) <= MaxActivities /\ MaxActivities \in Nat
    BY <1>1, Constants, Typed DEF IInv, LinkTyped
  <2>2. RequestsOf(link) \subseteq Requests
    <3>1. 0 .. Len(link.activity) \subseteq 0 .. MaxActivities
      BY <2>1
    <3>2. QED  BY <3>1 DEF RequestsOf, Requests, Queues, Infos
  <2>3. ASSUME NEW q \in Waiters
        PROVE  event[q].reqs \in Seq(Requests)
    <3>1. CASE event[q] = NoEvent
      BY <3>1 DEF NoEvent
    <3>2. CASE event[q] # NoEvent
      <4>1. event[q].reqs \in Seq(RequestsOf(link))
        BY <1>1, <3>2 DEF Expecting, Settled, Formed
      <4> HIDE DEF RequestsOf, Requests
      <4>2. QED  BY <2>2, <4>1
    <3>3. QED  BY <3>1, <3>2
  <2>4. Inf \in Nat /\ 1 <= Inf
    <3>1. Inf \in Nat /\ Horizon < Inf /\ Horizon \in Nat
      BY Constants, InfIsLater
    <3>2. QED  BY <3>1
  <2>5. tmin \in 1 .. Inf
    <3>1. CASE TheProcess \in Waiters /\ event[TheProcess] # NoEvent
      <4>1. Formed(link, TheProcess, event[TheProcess]) /\ tmin = event[TheProcess].wake
        BY <1>1, <3>1 DEF Expecting, Settled
      <4>2. PICK r : r \in RequestsOf(link) /\ tmin = r.when
        BY <4>1 DEF Formed, Asked
      <4>3. QED  BY <4>2 DEF RequestsOf
    <3>2. CASE ~ (TheProcess \in Waiters /\ event[TheProcess] # NoEvent)
      BY <1>1, <2>4, <3>2 DEF Expecting
    <3>3. QED  BY <3>1, <3>2
  <2>6. QED  BY <1>1, <2>1, <2>3, <2>5 DEF TypeOK, Expecting
<1>2. IInv /\ Expecting => TypeOK
  BY <1>1
<1>3. QED  BY <1>2, Expectation, PTL

\* A process is woken at the right time: whatever starts, ends, is aborted, jams or is
\* purged between its wait and its waking, and in whatever order the queues of requests
\* are gone through (reschedule_*), each pending request has the time at which its event
\* comes next, as it would be computed anew from all the activities there ever were, no
\* assertion of link.cc fails, and the process is due at the earliest of these times.
THEOREM Foresight == Spec => []Foreseen
<1>1. ASSUME IInv, Expecting, NEW q \in Waiters
      PROVE  LET e == event[q]
                 next(queue) == Min({Inf} \cup {t \in Time .. LastHeard : Happens(link, q, queue, t)})
             IN  /\ e # Failed
                 /\ \A i \in DOMAIN e.reqs : e.reqs[i].when = next(e.reqs[i].queue)
                 /\ e.reqs # <<>> => /\ e.wake = e.reqs[e.top].when
                                     /\ \A i \in DOMAIN e.reqs : e.wake <= e.reqs[i].when
  <2>1. PICK e : e = event[q]
    OBVIOUS
  <2>2. Settled(link, q, e) /\ Time \in Nat
    BY <1>1, <2>1, Typed DEF Expecting, IInv
  <2>3. Failed.info = "failed" /\ NoEvent.info = "none" /\ NoEvent.reqs = <<>>
    BY DEF Failed, NoEvent
  <2>4. CASE e = NoEvent
    <3>1. e # Failed /\ e.reqs = <<>> /\ DOMAIN e.reqs = {}
      BY <2>3, <2>4
    <3>2. QED  BY <2>1, <3>1
  <2>5. CASE e # NoEvent
    <3>1. Formed(link, q, e) /\ \A i \in DOMAIN e.reqs : Timely(link, q, e.reqs[i])
      BY <2>2, <2>5 DEF Settled
    <3>2. e # Failed
      <4>1. e.info # "failed"
        BY <3>1 DEF Formed, Infos
      <4>2. QED  BY <2>3, <4>1
    <3>3. ASSUME NEW i \in DOMAIN e.reqs
          PROVE  e.reqs[i].when = Min({Inf} \cup {t \in Time .. LastHeard : Happens(link, q, e.reqs[i].queue, t)})
      <4>1. PICK queue, w : queue = e.reqs[i].queue /\ w = e.reqs[i].when
        OBVIOUS
      <4>2. Comes(link, q, queue, Time, w)
        BY <3>1, <4>1 DEF Timely
      <4>3. w = Min({Inf} \cup {t \in Time .. LastHeard : Happens(link, q, queue, t)})
        BY <2>2, <4>2, ComesNext
      <4>4. QED  BY <4>1, <4>3
    <3>4. e.wake = e.reqs[e.top].when /\ \A i \in DOMAIN e.reqs : e.wake <= e.reqs[i].when
      BY <3>1 DEF Formed
    <3>5. QED  BY <2>1, <3>2, <3>3, <3>4
  <2>6. QED  BY <2>4, <2>5
<1>2. IInv /\ Expecting => Foreseen
  BY <1>1 DEF Foreseen
<1>3. QED  BY <1>2, Expectation, PTL

\* Only the main loop restarts a process with an event of its port.
LEMMA Woken ==
  ASSUME [Next]_vars, NEW q \in Waiters, TheProcess = None, TheProcess' = q, woke'.id # "none"
  PROVE  Dispatch(q)
<1>1. TheProcess' # TheProcess
  BY NoProcess
<1>2. ASSUME NEW p \in Ports, startTransmit(p) \/ startJam(p) \/ stopJam(p) \/ stop(p) \/ abort(p)
      PROVE  FALSE
  BY <1>1, <1>2 DEF startTransmit, startJam, stopJam, stop, abort, Start, Finish
<1>3. ASSUME NEW n, RemFromLk(n) \/ RemFromAr(n)
      PROVE  FALSE
  BY <1>1, <1>3 DEF RemFromLk, RemFromAr
<1>4. ASSUME NEW p \in Waiters, NEW ev, Wait(p, ev)
      PROVE  FALSE
  BY <1>1, <1>4 DEF Wait
<1>5. ASSUME NEW p \in Waiters, Alarm(p)
      PROVE  FALSE
  BY <1>5 DEF Alarm, Restart
<1>6. ASSUME NEW p \in Waiters, Dispatch(p)
      PROVE  p = q
  BY <1>6 DEF Dispatch, Restart
<1>7. ~ Sleep /\ ~ Tick /\ ~ UNCHANGED vars
  BY <1>1 DEF Sleep, Tick, vars
<1>8. QED  BY <1>2, <1>3, <1>4, <1>5, <1>6, <1>7 DEF Next

\* Request i of port q is delivered now.
Delivers(q, i) ==
  LET e == event[q]
  IN  /\ i \in DOMAIN e.reqs /\ e.reqs[i].when = Time
      /\ woke'.id = e.reqs[i].id /\ givesWay(q, e.reqs[i].id) = {}
      /\ About(link, q, e.reqs[i].queue, Time, woke'.pkt, woke'.info)

LEMMA Delivered ==
  ASSUME Expecting, NEW q \in Waiters, Dispatch(q)
  PROVE  \E i : Delivers(q, i)
<1>1. PICK e : e = event[q]
  OBVIOUS
<1>2. e.reqs # <<>> /\ e.wake = Time
  BY <1>1 DEF Dispatch
<1>3. Formed(link, q, e)
  BY <1>1, <1>2, NoRequests DEF Expecting, Settled
<1>4. /\ e.top \in DOMAIN e.reqs /\ e.reqs[e.top].when = Time
      /\ About(link, q, e.reqs[e.top].queue, Time, e.pkt, e.info)
      /\ \A i \in DOMAIN e.reqs : Asked(link, q, e.reqs[i])
  BY <1>2, <1>3 DEF Formed
<1>5. PICK id : id = e.reqs[e.top].id
  OBVIOUS
<1>6. PICK first : first = {i \in givesWay(q, id) : givesWay(q, e.reqs[i].id) = {}}
  OBVIOUS
<1>7. IF first = {} THEN Restart(q, id, e.pkt, e.info)
      ELSE \E i \in first : Restart(q, e.reqs[i].id, e.reqs[i].pkt, e.info)
  BY <1>1, <1>5, <1>6 DEF Dispatch
<1>8. ASSUME NEW x, NEW i
      PROVE  i \in givesWay(q, x) <=>
               /\ i \in DOMAIN e.reqs /\ e.reqs[i].when = Time
               /\ \/ x \in {"ACTIVITY", "BOT"} /\ e.reqs[i].id = "BMP"
                  \/ x = "ACTIVITY" /\ e.reqs[i].id = "BOT"
                  \/ x \in {"SILENCE", "EOT"} /\ e.reqs[i].id = "EMP"
                  \/ x = "SILENCE" /\ e.reqs[i].id = "EOT"
  <2>1. givesWay(q, x) = {k \in DOMAIN e.reqs :
          /\ e.reqs[k].when = Time
          /\ \/ x \in {"ACTIVITY", "BOT"} /\ e.reqs[k].id = "BMP"
             \/ x = "ACTIVITY" /\ e.reqs[k].id = "BOT"
             \/ x \in {"SILENCE", "EOT"} /\ e.reqs[k].id = "EMP"
             \/ x = "SILENCE" /\ e.reqs[k].id = "EOT"}
    BY <1>1, Zenon DEF givesWay
  <2>2. QED  BY <2>1
<1>9. CASE first = {}
  <2>1. ASSUME NEW i \in givesWay(q, id)
        PROVE  FALSE
    <3>1. PICK j : j \in givesWay(q, e.reqs[i].id)
      BY <1>6, <1>9
    <3>2. /\ j \in DOMAIN e.reqs /\ e.reqs[j].when = Time
          /\ e.reqs[i].id \in {"BOT", "EOT"} /\ e.reqs[j].id \in {"BMP", "EMP"}
          /\ e.reqs[i].id = "BOT" => e.reqs[j].id = "BMP" /\ id = "ACTIVITY"
          /\ e.reqs[i].id = "EOT" => e.reqs[j].id = "EMP" /\ id = "SILENCE"
      BY <1>8, <2>1, <3>1
    <3>3. j \in givesWay(q, id)
      BY <1>8, <3>2
    <3>4. givesWay(q, e.reqs[j].id) = {}
      BY <1>8, <3>2
    <3>5. QED  BY <1>6, <1>9, <3>3, <3>4
  <2>2. givesWay(q, id) = {}
    BY <2>1
  <2>3. woke' = [id |-> id, pkt |-> e.pkt, info |-> e.info]
    BY <1>7, <1>9 DEF Restart
  <2>4. Delivers(q, e.top)
    BY <1>1, <1>4, <1>5, <2>2, <2>3 DEF Delivers
  <2>5. QED  BY <2>4
<1>10. CASE first # {}
  <2>1. PICK i \in first : Restart(q, e.reqs[i].id, e.reqs[i].pkt, e.info)
    BY <1>7, <1>10
  <2>2. /\ i \in DOMAIN e.reqs /\ e.reqs[i].when = Time /\ givesWay(q, e.reqs[i].id) = {}
        /\ e.reqs[i].id \in {"BMP", "BOT", "EMP", "EOT"}
    BY <1>6, <1>8, <2>1
  <2>3. woke' = [id |-> e.reqs[i].id, pkt |-> e.reqs[i].pkt, info |-> e.info]
    BY <2>1 DEF Restart
  <2>4. About(link, q, e.reqs[i].queue, Time, e.reqs[i].pkt, e.info)
    <3>1. About(link, q, e.reqs[i].queue, Time, e.reqs[i].pkt, e.reqs[i].info)
      BY <1>4, <2>2 DEF Asked
    <3>2. e.reqs[i].queue # "ANYEVENT"
      BY <1>4, <2>2 DEF Asked
    <3>3. QED  BY <3>1, <3>2 DEF About
  <2>5. Delivers(q, i)
    BY <1>1, <2>2, <2>3, <2>4 DEF Delivers
  <2>6. QED  BY <2>5
<1>11. QED  BY <1>9, <1>10

\* A port that transmits hears itself.
LEMMA HearsItself ==
  ASSUME IInv, NEW p \in Ports, Activity[p] # 0, Happens(link, p, "MY_COLLISION", Time)
  PROVE  Happens(link, p, "COLLISION", Time)
<1>1. Aired(link, p)
  BY FitNow, Airing
<1>2. PICK n \in Heard(link, p) : /\ starts(link, p, n) <= Time /\ Time < ends(link, p, n)
                                  /\ link.activity[n].LRId # p
  BY <1>1, Meaning DEF Aired
<1>3. PICK m : m = Activity[p]
  OBVIOUS
<1>4. m \in DOMAIN link.activity /\ link.activity[m].FTime = Inf /\ link.activity[m].LRId = p
      /\ link.activity[m].STime \in Nat /\ Time \in Nat /\ p \in Nat
  BY <1>3, Typed, Constants DEF IInv
<1>5. link.activity[m].STime <= Time
  BY <1>4 DEF IInv, Kept, Placed
<1>6. m \in Heard(link, p)
  BY <1>4 DEF Heard, hears
<1>7. starts(link, p, m) = link.activity[m].STime /\ ends(link, p, m) = Inf
  BY <1>4, Constants DEF starts, ends
<1>8. Time < Inf
  BY <1>1 DEF Aired
<1>9. m # n /\ starts(link, p, m) <= Time /\ Time < ends(link, p, m)
  BY <1>2, <1>4, <1>5, <1>7, <1>8
<1>10. QED  BY <1>1, <1>2, <1>6, <1>9, Meaning DEF Aired

\* What a request is about is still in the link when it is delivered.
LEMMA Told ==
  ASSUME NEW q, Aired(link, q), NEW id \in Events, NEW queue, NEW n, NEW info,
         id = queue \/ (queue = "MY_COLLISION" /\ id = "COLLISION"),
         About(link, q, queue, Time, n, info)
  PROVE  Tells(q, id, n, info)
<1>1. Time # Inf /\ Time \in Nat /\ Inf \in Nat
  BY DEF Aired
<1>2. /\ queue \in {"SILENCE", "BOJ", "EOJ", "COLLISION", "MY_COLLISION"} => n = 0
      /\ queue \in {"BOT", "BMP"} => n \in Heard(link, q) /\ starts(link, q, n) = Time
      /\ queue \in {"EOT", "EMP"} => n \in Heard(link, q) /\ ends(link, q, n) = Time
      /\ queue \in {"BMP", "EMP"} => q \in link.activity[n].Receiver
      /\ queue = "ACTIVITY" => \E m \in Heard(link, q) : /\ starts(link, q, m) <= Time /\ Time < ends(link, q, m)
                                                          /\ n = packet(link, m)
      /\ queue = "ANYEVENT" => \E m \in Heard(link, q) :
           \/ starts(link, q, m) = Time /\ info = beginning(link, m) /\ n = packet(link, m)
           \/ ends(link, q, m) = Time /\ info = ending(link, m) /\ n \in {0, packet(link, m)}
  BY <1>1 DEF About
<1>3. ASSUME NEW m \in Heard(link, q), starts(link, q, m) = Time \/ ends(link, q, m) >= Time
      PROVE  m \in link.Alive \cup link.Archived
  <2>1. starts(link, q, m) \in Nat /\ ends(link, q, m) \in Nat /\ starts(link, q, m) < ends(link, q, m)
    BY <1>1 DEF Aired
  <2>2. m \in sensed(link, q)
    BY <1>1, <1>3, <2>1 DEF Aired
  <2>3. QED  BY <2>2 DEF sensed
<1>4. \A m \in Heard(link, q) : m # 0
  BY DEF Aired
<1>5. \A m : packet(link, m) = IF isJam(link, m) THEN 0 ELSE m
  BY DEF packet
<1>6. \A m \in Heard(link, q) : ends(link, q, m) \in Nat
  BY <1>1 DEF Aired
<1>7. /\ \A m : m \in HeardAt(link, q, Time) <=> m \in Heard(link, q) /\ starts(link, q, m) <= Time /\ Time < ends(link, q, m)
      /\ \A m : m \in Beginning(link, q, Time) <=> m \in Heard(link, q) /\ starts(link, q, m) = Time
      /\ \A m : m \in Ending(link, q, Time) <=> m \in Heard(link, q) /\ ends(link, q, m) = Time
  BY DEF HeardAt, Beginning, Ending
<1>8. CASE queue \in {"SILENCE", "BOJ", "EOJ", "COLLISION", "MY_COLLISION"}
  BY <1>2, <1>8 DEF Tells, Events
<1>9. CASE queue \in {"BOT", "BMP"}
  BY <1>2, <1>3, <1>4, <1>9 DEF Tells, Events
<1>10. CASE queue \in {"EOT", "EMP"}
  <2>1. n \in link.Alive \cup link.Archived
    BY <1>1, <1>2, <1>3, <1>10
  <2>2. QED  BY <1>2, <1>4, <1>10, <2>1 DEF Tells, Events
<1>11. CASE queue = "ACTIVITY"
  <2>1. PICK m \in Heard(link, q) : /\ starts(link, q, m) <= Time /\ Time < ends(link, q, m)
                                    /\ n = packet(link, m)
    BY <1>2, <1>11
  <2>2. m \in link.Alive \cup link.Archived
    BY <1>1, <1>3, <1>6, <2>1
  <2>3. id = "ACTIVITY" /\ m \in HeardAt(link, q, Time)
    BY <1>7, <1>11, <2>1
  <2>4. CASE isJam(link, m)
    <3>1. n = 0 /\ \E x \in HeardAt(link, q, Time) : isJam(link, x)
      BY <1>5, <2>1, <2>3, <2>4
    <3>2. QED  BY <2>3, <3>1 DEF Tells
  <2>5. CASE ~ isJam(link, m)
    <3>1. n = m
      BY <1>5, <2>1, <2>5
    <3>2. n # 0
      BY <1>4, <3>1
    <3>3. QED  BY <2>2, <2>3, <3>1, <3>2 DEF Tells
  <2>6. QED  BY <2>4, <2>5
<1>12. CASE queue = "ANYEVENT"
  <2>1. PICK m \in Heard(link, q) :
           \/ starts(link, q, m) = Time /\ info = beginning(link, m) /\ n = packet(link, m)
           \/ ends(link, q, m) = Time /\ info = ending(link, m) /\ n \in {0, packet(link, m)}
    BY <1>2, <1>12
  <2>2. m \in link.Alive \cup link.Archived
    BY <1>1, <1>3, <2>1
  <2>3. n # 0 => n = m
    BY <1>5, <2>1
  <2>4. id = "ANYEVENT"
    BY <1>12
  <2>5. \/ m \in Beginning(link, q, Time) /\ info = beginning(link, m) /\ n = packet(link, m)
        \/ m \in Ending(link, q, Time) /\ info = ending(link, m) /\ n \in {0, packet(link, m)}
    BY <1>7, <2>1
  <2>6. QED  BY <2>2, <2>3, <2>4, <2>5 DEF Tells
<1>13. QED  BY <1>8, <1>9, <1>10, <1>11, <1>12 DEF Events

\* A request of queue is delivered as id when the event comes.
LEMMA ComesTrue ==
  ASSUME IInv, Expecting, NEW q \in Waiters, NEW i, Delivers(q, i)
  PROVE  /\ Happens(link, q, woke'.id, Time) /\ Tells(q, woke'.id, woke'.pkt, woke'.info)
<1>1. PICK r : r = event[q].reqs[i]
  OBVIOUS
<1>2. i \in DOMAIN event[q].reqs /\ r.when = Time /\ woke'.id = r.id /\ About(link, q, r.queue, Time, woke'.pkt, woke'.info)
  BY <1>1 DEF Delivers
<1>3. Formed(link, q, event[q]) /\ \A j \in DOMAIN event[q].reqs : Timely(link, q, event[q].reqs[j])
  <2>1. event[q] # NoEvent
    BY <1>2 DEF NoEvent
  <2>2. QED  BY <2>1 DEF Expecting, Settled
<1>4. /\ r \in RequestsOf(link) /\ (r.id = r.queue \/ (r.queue = "MY_COLLISION" /\ r.id = "COLLISION"))
      /\ Comes(link, q, r.queue, Time, Time)
  BY <1>1, <1>2, <1>3 DEF Formed, Asked, Timely
<1>5. q \in Ports /\ Aired(link, q)
  BY NoProcess, FitNow, Airing
<1>6. Happens(link, q, r.queue, Time)
  BY <1>4, <1>5 DEF Comes, Aired
<1>7. r.id # r.queue => Activity[q] # 0 /\ r.queue = "MY_COLLISION" /\ r.id = "COLLISION"
  BY <1>1, <1>2, <1>4 DEF Expecting
<1>8. Happens(link, q, r.id, Time)
  <2>1. CASE r.id = r.queue
    BY <1>6, <2>1
  <2>2. CASE r.id # r.queue
    BY <1>5, <1>6, <1>7, <2>2, HearsItself
  <2>3. QED  BY <2>1, <2>2
<1>9. r.id \in Events
  BY <1>4 DEF RequestsOf
<1>10. Tells(q, r.id, woke'.pkt, woke'.info)
  BY <1>2, <1>4, <1>5, <1>9, Told
<1>11. QED  BY <1>2, <1>8, <1>10

\* A request with priority over the one that is delivered is not due.
LEMMA NoPriority ==
  ASSUME IInv, Expecting, NEW q \in Waiters, NEW i, Delivers(q, i),
         NEW j \in DOMAIN event[q].reqs, NEW id, id # "COLLISION", event[q].reqs[j].id = id,
         Happens(link, q, id, Time)
  PROVE  event[q].reqs[j].when = Time
<1>1. PICK r : r = event[q].reqs[j]
  OBVIOUS
<1>2. Formed(link, q, event[q]) /\ \A k \in DOMAIN event[q].reqs : Timely(link, q, event[q].reqs[k])
  <2>1. event[q] # NoEvent
    BY DEF NoEvent
  <2>2. QED  BY <2>1 DEF Expecting, Settled
<1>3. r.id = r.queue /\ r.id = id /\ Comes(link, q, id, Time, r.when)
  BY <1>1, <1>2 DEF Formed, Asked, Timely
<1>4. Time \in 1 .. LastHeard /\ LastHeard \in Nat /\ Inf \in Nat /\ LastHeard < Inf
  <2>1. q \in Ports
    BY NoProcess
  <2>2. Aired(link, q)
    BY <2>1, FitNow, Airing
  <2>3. QED  BY <2>2 DEF Aired
<1>5. r.when <= Time
  BY <1>3, <1>4 DEF Comes
<1>6. r.when = Inf \/ r.when \in Time .. LastHeard
  BY <1>3 DEF Comes
<1>7. r.when = Time
  BY <1>4, <1>5, <1>6
<1>8. QED  BY <1>1, <1>7

\* A process that is restarted by its port is told an event that is heard there at that
\* moment, although the event was foreseen long before and activities have started, ended
\* and been removed since; the packet that comes with it is one that the event is about and
\* that the link still has; and of the simultaneous events that the process waits for, it is
\* told BMP before BOT before ACTIVITY, and EMP before EOT before SILENCE (the main loop).
THEOREM Truth == Spec => EventIsTrue
<1> DEFINE A(q) ==
      LET awaited == {event[q].reqs[i].id : i \in DOMAIN event[q].reqs}
          id == woke'.id
      IN  /\ Happens(link, q, id, Time) /\ Tells(q, id, woke'.pkt, woke'.info)
          /\ id \in {"ACTIVITY", "BOT"} /\ Happens(link, q, "BMP", Time) => "BMP" \notin awaited
          /\ id = "ACTIVITY" /\ Happens(link, q, "BOT", Time) => "BOT" \notin awaited
          /\ id \in {"SILENCE", "EOT"} /\ Happens(link, q, "EMP", Time) => "EMP" \notin awaited
          /\ id = "SILENCE" /\ Happens(link, q, "EOT", Time) => "EOT" \notin awaited
<1>1. ASSUME IInv, Expecting, [Next]_vars, NEW q \in Waiters,
             TheProcess = None, TheProcess' = q, woke'.id # "none"
      PROVE  A(q)
  <2>1. Dispatch(q)
    BY <1>1, Woken
  <2>2. PICK i : Delivers(q, i)
    BY <1>1, <2>1, Delivered
  <2>3. Happens(link, q, woke'.id, Time) /\ Tells(q, woke'.id, woke'.pkt, woke'.info)
    BY <1>1, <2>2, ComesTrue
  <2>4. woke'.id = event[q].reqs[i].id /\ givesWay(q, woke'.id) = {}
    BY <2>2 DEF Delivers
  <2>5. ASSUME NEW id \in {"BMP", "BOT", "EMP", "EOT"}, Happens(link, q, id, Time),
               NEW j \in DOMAIN event[q].reqs, event[q].reqs[j].id = id
        PROVE  ~ (\/ woke'.id \in {"ACTIVITY", "BOT"} /\ id = "BMP"
                  \/ woke'.id = "ACTIVITY" /\ id = "BOT"
                  \/ woke'.id \in {"SILENCE", "EOT"} /\ id = "EMP"
                  \/ woke'.id = "SILENCE" /\ id = "EOT")
    <3>1. event[q].reqs[j].when = Time
      <4>1. id # "COLLISION"
        OBVIOUS
      <4>2. QED  BY <1>1, <2>2, <2>5, <4>1, NoPriority
    <3>2. QED  BY <2>4, <2>5, <3>1 DEF givesWay
  <2>6. QED  BY <2>3, <2>5
<1>2. IInv /\ Expecting /\ [Next]_vars =>
        [\A q \in Waiters : TheProcess = None /\ TheProcess' = q /\ woke'.id # "none" => A(q)]_vars
  BY <1>1
<1>3. QED  BY <1>2, Expectation, PTL DEF Spec, EventIsTrue

-----------------------------------------------------------------------------
(* The last period of activity                                              *)

\* s has the activities S in the order in which p hears their ends.
InEndOrder(p, S, m, s) ==
  /\ m \in Nat /\ s \in [1 .. m -> S] /\ (\A n \in S : ends(link, p, n) \in Nat)
  /\ \A i, j \in 1 .. m : i < j => s[i] # s[j] /\ ends(link, p, s[i]) <= ends(link, p, s[j])
  /\ \A x \in S : \E i \in 1 .. m : s[i] = x

LEMMA ByEnd ==
  ASSUME NEW p, NEW S, S = known(p), IsFiniteSet(S), \A n \in S : ends(link, p, n) \in Nat,
         NEW m, m = Cardinality(S), NEW s, s = byEnd(p)
  PROVE  InEndOrder(p, S, m, s)
<1> DEFINE key == [n \in S |-> ends(link, p, n)]
<1>2. key \in [S -> Nat] /\ \A n \in S : key[n] = ends(link, p, n)
  OBVIOUS
<1>3. s = sorted(S, key)
  BY DEF byEnd
<1> HIDE DEF key
<1>4. /\ m \in Nat /\ s \in [1 .. m -> S]
      /\ \A i, j \in 1 .. m : i < j => s[i] # s[j] /\ key[s[i]] <= key[s[j]]
      /\ \A x \in S : \E i \in 1 .. m : s[i] = x
  <2>1. Arranged(s, m, S, key)
    BY <1>2, <1>3, Sorted
  <2>2. QED  BY <2>1 DEF Arranged
<1>5. QED  BY <1>2, <1>4 DEF InEndOrder

\* The last k of them.
Latter(s, m, k) == {s[j] : j \in {i \in 1 .. m : i > m - k}}

LEMMA Latters ==
  ASSUME NEW p, NEW S, NEW m, NEW s, InEndOrder(p, S, m, s)
  PROVE  /\ Latter(s, m, 0) = {} /\ Latter(s, m, m) = S
         /\ \A k \in 0 .. m - 1 :
              /\ s[m - k] \in S
              /\ Latter(s, m, k + 1) = Latter(s, m, k) \cup {s[m - k]}
              /\ \A n \in S : ends(link, p, n) > ends(link, p, s[m - k]) => n \in Latter(s, m, k)
<1> /\ m \in Nat /\ s \in [1 .. m -> S] /\ (\A n \in S : ends(link, p, n) \in Nat)
    /\ \A i, j \in 1 .. m : i < j => s[i] # s[j] /\ ends(link, p, s[i]) <= ends(link, p, s[j])
    /\ \A x \in S : \E i \in 1 .. m : s[i] = x
  BY DEF InEndOrder
<1>1. Latter(s, m, 0) = {}
  BY DEF Latter
<1>2. Latter(s, m, m) = S
  <2>1. \A i \in 1 .. m : i > m - m
    OBVIOUS
  <2>2. QED  BY <2>1 DEF Latter
<1>3. ASSUME NEW k \in 0 .. m - 1
      PROVE  /\ s[m - k] \in S
             /\ Latter(s, m, k + 1) = Latter(s, m, k) \cup {s[m - k]}
             /\ \A n \in S : ends(link, p, n) > ends(link, p, s[m - k]) => n \in Latter(s, m, k)
  <2>1. m - k \in 1 .. m
    OBVIOUS
  <2>2. {i \in 1 .. m : i > m - (k + 1)} = {i \in 1 .. m : i > m - k} \cup {m - k}
    OBVIOUS
  <2>3. Latter(s, m, k + 1) = Latter(s, m, k) \cup {s[m - k]}
    BY <2>2 DEF Latter
  <2>4. ASSUME NEW n \in S, ends(link, p, n) > ends(link, p, s[m - k])
        PROVE  n \in Latter(s, m, k)
    <3>1. PICK i \in 1 .. m : s[i] = n
      OBVIOUS
    <3>2. ~ (i < m - k) /\ i # m - k
      BY <2>1, <2>4, <3>1
    <3>3. i > m - k
      BY <3>2
    <3>4. QED  BY <3>1, <3>3 DEF Latter
  <2>5. QED  BY <2>1, <2>3, <2>4
<1>4. QED  BY <1>1, <1>2, <1>3

\* The known activities are looked through backwards, from the last end.  Those of the
\* last period, which begins at r with x, come first, and none of them is taken for the end
\* of an earlier period.
LEMMA Backwards ==
  ASSUME NEW p, NEW S, S = known(p), IsFiniteSet(S),
         \A n \in S : /\ starts(link, p, n) \in Nat \ {0} /\ ends(link, p, n) \in Nat
                      /\ starts(link, p, n) < ends(link, p, n),
         NEW x \in S, NEW r \in Nat, r = starts(link, p, x),
         \A n \in S : r <= starts(link, p, n) \/ ends(link, p, n) < r,
         \A z \in S : r < starts(link, p, z) =>
           \E n \in S : starts(link, p, n) < starts(link, p, z) /\ starts(link, p, z) <= ends(link, p, n)
  PROVE  lastBOA(p) = r
<1>0. PICK m, s : m = Cardinality(S) /\ s = byEnd(p)
  OBVIOUS
<1> DEFINE T == [tc : Nat, gap : BOOLEAN]
           F == [k \in 1 .. m |-> [c \in T |-> backTo(p, c, s[m + 1 - k])]]
           b[k \in 0 .. m] == IF k = 0 THEN nothingYet ELSE backTo(p, b[k - 1], s[m + 1 - k])
<1>1. lastBOA(p) = b[m].tc
  BY <1>0 DEF lastBOA
<1>a. \A n \in S : ends(link, p, n) \in Nat
  OBVIOUS
<1>b. InEndOrder(p, S, m, s)
  BY <1>0, <1>a, ByEnd
<1>2. /\ m \in Nat /\ s \in [1 .. m -> S]
      /\ \A i, j \in 1 .. m : i < j => s[i] # s[j] /\ ends(link, p, s[i]) <= ends(link, p, s[j])
      /\ \A y \in S : \E i \in 1 .. m : s[i] = y
  BY <1>b DEF InEndOrder
<1>3. \A k \in 1 .. m : m + 1 - k \in 1 .. m
  BY <1>2
<1>4. \A k \in 1 .. m, c \in T : backTo(p, c, s[m + 1 - k]) \in T
  BY <1>2, <1>3 DEF backTo
<1>5. /\ b[0] = nothingYet
      /\ \A k \in 1 .. m : b[k] = backTo(p, b[k - 1], s[m + 1 - k])
      /\ \A k \in 0 .. m : b[k] \in T
  <2>1. F \in [1 .. m -> [T -> T]] /\ \A k \in 1 .. m : \A c \in T : F[k][c] = backTo(p, c, s[m + 1 - k])
    BY <1>4
  <2>2. nothingYet \in T
    BY DEF nothingYet
  <2> HIDE DEF F, T
  <2>3. PICK f \in [0 .. m -> T] : f[0] = nothingYet /\ \A k \in 1 .. m : f[k] = F[k][f[k - 1]]
    <3>1. m \in Nat /\ F \in [1 .. m -> [T -> T]]
      BY <1>2, <2>1
    <3>2. \E f : Recurs(f, m, T, nothingYet, F)
      BY <2>2, <3>1, Recursive
    <3>3. QED  BY <3>2 DEF Recurs
  <2>4. \A k \in 1 .. m : f[k] = backTo(p, f[k - 1], s[m + 1 - k])
    <3>1. \A k \in 1 .. m : f[k - 1] \in T
      BY <1>2
    <3>2. QED  BY <2>1, <2>3, <3>1
  <2>5. f = [k \in 0 .. m |-> IF k = 0 THEN nothingYet ELSE backTo(p, f[k - 1], s[m + 1 - k])]
    <3>1. f[0] = nothingYet /\ f = [k \in 0 .. m |-> f[k]]
      BY <2>3
    <3>2. \A k \in 0 .. m : f[k] = IF k = 0 THEN nothingYet ELSE backTo(p, f[k - 1], s[m + 1 - k])
      <4>1. ASSUME NEW k \in 0 .. m, k # 0
            PROVE  k \in 1 .. m
        BY <1>2, <4>1
      <4>2. QED  BY <2>4, <3>1, <4>1
    <3>3. [k \in 0 .. m |-> f[k]]
          = [k \in 0 .. m |-> IF k = 0 THEN nothingYet ELSE backTo(p, f[k - 1], s[m + 1 - k])]
      BY <3>2
    <3>4. QED  BY <3>1, <3>3
  <2>6. b = [k \in 0 .. m |-> IF k = 0 THEN nothingYet ELSE backTo(p, b[k - 1], s[m + 1 - k])]
    BY <2>5
  <2> HIDE DEF b
  <2>7. b[0] = nothingYet /\ \A k \in 1 .. m : b[k] = backTo(p, b[k - 1], s[m + 1 - k])
    <3>1. 0 \in 0 .. m /\ \A k \in 1 .. m : k \in 0 .. m /\ k # 0
      BY <1>2
    <3>2. QED  BY <2>6, <3>1
  <2> DEFINE A == {k \in 0 .. m : b[k] \in T}
  <2>8. 0 \in A
    <3>1. 0 \in 0 .. m
      BY <1>2
    <3>2. b[0] \in T
      BY <2>2, <2>7
    <3>3. QED  BY <3>1, <3>2
  <2>9. ASSUME NEW k \in 0 .. m - 1, k \in A
        PROVE  k + 1 \in A
    <3>1. k + 1 \in 1 .. m /\ (k + 1) - 1 = k
      BY <1>2
    <3>2. b[k + 1] = backTo(p, b[k], s[m + 1 - (k + 1)]) /\ b[k] \in T
      BY <2>7, <2>9, <3>1
    <3>3. b[k + 1] \in T
      BY <2>1, <3>1, <3>2
    <3>4. QED  BY <3>1, <3>3
  <2>10. \A k \in 0 .. m : k \in A
    <3> HIDE DEF A
    <3>1. QED  BY <1>2, <2>8, <2>9, Reached
  <2>11. QED  BY <2>7, <2>10
<1> HIDE DEF b, F
<1>6. /\ Latter(s, m, 0) = {} /\ Latter(s, m, m) = S
      /\ \A k \in 0 .. m - 1 :
           /\ s[m - k] \in S
           /\ Latter(s, m, k + 1) = Latter(s, m, k) \cup {s[m - k]}
           /\ \A n \in S : ends(link, p, n) > ends(link, p, s[m - k]) => n \in Latter(s, m, k)
  BY <1>b, Latters
<1>7. \A k \in 0 .. m : Latter(s, m, k) \subseteq S
  BY <1>2 DEF Latter
<1> DEFINE In(k) == \A n \in Latter(s, m, k) : r <= starts(link, p, n)
           First(k) == /\ \A n \in Latter(s, m, k) : b[k].tc <= starts(link, p, n)
                       /\ \E n \in Latter(s, m, k) : b[k].tc = starts(link, p, n)
           Good == {k \in 0 .. m : /\ ~ In(k) => b[k].gap = TRUE /\ b[k].tc = r
                                   /\ In(k) => b[k].gap = FALSE /\ ((k = 0 /\ b[k].tc = 0) \/ First(k))}
<1>8. 0 \in Good
  <2>1. b[0].gap = FALSE /\ b[0].tc = 0
    BY <1>5 DEF nothingYet
  <2>2. In(0)
    BY <1>6
  <2>3. 0 \in 0 .. m
    BY <1>2
  <2>4. QED  BY <2>1, <2>2, <2>3
<1>9. ASSUME NEW k \in 0 .. m - 1, k \in Good
      PROVE  k + 1 \in Good
  <2>0. k \in 0 .. m /\ k + 1 \in 1 .. m /\ k + 1 \in 0 .. m /\ (k + 1) - 1 = k /\ m + 1 - (k + 1) = m - k
    BY <1>2
  <2>1. PICK y \in S : y = s[m - k]
    BY <1>6
  <2>2. /\ Latter(s, m, k + 1) = Latter(s, m, k) \cup {y} /\ Latter(s, m, k) \subseteq S
        /\ \A n \in S : ends(link, p, n) > ends(link, p, y) => n \in Latter(s, m, k)
    BY <1>6, <1>7, <2>0, <2>1
  <2>3. PICK c \in T, d \in T : c = b[k] /\ d = b[k + 1]
    BY <1>5, <2>0
  <2>4. d = backTo(p, c, y)
    BY <1>5, <2>0, <2>1, <2>3
  <2>5. PICK gap \in BOOLEAN, tc \in Nat : c.gap = gap /\ c.tc = tc
    BY <2>3
  <2>6. CASE ~ In(k)
    <3>1. c.gap = TRUE /\ c.tc = r
      BY <1>9, <2>3, <2>6
    <3>2. d.gap = TRUE /\ d.tc = r
      BY <2>4, <3>1 DEF backTo
    <3>3. ~ In(k + 1)
      BY <2>2, <2>6
    <3>4. QED  BY <2>0, <2>3, <3>2, <3>3
  <2>7. CASE In(k) /\ r <= starts(link, p, y)
    <3>1. c.gap = FALSE /\ ((k = 0 /\ c.tc = 0) \/ First(k))
      BY <1>9, <2>3, <2>7
    <3>2. In(k + 1)
      BY <2>2, <2>7
    <3>3. ~ (c.tc # 0 /\ ends(link, p, y) < c.tc)
      <4>1. SUFFICES ASSUME c.tc # 0, ends(link, p, y) < c.tc
                     PROVE  FALSE
        OBVIOUS
      <4>2. PICK z \in S : c.tc = starts(link, p, z) /\ \A n \in Latter(s, m, k) : c.tc <= starts(link, p, n)
        BY <2>2, <2>3, <3>1, <4>1
      <4>3. r < starts(link, p, z)
        BY <2>7, <4>1, <4>2
      <4>4. PICK n \in S : starts(link, p, n) < starts(link, p, z) /\ starts(link, p, z) <= ends(link, p, n)
        BY <4>3
      <4>5. ends(link, p, n) > ends(link, p, y)
        BY <4>1, <4>2, <4>4
      <4>6. n \in Latter(s, m, k)
        BY <2>2, <4>5
      <4>7. QED  BY <4>2, <4>4, <4>6
    <3>4. /\ d.gap = FALSE
          /\ d.tc = IF c.tc = 0 \/ starts(link, p, y) < c.tc THEN starts(link, p, y) ELSE c.tc
      BY <2>4, <3>1, <3>3 DEF backTo
    <3>5. First(k + 1)
      <4>1. CASE c.tc = 0
        <5>1. k = 0
          <6>1. ~ First(k)
            <7>1. \A n \in Latter(s, m, k) : starts(link, p, n) # 0
              BY <2>2
            <7>2. QED  BY <2>3, <4>1, <7>1
          <6>2. QED  BY <3>1, <6>1
        <5>2. Latter(s, m, k + 1) = {y}
          BY <1>6, <2>2, <5>1
        <5>3. d.tc = starts(link, p, y)
          BY <3>4, <4>1
        <5>4. QED  BY <2>3, <5>2, <5>3
      <4>2. CASE c.tc # 0
        <5>1. PICK z \in Latter(s, m, k) : c.tc = starts(link, p, z) /\ \A n \in Latter(s, m, k) : c.tc <= starts(link, p, n)
          BY <2>3, <3>1, <4>2
        <5>2. z \in S /\ y \in Latter(s, m, k + 1) /\ z \in Latter(s, m, k + 1)
          BY <2>2, <5>1
        <5>3. \A n \in Latter(s, m, k) : starts(link, p, n) \in Nat
          BY <2>2
        <5>4. d.tc <= starts(link, p, y) /\ d.tc <= c.tc /\ d.tc \in {starts(link, p, y), starts(link, p, z)}
          BY <3>4, <4>2, <5>1, <5>2
        <5>5. \A n \in Latter(s, m, k + 1) : d.tc <= starts(link, p, n)
          BY <2>2, <2>3, <5>1, <5>3, <5>4
        <5>6. QED  BY <2>3, <5>2, <5>4, <5>5
      <4>3. QED  BY <4>1, <4>2
    <3>6. QED  BY <2>0, <2>3, <3>2, <3>4, <3>5
  <2>8. CASE In(k) /\ ~ (r <= starts(link, p, y))
    <3>1. ends(link, p, y) < r
      BY <2>8
    <3>2. x \in Latter(s, m, k)
      BY <2>2, <3>1
    <3>3. c.gap = FALSE /\ ((k = 0 /\ c.tc = 0) \/ First(k))
      BY <1>9, <2>3, <2>8
    <3>4. k # 0
      BY <1>6, <3>2
    <3>5. PICK z \in Latter(s, m, k) : c.tc = starts(link, p, z) /\ \A n \in Latter(s, m, k) : c.tc <= starts(link, p, n)
      BY <2>3, <3>3, <3>4
    <3>6. c.tc = r
      <4>1. c.tc <= r
        BY <3>2, <3>5
      <4>2. r <= c.tc
        BY <2>8, <3>5
      <4>3. QED  BY <2>3, <4>1, <4>2
    <3>7. r # 0
      OBVIOUS
    <3>8. d.gap = TRUE /\ d.tc = r
      BY <2>4, <3>1, <3>6, <3>7 DEF backTo
    <3>9. ~ In(k + 1)
      BY <2>2, <2>8
    <3>10. QED  BY <2>0, <2>3, <3>8, <3>9
  <2>9. QED  BY <2>6, <2>7, <2>8
<1>10. m \in Good
  <2> HIDE DEF Good
  <2>1. \A k \in 0 .. m : k \in Good
    BY <1>2, <1>8, <1>9, Reached
  <2>2. QED  BY <1>2, <2>1
<1>11. m # 0
  BY <1>6
<1>12. b[m].tc = r
  <2>1. CASE ~ In(m)
    BY <1>10, <2>1
  <2>2. CASE In(m)
    <3>1. /\ \A n \in S : b[m].tc <= starts(link, p, n)
          /\ \E n \in S : b[m].tc = starts(link, p, n)
      BY <1>6, <1>10, <1>11, <2>2
    <3>2. \A n \in S : r <= starts(link, p, n)
      BY <1>6, <2>2
    <3>3. QED  BY <3>1, <3>2
  <2>3. QED  BY <2>1, <2>2
<1>13. QED  BY <1>1, <1>12

\* The beginning of the last period of activity that a port has heard is found in the
\* lists Alive and Archived as long as the linger time has not passed since then (lastBOA):
\* neither is an activity of that period missing nor is one of an earlier period taken for
\* a part of it, for every topology and both types of link.
THEOREM LastPeriod == Spec => []PastIsKnown
<1>1. ASSUME IInv, NEW p \in Ports, NEW boa,
             boa = Max({0} \cup {starts(link, p, n) : n \in {m \in Past(p) : HeardAt(link, p, starts(link, p, m) - 1) = {}}}),
             boa # 0, boa + PurgeDelay >= Time
      PROVE  lastBOA(p) = boa
  <2> DEFINE G == {starts(link, p, n) : n \in {m \in Past(p) : HeardAt(link, p, starts(link, p, m) - 1) = {}}}
  <2>1. Heard(link, p) \subseteq DOMAIN link.activity /\ Past(p) \subseteq Heard(link, p)
    BY DEF Heard, Past
  <2>2. \A n \in Heard(link, p) : /\ starts(link, p, n) \in Nat \ {0} /\ ends(link, p, n) \in Nat
                                  /\ starts(link, p, n) < ends(link, p, n)
    <3>1. ASSUME NEW n \in Heard(link, p)
          PROVE  starts(link, p, n) # 0
      <4>1. PICK a, d : a = link.activity[n] /\ d = Distances[p][a.LRId]
        OBVIOUS
      <4>2. a \in Activities
        <5>1. link.activity \in Seq(Activities)
          BY <1>1 DEF IInv, LinkTyped
        <5>2. n \in DOMAIN link.activity
          BY <2>1
        <5>3. link.activity[n] \in Activities
          BY <5>1, <5>2
        <5>4. QED  BY <4>1, <5>3
      <4>3. a.STime \in 1 .. Horizon /\ a.LRId \in Ports
        BY <4>2 DEF Activities
      <4>4. a.STime \in Nat \ {0} /\ d \in Nat
        <5>1. /\ Horizon \in Nat
              /\ \A i, j \in Ports : Distances[i][j] \in Nat
          BY Constants
        <5>2. d \in Nat
          BY <1>1, <4>1, <4>3, <5>1
        <5>3. QED  BY <4>3, <5>1, <5>2
      <4>5. starts(link, p, n) = a.STime + d
        BY <4>1 DEF starts
      <4>6. QED  BY <4>4, <4>5
    <3>2. QED  BY <1>1, <2>1, <3>1, Times, InfIsLater
  <2>3. known(p) = {n \in Past(p) : n \in link.Alive \cup link.Archived}
    <3>1. link.Alive \cup link.Archived \subseteq DOMAIN link.activity
      BY <1>1, Typed DEF IInv
    <3>2. QED  BY <3>1 DEF known, Past, Heard
  <2>4. Time \in Nat /\ PurgeDelay \in Nat
    BY <1>1, Typed, Constants DEF IInv
  <2>5. {0} \cup G \in SUBSET (0 .. Time) /\ {0} \cup G # {}
    <3>1. \A n \in Past(p) : starts(link, p, n) \in 0 .. Time
      BY <2>1, <2>2, <2>4 DEF Past
    <3>2. QED  BY <2>4, <3>1
  <2>6. boa \in {0} \cup G /\ \A y \in {0} \cup G : y <= boa
    <3> HIDE DEF G
    <3>1. boa = Max({0} \cup G)
      BY <1>1 DEF G
    <3>2. QED  BY <2>4, <2>5, <3>1, Greatest, Zenon
  <2>7. PICK x \in Past(p) : boa = starts(link, p, x) /\ HeardAt(link, p, boa - 1) = {}
    BY <1>1, <2>6
  <2>8. ASSUME NEW n \in Past(p), boa <= ends(link, p, n)
        PROVE  n \in known(p)
    <3>1. n \in Heard(link, p)
      BY <2>1
    <3>2. n \notin link.Alive \cup link.Archived => ends(link, p, n) + PurgeDelay < Time
      BY <1>1, <3>1, Gone
    <3>3. boa \in Nat /\ ends(link, p, n) \in Nat
      BY <2>1, <2>2, <2>7, <3>1
    <3>4. ~ (ends(link, p, n) + PurgeDelay < Time)
      BY <1>1, <2>4, <2>8, <3>3
    <3>5. QED  BY <2>3, <3>2, <3>4
  <2>9. boa \in Nat \ {0} /\ x \in known(p)
    <3>1. x \in Heard(link, p)
      BY <2>1
    <3>2. boa \in Nat \ {0} /\ boa <= ends(link, p, x)
      BY <2>2, <2>7, <3>1
    <3>3. QED  BY <2>8, <3>2
  <2>10. PICK S : S = known(p)
    OBVIOUS
  <2>11. \A n \in S : /\ n \in Past(p) /\ n \in Heard(link, p)
                      /\ starts(link, p, n) \in Nat \ {0} /\ ends(link, p, n) \in Nat
                      /\ starts(link, p, n) < ends(link, p, n)
    BY <2>1, <2>2, <2>3, <2>10
  <2>12. \A n \in S : boa <= starts(link, p, n) \/ ends(link, p, n) < boa
    <3>1. \A n \in Heard(link, p) : ~ (starts(link, p, n) <= boa - 1 /\ boa - 1 < ends(link, p, n))
      BY <2>7 DEF HeardAt
    <3>2. QED  BY <2>9, <2>11, <3>1
  <2>13. ASSUME NEW z \in S, boa < starts(link, p, z)
         PROVE  \E n \in S : starts(link, p, n) < starts(link, p, z) /\ starts(link, p, z) <= ends(link, p, n)
    <3>1. starts(link, p, z) \notin G
      BY <2>6, <2>9, <2>11, <2>13
    <3>2. HeardAt(link, p, starts(link, p, z) - 1) # {}
      BY <2>11, <3>1
    <3>3. PICK n \in Heard(link, p) : starts(link, p, n) <= starts(link, p, z) - 1 /\ starts(link, p, z) - 1 < ends(link, p, n)
      BY <3>2 DEF HeardAt
    <3>4. starts(link, p, n) < starts(link, p, z) /\ starts(link, p, z) <= ends(link, p, n)
      BY <2>2, <2>11, <3>3
    <3>5. starts(link, p, z) <= Time
      BY <2>11 DEF Past
    <3>6. n \in Past(p) /\ boa <= ends(link, p, n)
      BY <2>2, <2>4, <2>9, <2>11, <2>13, <3>4, <3>5 DEF Past
    <3>7. n \in S
      BY <2>8, <2>10, <3>6
    <3>8. QED  BY <3>4, <3>7
  <2>14. IsFiniteSet(S)
    <3>1. link.activity \in Seq(Activities)
      BY <1>1 DEF IInv, LinkTyped
    <3>2. DOMAIN link.activity = 1 .. Len(link.activity) /\ Len(link.activity) \in Nat
      BY <3>1
    <3>3. IsFiniteSet(1 .. Len(link.activity))
      BY <3>2, FS_Interval
    <3>4. S \subseteq 1 .. Len(link.activity)
      BY <2>1, <2>11, <3>2
    <3>5. QED  BY <3>3, <3>4, FS_Subset
  <2> HIDE DEF G
  <2>15. x \in S
    BY <2>9, <2>10
  <2>16. \A n \in S : /\ starts(link, p, n) \in Nat \ {0} /\ ends(link, p, n) \in Nat
                      /\ starts(link, p, n) < ends(link, p, n)
    BY <2>11
  <2>17. QED  BY <2>7, <2>9, <2>10, <2>12, <2>13, <2>14, <2>15, <2>16, Backwards
<1>2. ASSUME IInv
      PROVE  \A p \in Ports :
               LET boa == Max({0} \cup {starts(link, p, n) :
                                 n \in {m \in Past(p) : HeardAt(link, p, starts(link, p, m) - 1) = {}}})
               IN  boa # 0 /\ boa + PurgeDelay >= Time => lastBOA(p) = boa
  BY <1>1, <1>2
<1>3. Spec => [](IInv /\ PresentIsKnown /\ LastEndIsKnown)
  BY Invariance, Present, LastEnd, PTL
<1>4. IInv /\ PresentIsKnown /\ LastEndIsKnown => PastIsKnown
  BY <1>2 DEF PastIsKnown
<1>5. QED  BY <1>3, <1>4, PTL

=============================================================================
