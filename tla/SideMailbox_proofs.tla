--------------------------- MODULE SideMailbox_proofs ---------------------------
(***************************************************************************)
(* Proofs about internal mailboxes, for any number of processes and items, any  *)
(* capacities and any sets of events awaited.                                *)
(*                                                                         *)
(* An item that is in the mailbox is not overlooked because the event of each   *)
(* process is never later than its requests (Earliest), so that time cannot      *)
(* pass a request that is due; the one exception is the recipient of a          *)
(* priority item, of which Priority says that it is restarted before time goes  *)
(* on.                                                                       *)
(***************************************************************************)
EXTENDS SideMailbox, FiniteSetTheorems, SequenceTheorems, TLAPS

-----------------------------------------------------------------------------
(* The inductive invariant                                                  *)

\* A barrier and a deleted mailbox are empty.
Stored == (limit < 0 \/ gone => count = 0) /\ (gone => pe = None)

Chained(e) ==
  /\ e = NoEvent \/ e.top \in DOMAIN e.reqs
  /\ \A i \in DOMAIN e.reqs : e.reqs[i].list => e.reqs[i].id \in Events

Chains == \A p \in Procs : Chained(ev[p])

\* The request of the recipient of a priority item.
Preferred(p, i) == pe # None /\ pe.proc = p /\ pe.idx = i

Earliest ==
  \A p \in Procs :
    /\ time <= ev[p].wake
    /\ \A i \in DOMAIN ev[p].reqs :
         /\ time <= ev[p].reqs[i].when
         /\ ev[p].wake <= ev[p].reqs[i].when \/ Preferred(p, i)

Current == cur # None => tmin = ev[cur].wake /\ (pe # None => pe.proc # cur)

Priority ==
  pe # None =>
    LET r == ev[pe.proc].reqs[pe.idx]
    IN  /\ r.list /\ r.when = time /\ limit >= 0
        /\ pe.kept => r.item = pe.item /\ (r.id = RECEIVE => items # <<>> /\ Head(items) = pe.item)

IInv ==
  /\ TypeOK /\ CountMatches /\ Stored /\ Chains /\ Earliest /\ Current /\ Priority /\ NoLostItem

-----------------------------------------------------------------------------
(* Events                                                                   *)

Evs == [reqs : Seq(Requests), top : Nat, wake : 0 .. Inf,
        item : {None} \cup Int, mbox : {None, Box}]

LEMMA Constants ==
  /\ Horizon \in Nat /\ MaxChain \in Nat \ {0} /\ MaxItems \in Nat /\ MaxCalls \in Nat
  /\ Inf = Horizon + 1 /\ Inf \in Nat
  /\ Events \subseteq Int /\ Limits \subseteq Int /\ First \in Limits
  /\ None \notin Procs /\ IsFiniteSet(Procs)
  /\ None \notin [proc : Procs, idx : Nat, item : Nat, kept : BOOLEAN]
BY MailboxAssumption DEF MailboxAssumption, Inf

\* An event shows one of its requests.
LEMMA Show ==
  ASSUME NEW e \in Evs, NEW i \in DOMAIN e.reqs
  PROVE  /\ show(e, i) \in Evs
         /\ show(e, i).reqs = e.reqs /\ show(e, i).top = i
         /\ show(e, i).wake = e.reqs[i].when /\ show(e, i).item = e.reqs[i].item
<1>1. e.reqs[i] \in Requests
  BY DEF Evs
<1>2. i \in Nat
  BY DEF Evs
<1>3. QED  BY <1>1, <1>2 DEF show, Evs, Requests

\* What a loop over WList may make of the requests of an event that it triggers.
ToldOf(e, told) ==
  /\ told \in Seq(Requests) /\ Len(told) = Len(e.reqs)
  /\ \A i \in DOMAIN e.reqs : /\ told[i].when = time /\ told[i].id = e.reqs[i].id
                              /\ told[i].list => e.reqs[i].list

\* What the loop over WList makes of an event: requests for other events stay, the
\* others are due, and the event remains no later than any of them.
FiredOf(d, e, E, told) ==
  /\ d \in Evs /\ Chained(d)
  /\ Len(d.reqs) = Len(e.reqs)
  /\ \A i \in awaiting(e, E) : d.reqs[i] = told[i] /\ d.wake <= time
  /\ \A i \in DOMAIN e.reqs \ awaiting(e, E) : d.reqs[i] = e.reqs[i]
  /\ e.reqs = <<>> => d = e
  /\ d.wake = e.wake \/ d.wake = time

LEMMA Fired ==
  ASSUME NEW e \in Evs, Chained(e), NEW E, NEW told, ToldOf(e, told), NEW flip,
         time \in 0 .. Horizon
  PROVE  FiredOf(fired(e, E, told, flip), e, E, told)
<1> DEFINE I == awaiting(e, E)
           R == [i \in DOMAIN e.reqs |-> IF i \in I THEN told[i] ELSE e.reqs[i]]
           g == [e EXCEPT !.reqs = R]
<1>1. /\ DOMAIN e.reqs = 1 .. Len(e.reqs) /\ DOMAIN told = DOMAIN e.reqs /\ Len(e.reqs) \in Nat
      /\ told \in Seq(Requests)
      /\ \A i \in DOMAIN e.reqs : /\ told[i].when = time /\ told[i].id = e.reqs[i].id
                                  /\ told[i].list => e.reqs[i].list
  BY DEF Evs, ToldOf
<1>2. R \in Seq(Requests) /\ Len(R) = Len(e.reqs) /\ DOMAIN R = DOMAIN e.reqs
  <2>1. \A i \in 1 .. Len(e.reqs) : R[i] \in Requests
    BY <1>1 DEF Evs
  <2>2. R = [i \in 1 .. Len(e.reqs) |-> R[i]]
    BY <1>1
  <2> HIDE DEF R
  <2>3. R \in [1 .. Len(e.reqs) -> Requests]
    BY <2>1, <2>2
  <2>4. QED  BY <1>1, <2>3
<1>8. I \subseteq DOMAIN e.reqs
  BY DEF awaiting
<1>3. \A i \in I : R[i] = told[i]
  BY <1>8
<1>4. \A i \in DOMAIN e.reqs \ I : R[i] = e.reqs[i]
  OBVIOUS
<1>5. \A i \in DOMAIN R : R[i].list => R[i].id \in Events
  BY <1>1, <1>3, <1>4, <1>2 DEF Chained
<1>6. fired(e, E, told, flip) = IF I = {} THEN e
                                ELSE IF flip \in I THEN show(g, flip)
                                ELSE IF e.wake > time THEN show(g, CHOOSE i \in I : TRUE)
                                ELSE g
  BY DEF fired
<1>7. g \in Evs /\ g.reqs = R /\ g.wake = e.wake /\ g.top = e.top
  BY <1>2 DEF Evs
<1> HIDE DEF R, g
<1>9. ASSUME NEW i \in I
      PROVE  LET s == show(g, i)
             IN  s \in Evs /\ Chained(s) /\ s.reqs = R /\ s.wake = time /\ s.top = i
  <2>1. i \in DOMAIN g.reqs
    BY <1>2, <1>7, <1>8
  <2>2. /\ show(g, i) \in Evs /\ show(g, i).reqs = R /\ show(g, i).top = i
        /\ show(g, i).wake = R[i].when
    BY <2>1, <1>7, Show
  <2>3. R[i].when = time
    BY <1>3, <1>1, <1>8
  <2>4. QED  BY <2>1, <2>2, <2>3, <1>5, <1>7 DEF Chained
<1>10. ASSUME I # {} PROVE Chained(g)
  <2>1. e # NoEvent
    BY <1>10, <1>8 DEF NoEvent
  <2>2. g.top \in DOMAIN g.reqs
    BY <2>1, <1>7, <1>2 DEF Chained
  <2>3. QED  BY <2>2, <1>5, <1>7 DEF Chained
<1>11. e.reqs = <<>> => I = {}
  BY <1>8
<1>12. e.wake \in Nat
  BY Constants DEF Evs
<1>13. /\ fired(e, E, told, flip) \in Evs /\ Chained(fired(e, E, told, flip))
       /\ fired(e, E, told, flip).reqs = IF I = {} THEN e.reqs ELSE R
       /\ I # {} => fired(e, E, told, flip).wake <= time
       /\ fired(e, E, told, flip).wake \in {e.wake, time}
  <2>1. CASE I = {}
    BY <2>1, <1>6
  <2>2. CASE I # {} /\ flip \in I
    BY <2>2, <1>6, <1>9
  <2>3. CASE I # {} /\ flip \notin I /\ e.wake > time
    BY <2>3, <1>6, <1>9
  <2>4. CASE I # {} /\ flip \notin I /\ ~ (e.wake > time)
    BY <2>4, <1>6, <1>7, <1>10, <1>12
  <2>5. QED  BY <2>1, <2>2, <2>3, <2>4
<1>14. e.reqs = <<>> => fired(e, E, told, flip) = e
  BY <1>11, <1>6
<1>15. QED  BY <1>13, <1>14, <1>8, <1>2, <1>3, <1>4 DEF FiredOf

-----------------------------------------------------------------------------
(* Triggers                                                                 *)

Told(told) == \A p \in Procs : ToldOf(ev[p], told[p])

\* The requests remain on the list.
Kept(told) == \A p \in Procs : \A i \in DOMAIN ev[p].reqs : told[p][i].list = ev[p].reqs[i].list

LEMMA Typed ==
  ASSUME TypeOK
  PROVE  /\ time \in 0 .. Horizon /\ time \in 0 .. Inf /\ Inf \in Nat /\ ev \in [Procs -> Evs]
         /\ \A p \in Procs : /\ ev[p] \in Evs /\ ev[p].reqs \in Seq(Requests)
                             /\ Len(ev[p].reqs) \in Nat
                             /\ DOMAIN ev[p].reqs = 1 .. Len(ev[p].reqs)
                             /\ ev[p].wake \in Nat /\ ev[p].top \in Nat
                             /\ \A i \in DOMAIN ev[p].reqs :
                                  /\ ev[p].reqs[i] \in Requests
                                  /\ ev[p].reqs[i].when \in Nat
<1>1. time \in 0 .. Horizon /\ time \in 0 .. Inf /\ Inf \in Nat /\ ev \in [Procs -> Evs]
  BY Constants DEF TypeOK, Evs
<1>2. ASSUME NEW p \in Procs
      PROVE  /\ ev[p] \in Evs /\ ev[p].reqs \in Seq(Requests)
             /\ ev[p].wake \in Nat /\ ev[p].top \in Nat
  BY <1>1 DEF Evs
<1>3. ASSUME NEW p \in Procs
      PROVE  Len(ev[p].reqs) \in Nat /\ DOMAIN ev[p].reqs = 1 .. Len(ev[p].reqs)
  BY <1>2
<1>4. ASSUME NEW p \in Procs, NEW i \in DOMAIN ev[p].reqs
      PROVE  ev[p].reqs[i] \in Requests /\ ev[p].reqs[i].when \in Nat
  <2>1. ev[p].reqs[i] \in Requests
    BY <1>2, <1>3
  <2>2. QED  BY <2>1, <1>1 DEF Requests
<1>5. QED  BY <1>1, <1>2, <1>3, <1>4

\* A sequence is a function on an interval.
LEMMA SeqByFunction ==
  ASSUME NEW S, NEW n \in Nat, NEW f \in [1 .. n -> S]
  PROVE  f \in Seq(S) /\ Len(f) = n
OBVIOUS

LEMMA Handing ==
  ASSUME TypeOK, NEW item \in {None} \cup Int
  PROVE  Told(handing(item)) /\ Kept(handing(item))
<1>1. ASSUME NEW p \in Procs, NEW i \in DOMAIN ev[p].reqs
      PROVE  LET r == handing(item)[p][i]
             IN  /\ r \in Requests /\ r.when = time /\ r.id = ev[p].reqs[i].id
                 /\ r.list = ev[p].reqs[i].list
  <2>1. ev[p].reqs[i] \in Requests /\ time \in 0 .. Inf
    BY Typed
  <2>2. handing(item)[p][i] = handed(ev[p].reqs[i], item)
    BY DEF handing
  <2>3. QED  BY <2>1, <2>2 DEF handed, Requests
<1>2. ASSUME NEW p \in Procs
      PROVE  handing(item)[p] \in Seq(Requests) /\ Len(handing(item)[p]) = Len(ev[p].reqs)
  <2>1. handing(item)[p] \in [1 .. Len(ev[p].reqs) -> Requests]
    BY <1>1, Typed DEF handing
  <2>2. QED  BY <2>1, Typed, SeqByFunction
<1>3. QED  BY <1>1, <1>2 DEF Told, ToldOf, Kept

LEMMA Waking ==
  ASSUME TypeOK
  PROVE  Told(waking) /\ Kept(waking)
<1>1. ASSUME NEW p \in Procs, NEW i \in DOMAIN ev[p].reqs
      PROVE  LET r == waking[p][i]
             IN  /\ r \in Requests /\ r.when = time /\ r.id = ev[p].reqs[i].id
                 /\ r.list = ev[p].reqs[i].list
  <2>1. ev[p].reqs[i] \in Requests /\ time \in 0 .. Inf
    BY Typed
  <2>2. waking[p][i] = [ev[p].reqs[i] EXCEPT !.when = time]
    BY DEF waking
  <2>3. QED  BY <2>1, <2>2 DEF Requests
<1>2. ASSUME NEW p \in Procs
      PROVE  waking[p] \in Seq(Requests) /\ Len(waking[p]) = Len(ev[p].reqs)
  <2>1. waking[p] \in [1 .. Len(ev[p].reqs) -> Requests]
    BY <1>1, Typed DEF waking
  <2>2. QED  BY <2>1, Typed, SeqByFunction
<1>3. QED  BY <1>1, <1>2 DEF Told, ToldOf, Kept

LEMMA Dropping ==
  ASSUME TypeOK
  PROVE  Told(dropping)
<1>1. ASSUME NEW p \in Procs, NEW i \in DOMAIN ev[p].reqs
      PROVE  LET r == dropping[p][i]
             IN  /\ r \in Requests /\ r.when = time /\ r.id = ev[p].reqs[i].id
                 /\ ~ r.list
  <2>1. ev[p].reqs[i] \in Requests /\ time \in 0 .. Inf
    BY Typed
  <2>2. dropping[p][i] = [handed(ev[p].reqs[i], None) EXCEPT !.mbox = None, !.list = FALSE]
    BY DEF dropping
  <2>3. QED  BY <2>1, <2>2 DEF handed, Requests
<1>2. ASSUME NEW p \in Procs
      PROVE  dropping[p] \in Seq(Requests) /\ Len(dropping[p]) = Len(ev[p].reqs)
  <2>1. dropping[p] \in [1 .. Len(ev[p].reqs) -> Requests]
    BY <1>1, Typed DEF dropping
  <2>2. QED  BY <2>1, Typed, SeqByFunction
<1>3. QED  BY <1>1, <1>2 DEF Told, ToldOf

\* The priority event, and what the sender's further use of the mailbox makes of it.
LEMMA Touched ==
  ASSUME TypeOK, pe # None
  PROVE  /\ pe \in [proc : Procs, idx : 1 .. MaxChain, item : 1 .. MaxItems, kept : BOOLEAN]
         /\ touched \in [proc : Procs, idx : 1 .. MaxChain, item : 1 .. MaxItems, kept : BOOLEAN]
         /\ touched # None /\ touched.proc = pe.proc /\ touched.idx = pe.idx
         /\ touched.item = pe.item /\ ~ touched.kept
<1>1. pe \in [proc : Procs, idx : 1 .. MaxChain, item : 1 .. MaxItems, kept : BOOLEAN]
  BY DEF TypeOK
<1>2. touched = [pe EXCEPT !.kept = FALSE]
  BY DEF touched
<1>3. touched \in [proc : Procs, idx : 1 .. MaxChain, item : 1 .. MaxItems, kept : BOOLEAN]
  BY <1>1, <1>2
<1>4. touched \in [proc : Procs, idx : Nat, item : Nat, kept : BOOLEAN]
  BY <1>3, Constants
<1>5. touched # None
  BY <1>4, Constants
<1>6. QED  BY <1>1, <1>2, <1>3, <1>5

\* A loop over WList.
LEMMA Loop ==
  ASSUME IInv, NEW E, NEW told, Told(told), NEW flips, ev' = trigger(E, told, flips),
         time' = time, tmin' = tmin, cur' = cur, cur # None, ev[cur] = NoEvent,
         pe' \in {pe, touched}
  PROVE  /\ ev' \in [Procs -> Evs]
         /\ \A p \in Procs : /\ ev'[p].top \in 0 .. Len(ev'[p].reqs)
                             /\ Len(ev'[p].reqs) = Len(ev[p].reqs)
                             /\ DOMAIN ev'[p].reqs = DOMAIN ev[p].reqs
         /\ Chains' /\ Earliest' /\ Current'
         /\ \A p \in Procs : \A i \in DOMAIN ev[p].reqs :
              \/ ev'[p].reqs[i] = ev[p].reqs[i]
              \/ ev'[p].reqs[i] = told[p][i] /\ ev'[p].reqs[i].when = time
         /\ \A p \in Procs : \A i \in awaiting(ev[p], E) : ev'[p].reqs[i].when = time
         /\ \A p \in Procs : \A i \in DOMAIN ev[p].reqs :
              /\ ev'[p].reqs[i].id = ev[p].reqs[i].id
              /\ ev'[p].reqs[i].list => ev[p].reqs[i].list
<1>1. ASSUME NEW p \in Procs
      PROVE  /\ ev'[p] \in Evs /\ Chained(ev'[p])
             /\ Len(ev'[p].reqs) = Len(ev[p].reqs)
             /\ \A i \in awaiting(ev[p], E) : ev'[p].reqs[i] = told[p][i] /\ ev'[p].wake <= time
             /\ \A i \in DOMAIN ev[p].reqs \ awaiting(ev[p], E) : ev'[p].reqs[i] = ev[p].reqs[i]
             /\ ev[p].reqs = <<>> => ev'[p] = ev[p]
             /\ ev'[p].wake = ev[p].wake \/ ev'[p].wake = time
  <2>1. ev'[p] = fired(ev[p], E, told[p], flips[p])
    BY DEF trigger
  <2>2. ev[p] \in Evs /\ Chained(ev[p]) /\ time \in 0 .. Horizon
    BY Typed DEF IInv, Chains
  <2>3. ToldOf(ev[p], told[p])
    BY DEF Told
  <2>4. FiredOf(fired(ev[p], E, told[p], flips[p]), ev[p], E, told[p])
    BY <2>2, <2>3, Fired
  <2>5. FiredOf(ev'[p], ev[p], E, told[p])
    BY <2>1, <2>4
  <2>6. QED  BY <2>5 DEF FiredOf
<1>2. ev' \in [Procs -> Evs]
  BY <1>1 DEF trigger
<1>3. ASSUME NEW p \in Procs
      PROVE  /\ ev'[p].top \in 0 .. Len(ev'[p].reqs)
             /\ DOMAIN ev'[p].reqs = DOMAIN ev[p].reqs
  <2>1. Len(ev'[p].reqs) \in Nat /\ DOMAIN ev'[p].reqs = 1 .. Len(ev'[p].reqs)
    BY <1>1 DEF Evs
  <2>2. DOMAIN ev'[p].reqs = DOMAIN ev[p].reqs
    BY <1>1, <2>1, Typed DEF IInv
  <2>3. CASE ev'[p] = NoEvent
    BY <2>3, <2>1, <2>2 DEF NoEvent
  <2>4. CASE ev'[p].top \in DOMAIN ev'[p].reqs
    BY <2>4, <2>1, <2>2
  <2>5. QED  BY <1>1, <2>2, <2>3, <2>4 DEF Chained
<1>4. Chains'
  BY <1>1 DEF Chains, Chained
<1>5. ASSUME NEW p \in Procs, NEW i \in DOMAIN ev[p].reqs
      PROVE  /\ ev'[p].reqs[i] = ev[p].reqs[i] \/ ev'[p].reqs[i] = told[p][i]
             /\ ev'[p].reqs[i] = told[p][i] => ev'[p].reqs[i].when = time
             /\ i \in awaiting(ev[p], E) => ev'[p].reqs[i].when = time /\ ev'[p].wake <= time
             /\ i \notin awaiting(ev[p], E) => ev'[p].reqs[i] = ev[p].reqs[i]
  BY <1>1 DEF Told, ToldOf
<1>6. \A p, i : Preferred(p, i) => Preferred(p, i)'
  BY Touched DEF IInv, Preferred
<1>7. Earliest'
  <2>1. ASSUME NEW p \in Procs PROVE (time <= ev[p].wake)'
    BY <1>1, Typed DEF IInv, Earliest
  <2>2. ASSUME NEW p \in Procs, NEW i \in DOMAIN ev'[p].reqs
        PROVE  time <= ev'[p].reqs[i].when
               /\ (ev'[p].wake <= ev'[p].reqs[i].when \/ Preferred(p, i)')
    <3>1. i \in DOMAIN ev[p].reqs
      BY <1>3
    <3>2. /\ time <= ev[p].wake /\ time <= ev[p].reqs[i].when
          /\ ev[p].wake <= ev[p].reqs[i].when \/ Preferred(p, i)
      BY <3>1 DEF IInv, Earliest
    <3>3. time \in Nat /\ ev[p].wake \in Nat /\ ev[p].reqs[i].when \in Nat
      BY <3>1, Typed DEF IInv
    <3>4. CASE i \in awaiting(ev[p], E)
      BY <3>1, <3>3, <3>4, <1>5
    <3>5. CASE i \notin awaiting(ev[p], E)
      BY <3>1, <3>2, <3>3, <3>5, <1>5, <1>6, <1>1
    <3>6. QED  BY <3>4, <3>5
  <2>3. QED  BY <2>1, <2>2 DEF Earliest
<1>8. Current'
  <2>1. cur \in Procs
    BY DEF IInv, TypeOK
  <2>2. ev'[cur] = ev[cur]
    BY <2>1, <1>1 DEF NoEvent
  <2>3. pe' # None => pe # None /\ pe'.proc = pe.proc
    BY Touched DEF IInv, touched
  <2>4. QED  BY <2>2, <2>3 DEF IInv, Current
<1>9. \A p \in Procs : \A i \in awaiting(ev[p], E) : ev'[p].reqs[i].when = time
  BY <1>5 DEF awaiting
<1>10. \A p \in Procs : \A i \in DOMAIN ev[p].reqs :
         \/ ev'[p].reqs[i] = ev[p].reqs[i]
         \/ ev'[p].reqs[i] = told[p][i] /\ ev'[p].reqs[i].when = time
  BY <1>5
<1>11. ASSUME NEW p \in Procs, NEW i \in DOMAIN ev[p].reqs
       PROVE  /\ ev'[p].reqs[i].id = ev[p].reqs[i].id
              /\ ev'[p].reqs[i].list => ev[p].reqs[i].list
  BY <1>5 DEF Told, ToldOf
<1>12. QED  BY <1>1, <1>2, <1>3, <1>4, <1>7, <1>8, <1>9, <1>10, <1>11

\* A loop that leaves the requests on the list, in a call that uses the mailbox.
LEMMA PriorityStays ==
  ASSUME IInv, NEW E, NEW told, Told(told), Kept(told) \/ pe = None, NEW flips, ev' = trigger(E, told, flips),
         time' = time, tmin' = tmin, cur' = cur, cur # None, ev[cur] = NoEvent,
         pe' = touched, limit' = limit
  PROVE  /\ Priority'
         /\ pe' = None \/ pe' \in [proc : Procs, idx : 1 .. MaxChain, item : 1 .. MaxItems, kept : BOOLEAN]
         /\ pe' # None => pe'.idx \in DOMAIN ev'[pe'.proc].reqs
<1>1. CASE pe = None
  BY <1>1 DEF touched, Priority
<1>2. CASE pe # None
  <2>1. /\ pe \in [proc : Procs, idx : 1 .. MaxChain, item : 1 .. MaxItems, kept : BOOLEAN]
        /\ pe' \in [proc : Procs, idx : 1 .. MaxChain, item : 1 .. MaxItems, kept : BOOLEAN]
        /\ pe'.proc = pe.proc /\ pe'.idx = pe.idx /\ ~ pe'.kept
    BY <1>2, Touched DEF IInv
  <2>2. pe.proc \in Procs /\ pe.idx \in DOMAIN ev[pe.proc].reqs
    BY <1>2, <2>1 DEF IInv, TypeOK
  <2> DEFINE r == ev[pe.proc].reqs[pe.idx]
  <2>3. r.list /\ r.when = time /\ limit >= 0
    BY <1>2 DEF IInv, Priority
  <2>4. /\ DOMAIN ev'[pe.proc].reqs = DOMAIN ev[pe.proc].reqs
        /\ r' = r \/ (r' = told[pe.proc][pe.idx] /\ r'.when = time)
    <3>1. pe'.proc = pe.proc /\ pe'.idx = pe.idx
      BY <2>1
    <3>2. \A p \in Procs :
            /\ DOMAIN ev'[p].reqs = DOMAIN ev[p].reqs
            /\ \A i \in DOMAIN ev[p].reqs :
                 \/ ev'[p].reqs[i] = ev[p].reqs[i]
                 \/ ev'[p].reqs[i] = told[p][i] /\ ev'[p].reqs[i].when = time
      BY Loop
    <3>3. QED  BY <2>2, <3>1, <3>2
  <2>5. told[pe.proc][pe.idx].list = r.list
    BY <1>2, <2>2 DEF Kept
  <2>6. r'.list /\ r'.when = time
    BY <2>3, <2>4, <2>5
  <2> HIDE DEF r
  <2>7. Priority'
    BY <2>1, <2>3, <2>6 DEF Priority, r
  <2>8. QED  BY <2>1, <2>2, <2>4, <2>7
<1>3. QED  BY <1>1, <1>2

\* What such a call leaves of the invariant, whatever it does to the items.
LEMMA Triggering ==
  ASSUME IInv, NEW E, NEW told, Told(told), Kept(told) \/ pe = None, NEW flips,
         ev' = trigger(E, told, flips),
         time' = time, tmin' = tmin, cur' = cur, cur # None, ev[cur] = NoEvent,
         pe' = touched, limit' = limit, ended' = ended, gone' \in BOOLEAN,
         calls' \in 0 .. MaxCalls, count' \in Nat, made' \in 0 .. MaxItems,
         items' \in Seq(1 .. MaxItems)
  PROVE  TypeOK' /\ Chains' /\ Earliest' /\ Current' /\ Priority'
<1>1. /\ ev' \in [Procs -> Evs] /\ Chains' /\ Earliest' /\ Current'
      /\ \A p \in Procs : ev'[p].top \in 0 .. Len(ev'[p].reqs) /\ Len(ev'[p].reqs) = Len(ev[p].reqs)
  BY Loop
<1>2. /\ Priority'
      /\ pe' = None \/ pe' \in [proc : Procs, idx : 1 .. MaxChain, item : 1 .. MaxItems, kept : BOOLEAN]
      /\ pe' # None => pe'.idx \in DOMAIN ev'[pe'.proc].reqs
  BY PriorityStays
<1>3. TypeOK'
  BY <1>1, <1>2 DEF IInv, TypeOK, Evs
<1>4. QED  BY <1>1, <1>2, <1>3

\* Requests that wait for the items that are left are due as before.
LEMMA NothingNew ==
  ASSUME IInv, NEW E, NEW told, Told(told), NEW flips, ev' = trigger(E, told, flips),
         time' = time, tmin' = tmin, cur' = cur, cur # None, ev[cur] = NoEvent,
         pe' = touched, limit' = limit, limit > 0 /\ count' > 0 => count > 0
  PROVE  NoLostItem'
<1> SUFFICES ASSUME limit > 0, count > 0, NEW p \in Procs, NEW i \in DOMAIN ev'[p].reqs,
                    ev'[p].reqs[i].list, ev'[p].reqs[i].id \in {RECEIVE, NONEMPTY}
             PROVE  ev'[p].reqs[i].when = time
  BY DEF NoLostItem
<1>1. /\ i \in DOMAIN ev[p].reqs
      /\ ev'[p].reqs[i] = ev[p].reqs[i] \/ ev'[p].reqs[i].when = time
  <2>1. \A q \in Procs :
          /\ DOMAIN ev'[q].reqs = DOMAIN ev[q].reqs
          /\ \A j \in DOMAIN ev[q].reqs :
               \/ ev'[q].reqs[j] = ev[q].reqs[j]
               \/ ev'[q].reqs[j] = told[q][j] /\ ev'[q].reqs[j].when = time
    BY Loop
  <2>2. QED  BY <2>1
<1>2. QED  BY <1>1 DEF IInv, NoLostItem

-----------------------------------------------------------------------------
(* The operations that trigger                                              *)

LEMMA PutKeeps ==
  ASSUME IInv, NEW flips, Put(flips)
  PROVE  IInv'
<1>1. /\ cur # None /\ ev[cur] = NoEvent /\ calls' \in 0 .. MaxCalls
      /\ limit > 0 /\ count < limit /\ limit' = limit /\ gone' = gone /\ ~ gone
      /\ made' = made + 1 /\ made' \in 1 .. MaxItems
      /\ count' = count + 1 /\ items' = Append(items, made + 1)
  BY Constants DEF Put, UseBox, Call, BeforeWaits, Room, IInv, TypeOK
<1>2. /\ limit \in Int /\ count \in Nat /\ items \in Seq(1 .. MaxItems) /\ Len(items) = count
      /\ made \in Int /\ gone \in BOOLEAN
  BY Constants DEF IInv, TypeOK, CountMatches
<1>3. /\ items' \in Seq(1 .. MaxItems) /\ Len(items') = count' /\ count' \in Nat
  BY <1>1, <1>2
<1>4. Told(handing(made + 1)) /\ Kept(handing(made + 1))
  BY <1>2, Handing DEF IInv
<1>5. TypeOK' /\ Chains' /\ Earliest' /\ Current' /\ Priority'
  <2>1. made' \in 0 .. MaxItems /\ gone' \in BOOLEAN
    BY <1>1, <1>2
  <2>2. QED  BY <1>1, <1>3, <1>4, <2>1, Triggering DEF Put
<1>6. CountMatches' /\ Stored'
  BY <1>1, <1>2, <1>3 DEF CountMatches, Stored
<1>7. NoLostItem'
  <2> SUFFICES ASSUME NEW p \in Procs, NEW i \in DOMAIN ev'[p].reqs,
                      ev'[p].reqs[i].list, ev'[p].reqs[i].id \in {RECEIVE, NONEMPTY}
               PROVE  ev'[p].reqs[i].when = time
    BY DEF NoLostItem, Put
  <2>1. \A q \in Procs :
          /\ DOMAIN ev'[q].reqs = DOMAIN ev[q].reqs
          /\ \A j \in awaiting(ev[q], awaitsPut) : ev'[q].reqs[j].when = time
          /\ \A j \in DOMAIN ev[q].reqs :
               /\ ev'[q].reqs[j].id = ev[q].reqs[j].id
               /\ ev'[q].reqs[j].list => ev[q].reqs[j].list
    BY <1>1, <1>4, Loop DEF Put
  <2>2. i \in DOMAIN ev[p].reqs
    BY <2>1
  <2>3. ev[p].reqs[i].list /\ ev[p].reqs[i].id = ev'[p].reqs[i].id
    BY <2>1, <2>2
  <2>4. ev[p].reqs[i].id \in Events
    BY <2>2, <2>3 DEF IInv, Chains, Chained
  <2>5. ev[p].reqs[i].id \in awaitsPut
    BY <2>3, <2>4 DEF awaitsPut, RECEIVE, NONEMPTY, GET
  <2>6. i \in awaiting(ev[p], awaitsPut)
    BY <2>2, <2>3, <2>5 DEF awaiting
  <2>7. QED  BY <2>1, <2>6
<1>8. QED  BY <1>5, <1>6, <1>7 DEF IInv

LEMMA PutThroughKeeps ==
  ASSUME IInv, NEW flips, PutThrough(flips)
  PROVE  IInv'
<1>1. /\ cur # None /\ ev[cur] = NoEvent /\ calls' \in 0 .. MaxCalls
      /\ limit = 0 /\ limit' = limit /\ gone' = gone /\ count' = count /\ items' = items
      /\ made' = made + 1 /\ made' \in 0 .. MaxItems
  BY Constants DEF PutThrough, UseBox, Call, BeforeWaits, IInv, TypeOK
<1>2. /\ count' \in Nat /\ items' \in Seq(1 .. MaxItems) /\ made \in Int /\ gone' \in BOOLEAN
  BY <1>1 DEF IInv, TypeOK
<1>3. Told(handing(made + 1)) /\ Kept(handing(made + 1))
  BY <1>2, Handing DEF IInv
<1>4. TypeOK' /\ Chains' /\ Earliest' /\ Current' /\ Priority'
  BY <1>1, <1>2, <1>3, Triggering DEF PutThrough
<1>5. CountMatches' /\ NoLostItem'
  BY <1>1 DEF IInv, CountMatches, NoLostItem
<1>6. Stored'
  BY <1>1 DEF IInv, Stored, PutThrough, touched
<1>7. QED  BY <1>4, <1>5, <1>6 DEF IInv

LEMMA SignalKeeps ==
  ASSUME IInv, NEW flips, NEW s \in Events, SignalBarrier(s, flips)
  PROVE  IInv'
<1>1. /\ cur # None /\ ev[cur] = NoEvent /\ calls' \in 0 .. MaxCalls
      /\ limit < 0 /\ limit' = limit /\ gone' = gone /\ count' = count /\ items' = items
      /\ made' = made /\ pe' = pe
  BY Constants DEF SignalBarrier, UseBox, Call, BeforeWaits, IInv, TypeOK, box
<1>2. /\ count' \in Nat /\ items' \in Seq(1 .. MaxItems) /\ made' \in 0 .. MaxItems /\ gone' \in BOOLEAN
      /\ limit \in Int
  BY <1>1, Constants DEF IInv, TypeOK
<1>3. Told(handing(s)) /\ Kept(handing(s))
  BY Constants, Handing DEF IInv
<1>4. pe = None /\ touched = None
  BY <1>1, <1>2 DEF IInv, Priority, touched
<1>5. TypeOK' /\ Chains' /\ Earliest' /\ Current' /\ Priority'
  BY <1>1, <1>2, <1>3, <1>4, Triggering DEF SignalBarrier
<1>6. CountMatches' /\ NoLostItem' /\ Stored'
  BY <1>1, <1>2 DEF IInv, CountMatches, NoLostItem, Stored
<1>7. QED  BY <1>5, <1>6 DEF IInv

LEMMA GetKeeps ==
  ASSUME IInv, NEW flips, Get(flips)
  PROVE  IInv'
<1>1. /\ cur # None /\ ev[cur] = NoEvent /\ calls' \in 0 .. MaxCalls /\ ~ gone
      /\ limit' = limit /\ gone' = gone /\ made' = made
      /\ count > 0 /\ count' = count - 1 /\ items' = Tail(items)
  BY Constants DEF Get, UseBox, Call, BeforeWaits, IInv, TypeOK
<1>2. /\ limit \in Int /\ count \in Nat /\ items \in Seq(1 .. MaxItems) /\ Len(items) = count
      /\ made \in 0 .. MaxItems /\ gone \in BOOLEAN
  BY Constants DEF IInv, TypeOK, CountMatches
<1>3. /\ items' \in Seq(1 .. MaxItems) /\ Len(items') = count' /\ count' \in Nat
  BY <1>1, <1>2
<1>4. Told(handing(None)) /\ Kept(handing(None))
  BY Handing DEF IInv
<1>5. TypeOK' /\ Chains' /\ Earliest' /\ Current' /\ Priority'
  BY <1>1, <1>2, <1>3, <1>4, Triggering DEF Get
<1>6. CountMatches' /\ Stored'
  BY <1>1, <1>2, <1>3 DEF IInv, CountMatches, Stored
<1>7. NoLostItem'
  BY <1>1, <1>4, NothingNew DEF Get
<1>8. QED  BY <1>5, <1>6, <1>7 DEF IInv

LEMMA EraseKeeps ==
  ASSUME IInv, NEW flips, Erase(flips)
  PROVE  IInv'
<1>1. /\ cur # None /\ ev[cur] = NoEvent /\ calls' \in 0 .. MaxCalls /\ ~ gone
      /\ limit' = limit /\ limit >= 0 /\ gone' = gone /\ made' = made
      /\ count' = 0 /\ items' = <<>>
  BY Constants DEF Erase, UseBox, Call, BeforeWaits, IInv, TypeOK
<1>2. items' \in Seq(1 .. MaxItems) /\ made' \in 0 .. MaxItems /\ gone' \in BOOLEAN
  BY <1>1 DEF IInv, TypeOK
<1>3. TypeOK' /\ Chains' /\ Earliest' /\ Current' /\ Priority'
  BY <1>1, <1>2, Waking, Triggering DEF Erase, IInv
<1>4. CountMatches' /\ NoLostItem' /\ Stored'
  BY <1>1 DEF IInv, CountMatches, NoLostItem, Stored
<1>5. QED  BY <1>3, <1>4 DEF IInv

LEMMA DeleteKeeps ==
  ASSUME IInv, NEW flips, Delete(flips)
  PROVE  IInv'
<1>1. /\ cur # None /\ ev[cur] = NoEvent /\ calls' \in 0 .. MaxCalls
      /\ limit' = limit /\ gone' = TRUE /\ made' = made /\ count' = 0 /\ items' = <<>>
      /\ pe = None /\ pe' = None /\ touched = None
  BY Constants DEF Delete, UseBox, Call, BeforeWaits, IInv, TypeOK, touched
<1>2. items' \in Seq(1 .. MaxItems) /\ made' \in 0 .. MaxItems /\ limit \in Int
  BY <1>1, Constants DEF IInv, TypeOK
<1>3. TypeOK' /\ Chains' /\ Earliest' /\ Current' /\ Priority'
  BY <1>1, <1>2, Dropping, Triggering DEF Delete, IInv
<1>4. CountMatches' /\ NoLostItem' /\ Stored'
  BY <1>1, <1>2 DEF IInv, CountMatches, NoLostItem, Stored
<1>5. QED  BY <1>3, <1>4 DEF IInv

-----------------------------------------------------------------------------
(* wait, and the operations without a trigger                                *)

LEMMA AddRequestKeeps ==
  ASSUME IInv, cur # None, calls' \in 0 .. MaxCalls,
         NEW r \in Requests, r.list => r.id \in Events, time <= r.when,
         limit > 0 /\ count > 0 /\ r.list /\ r.id \in {RECEIVE, NONEMPTY} => r.when = time,
         NEW flip, AddRequest(r, flip)
  PROVE  IInv'
<1> DEFINE e == ev[cur]
           n == Len(e.reqs) + 1
           added == [e EXCEPT !.reqs = Append(@, r)]
           takes == \/ e = NoEvent
                    \/ tmin > r.when
                    \/ tmin = r.when /\ r.when # Inf /\ flip
<1>1. /\ n <= MaxChain
      /\ ev' = [ev EXCEPT ![cur] = IF takes THEN show(added, n) ELSE added]
      /\ tmin' = IF takes THEN r.when ELSE tmin
      /\ UNCHANGED <<time, limit, count, items, gone, made, cur, woke, pe, ended>>
  BY DEF AddRequest, box
<1>2. /\ cur \in Procs /\ e \in Evs /\ tmin = e.wake /\ (pe # None => pe.proc # cur)
      /\ e.reqs \in Seq(Requests) /\ Len(e.reqs) \in Nat /\ e.wake \in Nat /\ r.when \in Nat
      /\ r.when \in 0 .. Inf /\ time \in 0 .. Horizon /\ Chained(e)
  <2>1. cur \in Procs /\ tmin = e.wake /\ (pe # None => pe.proc # cur)
    BY DEF IInv, Current, TypeOK
  <2>2. /\ e \in Evs /\ e.reqs \in Seq(Requests) /\ Len(e.reqs) \in Nat /\ e.wake \in Nat
        /\ time \in 0 .. Horizon
    BY <2>1, Typed DEF IInv
  <2>3. r.when \in Nat /\ r.when \in 0 .. Inf
    BY Constants DEF Requests
  <2>4. Chained(e)
    BY <2>1 DEF IInv, Chains
  <2>5. QED  BY <2>1, <2>2, <2>3, <2>4
<1>3. /\ added \in Evs /\ added.reqs = Append(e.reqs, r) /\ added.wake = e.wake
      /\ added.top = e.top /\ Len(added.reqs) = n /\ DOMAIN added.reqs = 1 .. n /\ n \in DOMAIN added.reqs
      /\ added.reqs[n] = r /\ \A i \in DOMAIN e.reqs : added.reqs[i] = e.reqs[i]
  <2>1. /\ Append(e.reqs, r) \in Seq(Requests) /\ Len(Append(e.reqs, r)) = n
        /\ DOMAIN Append(e.reqs, r) = 1 .. n /\ n \in 1 .. n /\ Append(e.reqs, r)[n] = r
        /\ \A i \in DOMAIN e.reqs : Append(e.reqs, r)[i] = e.reqs[i]
    BY <1>2
  <2> HIDE DEF e, n
  <2>2. /\ added \in Evs /\ added.reqs = Append(e.reqs, r)
        /\ added.wake = e.wake /\ added.top = e.top
    BY <1>2, <2>1 DEF Evs
  <2>3. QED  BY <2>1, <2>2
<1>4. DOMAIN e.reqs = 1 .. Len(e.reqs)
  BY <1>2
<1> DEFINE f == ev'[cur]
<1> HIDE DEF e, n, added
<1>5. /\ f \in Evs /\ f.reqs = added.reqs
      /\ takes => f.top = n /\ f.wake = r.when
      /\ ~ takes => f = added
  <2>1. f = IF takes THEN show(added, n) ELSE added
    BY <1>1, <1>2, Typed DEF IInv, Evs
  <2>2. /\ show(added, n) \in Evs /\ show(added, n).reqs = added.reqs
        /\ show(added, n).top = n /\ show(added, n).wake = r.when
    BY <1>3, Show
  <2>3. QED  BY <2>1, <2>2, <1>3
<1>6. \A q \in Procs \ {cur} : ev'[q] = ev[q]
  BY <1>1, Typed DEF IInv
<1>7. ev' \in [Procs -> Evs]
  <2>1. \A q \in Procs : ev'[q] \in Evs
    BY <1>5, <1>6, Typed DEF IInv
  <2>2. ev' = [q \in Procs |-> ev'[q]]
    BY <1>1, Typed DEF IInv
  <2>3. QED  BY <2>1, <2>2
<1> HIDE DEF f, takes
<1>8. Chained(f) /\ f.top \in 0 .. Len(f.reqs) /\ Len(f.reqs) <= MaxChain
  <2>1. f.top \in DOMAIN f.reqs
    <3>1. CASE takes
      BY <3>1, <1>5, <1>3
    <3>2. CASE ~ takes
      <4>1. e.top \in DOMAIN e.reqs
        BY <3>2, <1>2 DEF takes, Chained
      <4>2. QED  BY <4>1, <3>2, <1>5, <1>3, <1>2, <1>4 DEF n
    <3>3. QED  BY <3>1, <3>2
  <2>2. \A i \in DOMAIN f.reqs : f.reqs[i].list => f.reqs[i].id \in Events
    BY <1>5, <1>3, <1>2, <1>4 DEF Chained, n
  <2>3. QED  BY <2>1, <2>2, <1>5, <1>3, <1>1 DEF Chained
<1>9. TypeOK'
  <2>1. \A p \in Procs : ev'[p].top \in 0 .. Len(ev'[p].reqs) /\ Len(ev'[p].reqs) <= MaxChain
    BY <1>6, <1>8 DEF f, IInv, TypeOK
  <2>2. pe # None => pe.idx \in DOMAIN ev'[pe.proc].reqs
    <3>1. pe # None => pe.proc \in Procs \ {cur}
      BY <1>2, Touched DEF IInv
    <3>2. QED  BY <3>1, <1>6 DEF IInv, TypeOK
  <2>3. tmin' \in 0 .. Inf
    BY <1>1, <1>2 DEF IInv, TypeOK
  <2>4. QED  BY <2>1, <2>2, <2>3, <1>1, <1>7 DEF IInv, TypeOK, Evs
<1>10. Chains'
  BY <1>6, <1>8 DEF f, IInv, Chains, Chained
<1>11. Earliest'
  <2>1. ASSUME NEW p \in Procs \ {cur}
        PROVE  /\ (time <= ev[p].wake)'
               /\ \A i \in DOMAIN ev'[p].reqs :
                    /\ (time <= ev[p].reqs[i].when)'
                    /\ (ev[p].wake <= ev[p].reqs[i].when)' \/ Preferred(p, i)'
    BY <1>1, <1>6 DEF IInv, Earliest, Preferred
  <2>2. /\ time <= e.wake
        /\ \A i \in DOMAIN e.reqs : time <= e.reqs[i].when /\ e.wake <= e.reqs[i].when
    BY <1>2 DEF IInv, Earliest, Preferred, e
  <2>3. (f.wake <= r.when /\ f.wake <= e.wake) \/ (e.reqs = <<>> /\ f.wake = r.when)
    <3>1. CASE e = NoEvent
      BY <3>1, <1>5 DEF takes, NoEvent
    <3>2. CASE e # NoEvent /\ takes
      BY <3>2, <1>2, <1>5 DEF takes
    <3>3. CASE ~ takes
      <4>1. ~ (tmin > r.when) /\ f.wake = e.wake
        BY <3>3, <1>5, <1>3 DEF takes
      <4>2. tmin = e.wake /\ e.wake \in Nat /\ r.when \in Nat
        BY <1>2
      <4>3. QED  BY <4>1, <4>2
    <3>4. QED  BY <3>1, <3>2, <3>3
  <2>4. f.wake \in {e.wake, r.when}
    BY <1>5, <1>3
  <2>5. time <= f.wake
    BY <2>2, <2>4
  <2>6. ASSUME NEW i \in DOMAIN f.reqs
        PROVE  time <= f.reqs[i].when /\ f.wake <= f.reqs[i].when
    <3>1. CASE i = n
      BY <3>1, <1>5, <1>3, <1>2, <2>3
    <3>2. CASE i # n
      <4>1. i \in DOMAIN e.reqs /\ f.reqs[i] = e.reqs[i] /\ e.reqs # <<>>
        BY <3>2, <1>5, <1>3, <1>4, <1>2 DEF n
      <4>2. e.reqs[i].when \in Nat /\ f.wake \in Nat
        BY <4>1, <1>2, <2>4, Typed DEF e, IInv
      <4>3. QED  BY <4>1, <4>2, <2>2, <2>3, <1>2
    <3>3. QED  BY <3>1, <3>2
  <2>7. QED  BY <2>1, <2>5, <2>6, <1>1 DEF Earliest, f
<1>12. Current'
  BY <1>1, <1>2, <1>5, <1>3 DEF Current, f
<1>13. Priority'
  <2>1. pe # None => pe.proc \in Procs \ {cur}
    BY <1>2, Touched DEF IInv
  <2>2. QED  BY <2>1, <1>1, <1>6 DEF IInv, Priority
<1>14. NoLostItem'
  <2> SUFFICES ASSUME limit > 0, count > 0, NEW p \in Procs, NEW i \in DOMAIN ev'[p].reqs,
                      ev'[p].reqs[i].list, ev'[p].reqs[i].id \in {RECEIVE, NONEMPTY}
               PROVE  ev'[p].reqs[i].when = time
    BY <1>1 DEF NoLostItem
  <2>1. CASE p # cur
    BY <2>1, <1>6 DEF IInv, NoLostItem
  <2>2. CASE p = cur /\ i = n
    BY <2>2, <1>5, <1>3 DEF f
  <2>3. CASE p = cur /\ i # n
    <3>1. i \in DOMAIN e.reqs /\ ev'[p].reqs[i] = e.reqs[i]
      BY <2>3, <1>5, <1>3, <1>4, <1>2 DEF f, n
    <3>2. QED  BY <3>1, <2>3, <1>2 DEF e, IInv, NoLostItem
  <2>4. QED  BY <2>1, <2>2, <2>3
<1>15. CountMatches' /\ Stored'
  BY <1>1 DEF IInv, CountMatches, Stored
<1>16. QED  BY <1>9, <1>10, <1>11, <1>12, <1>13, <1>14, <1>15 DEF IInv

LEMMA WaitKeeps ==
  ASSUME IInv, NEW id \in Events, NEW flip, Wait(id, flip)
  PROVE  IInv'
<1> DEFINE now  == checkImmediate(id)
           item == IF now /\ id = NONEMPTY THEN Head(items)
                   ELSE IF now /\ id >= 0 THEN count ELSE None
           r == request(id, IF now THEN time ELSE Inf, item)
<1>1. AddRequest(r, flip)
  BY DEF Wait
<1>2. cur # None /\ calls' \in 0 .. MaxCalls
  BY Constants DEF Wait, UseBox, Call, IInv, TypeOK
<1>3. item \in {None} \cup Int
  <2>1. items \in Seq(1 .. MaxItems) /\ count \in Nat /\ Len(items) = count /\ MaxItems \in Nat
    BY Constants DEF IInv, TypeOK, CountMatches
  <2>2. now /\ id = NONEMPTY => count > 0
    BY DEF checkImmediate
  <2>3. count > 0 => Head(items) \in Int
    BY <2>1
  <2>4. QED  BY <2>1, <2>2, <2>3
<1> HIDE DEF item, now
<1>4. /\ r \in Requests /\ r.id = id /\ r.list \in BOOLEAN /\ id \in Int
      /\ r.when = IF now THEN time ELSE Inf
  BY <1>3, Constants, Typed DEF IInv, request, Requests
<1>5. time <= r.when
  BY <1>4, Constants, Typed DEF IInv
<1>6. limit > 0 /\ count > 0 /\ r.id \in {RECEIVE, NONEMPTY} => r.when = time
  <2>1. limit \in Int
    BY Constants DEF IInv, TypeOK
  <2>2. QED  BY <2>1, <1>4 DEF now, checkImmediate
<1> HIDE DEF r
<1>7. QED  BY <1>1, <1>2, <1>4, <1>5, <1>6, AddRequestKeeps

LEMMA WaitTimerKeeps ==
  ASSUME IInv, NEW d \in 0 .. Horizon, NEW flip, WaitTimer(d, flip)
  PROVE  IInv'
<1> DEFINE r == request(TIMER, time + d, None)
<1>1. AddRequest(r, flip)
  BY DEF WaitTimer
<1>2. cur # None /\ calls' \in 0 .. MaxCalls
  BY Constants DEF WaitTimer, Call, IInv, TypeOK
<1>3. time + d <= Horizon
  BY DEF WaitTimer
<1>4. r \in Requests /\ ~ r.list /\ r.when = time + d
  <2>1. time + d \in 0 .. Inf
    BY <1>3, Constants, Typed DEF IInv
  <2>2. TIMER \in Int
    BY DEF TIMER
  <2>3. QED  BY <2>1, <2>2 DEF request, Requests
<1>5. time <= r.when
  BY <1>4, Constants, Typed DEF IInv
<1> HIDE DEF r
<1>6. QED  BY <1>1, <1>2, <1>4, <1>5, AddRequestKeeps

\* Steps that leave the mailbox, the events and the time alone.
LEMMA QuietKeeps ==
  ASSUME IInv, UNCHANGED <<time, limit, count, items, gone, made, ev, tmin, cur, pe>>,
         calls' \in 0 .. MaxCalls, ended' \in {"no", "over", "lost", "corrupt"}
  PROVE  IInv'
<1>1. TypeOK'
  BY DEF IInv, TypeOK
<1>2. CountMatches' /\ Stored' /\ Chains' /\ NoLostItem'
  BY DEF IInv, CountMatches, Stored, Chains, Chained, NoLostItem
<1>3. Earliest' /\ Current' /\ Priority'
  BY DEF IInv, Earliest, Preferred, Current, Priority
<1>4. QED  BY <1>1, <1>2, <1>3 DEF IInv

LEMMA SleepKeeps ==
  ASSUME IInv, Sleep
  PROVE  IInv'
<1>1. /\ UNCHANGED <<time, limit, count, items, gone, made, ev, pe, ended>>
      /\ cur' = None /\ tmin' = Inf /\ calls' = 0
  BY DEF Sleep, box
<1>2. TypeOK'
  BY <1>1, Constants DEF IInv, TypeOK
<1>3. CountMatches' /\ Stored' /\ Chains' /\ NoLostItem'
  BY <1>1 DEF IInv, CountMatches, Stored, Chains, Chained, NoLostItem
<1>4. Earliest' /\ Current' /\ Priority'
  BY <1>1 DEF IInv, Earliest, Preferred, Current, Priority
<1>5. QED  BY <1>2, <1>3, <1>4 DEF IInv

\* A pending priority item keeps the mailbox from becoming a barrier.
LEMMA SetLimitKeeps ==
  ASSUME IInv, NEW lim \in Limits, SetLimit(lim)
  PROVE  IInv'
<1>1. /\ UNCHANGED <<count, items, gone, made, time, ev, tmin, cur, pe, ended>>
      /\ limit' = lim /\ calls' \in 0 .. MaxCalls /\ ~ gone
      /\ lim >= count \/ (lim < 0 /\ count = 0)
      /\ (limit < 0) = (lim < 0) \/ \A p \in Procs : \A i \in DOMAIN ev[p].reqs : ~ev[p].reqs[i].list
  BY Constants DEF SetLimit, UseBox, Call, IInv, TypeOK
<1>2. limit \in Int /\ lim \in Int /\ count \in Nat
  BY Constants DEF IInv, TypeOK
<1>3. TypeOK'
  BY <1>1 DEF IInv, TypeOK
<1>4. CountMatches' /\ Stored'
  BY <1>1, <1>2 DEF IInv, CountMatches, Stored
<1>5. Chains' /\ Earliest' /\ Current'
  BY <1>1 DEF IInv, Chains, Chained, Earliest, Preferred, Current
<1>6. Priority'
  <2>1. ASSUME pe # None PROVE lim >= 0
    <3>1. pe.proc \in Procs /\ pe.idx \in DOMAIN ev[pe.proc].reqs
      BY <2>1, Touched DEF IInv, TypeOK
    <3>2. ev[pe.proc].reqs[pe.idx].list /\ limit >= 0
      BY <2>1 DEF IInv, Priority
    <3>3. QED  BY <3>1, <3>2, <1>1, <1>2
  <2>2. QED  BY <2>1, <1>1 DEF IInv, Priority
<1>7. NoLostItem'
  <2>1. lim > 0 /\ count > 0 => limit > 0
    BY <1>2 DEF IInv, CountMatches, Stored
  <2>2. QED  BY <2>1, <1>1 DEF IInv, NoLostItem
<1>8. QED  BY <1>3, <1>4, <1>5, <1>6, <1>7 DEF IInv

-----------------------------------------------------------------------------
(* putP                                                                     *)

\* A set of at most one element.
LEMMA AtMostOne ==
  ASSUME NEW S, IsFiniteSet(S), Cardinality(S) <= 1, NEW x \in S, NEW y \in S
  PROVE  x = y
<1>1. IsFiniteSet(S \ {x}) /\ Cardinality(S \ {x}) = Cardinality(S) - 1
  BY FS_RemoveElement
<1>2. Cardinality(S) \in Nat /\ Cardinality(S \ {x}) \in Nat
  BY <1>1, FS_CardinalityType
<1>3. Cardinality(S \ {x}) = 0
  BY <1>1, <1>2
<1>4. S \ {x} = {}
  BY <1>1, <1>3, FS_EmptySet
<1>5. QED  BY <1>4

Wanted == IF limit > 0 THEN awaitsPut ELSE {NEWITEM}

\* The requests that putP finds.
Found ==
  {w \in Procs \X (1 .. MaxChain) :
     /\ w[2] \in DOMAIN ev[w[1]].reqs
     /\ LET r == ev[w[1]].reqs[w[2]] IN r.list /\ r.id \in Wanted}

LEMMA FoundIsOne ==
  ASSUME Cardinality(Found) <= 1, NEW v \in Found, NEW w \in Found
  PROVE  v = w
<1>1. IsFiniteSet(1 .. MaxChain)
  <2>1. 1 \in Int /\ MaxChain \in Int
    BY Constants
  <2>2. QED  BY <2>1, FS_Interval
<1>2. IsFiniteSet(Procs \X (1 .. MaxChain))
  BY <1>1, FS_Product, Constants
<1>3. IsFiniteSet(Found)
  BY <1>2, FS_Subset DEF Found
<1>4. QED  BY <1>3, AtMostOne

\* Who waits for an item finds it through putP.
LEMMA Finds ==
  ASSUME IInv, limit > 0, NEW p \in Procs, NEW i \in DOMAIN ev[p].reqs,
         ev[p].reqs[i].list, ev[p].reqs[i].id \in {RECEIVE, NONEMPTY}
  PROVE  <<p, i>> \in Found
<1>1. ev[p].reqs[i].id \in Events
  BY DEF IInv, Chains, Chained
<1>2. ev[p].reqs[i].id \in Wanted
  BY <1>1 DEF Wanted, awaitsPut, RECEIVE, NONEMPTY, GET
<1>3. i \in 1 .. MaxChain
  <2>1. Len(ev[p].reqs) <= MaxChain /\ i \in 1 .. Len(ev[p].reqs) /\ Len(ev[p].reqs) \in Nat
    BY Typed DEF IInv, TypeOK
  <2>2. QED  BY <2>1, Constants
<1>4. QED  BY <1>2, <1>3 DEF Found

LEMMA PutPKeeps ==
  ASSUME IInv, PutP
  PROVE  IInv'
<1> DEFINE n == IF limit > 0 THEN 1 ELSE 0
<1>1. /\ cur # None /\ ev[cur] = NoEvent /\ calls' \in 0 .. MaxCalls /\ ~ gone
      /\ UNCHANGED <<limit, gone, time, tmin, cur, ended>>
      /\ pe = None /\ limit >= 0 /\ count = 0
      /\ count' = n /\ items' = [i \in 1 .. n |-> made + 1]
      /\ made' = made + 1 /\ made' \in 1 .. MaxItems
  <2>1. /\ cur # None /\ ev[cur] = NoEvent /\ ~ gone
        /\ UNCHANGED <<limit, gone, time, tmin, cur, ended>>
        /\ pe = None /\ limit >= 0 /\ count = 0
        /\ count' = n /\ items' = [i \in 1 .. n |-> made + 1]
        /\ made' = made + 1 /\ made < MaxItems /\ calls < MaxCalls /\ calls' = calls + 1
    BY DEF PutP, UseBox, Call, BeforeWaits
  <2>2. made \in 0 .. MaxItems /\ calls \in 0 .. MaxCalls /\ MaxItems \in Nat /\ MaxCalls \in Nat
    BY Constants DEF IInv, TypeOK
  <2> HIDE DEF n
  <2>3. made' \in 1 .. MaxItems /\ calls' \in 0 .. MaxCalls
    BY <2>1, <2>2
  <2>4. QED  BY <2>1, <2>3
<1>2. /\ Cardinality(Found) <= 1
      /\ Found = {} => UNCHANGED <<ev, pe>>
      /\ Found # {} => LET w == CHOOSE v \in Found : TRUE
                       IN  /\ ev' = [ev EXCEPT ![w[1]].reqs[w[2]] = handed(@, made + 1)]
                           /\ pe' = [proc |-> w[1], idx |-> w[2], item |-> made + 1, kept |-> TRUE]
  BY DEF PutP, Found, Wanted
<1>3. /\ limit \in Int /\ n \in {0, 1} /\ n \in Nat /\ n <= limit /\ made + 1 \in 1 .. MaxItems
      /\ time \in Nat /\ time \in 0 .. Inf /\ cur \in Procs
  BY <1>1, Constants, Typed DEF IInv, TypeOK
<1>4. items' \in Seq(1 .. MaxItems) /\ Len(items') = n /\ count' = n
  <2>1. items' \in [1 .. n -> 1 .. MaxItems]
    BY <1>1, <1>3
  <2>2. QED  BY <2>1, <1>1, <1>3, SeqByFunction
<1>5. CountMatches' /\ Stored'
  BY <1>1, <1>3, <1>4 DEF CountMatches, Stored
<1>6. CASE Found = {}
  <2>1. UNCHANGED <<ev, pe>>
    BY <1>2, <1>6
  <2>2. TypeOK'
    BY <2>1, <1>1, <1>3, <1>4 DEF IInv, TypeOK
  <2>3. Chains' /\ Earliest' /\ Current' /\ Priority'
    BY <2>1, <1>1 DEF IInv, Chains, Chained, Earliest, Preferred, Current, Priority
  <2>4. NoLostItem'
    BY <2>1, <1>1, <1>6, Finds DEF NoLostItem
  <2>5. QED  BY <2>2, <2>3, <2>4, <1>5 DEF IInv
<1>7. CASE Found # {}
  <2>1. PICK p \in Procs, i \in 1 .. MaxChain :
          /\ i \in DOMAIN ev[p].reqs /\ ev[p].reqs[i].list /\ ev[p].reqs[i].id \in Wanted
          /\ <<p, i>> \in Found
          /\ ev' = [ev EXCEPT ![p].reqs[i] = handed(@, made + 1)]
          /\ pe' = [proc |-> p, idx |-> i, item |-> made + 1, kept |-> TRUE]
    <3> DEFINE w == CHOOSE v \in Found : TRUE
    <3>1. w \in Found
      BY <1>7
    <3>2. /\ w \in Procs \X (1 .. MaxChain) /\ w[2] \in DOMAIN ev[w[1]].reqs
          /\ ev[w[1]].reqs[w[2]].list /\ ev[w[1]].reqs[w[2]].id \in Wanted
      BY <3>1 DEF Found
    <3>3. /\ ev' = [ev EXCEPT ![w[1]].reqs[w[2]] = handed(@, made + 1)]
          /\ pe' = [proc |-> w[1], idx |-> w[2], item |-> made + 1, kept |-> TRUE]
      BY <1>2, <1>7
    <3> HIDE DEF w
    <3>4. w[1] \in Procs /\ w[2] \in 1 .. MaxChain /\ w = <<w[1], w[2]>>
      BY <3>2
    <3>5. QED  BY <3>1, <3>2, <3>3, <3>4
  <2> DEFINE r == handed(ev[p].reqs[i], made + 1)
             R == [ev[p].reqs EXCEPT ![i] = r]
             g == [ev[p] EXCEPT !.reqs = R]
  <2>2. /\ r \in Requests /\ r.when = time /\ r.item = made + 1
        /\ r.id = ev[p].reqs[i].id /\ r.list
    <3>1. ev[p].reqs[i] \in Requests
      BY <2>1, Typed DEF IInv
    <3>2. made + 1 \in {None} \cup Int
      BY <1>3
    <3>3. /\ r = [ev[p].reqs[i] EXCEPT !.when = time, !.item = made + 1]
          /\ ev[p].reqs[i].list
      BY <2>1 DEF handed
    <3> HIDE DEF r
    <3>4. QED  BY <3>1, <3>2, <3>3, <1>3 DEF Requests
  <2>3. /\ ev[p] \in Evs /\ ev[p].reqs \in Seq(Requests) /\ Len(ev[p].reqs) \in Nat
        /\ DOMAIN ev[p].reqs = 1 .. Len(ev[p].reqs) /\ ev[p].top \in Nat /\ ev[p].wake \in Nat
    BY Typed DEF IInv
  <2> HIDE DEF r
  <2>4. /\ R \in Seq(Requests) /\ Len(R) = Len(ev[p].reqs) /\ DOMAIN R = DOMAIN ev[p].reqs
        /\ R[i] = r /\ \A j \in DOMAIN R \ {i} : R[j] = ev[p].reqs[j]
    BY <2>1, <2>2, <2>3
  <2> HIDE DEF R
  <2>5. g \in Evs /\ g.reqs = R /\ g.wake = ev[p].wake /\ g.top = ev[p].top
    BY <2>3, <2>4 DEF Evs
  <2>6. ev' = [ev EXCEPT ![p] = g]
    BY <2>1, Typed DEF r, R, IInv, Evs
  <2> HIDE DEF g
  <2>7. /\ ev' \in [Procs -> Evs] /\ ev'[p] = g
        /\ \A q \in Procs \ {p} : ev'[q] = ev[q]
    BY <2>5, <2>6, Typed DEF IInv
  <2>8. p # cur
    BY <2>1, <1>1 DEF NoEvent
  <2>9. /\ pe' # None /\ pe'.proc = p /\ pe'.idx = i /\ pe'.item = made + 1
        /\ pe' \in [proc : Procs, idx : 1 .. MaxChain, item : 1 .. MaxItems, kept : BOOLEAN]
    <3>1. pe' \in [proc : Procs, idx : 1 .. MaxChain, item : 1 .. MaxItems, kept : BOOLEAN]
      BY <2>1, <1>3
    <3>2. pe' \in [proc : Procs, idx : Nat, item : Nat, kept : BOOLEAN]
      BY <3>1, Constants
    <3>3. QED  BY <3>1, <3>2, <2>1, Constants
  <2>10. TypeOK'
    <3>1. \A q \in Procs : ev'[q].top \in 0 .. Len(ev'[q].reqs) /\ Len(ev'[q].reqs) <= MaxChain
      BY <2>4, <2>5, <2>7 DEF IInv, TypeOK
    <3>2. pe'.idx \in DOMAIN ev'[pe'.proc].reqs
      BY <2>1, <2>4, <2>5, <2>7, <2>9
    <3>3. count' \in Nat /\ made' \in 0 .. MaxItems /\ items' \in Seq(1 .. MaxItems)
      BY <1>1, <1>3, <1>4
    <3>4. /\ time' \in 0 .. Horizon /\ tmin' \in 0 .. Inf /\ calls' \in 0 .. MaxCalls
          /\ limit' \in Limits /\ gone' \in BOOLEAN /\ cur' \in Procs \cup {None}
          /\ ended' \in {"no", "over", "lost", "corrupt"}
      BY <1>1 DEF IInv, TypeOK
    <3> HIDE DEF n
    <3>5. QED  BY <3>1, <3>2, <3>3, <3>4, <2>7, <2>9 DEF TypeOK, Evs
  <2>11. Chains'
    <3>1. Chained(ev[p]) /\ ev[p] # NoEvent
      BY <2>1 DEF IInv, Chains, NoEvent
    <3>2. Chained(g)
      BY <3>1, <2>1, <2>2, <2>4, <2>5 DEF Chained
    <3>3. QED  BY <3>2, <2>7 DEF IInv, Chains, Chained
  <2>12. Earliest'
    <3>1. \A q \in Procs :
            /\ time <= ev[q].wake
            /\ \A j \in DOMAIN ev[q].reqs : time <= ev[q].reqs[j].when /\ ev[q].wake <= ev[q].reqs[j].when
      BY <1>1 DEF IInv, Earliest, Preferred
    <3>2. ASSUME NEW q \in Procs \ {p}
          PROVE  /\ (time <= ev[q].wake)'
                 /\ \A j \in DOMAIN ev'[q].reqs : (time <= ev[q].reqs[j].when /\ ev[q].wake <= ev[q].reqs[j].when)'
      BY <3>1, <2>7, <1>1
    <3>3. time <= g.wake
      BY <3>1, <2>5
    <3>4. ASSUME NEW j \in DOMAIN g.reqs \ {i}
          PROVE  time <= g.reqs[j].when /\ g.wake <= g.reqs[j].when
      BY <3>1, <2>4, <2>5
    <3>5. time <= g.reqs[i].when /\ Preferred(p, i)'
      BY <2>2, <2>4, <2>5, <2>9, <1>3 DEF Preferred
    <3>6. QED  BY <3>2, <3>3, <3>4, <3>5, <2>7, <1>1 DEF Earliest
  <2>13. Current'
    BY <2>7, <2>8, <2>9, <1>1, <1>3 DEF IInv, Current
  <2>14. Priority'
    <3>1. ev'[pe'.proc].reqs[pe'.idx] = r
      BY <2>4, <2>5, <2>7, <2>9
    <3>2. ASSUME r.id = RECEIVE PROVE items' # <<>> /\ Head(items') = made + 1
      <4>1. limit > 0
        BY <3>2, <2>1, <2>2 DEF Wanted, NEWITEM, RECEIVE
      <4>2. n = 1
        BY <4>1
      <4>3. items' = [j \in 1 .. 1 |-> made + 1] /\ items' \in Seq(1 .. MaxItems) /\ Len(items') = 1
        BY <4>2, <1>1, <1>4
      <4>4. QED  BY <4>3
    <3>3. QED  BY <3>1, <3>2, <2>2, <2>9, <1>1 DEF Priority
  <2>15. NoLostItem'
    <3> SUFFICES ASSUME limit > 0, NEW q \in Procs, NEW j \in DOMAIN ev'[q].reqs,
                        ev'[q].reqs[j].list, ev'[q].reqs[j].id \in {RECEIVE, NONEMPTY}
                 PROVE  ev'[q].reqs[j].when = time
      BY <1>1 DEF NoLostItem
    <3>1. CASE q = p /\ j = i
      BY <3>1, <2>2, <2>4, <2>5, <2>7
    <3>2. CASE q # p \/ j # i
      <4>1. j \in DOMAIN ev[q].reqs /\ ev'[q].reqs[j] = ev[q].reqs[j]
        BY <3>2, <2>4, <2>5, <2>7
      <4>2. <<q, j>> \in Found
        BY <4>1, Finds
      <4>3. <<q, j>> = <<p, i>>
        BY <4>2, <2>1, <1>2, FoundIsOne
      <4>4. QED  BY <4>3, <3>2
    <3>3. QED  BY <3>1, <3>2
  <2>16. QED  BY <2>10, <2>11, <2>12, <2>13, <2>14, <2>15, <1>5 DEF IInv
<1>8. QED  BY <1>6, <1>7

-----------------------------------------------------------------------------
(* The main loop                                                            *)

LEMMA NoEventIsAnEvent ==
  NoEvent \in Evs /\ Chained(NoEvent) /\ NoEvent.reqs = <<>> /\ NoEvent.wake = Inf /\ NoEvent.top = 0
<1>1. <<>> \in Seq(Requests)
  OBVIOUS
<1>2. QED  BY <1>1, Constants DEF NoEvent, Evs, Chained

\* A restart by an event that is not later than those of the others.
LEMMA Restarting ==
  ASSUME IInv, NEW p \in Procs, NEW e, NEW item, Restart(p, e, item), ended' = ended,
         e.wake \in 0 .. Horizon, time <= e.wake,
         \A q \in Procs \ {p} :
           /\ e.wake <= ev[q].wake
           /\ \A i \in DOMAIN ev[q].reqs : e.wake <= ev[q].reqs[i].when /\ ev[q].wake <= ev[q].reqs[i].when,
         count' \in Nat, items' \in Seq(1 .. MaxItems), count' > 0 => count > 0
  PROVE  TypeOK' /\ Chains' /\ Earliest' /\ Current' /\ Priority' /\ NoLostItem'
<1>1. /\ time' = e.wake /\ cur' = p /\ calls' = 0 /\ tmin' = Inf /\ pe' = None
      /\ ev' = [ev EXCEPT ![p] = NoEvent]
      /\ UNCHANGED <<limit, gone, made>>
  BY DEF Restart
<1>2. /\ ev' \in [Procs -> Evs] /\ ev'[p] = NoEvent
      /\ \A q \in Procs \ {p} : ev'[q] = ev[q]
  BY <1>1, Typed, NoEventIsAnEvent DEF IInv
<1>3. TypeOK'
  <2>1. \A q \in Procs : ev'[q].top \in 0 .. Len(ev'[q].reqs) /\ Len(ev'[q].reqs) <= MaxChain
    <3>1. Len(NoEvent.reqs) = 0 /\ NoEvent.top = 0 /\ MaxChain \in Nat
      BY NoEventIsAnEvent, Constants
    <3>2. NoEvent.top \in 0 .. Len(NoEvent.reqs) /\ Len(NoEvent.reqs) <= MaxChain
      BY <3>1
    <3>3. QED  BY <3>2, <1>2 DEF IInv, TypeOK
  <2>2. tmin' \in 0 .. Inf /\ calls' \in 0 .. MaxCalls
    BY <1>1, Constants
  <2>3. QED  BY <1>1, <1>2, <2>1, <2>2 DEF IInv, TypeOK, Evs
<1>4. Chains'
  BY <1>2, NoEventIsAnEvent DEF IInv, Chains, Chained
<1>5. Earliest'
  <2>1. e.wake <= Inf
    BY Constants
  <2>2. QED  BY <1>1, <1>2, <2>1, NoEventIsAnEvent DEF Earliest
<1>6. Current' /\ Priority'
  BY <1>1, <1>2, NoEventIsAnEvent DEF Current, Priority
<1>7. NoLostItem'
  <2> SUFFICES ASSUME limit > 0, count' > 0, NEW q \in Procs, NEW i \in DOMAIN ev'[q].reqs,
                      ev'[q].reqs[i].list, ev'[q].reqs[i].id \in {RECEIVE, NONEMPTY}
               PROVE  ev'[q].reqs[i].when = e.wake
    BY <1>1 DEF NoLostItem
  <2>1. q \in Procs \ {p}
    BY <1>2, NoEventIsAnEvent
  <2>2. i \in DOMAIN ev[q].reqs /\ ev'[q].reqs[i] = ev[q].reqs[i]
    BY <2>1, <1>2
  <2>3. ev[q].reqs[i].when = time /\ e.wake <= ev[q].reqs[i].when
    BY <2>1, <2>2 DEF IInv, NoLostItem
  <2>4. time \in Nat /\ e.wake \in Nat
    BY Constants, Typed DEF IInv
  <2>5. QED  BY <2>2, <2>3, <2>4
<1>8. QED  BY <1>3, <1>4, <1>5, <1>6, <1>7

\* What it means that an event is due.
LEMMA DueIsEarliest ==
  ASSUME IInv, NEW p \in Procs, Due(p)
  PROVE  /\ cur = None /\ pe = None /\ ended = "no"
         /\ ev[p].wake \in 0 .. Horizon /\ time <= ev[p].wake
         /\ \A q \in Procs :
              /\ ev[p].wake <= ev[q].wake
              /\ \A i \in DOMAIN ev[q].reqs :
                   ev[p].wake <= ev[q].reqs[i].when /\ ev[q].wake <= ev[q].reqs[i].when
         /\ ev[p].top \in DOMAIN ev[p].reqs
<1>1. cur = None /\ pe = None /\ ended = "no" /\ ev[p].wake # Inf /\ \A q \in Procs : ev[p].wake <= ev[q].wake
  BY DEF Due, AtLoop
<1>2. ev[p].wake \in 0 .. Inf
  BY Typed DEF IInv, Evs
<1>3. ev[p].wake \in 0 .. Horizon /\ time <= ev[p].wake
  BY <1>1, <1>2, Constants DEF IInv, Earliest
<1>4. ASSUME NEW q \in Procs, NEW i \in DOMAIN ev[q].reqs
      PROVE  ev[p].wake <= ev[q].reqs[i].when /\ ev[q].wake <= ev[q].reqs[i].when
  <2>1. ev[q].wake <= ev[q].reqs[i].when
    BY <1>1 DEF IInv, Earliest, Preferred
  <2>2. ev[p].wake \in Nat /\ ev[q].wake \in Nat /\ ev[q].reqs[i].when \in Nat
    BY Typed DEF IInv
  <2>3. QED  BY <2>1, <2>2, <1>1
<1>5. ev[p].top \in DOMAIN ev[p].reqs
  BY <1>1, NoEventIsAnEvent DEF IInv, Chains, Chained
<1>6. QED  BY <1>1, <1>3, <1>4, <1>5

LEMMA DispatchOtherKeeps ==
  ASSUME IInv, NEW p \in Procs, DispatchOther(p)
  PROVE  IInv'
<1>1. /\ Due(p) /\ Restart(p, ev[p], ev[p].item) /\ UNCHANGED <<count, items, ended, limit, gone>>
      /\ pe' = None
  BY DEF DispatchOther, Restart
<1>2. count' \in Nat /\ items' \in Seq(1 .. MaxItems) /\ (count' > 0 => count > 0)
  BY <1>1 DEF IInv, TypeOK
<1>3. TypeOK' /\ Chains' /\ Earliest' /\ Current' /\ Priority' /\ NoLostItem'
  BY <1>1, <1>2, DueIsEarliest, Restarting
<1>4. CountMatches' /\ Stored'
  BY <1>1 DEF IInv, CountMatches, Stored
<1>5. QED  BY <1>3, <1>4 DEF IInv

\* An item taken by RECEIVE.
LEMMA Taken ==
  ASSUME IInv, count > 0
  PROVE  /\ items # <<>> /\ Head(items) \in 1 .. MaxItems /\ Tail(items) \in Seq(1 .. MaxItems)
         /\ Len(Tail(items)) = count - 1 /\ count - 1 \in Nat
<1>1. items \in Seq(1 .. MaxItems) /\ count = Len(items)
  BY DEF IInv, TypeOK, CountMatches
<1>2. items # <<>> /\ Len(items) > 0
  BY <1>1
<1>3. Head(items) \in 1 .. MaxItems /\ Tail(items) \in Seq(1 .. MaxItems)
  BY <1>1, <1>2, HeadTailProperties
<1>4. Len(Tail(items)) = Len(items) - 1
  BY <1>1, <1>2
<1>5. Len(items) - 1 \in Nat
  BY <1>1
<1>6. QED  BY <1>1, <1>2, <1>3, <1>4, <1>5

LEMMA DispatchReceiveKeeps ==
  ASSUME IInv, NEW p \in Procs, DispatchReceive(p)
  PROVE  IInv'
<1>1. /\ Due(p) /\ count > 0 /\ count' = count - 1 /\ UNCHANGED <<ended, limit, gone>> /\ pe' = None
      /\ Restart(p, ev[p], IF items = <<>> THEN None ELSE Head(items))
      /\ items' = IF items = <<>> THEN <<>> ELSE Tail(items)
  BY DEF DispatchReceive, Available, Restart
<1>2. items' = Tail(items) /\ count' \in Nat /\ items' \in Seq(1 .. MaxItems) /\ Len(items') = count'
  BY <1>1, Taken
<1>3. TypeOK' /\ Chains' /\ Earliest' /\ Current' /\ Priority' /\ NoLostItem'
  BY <1>1, <1>2, DueIsEarliest, Restarting
<1>4. CountMatches'
  <2>1. limit \in Int /\ count \in Nat
    BY Constants DEF IInv, TypeOK
  <2>2. QED  BY <2>1, <1>1, <1>2 DEF IInv, CountMatches
<1>5. Stored'
  BY <1>1 DEF IInv, Stored
<1>6. QED  BY <1>3, <1>4, <1>5 DEF IInv

LEMMA BackToQueueKeeps ==
  ASSUME IInv, NEW p \in Procs, NEW i, BackToQueue(p, i)
  PROVE  IInv'
<1> DEFINE t == ev[p].top
           R == [ev[p].reqs EXCEPT ![t].when = Inf]
           e == [ev[p] EXCEPT !.reqs = R]
<1>1. /\ UNCHANGED <<time, limit, count, items, gone, made, tmin, cur, woke, pe, calls, ended>>
      /\ i \in DOMAIN e.reqs /\ \A j \in DOMAIN e.reqs : e.reqs[i].when <= e.reqs[j].when
      /\ ev' = [ev EXCEPT ![p] = show(e, i)]
      /\ gone \/ ~ (count > 0)
  <2>1. [ev[p] EXCEPT !.reqs[ev[p].top].when = Inf] = e
    BY Typed DEF IInv, Evs
  <2>2. QED  BY <2>1 DEF BackToQueue, Available, box
<1>2. /\ cur = None /\ pe = None /\ t \in DOMAIN ev[p].reqs
      /\ \A q \in Procs : \A j \in DOMAIN ev[q].reqs : ev[q].wake <= ev[q].reqs[j].when
  BY DueIsEarliest DEF BackToQueue
<1>3. /\ ev[p] \in Evs /\ ev[p].reqs \in Seq(Requests) /\ Len(ev[p].reqs) \in Nat
      /\ DOMAIN ev[p].reqs = 1 .. Len(ev[p].reqs) /\ time \in Nat /\ time <= Inf /\ Inf \in 0 .. Inf
  BY Typed, Constants DEF IInv
<1>4. /\ R \in Seq(Requests) /\ DOMAIN R = DOMAIN ev[p].reqs /\ Len(R) = Len(ev[p].reqs)
      /\ \A j \in DOMAIN R : /\ R[j].when \in {ev[p].reqs[j].when, Inf}
                             /\ R[j].list = ev[p].reqs[j].list /\ R[j].id = ev[p].reqs[j].id
  <2> DEFINE r == [ev[p].reqs[t] EXCEPT !.when = Inf]
  <2>1. r \in Requests /\ r.when = Inf /\ r.list = ev[p].reqs[t].list /\ r.id = ev[p].reqs[t].id
    <3>1. ev[p].reqs[t] \in Requests
      BY <1>2, <1>3
    <3>2. QED  BY <3>1, <1>3 DEF Requests
  <2>2. R = [ev[p].reqs EXCEPT ![t] = r]
    OBVIOUS
  <2> HIDE DEF r, R, t
  <2>3. QED  BY <2>1, <2>2, <1>2, <1>3
<1> HIDE DEF R, t
<1>5. e \in Evs /\ e.reqs = R
  BY <1>3, <1>4 DEF Evs
<1> HIDE DEF e
<1> DEFINE f == show(e, i)
<1>6. f \in Evs /\ f.reqs = R /\ f.top = i /\ f.wake = R[i].when /\ i \in DOMAIN R
  BY <1>1, <1>5, Show
<1> HIDE DEF f
<1>7. /\ ev' \in [Procs -> Evs] /\ ev'[p] = f
      /\ \A q \in Procs \ {p} : ev'[q] = ev[q]
  BY <1>1, <1>6, Typed DEF f, IInv
<1>8. TypeOK'
  <2>1. \A q \in Procs : ev'[q].top \in 0 .. Len(ev'[q].reqs) /\ Len(ev'[q].reqs) <= MaxChain
    <3>1. f.top \in 0 .. Len(f.reqs)
      BY <1>3, <1>4, <1>6
    <3>2. Len(f.reqs) <= MaxChain
      BY <1>4, <1>6 DEF IInv, TypeOK
    <3>3. QED  BY <3>1, <3>2, <1>7 DEF IInv, TypeOK
  <2>2. QED  BY <2>1, <1>1, <1>2, <1>7 DEF IInv, TypeOK, Evs
<1>9. Chains'
  <2>1. Chained(ev[p])
    BY DEF IInv, Chains
  <2>2. Chained(f)
    BY <2>1, <1>4, <1>6 DEF Chained
  <2>3. QED  BY <2>2, <1>7 DEF IInv, Chains, Chained
<1>10. Earliest'
  <2>1. \A j \in DOMAIN R : time <= R[j].when /\ f.wake <= R[j].when
    <3>1. \A j \in DOMAIN ev[p].reqs : time <= ev[p].reqs[j].when
      BY DEF IInv, Earliest
    <3>2. QED  BY <3>1, <1>1, <1>3, <1>4, <1>5, <1>6
  <2>2. time <= f.wake
    BY <2>1, <1>6
  <2>3. ASSUME NEW q \in Procs \ {p}
        PROVE  /\ (time <= ev[q].wake)'
               /\ \A j \in DOMAIN ev'[q].reqs : (time <= ev[q].reqs[j].when /\ ev[q].wake <= ev[q].reqs[j].when)'
    BY <1>1, <1>2, <1>7 DEF IInv, Earliest
  <2>4. QED  BY <2>1, <2>2, <2>3, <1>1, <1>6, <1>7 DEF Earliest
<1>11. Current' /\ Priority' /\ CountMatches' /\ Stored'
  BY <1>1, <1>2 DEF IInv, Current, Priority, CountMatches, Stored
<1>12. NoLostItem'
  <2>1. ~ (count > 0)
    BY <1>1 DEF IInv, Stored
  <2>2. QED  BY <2>1, <1>1 DEF NoLostItem
<1>13. QED  BY <1>8, <1>9, <1>10, <1>11, <1>12 DEF IInv

LEMMA ReceiveGoneKeeps ==
  ASSUME IInv, NEW p \in Procs, ReceiveGone(p)
  PROVE  IInv'
BY QuietKeeps DEF ReceiveGone, box, IInv, TypeOK

LEMMA NoEventsKeeps ==
  ASSUME IInv, NoEvents
  PROVE  IInv'
BY QuietKeeps DEF NoEvents, box, IInv, TypeOK

\* The event of the recipient of a priority item.
LEMMA PriorityEvent ==
  ASSUME IInv, pe # None, NEW e, e = show(ev[pe.proc], pe.idx)
  PROVE  /\ pe.proc \in Procs /\ e.wake = time /\ time \in 0 .. Horizon /\ e.top = pe.idx
         /\ e.reqs = ev[pe.proc].reqs /\ e.item = e.reqs[pe.idx].item
         /\ \A q \in Procs \ {pe.proc} :
              /\ e.wake <= ev[q].wake
              /\ \A i \in DOMAIN ev[q].reqs : e.wake <= ev[q].reqs[i].when /\ ev[q].wake <= ev[q].reqs[i].when
<1>1. pe.proc \in Procs /\ pe.idx \in DOMAIN ev[pe.proc].reqs /\ ev[pe.proc] \in Evs /\ time \in 0 .. Horizon
  BY Touched, Typed DEF IInv, TypeOK
<1>2. /\ e.wake = ev[pe.proc].reqs[pe.idx].when /\ e.top = pe.idx
      /\ e.reqs = ev[pe.proc].reqs /\ e.item = e.reqs[pe.idx].item
  BY <1>1, Show
<1>3. e.wake = time
  BY <1>2 DEF IInv, Priority
<1>4. QED  BY <1>1, <1>2, <1>3 DEF IInv, Earliest, Preferred

LEMMA DispatchPriorityKeeps ==
  ASSUME IInv, DispatchPriority
  PROVE  IInv'
<1> DEFINE p == pe.proc
           e == show(ev[p], pe.idx)
<1>1. pe # None /\ ended = "no"
  BY DEF DispatchPriority, AtLoop
<1>2. /\ p \in Procs /\ e.wake = time /\ time \in 0 .. Horizon
      /\ \A q \in Procs \ {p} :
           /\ e.wake <= ev[q].wake
           /\ \A i \in DOMAIN ev[q].reqs : e.wake <= ev[q].reqs[i].when /\ ev[q].wake <= ev[q].reqs[i].when
  BY <1>1, PriorityEvent
<1>3. CASE Id(e) # RECEIVE
  <2>1. Restart(p, e, e.item) /\ UNCHANGED <<count, items, ended, limit, gone>> /\ pe' = None
    BY <1>3 DEF DispatchPriority, Restart
  <2>2. count' \in Nat /\ items' \in Seq(1 .. MaxItems) /\ (count' > 0 => count > 0)
    BY <2>1 DEF IInv, TypeOK
  <2> HIDE DEF p, e
  <2>3. TypeOK' /\ Chains' /\ Earliest' /\ Current' /\ Priority' /\ NoLostItem'
    BY <1>2, <2>1, <2>2, Restarting
  <2>4. CountMatches' /\ Stored'
    BY <2>1 DEF IInv, CountMatches, Stored
  <2>5. QED  BY <2>3, <2>4 DEF IInv
<1>4. CASE Id(e) = RECEIVE /\ count > 0
  <2>1. /\ Restart(p, e, Head(items)) /\ count' = count - 1 /\ items' = Tail(items) /\ pe' = None
        /\ UNCHANGED <<ended, limit, gone>>
    BY <1>4 DEF DispatchPriority, Restart
  <2>2. count' \in Nat /\ items' \in Seq(1 .. MaxItems) /\ Len(items') = count'
    BY <2>1, <1>4, Taken
  <2> HIDE DEF p, e
  <2>3. TypeOK' /\ Chains' /\ Earliest' /\ Current' /\ Priority' /\ NoLostItem'
    BY <1>2, <1>4, <2>1, <2>2, Restarting
  <2>4. CountMatches' /\ Stored'
    <3>1. limit \in Int /\ count \in Nat
      BY Constants DEF IInv, TypeOK
    <3>2. QED  BY <3>1, <1>4, <2>1, <2>2 DEF IInv, CountMatches, Stored
  <2>5. QED  BY <2>3, <2>4 DEF IInv
<1>5. CASE Id(e) = RECEIVE /\ ~ (count > 0)
  BY <1>5, QuietKeeps DEF DispatchPriority, box, IInv, TypeOK
<1>6. QED  BY <1>3, <1>4, <1>5

-----------------------------------------------------------------------------
(* The specification                                                        *)

LEMMA InitIsIInv ==
  ASSUME Init
  PROVE  IInv
<1> DEFINE r == request(START, 0, None)
           e == [reqs |-> <<r>>, top |-> 1, wake |-> 0, item |-> None, mbox |-> None]
<1>1. r \in Requests /\ r.when = 0 /\ ~ r.list
  <2>1. START \in Int /\ 0 \in 0 .. Inf
    BY Constants DEF START
  <2>2. QED  BY <2>1 DEF request, Requests
<1>2. /\ <<r>> \in Seq(Requests) /\ Len(<<r>>) = 1 /\ DOMAIN <<r>> = {1} /\ <<r>>[1] = r
  BY <1>1
<1> HIDE DEF r
<1>3. e \in Evs /\ e.reqs = <<r>> /\ e.top = 1 /\ e.wake = 0
  BY <1>2, Constants DEF Evs
<1> HIDE DEF e
<1>4. /\ time = 0 /\ limit = First /\ count = 0 /\ items = <<>> /\ gone = FALSE /\ made = 0
      /\ ev = [p \in Procs |-> e] /\ tmin = Inf /\ cur = None /\ pe = None /\ calls = 0 /\ ended = "no"
  BY DEF Init, e, r
<1>5. ev \in [Procs -> Evs] /\ \A p \in Procs : ev[p] = e
  BY <1>3, <1>4
<1>6. TypeOK
  <2>1. \A p \in Procs : ev[p].top \in 0 .. Len(ev[p].reqs) /\ Len(ev[p].reqs) <= MaxChain
    <3>1. e.top \in 0 .. Len(e.reqs) /\ Len(e.reqs) <= MaxChain
      BY <1>2, <1>3, Constants
    <3>2. QED  BY <3>1, <1>5
  <2>2. items \in Seq(1 .. MaxItems)
    BY <1>4
  <2>3. /\ 0 \in 0 .. Horizon /\ Inf \in 0 .. Inf /\ 0 \in 0 .. MaxCalls /\ 0 \in 0 .. MaxItems
        /\ First \in Limits
    BY Constants
  <2>4. QED  BY <2>1, <2>2, <2>3, <1>4, <1>5 DEF TypeOK, Evs
<1>7. CountMatches /\ Stored /\ Current /\ Priority /\ NoLostItem
  BY <1>4 DEF CountMatches, Stored, Current, Priority, NoLostItem
<1>8. Chains
  BY <1>1, <1>2, <1>3, <1>5 DEF Chains, Chained
<1>9. Earliest
  BY <1>1, <1>2, <1>3, <1>4, <1>5 DEF Earliest
<1>10. QED  BY <1>6, <1>7, <1>8, <1>9 DEF IInv

LEMMA NextKeeps ==
  ASSUME IInv, [Next]_vars
  PROVE  IInv'
<1>1. CASE Running
  BY <1>1, WaitKeeps, WaitTimerKeeps, PutKeeps, PutThroughKeeps, GetKeeps, EraseKeeps, DeleteKeeps,
     SignalKeeps, PutPKeeps, SetLimitKeeps, SleepKeeps DEF Running
<1>2. CASE Looping
  BY <1>2, DispatchOtherKeeps, DispatchReceiveKeeps, ReceiveGoneKeeps, BackToQueueKeeps,
     DispatchPriorityKeeps, NoEventsKeeps DEF Looping
<1>3. CASE UNCHANGED vars
  BY <1>3, QuietKeeps DEF vars, box, IInv, TypeOK
<1>4. QED  BY <1>1, <1>2, <1>3 DEF Next

THEOREM Invariance == Spec => []IInv
<1>1. Init => IInv
  BY InitIsIInv
<1>2. IInv /\ [Next]_vars => IInv'
  BY NextKeeps
<1>3. QED  BY <1>1, <1>2, PTL DEF Spec

\* The state of a mailbox is typed: the list holds items that were put, an event
\* shows one of its requests, and a process has no more requests than the bound.
THEOREM Typing == Spec => []TypeOK
<1>1. IInv => TypeOK
  BY DEF IInv
<1>2. QED  BY <1>1, Invariance, PTL

\* The counter of a mailbox is the number of its items, and no FIFO exceeds its
\* capacity, whatever processes put, get, erase, receive or set (zz_put, zz_putP,
\* zz_get, zz_erase, setLimit and the main loop).
THEOREM CountIsLength == Spec => []CountMatches
<1>1. IInv => CountMatches
  BY DEF IInv
<1>2. QED  BY <1>1, Invariance, PTL

\* No process waits for RECEIVE or NONEMPTY later than now while an item is there,
\* although RECEIVE is sent back to the queue when another process was faster.
THEOREM NobodySleeps == Spec => []NoLostItem
<1>1. IInv => NoLostItem
  BY DEF IInv
<1>2. QED  BY <1>1, Invariance, PTL

\* A process restarted by RECEIVE holds the head of the list, and the head is
\* removed in the same step (main.cc, the RECEIVE case of the main loop).
THEOREM Received == Spec => ReceiveDelivers
<1>1. ASSUME IInv, Next, cur = None, cur' # None, woke'.id = RECEIVE
      PROVE  items # <<>> /\ woke'.item = Head(items) /\ items' = Tail(items)
  <2>1. Looping
    BY <1>1 DEF Next, Running, Wait, WaitTimer, Put, PutThrough, Get, Erase, Delete, SignalBarrier,
                PutP, SetLimit, Sleep, UseBox, Call
  <2>2. ASSUME NEW p \in Procs, DispatchOther(p)
        PROVE  FALSE
    <3>1. woke' = [id |-> Id(ev[p]), item |-> ev[p].item, mbox |-> ev[p].mbox] /\ Id(ev[p]) # RECEIVE
      BY <2>2 DEF DispatchOther, Restart, Id
    <3>2. QED  BY <3>1, <1>1
  <2>3. ASSUME NEW p \in Procs, DispatchReceive(p)
        PROVE  items # <<>> /\ woke'.item = Head(items) /\ items' = Tail(items)
    <3>1. items # <<>>
      BY <1>1, <2>3, Taken DEF DispatchReceive, Available
    <3>2. QED  BY <3>1, <2>3 DEF DispatchReceive, Restart
  <2>4. ASSUME DispatchPriority
        PROVE  items # <<>> /\ woke'.item = Head(items) /\ items' = Tail(items)
    <3> DEFINE e == show(ev[pe.proc], pe.idx)
    <3>1. CASE Id(e) # RECEIVE
      <4>1. woke' = [id |-> Id(e), item |-> e.item, mbox |-> e.mbox]
        BY <2>4, <3>1 DEF DispatchPriority, Restart, Id
      <4>2. QED  BY <4>1, <3>1, <1>1
    <3>2. CASE Id(e) = RECEIVE /\ count > 0
      BY <2>4, <3>2, <1>1, Taken DEF DispatchPriority, Restart
    <3>3. CASE Id(e) = RECEIVE /\ ~ (count > 0)
      BY <2>4, <3>3, <1>1 DEF DispatchPriority
    <3>4. QED  BY <3>1, <3>2, <3>3
  <2>5. QED  BY <2>1, <2>2, <2>3, <2>4, <1>1
             DEF Looping, BackToQueue, ReceiveGone, NoEvents, AtLoop, Due
<1>2. IInv /\ [Next]_vars =>
        [cur = None /\ cur' # None /\ woke'.id = RECEIVE /\ limit >= 0 =>
           items # <<>> /\ woke'.item = Head(items) /\ items' = Tail(items)]_vars
  BY <1>1
<1>3. QED  BY <1>2, Invariance, PTL DEF Spec, ReceiveDelivers

\* The recipient of putP is restarted next, with the item that was put, unless the
\* sender has used the mailbox in between; its assertion does not fail.
THEOREM PriorityIsNext == Spec => PriorityDelivered
<1>1. ASSUME IInv, Next, pe # None, pe.kept, AtLoop
      PROVE  cur' = pe.proc /\ woke'.item = pe.item /\ ended' = "no"
  <2>1. DispatchPriority
    BY <1>1 DEF AtLoop, Next, Running, Looping, Wait, WaitTimer, Put, PutThrough, Get, Erase, Delete,
                SignalBarrier, PutP, SetLimit, Sleep, UseBox, Call, DispatchOther, DispatchReceive,
                BackToQueue, ReceiveGone, Due, NoEvents
  <2> DEFINE e == show(ev[pe.proc], pe.idx)
  <2>2. e.top = pe.idx /\ e.reqs = ev[pe.proc].reqs /\ e.item = e.reqs[pe.idx].item
    BY <1>1, PriorityEvent
  <2> HIDE DEF e
  <2>3. /\ e.item = pe.item
        /\ Id(e) = RECEIVE => items # <<>> /\ Head(items) = pe.item
    BY <1>1, <2>2 DEF IInv, Priority, Id
  <2>4. items # <<>> => count > 0
    <3>1. count = Len(items) /\ items \in Seq(1 .. MaxItems)
      BY <1>1 DEF IInv, CountMatches, TypeOK
    <3>2. QED  BY <3>1
  <2>5. ended = "no"
    BY <1>1 DEF AtLoop
  <2>6. CASE Id(e) # RECEIVE
    BY <2>1, <2>3, <2>5, <2>6 DEF DispatchPriority, Restart, e
  <2>7. CASE Id(e) = RECEIVE
    BY <2>1, <2>3, <2>4, <2>5, <2>7 DEF DispatchPriority, Restart, e
  <2>8. QED  BY <2>6, <2>7
<1>2. IInv /\ [Next]_vars =>
        [pe # None /\ pe.kept /\ AtLoop => cur' = pe.proc /\ woke'.item = pe.item /\ ended' = "no"]_vars
  BY <1>1
<1>3. QED  BY <1>2, Invariance, PTL DEF Spec, PriorityDelivered

=============================================================================
