-------------------------- MODULE SideProcess_proofs --------------------------
(***************************************************************************)
(* Proofs about processes, signals and dispatch, for any number of processes,   *)
(* any roles and stations, chains of any length and any number of calls.         *)
(*                                                                         *)
(* There are five invariants; the first four rely on those before them.  AInv    *)
(* says that events, requests and the pending priority event fit together.       *)
(* Opened says that an event is never later than its requests, except where a    *)
(* call of the running process has left it so.  AllInformed says that a request  *)
(* not triggered waits for something that has not come.  CInv says that whoever   *)
(* waits for a process waits for one that lives, or has been told.  Plain, about  *)
(* requests for DEATH, and the theorem about priority signals need AInv alone.    *)
(*                                                                         *)
(* Most hold only of programs that refrain from certain calls: Early and Settled *)
(* name them, and the theorems that need one assume it.                          *)
(***************************************************************************)
EXTENDS SideProcess, TLAPS

-----------------------------------------------------------------------------
(* The inductive invariant                                                  *)

\* Request i of q is the one that the pending priority event shows.
Urgent(q, i) == pe = [proc |-> q, idx |-> i]

Sound(e) ==
  /\ e \in Events /\ Len(e.reqs) <= MaxChain
  /\ e = NoEvent \/ e.top \in DOMAIN e.reqs

Chained == \A q \in Procs : Sound(ev[q])

Dead == \A q \in Procs \ alive : ev[q] = NoEvent

Idle == cur = None => woke = NoWake

Pressing ==
  pe \notin {None, Gone} =>
    \E q \in Procs : \E i \in DOMAIN ev[q].reqs :
      /\ Urgent(q, i)
      /\ ev[q].reqs[i].when = time /\ ev[q].reqs[i].id = "SIGNAL"

\* What is on a list of x waits for x, which exists.
OnList(r, living) ==
  r.list \in {"TW", "SW"} =>
    /\ r.what = r.ai /\ r.ai \in living \cup {Kernel}
    /\ r.ai = Kernel => r.id = "STALL"
    /\ r.list = "SW" => r.id = "STATE"

Listed == \A q \in Procs : \A i \in DOMAIN ev[q].reqs : OnList(ev[q].reqs[i], alive)

AInv == TypeOK /\ Chained /\ Dead /\ Idle /\ Pressing /\ Listed

-----------------------------------------------------------------------------
(* What happens to one event                                                *)

LEMMA Constants ==
  /\ Root \in Procs /\ Owner[Root] = System
  /\ Kernel \notin Procs /\ Timer \notin Procs /\ None \notin Procs
  /\ Kernel # None /\ Timer # Kernel /\ Timer # None
  /\ None \notin [sender : Procs, spec : Specs]
  /\ None \notin [proc : Procs \cup {None}, idx : Nat]
  /\ States \subseteq Nat /\ 0 \in States /\ Horizon \in Nat /\ Inf \in Nat /\ Inf = Horizon + 1
  /\ MaxChain \in Nat /\ MaxChain >= 1 /\ MaxCalls \in Nat
BY ProcessAssumption DEF ProcessAssumption, Inf

\* Requests and events that differ in nothing a process chose.
Same(r, s) == s.what = r.what /\ s.id = r.id /\ s.arg = r.arg /\ s.pstate = r.pstate

Alike(e, f) ==
  /\ Sound(f) /\ DOMAIN f.reqs = DOMAIN e.reqs /\ (f = NoEvent <=> e = NoEvent)
  /\ \A i \in DOMAIN e.reqs : Same(e.reqs[i], f.reqs[i])

\* dated changes nothing but the time of the requests it is told.
LEMMA Dated ==
  ASSUME NEW s \in Seq(Requests), NEW I, NEW t \in 0 .. Inf
  PROVE  /\ dated(s, I, t) \in Seq(Requests)
         /\ Len(dated(s, I, t)) = Len(s) /\ DOMAIN dated(s, I, t) = DOMAIN s
         /\ \A i \in DOMAIN s :
              /\ Same(s[i], dated(s, I, t)[i])
              /\ dated(s, I, t)[i].ai = s[i].ai /\ dated(s, I, t)[i].list = s[i].list
              /\ dated(s, I, t)[i].when = IF i \in I THEN t ELSE s[i].when
<1> DEFINE d == dated(s, I, t)
<1>1. DOMAIN s = 1 .. Len(s) /\ Len(s) \in Nat
  OBVIOUS
<1>2. d = [i \in 1 .. Len(s) |-> IF i \in I THEN [s[i] EXCEPT !.when = t] ELSE s[i]]
  BY <1>1 DEF dated
<1>3. \A i \in 1 .. Len(s) : s[i] \in Requests
  OBVIOUS
<1>4. \A i \in 1 .. Len(s) : d[i] \in Requests
  BY <1>2, <1>3 DEF Requests
<1>5. d \in Seq(Requests) /\ Len(d) = Len(s) /\ DOMAIN d = 1 .. Len(s)
  BY <1>1, <1>2, <1>4
<1>6. ASSUME NEW i \in DOMAIN s
      PROVE  /\ Same(s[i], d[i]) /\ d[i].ai = s[i].ai /\ d[i].list = s[i].list
             /\ d[i].when = IF i \in I THEN t ELSE s[i].when
  BY <1>1, <1>2, <1>3 DEF Same, Requests
<1>7. QED  BY <1>1, <1>5, <1>6

LEMMA NoEventSound == Sound(NoEvent) /\ DOMAIN NoEvent.reqs = {}
BY Constants DEF Sound, NoEvent, Events

\* What the trigger loops do to an event.
Retimed(e, f, I, now) ==
  /\ \A i \in DOMAIN e.reqs :
       /\ f.reqs[i].ai = e.reqs[i].ai /\ f.reqs[i].list = e.reqs[i].list
       /\ f.reqs[i].when = IF i \in I THEN now ELSE e.reqs[i].when
  /\ f.wake = IF I = {} THEN e.wake ELSE now
  /\ f.top \in I \/ (f.top = e.top /\ (I = {} \/ e.wake <= now))

LEMMA Triggered ==
  ASSUME NEW e, Sound(e), NEW I \in SUBSET DOMAIN e.reqs, NEW now \in 0 .. Inf, NEW flip,
         NEW f, f = triggered(e, I, now, flip)
  PROVE  Alike(e, f) /\ Retimed(e, f, I, now)
<1> DEFINE t == IF flip \in I THEN flip ELSE IF e.wake > now THEN CHOOSE i \in I : TRUE ELSE e.top
           d == dated(e.reqs, I, now)
<1>1. e.reqs \in Seq(Requests) /\ e.wake \in 0 .. Inf /\ e.top \in 0 .. MaxChain /\ Len(e.reqs) <= MaxChain
  BY DEF Sound, Events
<1>2. CASE I = {}
  <2>1. f = e
    BY <1>2 DEF triggered
  <2>2. QED  BY <1>2, <2>1 DEF Alike, Same, Retimed
<1>3. CASE I # {}
  <2>1. f = [reqs |-> d, top |-> t, wake |-> now]
    BY <1>3 DEF triggered
  <2>2. d \in Seq(Requests) /\ Len(d) = Len(e.reqs) /\ DOMAIN d = DOMAIN e.reqs
    BY <1>1, Dated
  <2>3. \A i \in DOMAIN e.reqs :
          /\ Same(e.reqs[i], d[i]) /\ d[i].ai = e.reqs[i].ai /\ d[i].list = e.reqs[i].list
          /\ d[i].when = IF i \in I THEN now ELSE e.reqs[i].when
    BY <1>1, Dated
  <2>4. e # NoEvent /\ e.top \in DOMAIN e.reqs
    BY <1>3, NoEventSound DEF Sound
  <2>5. (CHOOSE i \in I : TRUE) \in I
    BY <1>3
  <2>6. t \in I \/ (t = e.top /\ e.wake <= now)
    <3>1. CASE flip \in I
      BY <3>1
    <3>2. CASE flip \notin I /\ e.wake > now
      BY <3>2, <2>5
    <3>3. CASE flip \notin I /\ ~ e.wake > now
      BY <3>3, <1>1, Constants
    <3>4. QED  BY <3>1, <3>2, <3>3
  <2>7. t \in DOMAIN e.reqs
    BY <2>4, <2>6
  <2>8. DOMAIN e.reqs = 1 .. Len(e.reqs) /\ Len(e.reqs) \in Nat
    BY <1>1
  <2>9. f \in Events /\ f.reqs = d /\ f.top = t /\ f.wake = now
    BY <2>1, <2>2, <2>7, <2>8, <1>1, Constants DEF Events
  <2>10. f # NoEvent
    BY <2>1, <2>2, <2>7, NoEventSound
  <2>11. Sound(f)
    BY <2>2, <2>7, <2>9, <1>1 DEF Sound
  <2>12. Alike(e, f)
    BY <2>2, <2>3, <2>4, <2>9, <2>10, <2>11 DEF Alike
  <2>13. QED  BY <1>3, <2>3, <2>6, <2>9, <2>12 DEF Retimed
<1>4. QED  BY <1>2, <1>3

\* What ~Process does to an event of another process: the requests that point to p
\* point to its heir, ...
LEMMA Inherited ==
  ASSUME NEW e, Sound(e), NEW p \in Procs, heir(p) \in AIs
  PROVE  LET f == inherited(e, p)
         IN  /\ Alike(e, f) /\ f.top = e.top /\ f.wake = e.wake
             /\ \A i \in DOMAIN e.reqs :
                  /\ f.reqs[i].when = e.reqs[i].when /\ f.reqs[i].list = e.reqs[i].list
                  /\ f.reqs[i].ai = IF moves(e.reqs[i], p, e.wake <= time)
                                    THEN heir(p) ELSE e.reqs[i].ai
<1> DEFINE f == inherited(e, p)
           g(r) == IF moves(r, p, e.wake <= time) THEN [r EXCEPT !.ai = heir(p)] ELSE r
<1>1. e.reqs \in Seq(Requests) /\ e.wake \in 0 .. Inf /\ e.top \in 0 .. MaxChain
      /\ Len(e.reqs) <= MaxChain
  BY DEF Sound, Events
<1>2. DOMAIN e.reqs = 1 .. Len(e.reqs) /\ Len(e.reqs) \in Nat
  BY <1>1
<1>3. f = [reqs |-> [i \in 1 .. Len(e.reqs) |-> g(e.reqs[i])], top |-> e.top, wake |-> e.wake]
  BY <1>2 DEF inherited
<1>4. \A i \in 1 .. Len(e.reqs) : e.reqs[i] \in Requests
  BY <1>1
<1>5. \A r \in Requests :
        /\ g(r) \in Requests /\ Same(r, g(r)) /\ g(r).when = r.when /\ g(r).list = r.list
        /\ g(r).ai = IF moves(r, p, e.wake <= time) THEN heir(p) ELSE r.ai
  BY DEF Requests, Same
<1>6. f.reqs = [i \in 1 .. Len(e.reqs) |-> g(e.reqs[i])] /\ f.top = e.top /\ f.wake = e.wake
  BY <1>3
<1>7. f.reqs \in Seq(Requests) /\ Len(f.reqs) = Len(e.reqs) /\ DOMAIN f.reqs = 1 .. Len(e.reqs)
  <2> HIDE DEF f, g
  <2>1. \A i \in 1 .. Len(e.reqs) : g(e.reqs[i]) \in Requests
    BY <1>4, <1>5
  <2>2. QED  BY <1>2, <1>6, <2>1
<1>8. \A i \in DOMAIN e.reqs :
        /\ Same(e.reqs[i], f.reqs[i])
        /\ f.reqs[i].when = e.reqs[i].when /\ f.reqs[i].list = e.reqs[i].list
        /\ f.reqs[i].ai = IF moves(e.reqs[i], p, e.wake <= time) THEN heir(p) ELSE e.reqs[i].ai
  <2> HIDE DEF f, g
  <2>1. TAKE i \in DOMAIN e.reqs
  <2>2. f.reqs[i] = g(e.reqs[i])
    BY <1>2, <1>6
  <2>3. QED  BY <1>2, <1>4, <1>5, <2>2
<1>9. f \in Events
  BY <1>1, <1>3, <1>6, <1>7 DEF Events
<1>10. f = NoEvent <=> e = NoEvent
  <2>1. CASE e = NoEvent
    <3>1. Len(e.reqs) = 0 /\ f.reqs \in Seq(Requests) /\ Len(f.reqs) = 0
      BY <2>1, <1>7 DEF NoEvent
    <3>2. f.reqs = << >>
      BY <3>1
    <3>3. QED  BY <2>1, <3>2, <1>3, <1>6 DEF NoEvent
  <2>2. CASE e # NoEvent
    <3>1. e.top \in DOMAIN f.reqs
      BY <2>2, <1>2, <1>7 DEF Sound
    <3>2. QED  BY <2>2, <3>1, NoEventSound
  <2>3. QED  BY <2>1, <2>2
<1>11. Sound(f)
  <2> HIDE DEF f
  <2>1. QED  BY <1>1, <1>2, <1>6, <1>7, <1>9, <1>10 DEF Sound
<1>12. Alike(e, f)
  BY <1>2, <1>7, <1>8, <1>10, <1>11 DEF Alike
<1>13. QED  BY <1>6, <1>8, <1>12

\* ... and those on its lists leave them.
LEMMA Orphaned ==
  ASSUME NEW e, Sound(e), NEW p \in Procs
  PROVE  LET f == orphaned(e, p)
         IN  /\ Alike(e, f) /\ f.top = e.top /\ f.wake = e.wake
             /\ \A i \in DOMAIN e.reqs :
                  /\ f.reqs[i].when = e.reqs[i].when /\ f.reqs[i].ai = e.reqs[i].ai
                  /\ f.reqs[i].list = IF e.reqs[i].list \in {"TW", "SW"} /\ e.reqs[i].what = p
                                      THEN "orphan" ELSE e.reqs[i].list
<1> DEFINE f == orphaned(e, p)
           g(r) == IF r.list \in {"TW", "SW"} /\ r.what = p THEN [r EXCEPT !.list = "orphan"] ELSE r
<1>1. e.reqs \in Seq(Requests) /\ e.wake \in 0 .. Inf /\ e.top \in 0 .. MaxChain
      /\ Len(e.reqs) <= MaxChain
  BY DEF Sound, Events
<1>2. DOMAIN e.reqs = 1 .. Len(e.reqs) /\ Len(e.reqs) \in Nat
  BY <1>1
<1>3. f = [reqs |-> [i \in 1 .. Len(e.reqs) |-> g(e.reqs[i])], top |-> e.top, wake |-> e.wake]
  BY <1>2 DEF orphaned
<1>4. \A i \in 1 .. Len(e.reqs) : e.reqs[i] \in Requests
  BY <1>1
<1>5. \A r \in Requests :
        /\ g(r) \in Requests /\ Same(r, g(r)) /\ g(r).when = r.when /\ g(r).ai = r.ai
        /\ g(r).list = IF r.list \in {"TW", "SW"} /\ r.what = p THEN "orphan" ELSE r.list
  BY DEF Requests, Same
<1>6. f.reqs = [i \in 1 .. Len(e.reqs) |-> g(e.reqs[i])] /\ f.top = e.top /\ f.wake = e.wake
  BY <1>3
<1>7. f.reqs \in Seq(Requests) /\ Len(f.reqs) = Len(e.reqs) /\ DOMAIN f.reqs = 1 .. Len(e.reqs)
  <2> HIDE DEF f, g
  <2>1. \A i \in 1 .. Len(e.reqs) : g(e.reqs[i]) \in Requests
    BY <1>4, <1>5
  <2>2. QED  BY <1>2, <1>6, <2>1
<1>8. \A i \in DOMAIN e.reqs :
        /\ Same(e.reqs[i], f.reqs[i])
        /\ f.reqs[i].when = e.reqs[i].when /\ f.reqs[i].ai = e.reqs[i].ai
        /\ f.reqs[i].list = IF e.reqs[i].list \in {"TW", "SW"} /\ e.reqs[i].what = p
                            THEN "orphan" ELSE e.reqs[i].list
  <2> HIDE DEF f, g
  <2>1. TAKE i \in DOMAIN e.reqs
  <2>2. f.reqs[i] = g(e.reqs[i])
    BY <1>2, <1>6
  <2>3. QED  BY <1>2, <1>4, <1>5, <2>2
<1>9. f \in Events
  BY <1>1, <1>3, <1>6, <1>7 DEF Events
<1>10. f = NoEvent <=> e = NoEvent
  <2>1. CASE e = NoEvent
    <3>1. Len(e.reqs) = 0 /\ f.reqs \in Seq(Requests) /\ Len(f.reqs) = 0
      BY <2>1, <1>7 DEF NoEvent
    <3>2. f.reqs = << >>
      BY <3>1
    <3>3. QED  BY <2>1, <3>2, <1>3, <1>6 DEF NoEvent
  <2>2. CASE e # NoEvent
    <3>1. e.top \in DOMAIN f.reqs
      BY <2>2, <1>2, <1>7 DEF Sound
    <3>2. QED  BY <2>2, <3>1, NoEventSound
  <2>3. QED  BY <2>1, <2>2
<1>11. Sound(f)
  <2> HIDE DEF f
  <2>1. QED  BY <1>1, <1>2, <1>6, <1>7, <1>9, <1>10 DEF Sound
<1>12. Alike(e, f)
  BY <1>2, <1>7, <1>8, <1>10, <1>11 DEF Alike
<1>13. QED  BY <1>6, <1>8, <1>12

\* The requests point to the same interpreters, on the same lists.
Kin(e, f) ==
  \A i \in DOMAIN e.reqs :
    f.reqs[i].ai = e.reqs[i].ai /\ f.reqs[i].list = e.reqs[i].list

\* Some requests on lists became due now, and the event with them.
Touched(e, f, now) ==
  \A i \in DOMAIN e.reqs :
    \/ f.reqs[i].when = e.reqs[i].when
    \/ f.reqs[i].when = now /\ e.reqs[i].list \in {"TW", "SW"}

Unmoved(e, f) ==
  /\ f.wake = e.wake /\ f.top = e.top
  /\ \A i \in DOMAIN e.reqs : f.reqs[i].when = e.reqs[i].when

Stays(e, f, now) == f.wake = now /\ f.top = e.top /\ e.wake <= now

Turns(e, f, now) ==
  /\ f.wake = now /\ f.top \in DOMAIN e.reqs /\ f.reqs[f.top].when = now
  /\ e.reqs[f.top].list \in {"TW", "SW"}

Stirred(e, f, now) ==
  Touched(e, f, now) /\ (Unmoved(e, f) \/ Stays(e, f, now) \/ Turns(e, f, now))

LEMMA RetimedStirs ==
  ASSUME NEW e, NEW f, NEW I \in SUBSET DOMAIN e.reqs, NEW now,
         Retimed(e, f, I, now), \A i \in I : e.reqs[i].list \in {"TW", "SW"}
  PROVE  Kin(e, f) /\ Stirred(e, f, now)
<1>1. Kin(e, f)
  BY DEF Retimed, Kin
<1>2. Touched(e, f, now)
  BY DEF Retimed, Touched
<1>3. CASE I = {}
  BY <1>1, <1>2, <1>3 DEF Retimed, Stirred, Unmoved
<1>4. CASE I # {}
  <2>1. f.wake = now
    BY <1>4 DEF Retimed
  <2>2. CASE f.top = e.top /\ e.wake <= now
    BY <1>1, <1>2, <2>1, <2>2 DEF Stirred, Stays
  <2>3. CASE f.top \in I
    BY <1>1, <1>2, <2>1, <2>3 DEF Retimed, Stirred, Turns
  <2>4. QED  BY <1>4, <2>2, <2>3 DEF Retimed
<1>5. QED  BY <1>1, <1>3, <1>4

LEMMA StirredTwice ==
  ASSUME NEW e, NEW f, NEW g, NEW now \in 0 .. Inf,
         Alike(e, f), Kin(e, f), Stirred(e, f, now), Alike(f, g), Kin(f, g), Stirred(f, g, now)
  PROVE  Alike(e, g) /\ Kin(e, g) /\ Stirred(e, g, now)
<1>1. Alike(e, g)
  BY DEF Alike, Same
<1>2. DOMAIN f.reqs = DOMAIN e.reqs /\ DOMAIN g.reqs = DOMAIN e.reqs
  BY DEF Alike
<1>3. Kin(e, g)
  BY <1>2 DEF Kin
<1>4. Touched(e, g, now)
  BY <1>2 DEF Kin, Stirred, Touched
<1>5. CASE Unmoved(f, g)
  <2>1. CASE Unmoved(e, f)
    BY <1>1, <1>3, <1>2, <1>4, <1>5, <2>1 DEF Stirred, Unmoved
  <2>2. CASE Stays(e, f, now)
    BY <1>1, <1>3, <1>4, <1>5, <2>2 DEF Stirred, Unmoved, Stays
  <2>3. CASE Turns(e, f, now)
    BY <1>1, <1>3, <1>2, <1>4, <1>5, <2>3 DEF Stirred, Unmoved, Turns
  <2>4. QED  BY <2>1, <2>2, <2>3 DEF Stirred
<1>6. CASE Turns(f, g, now)
  BY <1>1, <1>3, <1>2, <1>4, <1>6 DEF Stirred, Kin, Turns
<1>7. CASE Stays(f, g, now)
  <2>1. CASE Unmoved(e, f)
    BY <1>1, <1>3, <1>4, <1>7, <2>1 DEF Stirred, Unmoved, Stays
  <2>2. CASE Stays(e, f, now)
    BY <1>1, <1>3, <1>4, <1>7, <2>2 DEF Stirred, Stays
  <2>3. CASE Turns(e, f, now)
    <3>1. g.reqs[g.top].when = now
      BY <1>1, <1>3, <1>2, <1>7, <2>3 DEF Stirred, Touched, Stays, Turns
    <3>2. QED  BY <1>1, <1>3, <1>4, <1>7, <2>3, <3>1 DEF Stirred, Stays, Turns
  <2>4. QED  BY <2>1, <2>2, <2>3 DEF Stirred
<1>8. QED  BY <1>1, <1>3, <1>5, <1>6, <1>7 DEF Stirred

\* What becomes of the event of another process when p is destroyed.
ToldOf(r, p) == r.list = "TW" /\ r.id \in {"DEATH", "CHILD"} /\ (r.id = "DEATH" => r.what = p)

Bereaved(e, f, p) ==
  \A i \in DOMAIN e.reqs :
    /\ f.reqs[i].ai = IF moves(e.reqs[i], p, e.wake <= time) THEN heir(p) ELSE e.reqs[i].ai
    /\ f.reqs[i].list = IF e.reqs[i].list \in {"TW", "SW"} /\ e.reqs[i].what = p
                        THEN "orphan" ELSE e.reqs[i].list
    /\ f.reqs[i].when = e.reqs[i].when \/ (f.reqs[i].when = time /\ ToldOf(e.reqs[i], p))

LEMMA Survived ==
  ASSUME time \in 0 .. Inf, NEW e, Sound(e), NEW p \in Procs, heir(p) \in AIs, NEW hard, NEW flip
  PROVE  LET f == survived(e, p, hard, flip)
         IN  Alike(e, f) /\ Stirred(e, f, time) /\ Bereaved(e, f, p)
<1> DEFINE e1 == inherited(e, p)
           D == IF hard THEN {} ELSE deaths(e1, p)
           e2 == triggered(e1, D, time, flip)
           e3 == orphaned(e2, p)
           C == IF hard THEN {} ELSE children(e3, father[p])
           f == triggered(e3, C, time, flip)
<1>1. f = survived(e, p, hard, flip)
  BY DEF survived
<1>2. /\ Alike(e, e1) /\ e1.top = e.top /\ e1.wake = e.wake
      /\ \A i \in DOMAIN e.reqs :
           /\ e1.reqs[i].when = e.reqs[i].when /\ e1.reqs[i].list = e.reqs[i].list
           /\ e1.reqs[i].ai = IF moves(e.reqs[i], p, e.wake <= time) THEN heir(p) ELSE e.reqs[i].ai
  BY Inherited
<1>3. D \in SUBSET DOMAIN e1.reqs
      /\ \A i \in D : e1.reqs[i].list = "TW" /\ e1.reqs[i].what = p /\ e1.reqs[i].id = "DEATH"
  BY DEF deaths
<1>4. PICK a : a = e1
  OBVIOUS
<1>5. PICK d : d = D
  OBVIOUS
<1>6. Alike(a, e2) /\ Retimed(a, e2, d, time)
  <2>1. Sound(a) /\ d \in SUBSET DOMAIN a.reqs /\ e2 = triggered(a, d, time, flip)
    BY <1>2, <1>3, <1>4, <1>5 DEF Alike
  <2> HIDE DEF e1, D, e2
  <2>2. QED  BY <2>1, Triggered
<1>7. PICK b : b = e2
  OBVIOUS
<1>8. /\ Alike(b, e3) /\ e3.top = b.top /\ e3.wake = b.wake
      /\ \A i \in DOMAIN b.reqs :
           /\ e3.reqs[i].when = b.reqs[i].when /\ e3.reqs[i].ai = b.reqs[i].ai
           /\ e3.reqs[i].list = IF b.reqs[i].list \in {"TW", "SW"} /\ b.reqs[i].what = p
                                THEN "orphan" ELSE b.reqs[i].list
  <2>1. Sound(b) /\ e3 = orphaned(b, p)
    BY <1>6, <1>7 DEF Alike
  <2> HIDE DEF e2, e3
  <2>2. QED  BY <2>1, Orphaned
<1>9. C \in SUBSET DOMAIN e3.reqs /\ \A i \in C : e3.reqs[i].list = "TW" /\ e3.reqs[i].id = "CHILD"
  BY DEF children
<1>10. PICK c : c = e3
  OBVIOUS
<1>11. PICK k : k = C
  OBVIOUS
<1>12. Alike(c, f) /\ Retimed(c, f, k, time)
  <2>1. Sound(c) /\ k \in SUBSET DOMAIN c.reqs /\ f = triggered(c, k, time, flip)
    BY <1>8, <1>9, <1>10, <1>11 DEF Alike
  <2> HIDE DEF e3, C, f
  <2>2. QED  BY <2>1, Triggered
<1> HIDE DEF e1, D, e2, e3, C, f
<1>13. Alike(e, f)
  BY <1>2, <1>4, <1>6, <1>7, <1>8, <1>10, <1>12 DEF Alike, Same
<1>14. DOMAIN a.reqs = DOMAIN e.reqs /\ DOMAIN b.reqs = DOMAIN e.reqs /\ DOMAIN c.reqs = DOMAIN e.reqs
  BY <1>2, <1>4, <1>6, <1>7, <1>8, <1>10 DEF Alike
<1>15. ASSUME NEW i \in DOMAIN e.reqs
       PROVE  /\ f.reqs[i].ai = IF moves(e.reqs[i], p, e.wake <= time) THEN heir(p) ELSE e.reqs[i].ai
              /\ f.reqs[i].list = IF e.reqs[i].list \in {"TW", "SW"} /\ e.reqs[i].what = p
                                  THEN "orphan" ELSE e.reqs[i].list
              /\ f.reqs[i].when = IF i \in d \cup k THEN time ELSE e.reqs[i].when
  <2>1. b.reqs[i].what = e.reqs[i].what
    BY <1>2, <1>4, <1>6, <1>7, <1>14 DEF Alike, Same
  <2>2. f.reqs[i].ai = IF moves(e.reqs[i], p, e.wake <= time) THEN heir(p) ELSE e.reqs[i].ai
    BY <1>2, <1>4, <1>6, <1>7, <1>8, <1>10, <1>12, <1>14 DEF Retimed
  <2>3. f.reqs[i].list = IF e.reqs[i].list \in {"TW", "SW"} /\ e.reqs[i].what = p
                         THEN "orphan" ELSE e.reqs[i].list
    BY <2>1, <1>2, <1>4, <1>6, <1>7, <1>8, <1>10, <1>12, <1>14 DEF Retimed
  <2>4. f.reqs[i].when = IF i \in d \cup k THEN time ELSE e.reqs[i].when
    BY <1>2, <1>4, <1>6, <1>7, <1>8, <1>10, <1>12, <1>14 DEF Retimed
  <2>5. QED  BY <2>2, <2>3, <2>4
<1>16. ASSUME NEW i \in d \cup k
       PROVE  i \in DOMAIN e.reqs /\ ToldOf(e.reqs[i], p)
  <2>1. CASE i \in d
    BY <2>1, <1>2, <1>3, <1>4, <1>5, <1>14 DEF Alike, Same, ToldOf
  <2>2. CASE i \in k
    <3>1. i \in DOMAIN e.reqs /\ c.reqs[i].list = "TW" /\ c.reqs[i].id = "CHILD"
      BY <2>2, <1>9, <1>10, <1>11, <1>14
    <3>2. c.reqs[i].id = e.reqs[i].id
      BY <3>1, <1>2, <1>4, <1>6, <1>7, <1>8, <1>10, <1>14 DEF Alike, Same
    <3>3. f.reqs[i].list = "TW"
      BY <3>1, <1>12, <1>14 DEF Retimed
    <3>4. e.reqs[i].list = "TW"
      BY <3>1, <3>3, <1>15
    <3>5. QED  BY <3>1, <3>2, <3>4 DEF ToldOf
  <2>3. QED  BY <2>1, <2>2
<1>17. \/ /\ f.wake = e.wake /\ f.top = e.top
          /\ \A i \in DOMAIN e.reqs : f.reqs[i].when = e.reqs[i].when
       \/ /\ f.wake = time
          /\ \/ f.top = e.top /\ e.wake <= time
             \/ f.top \in d \cup k
  <2>1. CASE d = {} /\ k = {}
    BY <2>1, <1>2, <1>4, <1>6, <1>7, <1>8, <1>10, <1>12, <1>15 DEF Retimed
  <2>2. CASE d # {} \/ k # {}
    <3>1. f.wake = time
      BY <2>2, <1>6, <1>7, <1>8, <1>10, <1>12 DEF Retimed
    <3>2. (f.top = e.top /\ e.wake <= time) \/ f.top \in d \cup k
      BY <2>2, <1>2, <1>4, <1>6, <1>7, <1>8, <1>10, <1>12 DEF Retimed
    <3>3. QED  BY <3>1, <3>2
  <2>3. QED  BY <2>1, <2>2
<1>18. f.top \in d \cup k => /\ f.top \in DOMAIN e.reqs /\ f.reqs[f.top].when = time
                             /\ e.reqs[f.top].list = "TW"
  BY <1>15, <1>16 DEF ToldOf
<1>19. \A i \in DOMAIN e.reqs :
         f.reqs[i].when = e.reqs[i].when \/ (f.reqs[i].when = time /\ ToldOf(e.reqs[i], p))
  BY <1>15, <1>16
<1>20. Bereaved(e, f, p)
  BY <1>15, <1>19 DEF Bereaved
<1>21. Touched(e, f, time)
  BY <1>19 DEF ToldOf, Touched
<1>22. Unmoved(e, f) \/ Stays(e, f, time) \/ Turns(e, f, time)
  <2>1. CASE Unmoved(e, f)
    BY <2>1
  <2>2. CASE f.wake = time /\ f.top = e.top /\ e.wake <= time
    BY <2>2 DEF Stays
  <2>3. CASE f.wake = time /\ f.top \in d \cup k
    BY <1>18, <2>3 DEF Turns
  <2>4. QED  BY <1>17, <2>1, <2>2, <2>3 DEF Unmoved
<1>23. Stirred(e, f, time)
  BY <1>21, <1>22 DEF Stirred
<1>24. QED  BY <1>1, <1>13, <1>20, <1>23

-----------------------------------------------------------------------------
(* The steps                                                                *)

\* Nobody is told of a death.
Mute(e, f) ==
  \A i \in DOMAIN e.reqs : e.reqs[i].id = "DEATH" => f.reqs[i].when = e.reqs[i].when

EventsStir(now) ==
  /\ ev' = [q \in Procs |-> ev'[q]]
  /\ \A q \in Procs : /\ Alike(ev[q], ev'[q]) /\ Kin(ev[q], ev'[q])
                      /\ Stirred(ev[q], ev'[q], now) /\ Mute(ev[q], ev'[q])

\* Requests that a trigger loop may choose of each event.
Choice(E, I) ==
  \A q \in Procs : /\ I[q] \in SUBSET DOMAIN E[q].reqs
                   /\ \A i \in I[q] : /\ E[q].reqs[i].list \in {"TW", "SW"}
                                       /\ E[q].reqs[i].id # "DEATH"

AllSound(E) ==
  \A q \in Procs : /\ Sound(E[q])
                   /\ \A i \in DOMAIN E[q].reqs :
                        E[q].reqs[i].list = "SW" => E[q].reqs[i].id # "DEATH"

AllTriggered(E, F, I, now) ==
  /\ F = [q \in Procs |-> F[q]]
  /\ \A q \in Procs :
       /\ Alike(E[q], F[q]) /\ Retimed(E[q], F[q], I[q], now)
       /\ Kin(E[q], F[q]) /\ Stirred(E[q], F[q], now) /\ Mute(E[q], F[q])

LEMMA TriggerAll ==
  ASSUME NEW E, NEW F, NEW I, NEW now \in 0 .. Inf, NEW flips, AllSound(E), Choice(E, I),
         F = [q \in Procs |-> triggered(E[q], I[q], now, flips[q])]
  PROVE  AllTriggered(E, F, I, now)
<1>1. F = [q \in Procs |-> F[q]]
  OBVIOUS
<1>2. ASSUME NEW q \in Procs
      PROVE  /\ Alike(E[q], F[q]) /\ Retimed(E[q], F[q], I[q], now)
             /\ Kin(E[q], F[q]) /\ Stirred(E[q], F[q], now) /\ Mute(E[q], F[q])
  <2>1. PICK e, f, J, p : e = E[q] /\ f = F[q] /\ J = I[q] /\ p = flips[q]
    OBVIOUS
  <2>2. Sound(e) /\ J \in SUBSET DOMAIN e.reqs /\ f = triggered(e, J, now, p)
    BY <2>1 DEF Choice, AllSound
  <2>3. Alike(e, f) /\ Retimed(e, f, J, now)
    BY <2>2, Triggered
  <2>4. \A i \in J : e.reqs[i].list \in {"TW", "SW"} /\ e.reqs[i].id # "DEATH"
    BY <2>1 DEF Choice
  <2>5. Kin(e, f) /\ Stirred(e, f, now)
    BY <2>2, <2>3, <2>4, RetimedStirs
  <2>6. Mute(e, f)
    BY <2>3, <2>4 DEF Retimed, Mute
  <2>7. QED  BY <2>1, <2>3, <2>5, <2>6
<1>3. QED  BY <1>1, <1>2 DEF AllTriggered

LEMMA EventsTyped ==
  ASSUME NEW E, E = [q \in Procs |-> E[q]], \A q \in Procs : Sound(E[q])
  PROVE  /\ E \in [Procs -> Events]
         /\ \A q \in Procs : Len(E[q].reqs) <= MaxChain /\ E[q].top <= Len(E[q].reqs)
<1>1. E \in [Procs -> Events]
  BY DEF Sound
<1>2. ASSUME NEW q \in Procs
      PROVE  Len(E[q].reqs) <= MaxChain /\ E[q].top <= Len(E[q].reqs)
  <2>1. PICK e : e = E[q]
    OBVIOUS
  <2>2. Sound(e) /\ e.reqs \in Seq(Requests)
    BY <2>1 DEF Sound, Events
  <2>3. CASE e = NoEvent
    <3>1. e.top = 0 /\ Len(e.reqs) = 0
      BY <2>3 DEF NoEvent
    <3>2. QED  BY <2>1, <3>1, Constants
  <2>4. CASE e.top \in DOMAIN e.reqs
    BY <2>1, <2>2, <2>4 DEF Sound
  <2>5. QED  BY <2>2, <2>3, <2>4 DEF Sound
<1>3. QED  BY <1>1, <1>2

\* Triggers keep the events in shape.
LEMMA StirKeeps ==
  ASSUME AInv, EventsStir(time), UNCHANGED <<time, alive, pe>>
  PROVE  Chained' /\ Dead' /\ Pressing' /\ Listed'
<1>1. Chained'
  BY DEF EventsStir, Alike, Chained
<1>2. Dead'
  <2>1. ASSUME NEW q \in Procs \ alive
        PROVE  ev'[q] = NoEvent
    BY <2>1 DEF EventsStir, Alike, AInv, Dead
  <2>2. QED  BY <2>1 DEF Dead
<1>3. Pressing'
  <2>1. SUFFICES ASSUME pe \notin {None, Gone}
                 PROVE  \E q \in Procs : \E i \in DOMAIN ev'[q].reqs :
                          /\ Urgent(q, i)
                          /\ ev'[q].reqs[i].when = time /\ ev'[q].reqs[i].id = "SIGNAL"
    BY DEF Pressing, Urgent
  <2>2a. PICK q \in Procs : \E i \in DOMAIN ev[q].reqs :
           Urgent(q, i) /\ ev[q].reqs[i].when = time /\ ev[q].reqs[i].id = "SIGNAL"
    BY <2>1 DEF AInv, Pressing
  <2>2. PICK i \in DOMAIN ev[q].reqs :
          Urgent(q, i) /\ ev[q].reqs[i].when = time /\ ev[q].reqs[i].id = "SIGNAL"
    BY <2>2a
  <2>3. Alike(ev[q], ev'[q]) /\ Touched(ev[q], ev'[q], time)
    BY DEF EventsStir, Stirred
  <2>4. i \in DOMAIN ev'[q].reqs /\ ev'[q].reqs[i].id = "SIGNAL"
    BY <2>2, <2>3 DEF Alike, Same
  <2>5. ev'[q].reqs[i].when = time
    BY <2>2, <2>3 DEF Touched
  <2>6. QED  BY <2>2, <2>4, <2>5
<1>4. Listed'
  <2>1. ASSUME NEW q \in Procs, NEW i \in DOMAIN ev'[q].reqs
        PROVE  OnList(ev'[q].reqs[i], alive)
    <3>1. i \in DOMAIN ev[q].reqs /\ OnList(ev[q].reqs[i], alive)
      BY DEF EventsStir, Alike, AInv, Listed
    <3>2. PICK r, s : r = ev[q].reqs[i] /\ s = ev'[q].reqs[i]
      OBVIOUS
    <3>3. s.what = r.what /\ s.id = r.id /\ s.ai = r.ai /\ s.list = r.list
      BY <3>1, <3>2 DEF EventsStir, Alike, Same, Kin
    <3>4. QED  BY <3>1, <3>2, <3>3 DEF OnList
  <2>2. QED  BY <2>1 DEF Listed
<1>5. QED  BY <1>1, <1>2, <1>3, <1>4

LEMMA StirAll ==
  ASSUME AInv, NEW I, NEW flips, Choice(ev, I),
         ev' = [q \in Procs |-> triggered(ev[q], I[q], time, flips[q])]
  PROVE  EventsStir(time) /\ AllTriggered(ev, ev', I, time)
<1>1. PICK E, F, t : E = ev /\ F = ev' /\ t = time
  OBVIOUS
<1>2. t \in 0 .. Inf
  BY <1>1, Constants DEF AInv, TypeOK
<1>3. AllSound(E)
  BY <1>1 DEF AInv, Chained, AllSound, Listed, OnList
<1>4. F = [q \in Procs |-> triggered(E[q], I[q], t, flips[q])] /\ Choice(E, I)
  BY <1>1
<1>5. AllTriggered(E, F, I, t)
  BY <1>2, <1>3, <1>4, TriggerAll
<1>6. QED  BY <1>1, <1>5 DEF EventsStir, AllTriggered

\* What is common to the requests that a process issues.
Fresh(r) ==
  /\ r \in Requests /\ OnList(r, alive) /\ time <= r.when
  /\ r.ai = Timer \/ (r.ai \in alive \cup {Kernel} /\ r.when \in {time, Inf})
  /\ r.id = "DEATH" => r.what \in alive /\ r.when = Inf
  /\ r.id = "SIGNAL" => r.list = "TW"
  /\ r.list = "TW" /\ r.id = "SIGNAL" => (sig[r.ai] # None => r.when = time)
  /\ r.list = "TW" /\ r.id = "CLEAR" => (sig[r.ai] = None => r.when = time)

LEMMA WaitingAdds ==
  ASSUME AInv, Waiting
  PROVE  /\ ended = "no" /\ cur \in alive /\ dying = {} /\ calls' \in 0 .. MaxCalls
         /\ \E r, flip : Fresh(r) /\ AddRequest(r, flip)
<1> DEFINE Goal == /\ ended = "no" /\ cur \in alive /\ dying = {} /\ calls' \in 0 .. MaxCalls
                   /\ \E r, flip : Fresh(r) /\ AddRequest(r, flip)
<1>1. /\ Kernel \notin Procs /\ Timer \notin Procs /\ Timer # Kernel /\ 0 \in States
      /\ States \subseteq Nat /\ Horizon \in Nat /\ Inf = Horizon + 1
      /\ time \in 0 .. Horizon /\ alive \subseteq Procs /\ cur \in alive \cup {None}
      /\ calls \in 0 .. MaxCalls /\ MaxCalls \in Nat
  BY Constants DEF AInv, TypeOK
<1>2. ASSUME NEW op, Call(op), NEW r, NEW flip, Fresh(r), AddRequest(r, flip)
      PROVE  Goal
  <2>1. ended = "no" /\ cur \in alive /\ dying = {} /\ calls' \in 0 .. MaxCalls
    BY <1>1, <1>2 DEF Call
  <2>2. QED  BY <1>2, <2>1
<1>3. ASSUME NEW x \in alive, NEW id \in {"DEATH", "CHILD"}, NEW s \in States
      PROVE  Fresh(request(x, id, 0, s, Inf, "TW"))
  BY <1>1, <1>3 DEF Fresh, request, Requests, AIs, Ids, OnList
<1>4. ASSUME NEW x \in alive, NEW s \in States, NEW a \in States
      PROVE  Fresh(request(x, "STATE", a, s, Inf, "SW"))
  BY <1>1, <1>4 DEF Fresh, request, Requests, AIs, Ids, OnList
<1>5. ASSUME NEW s \in States
      PROVE  Fresh(request(Kernel, "STALL", 0, s, Inf, "TW"))
  BY <1>1, <1>5 DEF Fresh, request, Requests, AIs, Ids, OnList
<1>6. ASSUME NEW s \in States, NEW t \in time .. Horizon, NEW l \in {"T", "none"}
      PROVE  Fresh(request(Timer, "TIMER", 0, s, t, l))
  BY <1>1, <1>6 DEF Fresh, request, Requests, AIs, Ids, OnList
<1>7. ASSUME NEW x \in alive, NEW s \in States
      PROVE  /\ Fresh(request(x, "SIGNAL", 0, s, IF sig[x] # None THEN time ELSE Inf, "TW"))
             /\ Fresh(request(x, "CLEAR", 0, s, IF sig[x] = None THEN time ELSE Inf, "TW"))
  <2>1. CASE sig[x] = None
    BY <1>1, <1>7, <2>1 DEF Fresh, request, Requests, AIs, Ids, OnList
  <2>2. CASE sig[x] # None
    BY <1>1, <1>7, <2>2 DEF Fresh, request, Requests, AIs, Ids, OnList
  <2>3. QED  BY <2>1, <2>2
<1> HIDE DEF Goal
<1>8. ASSUME NEW s \in States, NEW flip \in BOOLEAN, NEW d \in 1 .. Horizon, WaitTimer(d, s, flip)
      PROVE  Goal
  <2>1. time + d \in time .. Horizon
    BY <1>1, <1>8 DEF WaitTimer
  <2>2. QED  BY <1>2, <1>6, <1>8, <2>1 DEF WaitTimer
<1>9. ASSUME NEW s \in States, NEW flip \in BOOLEAN, Proceed(s, flip)
      PROVE  Goal
  <2>1. time \in time .. Horizon
    BY <1>1
  <2>2. QED  BY <1>2, <1>6, <1>9, <2>1 DEF Proceed
<1>10. ASSUME NEW s \in States, NEW flip \in BOOLEAN, NEW x \in alive, WaitSignal(x, s, flip)
       PROVE  Goal
  BY <1>2, <1>7, <1>10 DEF WaitSignal
<1>11. ASSUME NEW s \in States, NEW flip \in BOOLEAN, NEW x \in alive, WaitClear(x, s, flip)
       PROVE  Goal
  BY <1>2, <1>7, <1>11 DEF WaitClear
<1>12. ASSUME NEW s \in States, NEW x \in alive, WaitDeath(x, s) \/ WaitChild(x, s)
       PROVE  Goal
  BY <1>2, <1>3, <1>12 DEF WaitDeath, WaitChild
<1>13. ASSUME NEW s \in States, NEW x \in alive, NEW a \in States, WaitState(x, a, s)
       PROVE  Goal
  BY <1>2, <1>4, <1>13 DEF WaitState
<1>14. ASSUME NEW s \in States, WaitStall(s)
       PROVE  Goal
  BY <1>2, <1>5, <1>14 DEF WaitStall
<1>15. Goal
  BY <1>8, <1>9, <1>10, <1>11, <1>12, <1>13, <1>14 DEF Waiting
<1>16. QED  BY <1>15 DEF Goal

\* The event of a process that issues one more wait request.
Extended(e, f, r) ==
  LET n == Len(e.reqs) + 1
  IN  /\ Sound(f) /\ f # NoEvent
      /\ DOMAIN f.reqs = 1 .. n /\ DOMAIN e.reqs = 1 .. Len(e.reqs) /\ Len(e.reqs) \in Nat
      /\ f.reqs[n] = r /\ \A i \in DOMAIN e.reqs : f.reqs[i] = e.reqs[i]

LEMMA Adding ==
  ASSUME NEW e, Sound(e), NEW r \in Requests, NEW takes \in BOOLEAN, NEW flip, NEW w \in 0 .. Inf,
         Len(e.reqs) + 1 <= MaxChain, e = NoEvent => takes,
         NEW f,
         f = [reqs |-> Append(e.reqs, r),
              top  |-> IF takes THEN Len(e.reqs) + 1 ELSE e.top,
              wake |-> w]
  PROVE  Extended(e, f, r)
<1>1. e.reqs \in Seq(Requests) /\ Len(e.reqs) \in Nat /\ e.top \in 0 .. MaxChain
  BY DEF Sound, Events
<1>2. f.reqs \in Seq(Requests) /\ Len(f.reqs) = Len(e.reqs) + 1
      /\ f.reqs[Len(e.reqs) + 1] = r /\ \A i \in 1 .. Len(e.reqs) : f.reqs[i] = e.reqs[i]
  BY <1>1
<1>3. DOMAIN f.reqs = 1 .. Len(e.reqs) + 1 /\ DOMAIN e.reqs = 1 .. Len(e.reqs)
  BY <1>1, <1>2
<1>4. f.top \in DOMAIN f.reqs
  <2>1. CASE takes
    BY <2>1, <1>1, <1>3
  <2>2. CASE ~ takes
    <3>1. e.top \in 1 .. Len(e.reqs)
      BY <2>2, <1>3 DEF Sound
    <3>2. QED  BY <2>2, <3>1, <1>1, <1>3
  <2>3. QED  BY <2>1, <2>2
<1>5. f \in Events
  BY <1>1, <1>2, <1>3, <1>4, Constants DEF Events
<1>6. f # NoEvent
  BY <1>4, NoEventSound
<1>7. Sound(f)
  BY <1>2, <1>4, <1>5 DEF Sound
<1>8. QED  BY <1>1, <1>2, <1>3, <1>6, <1>7 DEF Extended

LEMMA AddingExtends ==
  ASSUME AInv, cur \in alive, NEW r, NEW flip, Fresh(r), AddRequest(r, flip)
  PROVE  /\ ev' = [ev EXCEPT ![cur] = ev'[cur]]
         /\ Extended(ev[cur], ev'[cur], r) /\ tmin' \in 0 .. Inf
<1> DEFINE takes == \/ FirstWait
                    \/ tmin > r.when
                    \/ tmin = r.when /\ r.when # Inf /\ flip
           w == IF takes /\ ~(r.ai = Timer /\ tmin = r.when /\ ~FirstWait)
                THEN r.when ELSE ev[cur].wake
           g == [reqs |-> Append(ev[cur].reqs, r),
                 top  |-> IF takes THEN Len(ev[cur].reqs) + 1 ELSE ev[cur].top,
                 wake |-> w]
<1>1. cur \in Procs /\ ev \in [Procs -> Events] /\ Sound(ev[cur]) /\ r \in Requests
      /\ tmin \in 0 .. Inf
  BY DEF AInv, TypeOK, Chained, Fresh
<1>2. ev' = [ev EXCEPT ![cur] = g] /\ Len(ev[cur].reqs) + 1 <= MaxChain
      /\ tmin' = IF takes THEN r.when ELSE tmin
  BY DEF AddRequest
<1>3. w \in 0 .. Inf /\ tmin' \in 0 .. Inf
  BY <1>1, <1>2 DEF Sound, Events, Requests
<1>4. ev'[cur] = g
  BY <1>1, <1>2
<1>5. Extended(ev[cur], ev'[cur], r)
  <2>1. PICK e, f, k, v : e = ev[cur] /\ f = ev'[cur] /\ k = takes /\ v = w
    OBVIOUS
  <2>2. e = NoEvent => k
    BY <2>1 DEF FirstWait
  <2>3. k \in BOOLEAN /\ v \in 0 .. Inf /\ Sound(e) /\ Len(e.reqs) + 1 <= MaxChain
        /\ f = [reqs |-> Append(e.reqs, r), top |-> IF k THEN Len(e.reqs) + 1 ELSE e.top, wake |-> v]
    BY <2>1, <1>1, <1>2, <1>3, <1>4
  <2>4. Extended(e, f, r)
    BY <1>1, <2>2, <2>3, Adding
  <2>5. QED  BY <2>1, <2>4
<1>6. QED  BY <1>1, <1>2, <1>3, <1>4, <1>5

LEMMA WaitingKeeps == AInv /\ Waiting => AInv'
<1> SUFFICES ASSUME AInv, Waiting
             PROVE  AInv'
  OBVIOUS
<1>1. ended = "no" /\ cur \in alive /\ dying = {} /\ calls' \in 0 .. MaxCalls
  BY WaitingAdds
<1>2. PICK r, flip : Fresh(r) /\ AddRequest(r, flip)
  BY WaitingAdds
<1>3. /\ ev' = [ev EXCEPT ![cur] = ev'[cur]]
      /\ Extended(ev[cur], ev'[cur], r) /\ tmin' \in 0 .. Inf
  BY <1>1, <1>2, AddingExtends
<1>4. cur \in Procs /\ ev \in [Procs -> Events]
  BY <1>1 DEF AInv, TypeOK
<1>5. ev' = [q \in Procs |-> ev'[q]] /\ \A q \in Procs \ {cur} : ev'[q] = ev[q]
  BY <1>3, <1>4
<1>6. UNCHANGED <<time, alive, born, father, sig, cur, woke, pe, dying, ended>>
  BY <1>2 DEF AddRequest
<1>7. \A q \in Procs : Sound(ev'[q])
  BY <1>3, <1>5 DEF AInv, Chained, Extended
<1>8. TypeOK'
  <2>1. PICK E : E = ev'
    OBVIOUS
  <2>2. E \in [Procs -> Events] /\ \A q \in Procs : Len(E[q].reqs) <= MaxChain /\ E[q].top <= Len(E[q].reqs)
    BY <2>1, <1>5, <1>7, EventsTyped
  <2>3. QED  BY <1>1, <1>3, <1>6, <2>1, <2>2 DEF AInv, TypeOK
<1>9. Chained'
  BY <1>7 DEF Chained
<1>10. Dead'
  BY <1>1, <1>5, <1>6 DEF Dead, AInv
<1>11. Idle'
  BY <1>6 DEF Idle, AInv
<1>12. Pressing'
  <2>1. CASE pe \in {None, Gone}
    BY <2>1, <1>6 DEF Pressing
  <2>2. CASE pe \notin {None, Gone}
    <3>1. PICK q \in Procs : \E i \in DOMAIN ev[q].reqs :
            Urgent(q, i) /\ ev[q].reqs[i].when = time /\ ev[q].reqs[i].id = "SIGNAL"
      BY <2>2 DEF AInv, Pressing
    <3>2. PICK i \in DOMAIN ev[q].reqs :
            Urgent(q, i) /\ ev[q].reqs[i].when = time /\ ev[q].reqs[i].id = "SIGNAL"
      BY <3>1
    <3>3. i \in DOMAIN ev'[q].reqs /\ ev'[q].reqs[i] = ev[q].reqs[i]
      BY <1>3, <1>5 DEF Extended
    <3>4. QED  BY <1>6, <3>2, <3>3 DEF Pressing, Urgent
  <2>3. QED  BY <2>1, <2>2
<1>13. Listed'
  <2>1. ASSUME NEW q \in Procs, NEW i \in DOMAIN ev'[q].reqs
        PROVE  OnList(ev'[q].reqs[i], alive)
    <3>1. CASE i \in DOMAIN ev[q].reqs
      <4>1. ev'[q].reqs[i] = ev[q].reqs[i]
        BY <3>1, <1>3, <1>5 DEF Extended
      <4>2. QED  BY <3>1, <4>1 DEF AInv, Listed
    <3>2. CASE i \notin DOMAIN ev[q].reqs
      <4>1. q = cur /\ i = Len(ev[cur].reqs) + 1
        BY <3>2, <1>3, <1>5 DEF Extended
      <4>2. QED  BY <4>1, <1>2, <1>3 DEF Extended, Fresh
    <3>3. QED  BY <3>1, <3>2
  <2>2. QED  BY <1>6, <2>1 DEF Listed
<1>14. QED  BY <1>8, <1>9, <1>10, <1>11, <1>12, <1>13 DEF AInv

LEMMA SignalStirs ==
  ASSUME AInv, NEW x, NEW spec, NEW flips, Signal(x, spec, flips)
  PROVE  EventsStir(time) /\ AllTriggered(ev, ev', [q \in Procs |-> signals(ev[q], x)], time)
<1> DEFINE I == [q \in Procs |-> signals(ev[q], x)]
<1>1. Choice(ev, I)
  BY DEF Choice, signals, IsSignal
<1>2. ev' = [q \in Procs |-> triggered(ev[q], I[q], time, flips[q])]
  BY DEF Signal
<1> HIDE DEF I
<1>3. EventsStir(time) /\ AllTriggered(ev, ev', I, time)
  BY <1>1, <1>2, StirAll
<1>4. QED  BY <1>3 DEF I

LEMMA EraseStirs ==
  ASSUME AInv, NEW x, NEW flips, Erase(x, flips)
  PROVE  EventsStir(time) /\ AllTriggered(ev, ev', [q \in Procs |-> clears(ev[q], x)], time)
<1> DEFINE I == [q \in Procs |-> clears(ev[q], x)]
<1>1. Choice(ev, I)
  BY DEF Choice, clears, IsClear
<1>2. ev' = [q \in Procs |-> triggered(ev[q], I[q], time, flips[q])]
  BY DEF Erase
<1> HIDE DEF I
<1>3. EventsStir(time) /\ AllTriggered(ev, ev', I, time)
  BY <1>1, <1>2, StirAll
<1>4. QED  BY <1>3 DEF I

LEMMA SoundAlike ==
  ASSUME NEW e, Sound(e)
  PROVE  Alike(e, e) /\ Kin(e, e) /\ Mute(e, e) /\ \A now : Stirred(e, e, now)
BY DEF Alike, Same, Kin, Mute, Stirred, Touched, Unmoved

LEMMA NoEventsStir ==
  ASSUME AInv, NEW flips, NoEvents(flips)
  PROVE  EventsStir(time)
<1>1. CASE \E p \in Procs : stalls(ev[p]) # {}
  <2> DEFINE I == [q \in Procs |-> stalls(ev[q])]
  <2>1. Choice(ev, I)
    BY DEF Choice, stalls
  <2>2. ev' = [q \in Procs |-> triggered(ev[q], I[q], time, flips[q])]
    BY <1>1 DEF NoEvents
  <2> HIDE DEF I
  <2>3. EventsStir(time) /\ AllTriggered(ev, ev', I, time)
    BY <2>1, <2>2, StirAll
  <2>4. QED  BY <2>3
<1>2. CASE ~ \E p \in Procs : stalls(ev[p]) # {}
  <2>1. ev' = ev
    BY <1>2 DEF NoEvents
  <2>2. ev' = [q \in Procs |-> ev'[q]]
    BY <2>1 DEF AInv, TypeOK
  <2>3. QED  BY <2>1, <2>2, SoundAlike DEF EventsStir, AInv, Chained
<1>3. QED  BY <1>1, <1>2

LEMMA StirTypes ==
  ASSUME AInv, EventsStir(time), UNCHANGED <<time, alive, born, father, tmin, cur, woke, pe, dying>>,
         sig' \in [Procs -> [sender : Procs, spec : Specs] \cup {None}], calls' \in 0 .. MaxCalls,
         ended' \in {"no", "over", "lost", "corrupt"}
  PROVE  AInv'
<1>1. Chained' /\ Dead' /\ Pressing' /\ Listed'
  BY StirKeeps
<1>2. PICK E : E = ev'
  OBVIOUS
<1>3. E = [q \in Procs |-> E[q]] /\ \A q \in Procs : Sound(E[q])
  BY <1>1, <1>2 DEF EventsStir, Chained
<1>4. E \in [Procs -> Events] /\ \A q \in Procs : Len(E[q].reqs) <= MaxChain /\ E[q].top <= Len(E[q].reqs)
  BY <1>3, EventsTyped
<1>5. TypeOK'
  BY <1>2, <1>4 DEF AInv, TypeOK
<1>6. QED  BY <1>1, <1>5 DEF AInv, Idle

LEMMA CallTypes ==
  ASSUME AInv, NEW op, Call(op)
  PROVE  ended = "no" /\ cur \in alive /\ cur \in Procs /\ dying = {} /\ calls' \in 0 .. MaxCalls
BY Constants DEF Call, AInv, TypeOK

LEMMA SignalKeeps ==
  ASSUME AInv, NEW x \in alive, NEW spec \in Specs, NEW flips, Signal(x, spec, flips)
  PROVE  AInv'
<1>1. EventsStir(time)
  BY SignalStirs
<1>2. cur \in Procs /\ calls' \in 0 .. MaxCalls
  BY CallTypes DEF Signal
<1>3. sig' \in [Procs -> [sender : Procs, spec : Specs] \cup {None}]
  BY <1>2 DEF Signal, deposit, AInv, TypeOK
<1>4. QED  BY <1>1, <1>2, <1>3, StirTypes DEF Signal, AInv, TypeOK

LEMMA EraseKeeps ==
  ASSUME AInv, NEW x \in alive, NEW flips, Erase(x, flips)
  PROVE  AInv'
<1>1. EventsStir(time)
  BY EraseStirs
<1>2. calls' \in 0 .. MaxCalls
  BY CallTypes DEF Erase
<1>3. sig' \in [Procs -> [sender : Procs, spec : Specs] \cup {None}]
  BY DEF Erase, AInv, TypeOK
<1>4. QED  BY <1>1, <1>2, <1>3, StirTypes DEF Erase, AInv, TypeOK

LEMMA NoEventsKeeps ==
  ASSUME AInv, NEW flips, NoEvents(flips)
  PROVE  AInv'
<1>1. EventsStir(time)
  BY NoEventsStir
<1>2. ended' \in {"no", "over", "lost", "corrupt"}
  BY DEF NoEvents, AInv, TypeOK
<1>3. QED  BY <1>1, <1>2, StirTypes DEF NoEvents, AInv, TypeOK

\* The event of one process is replaced.
LEMMA OneTypes ==
  ASSUME AInv, NEW p \in Procs, NEW f, ev' = [ev EXCEPT ![p] = f], Sound(f)
  PROVE  /\ ev' = [q \in Procs |-> ev'[q]] /\ ev'[p] = f
         /\ \A q \in Procs \ {p} : ev'[q] = ev[q]
         /\ ev' \in [Procs -> Events]
         /\ \A q \in Procs : Len(ev'[q].reqs) <= MaxChain /\ ev'[q].top <= Len(ev'[q].reqs)
         /\ Chained'
<1>1. ev \in [Procs -> Events] /\ \A q \in Procs : Sound(ev[q])
  BY DEF AInv, TypeOK, Chained
<1>2. ev' = [q \in Procs |-> ev'[q]] /\ ev'[p] = f /\ \A q \in Procs \ {p} : ev'[q] = ev[q]
  BY <1>1
<1>3. \A q \in Procs : Sound(ev'[q])
  BY <1>1, <1>2
<1>4. PICK E : E = ev'
  OBVIOUS
<1>5. E \in [Procs -> Events] /\ \A q \in Procs : Len(E[q].reqs) <= MaxChain /\ E[q].top <= Len(E[q].reqs)
  BY <1>2, <1>3, <1>4, EventsTyped
<1>6. QED  BY <1>2, <1>3, <1>4, <1>5 DEF Chained

\* What signalP does to the event of the recipient.
Prompted(e, f, i, t) ==
  /\ Kin(e, f) /\ f.top = e.top /\ f.wake = e.wake
  /\ \A j \in DOMAIN e.reqs : f.reqs[j].when = IF j = i THEN t ELSE e.reqs[j].when

LEMMA Prompting ==
  ASSUME NEW e, Sound(e), NEW i \in DOMAIN e.reqs, NEW t \in 0 .. Inf,
         NEW f, f = [reqs |-> dated(e.reqs, {i}, t), top |-> e.top, wake |-> e.wake]
  PROVE  Alike(e, f) /\ Prompted(e, f, i, t)
<1> DEFINE d == dated(e.reqs, {i}, t)
<1>1. e.reqs \in Seq(Requests) /\ e.wake \in 0 .. Inf /\ e.top \in 0 .. MaxChain /\ Len(e.reqs) <= MaxChain
  BY DEF Sound, Events
<1>2. d \in Seq(Requests) /\ Len(d) = Len(e.reqs) /\ DOMAIN d = DOMAIN e.reqs
  BY <1>1, Dated
<1>3. \A j \in DOMAIN e.reqs :
        /\ Same(e.reqs[j], d[j]) /\ d[j].ai = e.reqs[j].ai /\ d[j].list = e.reqs[j].list
        /\ d[j].when = IF j \in {i} THEN t ELSE e.reqs[j].when
  BY <1>1, Dated
<1>4. f.reqs = d /\ f.top = e.top /\ f.wake = e.wake /\ f \in Events
  BY <1>1, <1>2 DEF Events
<1>5. e # NoEvent /\ e.top \in DOMAIN e.reqs
  BY NoEventSound DEF Sound
<1>6. f # NoEvent
  BY <1>2, <1>4, <1>5, NoEventSound
<1>7. Sound(f)
  BY <1>1, <1>2, <1>4, <1>5 DEF Sound
<1>8. Alike(e, f)
  BY <1>2, <1>3, <1>4, <1>5, <1>6, <1>7 DEF Alike
<1>9. Prompted(e, f, i, t)
  BY <1>3, <1>4 DEF Prompted, Kin
<1>10. QED  BY <1>8, <1>9

LEMMA SignalPPrompts ==
  ASSUME AInv, NEW x, NEW spec, SignalP(x, spec)
  PROVE  \E p \in Procs : \E i \in DOMAIN ev[p].reqs :
           /\ IsSignal(x, ev[p].reqs[i])
           /\ \A q \in Procs : \A j \in DOMAIN ev[q].reqs :
                IsSignal(x, ev[q].reqs[j]) => q = p /\ j = i
           /\ pe' = [proc |-> p, idx |-> i]
           /\ ev' = [ev EXCEPT ![p] = ev'[p]]
           /\ Alike(ev[p], ev'[p]) /\ Prompted(ev[p], ev'[p], i, time)
<1>1. PICK p \in Procs, i \in 1 .. MaxChain :
        /\ \A q \in Procs : signals(ev[q], x) = IF q = p THEN {i} ELSE {}
        /\ pe' = [proc |-> p, idx |-> i]
        /\ ev' = [ev EXCEPT ![p] =
                    [reqs |-> dated(ev[p].reqs, {i}, time), top |-> ev[p].top, wake |-> ev[p].wake]]
  BY DEF SignalP
<1>2. i \in signals(ev[p], x) /\ signals(ev[p], x) = {i}
  BY <1>1
<1>3. i \in DOMAIN ev[p].reqs /\ IsSignal(x, ev[p].reqs[i])
  BY <1>2 DEF signals
<1>4. ASSUME NEW q \in Procs, NEW j \in DOMAIN ev[q].reqs, IsSignal(x, ev[q].reqs[j])
      PROVE  q = p /\ j = i
  <2>1. j \in signals(ev[q], x)
    BY <1>4 DEF signals
  <2>2. QED  BY <2>1, <1>1
<1>5. ev'[p] = [reqs |-> dated(ev[p].reqs, {i}, time), top |-> ev[p].top, wake |-> ev[p].wake]
  BY <1>1 DEF AInv, TypeOK
<1>6. Sound(ev[p]) /\ time \in 0 .. Inf
  BY Constants DEF AInv, Chained, TypeOK
<1>7. Alike(ev[p], ev'[p]) /\ Prompted(ev[p], ev'[p], i, time)
  <2>1. PICK e, f, t : e = ev[p] /\ f = ev'[p] /\ t = time
    OBVIOUS
  <2>2. Sound(e) /\ i \in DOMAIN e.reqs /\ t \in 0 .. Inf
        /\ f = [reqs |-> dated(e.reqs, {i}, t), top |-> e.top, wake |-> e.wake]
    BY <1>3, <1>5, <1>6, <2>1
  <2>3. Alike(e, f) /\ Prompted(e, f, i, t)
    BY <2>2, Prompting
  <2>4. QED  BY <2>1, <2>3
<1>8. ev' = [ev EXCEPT ![p] = ev'[p]]
  BY <1>1, <1>5
<1>9. QED  BY <1>1, <1>3, <1>4, <1>7, <1>8

LEMMA SignalPKeeps ==
  ASSUME AInv, NEW x \in alive, NEW spec \in Specs, SignalP(x, spec)
  PROVE  AInv'
<1>1. cur \in Procs /\ calls' \in 0 .. MaxCalls
  BY CallTypes DEF SignalP
<1>2. PICK p \in Procs : \E i \in DOMAIN ev[p].reqs :
           /\ IsSignal(x, ev[p].reqs[i])
           /\ pe' = [proc |-> p, idx |-> i]
           /\ ev' = [ev EXCEPT ![p] = ev'[p]]
           /\ Alike(ev[p], ev'[p]) /\ Prompted(ev[p], ev'[p], i, time)
  BY SignalPPrompts
<1>3. PICK i \in DOMAIN ev[p].reqs :
           /\ IsSignal(x, ev[p].reqs[i])
           /\ pe' = [proc |-> p, idx |-> i]
           /\ ev' = [ev EXCEPT ![p] = ev'[p]]
           /\ Alike(ev[p], ev'[p]) /\ Prompted(ev[p], ev'[p], i, time)
  BY <1>2
<1>4. PICK f : f = ev'[p]
  OBVIOUS
<1>5. Sound(f) /\ ev' = [ev EXCEPT ![p] = f]
  BY <1>3, <1>4 DEF Alike
<1>6. /\ ev' = [q \in Procs |-> ev'[q]]
      /\ \A q \in Procs \ {p} : ev'[q] = ev[q]
      /\ ev' \in [Procs -> Events]
      /\ \A q \in Procs : Len(ev'[q].reqs) <= MaxChain /\ ev'[q].top <= Len(ev'[q].reqs)
      /\ Chained'
  BY <1>5, OneTypes
<1>7. UNCHANGED <<time, alive, born, father, tmin, cur, woke, dying, ended>>
  BY DEF SignalP
<1>8. sig' \in [Procs -> [sender : Procs, spec : Specs] \cup {None}]
  BY <1>1 DEF SignalP, deposit, AInv, TypeOK
<1>9. pe' \in [proc : Procs \cup {None}, idx : 0 .. MaxChain] \cup {None}
  <2>1. i \in 0 .. MaxChain
    BY Constants DEF AInv, Chained, Sound, Events
  <2>2. QED  BY <1>3, <2>1
<1>10. TypeOK'
  BY <1>1, <1>6, <1>7, <1>8, <1>9 DEF AInv, TypeOK
<1>11. Dead'
  BY <1>3, <1>6, <1>7 DEF AInv, Dead, Alike
<1>12. Pressing'
  <2>1. i \in DOMAIN ev'[p].reqs /\ ev'[p].reqs[i].id = "SIGNAL" /\ ev'[p].reqs[i].when = time
    BY <1>3 DEF Alike, Same, Prompted, IsSignal
  <2>2. QED  BY <1>3, <1>7, <2>1 DEF Pressing, Urgent
<1>13. Listed'
  <2>1. ASSUME NEW q \in Procs, NEW j \in DOMAIN ev'[q].reqs
        PROVE  OnList(ev'[q].reqs[j], alive)
    <3>1. j \in DOMAIN ev[q].reqs /\ OnList(ev[q].reqs[j], alive)
      BY <1>3, <1>6 DEF Alike, AInv, Listed
    <3>2. PICK r, s : r = ev[q].reqs[j] /\ s = ev'[q].reqs[j]
      OBVIOUS
    <3>3. s.what = r.what /\ s.id = r.id /\ s.ai = r.ai /\ s.list = r.list
      BY <1>3, <1>6, <3>1, <3>2 DEF Alike, Same, Prompted, Kin
    <3>4. QED  BY <3>1, <3>2, <3>3 DEF OnList
  <2>2. QED  BY <1>7, <2>1 DEF Listed
<1>14. QED  BY <1>7, <1>10, <1>6, <1>11, <1>12, <1>13 DEF AInv, Idle

\* Who inherits exists and is not p, see Elders below for the second.
LEMMA HeirExists ==
  ASSUME AInv, NEW p \in Procs
  PROVE  heir(p) \in AIs /\ adopt(p) \in [Procs -> Procs \cup {Kernel, None}]
<1>1. father[p] \in Procs \cup {Kernel, None}
  BY DEF AInv, TypeOK
<1>2. heir(p) \in Procs \cup {Kernel}
  BY <1>1 DEF heir
<1>3. QED  BY <1>2 DEF AInv, TypeOK, adopt, AIs

LEMMA Destroying ==
  ASSUME AInv, NEW p \in Procs, NEW hard, NEW flips, Destroy(p, hard, flips)
  PROVE  /\ ev' = [q \in Procs |-> ev'[q]] /\ ev'[p] = NoEvent
         /\ \A q \in Procs \ {p} :
              /\ Alike(ev[q], ev'[q]) /\ Stirred(ev[q], ev'[q], time) /\ Bereaved(ev[q], ev'[q], p)
<1>1. ev' = [q \in Procs |-> IF q = p THEN NoEvent ELSE survived(ev[q], p, hard, flips[q])]
  BY DEF Destroy
<1>2. time \in 0 .. Inf /\ heir(p) \in AIs
  BY Constants, HeirExists DEF AInv, TypeOK
<1>3. ASSUME NEW q \in Procs \ {p}
      PROVE  Alike(ev[q], ev'[q]) /\ Stirred(ev[q], ev'[q], time) /\ Bereaved(ev[q], ev'[q], p)
  <2>1. ev'[q] = survived(ev[q], p, hard, flips[q]) /\ Sound(ev[q])
    BY <1>1 DEF AInv, Chained
  <2>2. PICK e, g : e = ev[q] /\ g = flips[q]
    OBVIOUS
  <2>3. Alike(e, survived(e, p, hard, g)) /\ Stirred(e, survived(e, p, hard, g), time)
        /\ Bereaved(e, survived(e, p, hard, g), p)
    BY <1>2, <2>1, <2>2, Survived
  <2>4. QED  BY <2>1, <2>2, <2>3
<1>4. QED  BY <1>1, <1>3

LEMMA DestroyKeeps ==
  ASSUME AInv, NEW p \in alive, NEW hard, NEW flips, Destroy(p, hard, flips),
         time' = time, born' = born, ended' = ended, dying' \subseteq alive \ {p},
         calls' \in 0 .. MaxCalls,
         InLoop \/ (UNCHANGED <<tmin, cur, woke>> /\ cur # p)
  PROVE  AInv'
<1>1. p \in Procs /\ p \in born
  BY DEF AInv, TypeOK
<1>2. /\ ev' = [q \in Procs |-> ev'[q]] /\ ev'[p] = NoEvent
      /\ \A q \in Procs \ {p} :
           Alike(ev[q], ev'[q]) /\ Stirred(ev[q], ev'[q], time) /\ Bereaved(ev[q], ev'[q], p)
  BY <1>1, Destroying
<1>3. /\ alive' = alive \ {p} /\ father' = adopt(p) /\ sig' = [sig EXCEPT ![p] = None]
      /\ pe' = IF pe # None /\ pe.proc = p THEN Gone ELSE pe
  BY DEF Destroy
<1>4. \A q \in Procs : Sound(ev'[q])
  BY <1>2, NoEventSound DEF Alike
<1>5. PICK E : E = ev'
  OBVIOUS
<1>6. E \in [Procs -> Events] /\ \A q \in Procs : Len(E[q].reqs) <= MaxChain /\ E[q].top <= Len(E[q].reqs)
  BY <1>2, <1>4, <1>5, EventsTyped
<1>7. TypeOK'
  <2>1. father' \in [Procs -> Procs \cup {Kernel, None}]
    BY <1>1, <1>3, HeirExists
  <2>2. sig' \in [Procs -> [sender : Procs, spec : Specs] \cup {None}]
    BY <1>3 DEF AInv, TypeOK
  <2>3. pe' \in [proc : Procs \cup {None}, idx : 0 .. MaxChain] \cup {None}
    BY <1>3, Constants DEF AInv, TypeOK, Gone
  <2>4. tmin' \in 0 .. Inf /\ cur' \in alive' \cup {None} /\ woke'.id \in Ids
    <3>1. CASE InLoop
      BY <3>1, Constants DEF InLoop, NoWake, Ids
    <3>2. CASE UNCHANGED <<tmin, cur, woke>> /\ cur # p
      BY <3>2, <1>3 DEF AInv, TypeOK
    <3>3. QED  BY <3>1, <3>2
  <2>5. QED
    BY <1>3, <1>5, <1>6, <2>1, <2>2, <2>3, <2>4 DEF AInv, TypeOK
<1>8. Dead'
  <2>1. ASSUME NEW q \in Procs, q \notin alive \ {p}
        PROVE  ev'[q] = NoEvent
    BY <2>1, <1>2 DEF AInv, Dead, Alike
  <2>2. QED  BY <1>3, <2>1 DEF Dead
<1>9. Idle'
  BY DEF Idle, InLoop, AInv
<1>10. Pressing'
  <2>1. CASE pe = None
    BY <2>1, <1>3 DEF Pressing
  <2>2. CASE pe = Gone
    BY <2>2, <1>1, <1>3, Constants DEF Pressing, Gone
  <2>3. CASE pe \notin {None, Gone}
    <3>1. PICK q \in Procs : \E i \in DOMAIN ev[q].reqs :
            Urgent(q, i) /\ ev[q].reqs[i].when = time /\ ev[q].reqs[i].id = "SIGNAL"
      BY <2>3 DEF AInv, Pressing
    <3>2. PICK i \in DOMAIN ev[q].reqs :
            Urgent(q, i) /\ ev[q].reqs[i].when = time /\ ev[q].reqs[i].id = "SIGNAL"
      BY <3>1
    <3>3. CASE q = p
      BY <3>2, <3>3, <2>3, <1>3 DEF Urgent, Pressing
    <3>4. CASE q # p
      <4>1. pe' = pe
        BY <3>2, <3>4, <1>3 DEF Urgent
      <4>2. i \in DOMAIN ev'[q].reqs /\ ev'[q].reqs[i].id = "SIGNAL"
        BY <3>2, <3>4, <1>2 DEF Alike, Same
      <4>3. ev'[q].reqs[i].when = time
        BY <3>2, <3>4, <1>2 DEF Bereaved
      <4>4. QED  BY <3>2, <4>1, <4>2, <4>3 DEF Pressing, Urgent
    <3>5. QED  BY <3>3, <3>4
  <2>4. QED  BY <2>1, <2>2, <2>3
<1>11. Listed'
  <2>1. ASSUME NEW q \in Procs, NEW i \in DOMAIN ev'[q].reqs
        PROVE  OnList(ev'[q].reqs[i], alive \ {p})
    <3>1. q # p
      BY <1>2, NoEventSound
    <3>2. i \in DOMAIN ev[q].reqs /\ OnList(ev[q].reqs[i], alive)
      BY <1>2, <3>1 DEF Alike, AInv, Listed
    <3>3. PICK r, s : r = ev[q].reqs[i] /\ s = ev'[q].reqs[i]
      OBVIOUS
    <3>4. s.what = r.what /\ s.id = r.id
      BY <1>2, <3>1, <3>2, <3>3 DEF Alike, Same
    <3>5. /\ s.ai = IF moves(r, p, ev[q].wake <= time) THEN heir(p) ELSE r.ai
          /\ s.list = IF r.list \in {"TW", "SW"} /\ r.what = p THEN "orphan" ELSE r.list
      BY <1>2, <3>1, <3>2, <3>3 DEF Bereaved
    <3>6. s.list \in {"TW", "SW"} => s.list = r.list /\ r.what # p /\ r.what = r.ai /\ s.ai = r.ai
      BY <3>2, <3>3, <3>5 DEF OnList, moves
    <3>7. QED  BY <3>2, <3>3, <3>4, <3>6 DEF OnList
  <2>2. QED  BY <1>3, <2>1 DEF Listed
<1>12. Chained'
  BY <1>4 DEF Chained
<1>13. QED  BY <1>7, <1>8, <1>9, <1>10, <1>11, <1>12 DEF AInv

\* The four ways to be destroyed.
Ending(p) ==
  /\ p \in alive /\ (p \in dying \/ MayDie(p))
  /\ \E hard, flips : Destroy(p, hard, flips)
  /\ UNCHANGED <<time, born, ended>>
  /\ dying' \subseteq alive \ {p} /\ dying' \subseteq dying
  /\ calls' \in 0 .. MaxCalls /\ ended = "no"
  /\ \/ p = cur /\ InLoop
     \/ UNCHANGED <<tmin, cur, woke>> /\ cur # p /\ (BeforeWaits \/ dying # {})

LEMMA Endings ==
  ASSUME AInv, NEW flips, NEW p \in Procs, Kill(p, flips) \/ Exit(flips) \/ ImplicitTerminate(flips) \/ Perish(p)
  PROVE  \E x \in Procs : Ending(x)
<1>1. /\ cur \in alive \cup {None} /\ dying \subseteq alive /\ alive \subseteq Procs
      /\ calls \in 0 .. MaxCalls /\ MaxCalls \in Nat
  BY Constants DEF AInv, TypeOK
<1>2. CASE Kill(p, flips)
  <2>1. dying' = {} /\ calls' \in 0 .. MaxCalls /\ ended = "no"
    BY <1>2, CallTypes DEF Kill
  <2>2. /\ p \in alive \ {cur} /\ Destroy(p, FALSE, flips) /\ BeforeWaits /\ MayDie(p)
        /\ UNCHANGED <<time, born, tmin, cur, woke, ended>>
    BY <1>2 DEF Kill
  <2>3. QED  BY <2>1, <2>2 DEF Ending
<1>3. CASE Exit(flips)
  <2>1. /\ dying' = {} /\ ended = "no" /\ cur \in alive /\ Destroy(cur, FALSE, flips) /\ InLoop
        /\ UNCHANGED <<time, born, ended>> /\ MayDie(cur)
    BY <1>1, <1>3 DEF Exit
  <2>2. calls' \in 0 .. MaxCalls
    BY <1>1, <2>1 DEF InLoop
  <2>3. Ending(cur)
    BY <2>1, <2>2 DEF Ending
  <2>4. QED  BY <1>1, <2>1, <2>3
<1>4. CASE ImplicitTerminate(flips)
  <2>1. /\ dying' = {} /\ ended = "no" /\ cur \in alive /\ Destroy(cur, FALSE, flips) /\ InLoop
        /\ UNCHANGED <<time, born, ended>> /\ MayDie(cur)
    BY <1>1, <1>4 DEF ImplicitTerminate
  <2>2. calls' \in 0 .. MaxCalls
    BY <1>1, <2>1 DEF InLoop
  <2>3. Ending(cur)
    BY <2>1, <2>2 DEF Ending
  <2>4. QED  BY <1>1, <2>1, <2>3
<1>5. CASE Perish(p)
  <2>1. /\ p \in alive /\ ended = "no" /\ dying' \subseteq alive \ {p} /\ dying' \subseteq dying
        /\ UNCHANGED <<time, born, ended>> /\ dying # {} /\ p \in dying
    BY <1>1, <1>5 DEF Perish
  <2>2. \E hard, g : Destroy(p, hard, g)
    <3>1. Destroy(p, TRUE, [q \in Procs |-> 0])
      BY <1>5 DEF Perish
    <3>2. QED  BY <3>1
  <2>3. (p = cur /\ InLoop) \/ (UNCHANGED <<tmin, cur, woke, calls>> /\ cur # p)
    BY <1>5 DEF Perish
  <2>4. calls' \in 0 .. MaxCalls
    BY <1>1, <2>3 DEF InLoop
  <2>5. QED  BY <2>1, <2>2, <2>3, <2>4 DEF Ending
<1>6. QED  BY <1>2, <1>3, <1>4, <1>5

LEMMA EndingKeeps ==
  ASSUME AInv, NEW p, Ending(p)
  PROVE  AInv'
<1>1. PICK hard, flips : Destroy(p, hard, flips)
  BY DEF Ending
<1>2. QED  BY <1>1, DestroyKeeps DEF Ending

LEMMA CreateKeeps ==
  ASSUME AInv, NEW p \in Procs, Create(p)
  PROVE  AInv'
<1> DEFINE r == request(p, "START", 0, 0, time, "none")
           f == [reqs |-> <<r>>, top |-> 1, wake |-> time]
<1>1. cur \in Procs /\ cur \in alive /\ calls' \in 0 .. MaxCalls
  BY CallTypes DEF Create
<1>2. /\ p \notin born /\ born' = born \cup {p} /\ alive' = alive \cup {p}
      /\ father' = [father EXCEPT ![p] = cur] /\ ev' = [ev EXCEPT ![p] = f]
      /\ UNCHANGED <<time, sig, tmin, cur, woke, pe, dying, ended>>
  BY DEF Create
<1>3. time \in 0 .. Inf /\ 0 \in States /\ MaxChain \in Nat /\ MaxChain >= 1
  BY Constants DEF AInv, TypeOK
<1>4. r \in Requests /\ ~ r.list \in {"TW", "SW"}
  BY <1>3 DEF request, Requests, AIs, Ids
<1>5. Sound(f) /\ DOMAIN f.reqs = {1} /\ f.reqs[1] = r
  <2> HIDE DEF r
  <2>1. f.reqs \in Seq(Requests) /\ Len(f.reqs) = 1 /\ DOMAIN f.reqs = {1} /\ f.reqs[1] = r
    BY <1>4
  <2>2. f \in Events
    BY <1>3, <2>1 DEF Events
  <2>3. QED  BY <1>3, <2>1, <2>2 DEF Sound
<1> HIDE DEF r, f
<1>6. PICK g : g = f
  OBVIOUS
<1>7. /\ ev' = [q \in Procs |-> ev'[q]] /\ ev'[p] = g
      /\ \A q \in Procs \ {p} : ev'[q] = ev[q]
      /\ ev' \in [Procs -> Events]
      /\ \A q \in Procs : Len(ev'[q].reqs) <= MaxChain /\ ev'[q].top <= Len(ev'[q].reqs)
      /\ Chained'
  BY <1>2, <1>5, <1>6, OneTypes
<1>8. TypeOK'
  BY <1>1, <1>2, <1>7 DEF AInv, TypeOK
<1>9. p \notin alive /\ ev[p] = NoEvent
  BY <1>2 DEF AInv, TypeOK, Dead
<1>10. Dead'
  BY <1>2, <1>7 DEF AInv, Dead
<1>11. Idle'
  BY <1>2 DEF AInv, Idle
<1>12. Pressing'
  <2>1. CASE pe \in {None, Gone}
    BY <2>1, <1>2 DEF Pressing
  <2>2. CASE pe \notin {None, Gone}
    <3>1. PICK q \in Procs : \E i \in DOMAIN ev[q].reqs :
            Urgent(q, i) /\ ev[q].reqs[i].when = time /\ ev[q].reqs[i].id = "SIGNAL"
      BY <2>2 DEF AInv, Pressing
    <3>2. PICK i \in DOMAIN ev[q].reqs :
            Urgent(q, i) /\ ev[q].reqs[i].when = time /\ ev[q].reqs[i].id = "SIGNAL"
      BY <3>1
    <3>3. q # p
      BY <1>9, NoEventSound
    <3>4. ev'[q] = ev[q]
      BY <1>7, <3>3
    <3>5. QED  BY <1>2, <3>2, <3>4 DEF Pressing, Urgent
  <2>3. QED  BY <2>1, <2>2
<1>13. Listed'
  <2>1. ASSUME NEW q \in Procs, NEW i \in DOMAIN ev'[q].reqs
        PROVE  OnList(ev'[q].reqs[i], alive \cup {p})
    <3>1. CASE q = p
      BY <3>1, <1>4, <1>5, <1>6, <1>7 DEF OnList
    <3>2. CASE q # p
      <4>1. OnList(ev'[q].reqs[i], alive)
        BY <3>2, <1>7 DEF AInv, Listed
      <4>2. QED  BY <4>1 DEF OnList
    <3>3. QED  BY <3>1, <3>2
  <2>2. QED  BY <1>2, <2>1 DEF Listed
<1>14. QED  BY <1>7, <1>8, <1>10, <1>11, <1>12, <1>13 DEF AInv

LEMMA UnwaitKeeps == AInv /\ Unwait => AInv'
<1> SUFFICES ASSUME AInv, Unwait
             PROVE  AInv'
  OBVIOUS
<1>1. cur \in Procs /\ cur \in alive /\ calls' \in 0 .. MaxCalls
  BY CallTypes DEF Unwait
<1>2. /\ ev' = [ev EXCEPT ![cur] = NoEvent]
      /\ pe' = IF pe # None /\ pe.proc = cur THEN Gone ELSE pe
      /\ UNCHANGED <<time, alive, born, father, sig, tmin, cur, woke, dying, ended>>
  BY DEF Unwait
<1>3. PICK g, c : g = NoEvent /\ c = cur
  OBVIOUS
<1>4. /\ ev' = [q \in Procs |-> ev'[q]] /\ ev'[c] = g
      /\ \A q \in Procs \ {c} : ev'[q] = ev[q]
      /\ ev' \in [Procs -> Events]
      /\ \A q \in Procs : Len(ev'[q].reqs) <= MaxChain /\ ev'[q].top <= Len(ev'[q].reqs)
      /\ Chained'
  <2>1. c \in Procs /\ Sound(g) /\ ev' = [ev EXCEPT ![c] = g]
    BY <1>1, <1>2, <1>3, NoEventSound
  <2>2. QED  BY <2>1, OneTypes
<1>5. pe' \in [proc : Procs \cup {None}, idx : 0 .. MaxChain] \cup {None}
  BY <1>2, Constants DEF AInv, TypeOK, Gone
<1>6. TypeOK'
  BY <1>1, <1>2, <1>4, <1>5 DEF AInv, TypeOK
<1>7. Dead'
  BY <1>2, <1>3, <1>4 DEF AInv, Dead
<1>8. Pressing'
  <2>1. CASE pe \in {None, Gone}
    BY <2>1, <1>1, <1>2, Constants DEF Pressing, Gone
  <2>2. CASE pe \notin {None, Gone}
    <3>1. PICK q \in Procs : \E i \in DOMAIN ev[q].reqs :
            Urgent(q, i) /\ ev[q].reqs[i].when = time /\ ev[q].reqs[i].id = "SIGNAL"
      BY <2>2 DEF AInv, Pressing
    <3>2. PICK i \in DOMAIN ev[q].reqs :
            Urgent(q, i) /\ ev[q].reqs[i].when = time /\ ev[q].reqs[i].id = "SIGNAL"
      BY <3>1
    <3>3. CASE q = cur
      BY <3>2, <3>3, <2>2, <1>2 DEF Urgent, Pressing
    <3>4. CASE q # cur
      <4>1. pe' = pe /\ ev'[q] = ev[q]
        BY <3>2, <3>4, <1>2, <1>3, <1>4 DEF Urgent
      <4>2. QED  BY <1>2, <3>2, <4>1 DEF Pressing, Urgent
    <3>5. QED  BY <3>3, <3>4
  <2>3. QED  BY <2>1, <2>2
<1>9. Listed'
  <2>1. ASSUME NEW q \in Procs, NEW i \in DOMAIN ev'[q].reqs
        PROVE  OnList(ev'[q].reqs[i], alive)
    <3>1. q # cur
      BY <1>3, <1>4, NoEventSound
    <3>2. QED  BY <3>1, <1>3, <1>4 DEF AInv, Listed
  <2>2. QED  BY <1>2, <2>1 DEF Listed
<1>10. QED  BY <1>2, <1>4, <1>6, <1>7, <1>8, <1>9 DEF AInv, Idle

\* Steps that leave the events alone.
Quiet ==
  \/ Sleep
  \/ \E st \in {Owner[p] : p \in Procs} : StationTerminate(st)
  \/ PriorityLost
  \/ PriorityGone

LEMMA QuietKeeps == AInv /\ (Quiet \/ UNCHANGED vars) => AInv'
<1> SUFFICES ASSUME AInv, Quiet \/ UNCHANGED vars
             PROVE  AInv'
  OBVIOUS
<1>1. UNCHANGED <<time, alive, born, father, sig, ev, pe>>
  BY DEF Quiet, Sleep, StationTerminate, PriorityLost, PriorityGone, vars
<1>2. Chained' /\ Dead' /\ Pressing' /\ Listed'
  <2>1. Chained' /\ Dead'
    BY <1>1 DEF AInv, Chained, Dead
  <2>2. Pressing'
    BY <1>1 DEF AInv, Pressing, Urgent
  <2>3. Listed'
    BY <1>1 DEF AInv, Listed
  <2>4. QED  BY <2>1, <2>2, <2>3
<1>3. CASE Sleep
  <2>1. InLoop /\ UNCHANGED <<dying, ended>>
    BY <1>3 DEF Sleep
  <2>2. TypeOK' /\ Idle'
    BY <1>1, <2>1, Constants DEF AInv, TypeOK, Idle, InLoop, NoWake, Ids
  <2>3. QED  BY <1>2, <2>2 DEF AInv
<1>4. CASE \E st \in {Owner[p] : p \in Procs} : StationTerminate(st)
  <2>1. PICK st : StationTerminate(st)
    BY <1>4
  <2>2. calls' \in 0 .. MaxCalls
    BY <2>1, CallTypes DEF StationTerminate
  <2>3. dying' \subseteq alive /\ UNCHANGED <<tmin, cur, woke, ended>>
    BY <2>1 DEF StationTerminate
  <2>4. TypeOK' /\ Idle'
    BY <1>1, <2>2, <2>3 DEF AInv, TypeOK, Idle
  <2>5. QED  BY <1>2, <2>4 DEF AInv
<1>5. CASE PriorityLost \/ PriorityGone
  <2>1. ended' \in {"lost", "corrupt"} /\ UNCHANGED <<tmin, cur, woke, calls, dying>>
    BY <1>5 DEF PriorityLost, PriorityGone
  <2>2. TypeOK' /\ Idle'
    BY <1>1, <2>1 DEF AInv, TypeOK, Idle
  <2>3. QED  BY <1>2, <2>2 DEF AInv
<1>6. CASE UNCHANGED vars
  <2>1. TypeOK' /\ Idle'
    BY <1>6 DEF AInv, TypeOK, Idle, vars
  <2>2. QED  BY <1>2, <2>1 DEF AInv
<1>7. QED  BY <1>3, <1>4, <1>5, <1>6 DEF Quiet

\* The event of a process whose signal was taken is back in the queue.
Requeued(e, f) ==
  /\ Kin(e, f) /\ f.top \in DOMAIN e.reqs /\ f.wake = f.reqs[f.top].when
  /\ \A i \in DOMAIN e.reqs : f.reqs[i].when = IF i = e.top THEN Inf ELSE e.reqs[i].when
  /\ \A i \in DOMAIN e.reqs : f.wake <= f.reqs[i].when

LEMMA Requeuing ==
  ASSUME NEW e, Sound(e), e # NoEvent, NEW i, i \in min_requests(dated(e.reqs, {e.top}, Inf)),
         NEW f, f = [reqs |-> dated(e.reqs, {e.top}, Inf), top |-> i,
                     wake |-> dated(e.reqs, {e.top}, Inf)[i].when]
  PROVE  Alike(e, f) /\ Requeued(e, f)
<1> DEFINE d == dated(e.reqs, {e.top}, Inf)
<1>1. e.reqs \in Seq(Requests) /\ e.wake \in 0 .. Inf /\ e.top \in 0 .. MaxChain
      /\ Len(e.reqs) <= MaxChain /\ Inf \in 0 .. Inf
  BY Constants DEF Sound, Events
<1>2. d \in Seq(Requests) /\ Len(d) = Len(e.reqs) /\ DOMAIN d = DOMAIN e.reqs
  BY <1>1, Dated
<1>3. \A j \in DOMAIN e.reqs :
        /\ Same(e.reqs[j], d[j]) /\ d[j].ai = e.reqs[j].ai /\ d[j].list = e.reqs[j].list
        /\ d[j].when = IF j \in {e.top} THEN Inf ELSE e.reqs[j].when
  BY <1>1, Dated
<1>4. i \in DOMAIN d /\ \A j \in DOMAIN d : d[i].when <= d[j].when
  BY DEF min_requests
<1>5. d[i] \in Requests /\ i \in 1 .. Len(e.reqs) /\ Len(e.reqs) \in Nat
  BY <1>1, <1>2, <1>4
<1>6. f.reqs = d /\ f.top = i /\ f.wake = d[i].when
  OBVIOUS
<1> HIDE DEF d
<1>7. f \in Events
  BY <1>1, <1>2, <1>5, <1>6, Constants DEF Events, Requests, d
<1>8. f # NoEvent
  BY <1>4, <1>6, NoEventSound
<1>9. Sound(f)
  BY <1>1, <1>2, <1>4, <1>6, <1>7 DEF Sound
<1>10. Alike(e, f)
  BY <1>2, <1>3, <1>6, <1>8, <1>9 DEF Alike
<1>11. Requeued(e, f)
  BY <1>2, <1>3, <1>4, <1>6 DEF Requeued, Kin
<1>12. QED  BY <1>10, <1>11

LEMMA BackRequeues ==
  ASSUME AInv, NEW p \in Procs, NEW i, BackToQueue(p, i)
  PROVE  /\ ev' = [ev EXCEPT ![p] = ev'[p]] /\ ev[p] # NoEvent
         /\ Alike(ev[p], ev'[p]) /\ Requeued(ev[p], ev'[p])
<1>1. PICK e, f : e = ev[p] /\ f = ev'[p]
  OBVIOUS
<1>2. e # NoEvent /\ Sound(e)
  BY <1>1 DEF BackToQueue, Due, NoEvent, AInv, Chained
<1>3. /\ ev' = [ev EXCEPT ![p] = [reqs |-> dated(e.reqs, {e.top}, Inf), top |-> i,
                                 wake |-> dated(e.reqs, {e.top}, Inf)[i].when]]
      /\ i \in min_requests(dated(e.reqs, {e.top}, Inf))
  BY <1>1 DEF BackToQueue
<1>4. f = [reqs |-> dated(e.reqs, {e.top}, Inf), top |-> i,
           wake |-> dated(e.reqs, {e.top}, Inf)[i].when]
  BY <1>1, <1>3 DEF AInv, TypeOK
<1>5. Alike(e, f) /\ Requeued(e, f)
  BY <1>2, <1>3, <1>4, Requeuing
<1>6. QED  BY <1>1, <1>2, <1>3, <1>4, <1>5

LEMMA BackKeeps ==
  ASSUME AInv, NEW p \in Procs, NEW i, BackToQueue(p, i)
  PROVE  AInv'
<1>1. /\ ev' = [ev EXCEPT ![p] = ev'[p]] /\ ev[p] # NoEvent
      /\ Alike(ev[p], ev'[p]) /\ Requeued(ev[p], ev'[p])
  BY BackRequeues
<1>2. PICK f : f = ev'[p]
  OBVIOUS
<1>3. Sound(f) /\ ev' = [ev EXCEPT ![p] = f]
  BY <1>1, <1>2 DEF Alike
<1>4. /\ ev' = [q \in Procs |-> ev'[q]]
      /\ \A q \in Procs \ {p} : ev'[q] = ev[q]
      /\ ev' \in [Procs -> Events]
      /\ \A q \in Procs : Len(ev'[q].reqs) <= MaxChain /\ ev'[q].top <= Len(ev'[q].reqs)
      /\ Chained'
  BY <1>3, OneTypes
<1>5. UNCHANGED <<time, alive, born, father, sig, tmin, cur, woke, pe, calls, dying, ended>> /\ pe = None
  BY DEF BackToQueue, Due
<1>6. TypeOK' /\ Idle'
  BY <1>4, <1>5 DEF AInv, TypeOK, Idle
<1>7. Dead'
  BY <1>1, <1>4, <1>5 DEF AInv, Dead, Alike
<1>8. Pressing'
  BY <1>5 DEF Pressing
<1>9. Listed'
  <2>1. ASSUME NEW q \in Procs, NEW j \in DOMAIN ev'[q].reqs
        PROVE  OnList(ev'[q].reqs[j], alive)
    <3>1. j \in DOMAIN ev[q].reqs /\ OnList(ev[q].reqs[j], alive)
      BY <1>1, <1>4 DEF Alike, AInv, Listed
    <3>2. PICK r, s : r = ev[q].reqs[j] /\ s = ev'[q].reqs[j]
      OBVIOUS
    <3>3. s.what = r.what /\ s.id = r.id /\ s.ai = r.ai /\ s.list = r.list
      BY <1>1, <1>4, <3>1, <3>2 DEF Alike, Same, Requeued, Kin
    <3>4. QED  BY <3>1, <3>2, <3>3 DEF OnList
  <2>2. QED  BY <1>5, <2>1 DEF Listed
<1>10. QED  BY <1>4, <1>6, <1>7, <1>8, <1>9 DEF AInv

\* The event that a process which waited for itself has right after its restart.
Renewed(e, f, now) ==
  \/ f = NoEvent
  \/ /\ Sound(f) /\ f # NoEvent /\ DOMAIN f.reqs = {1} /\ f.top = 1 /\ f.wake = now
     /\ f.reqs[1].when = now /\ f.reqs[1].list = "SW"
     /\ \E i \in DOMAIN e.reqs :
          e.reqs[i].list = "SW" /\ e.reqs[i].ai = f.reqs[1].ai /\ Same(e.reqs[i], f.reqs[1])

LEMMA Renewing ==
  ASSUME NEW e, Sound(e), NEW i \in DOMAIN e.reqs, e.reqs[i].list = "SW", NEW now \in 0 .. Inf,
         NEW f, f = [reqs |-> <<[e.reqs[i] EXCEPT !.when = now]>>, top |-> 1, wake |-> now]
  PROVE  Renewed(e, f, now)
<1> DEFINE s == [e.reqs[i] EXCEPT !.when = now]
<1>1. e.reqs[i] \in Requests
  BY DEF Sound, Events
<1>2. s \in Requests /\ s.when = now /\ s.list = "SW" /\ s.ai = e.reqs[i].ai /\ Same(e.reqs[i], s)
  BY <1>1 DEF Requests, Same
<1>3. f.reqs = <<s>> /\ f.top = 1 /\ f.wake = now
  OBVIOUS
<1> HIDE DEF s
<1>4. f.reqs \in Seq(Requests) /\ Len(f.reqs) = 1 /\ DOMAIN f.reqs = {1} /\ f.reqs[1] = s
  BY <1>2, <1>3
<1>5. f \in Events
  BY <1>3, <1>4, Constants DEF Events, s
<1>6. Sound(f) /\ f # NoEvent
  BY <1>3, <1>4, <1>5, Constants, NoEventSound DEF Sound
<1>7. QED  BY <1>2, <1>3, <1>4, <1>6 DEF Renewed

\* Restart of p, evs being the events after the signal was taken.
Restarted(p, e, evs, now) ==
  /\ ev' = [q \in Procs |-> ev'[q]]
  /\ \A q \in Procs \ {p} :
       /\ Alike(evs[q], ev'[q]) /\ Kin(evs[q], ev'[q]) /\ Stirred(evs[q], ev'[q], now)
       /\ Mute(evs[q], ev'[q])
  /\ Renewed(e, ev'[p], now)
  /\ tmin' \in 0 .. Inf /\ (ev'[p] # NoEvent => tmin' = now)

LEMMA Restarting ==
  ASSUME NEW p \in Procs, NEW e, Sound(e), e.wake \in 0 .. Inf, NEW r, NEW evs, AllSound(evs),
         NEW told, NEW flips, NEW own, Restart(p, e, r, evs, told, flips, own)
  PROVE  /\ Restarted(p, e, evs, e.wake)
         /\ time' = e.wake /\ cur' = p /\ calls' = 0 /\ woke' = [told EXCEPT !.pstate = r.pstate]
<1> DEFINE now == e.wake
           mine == entering(e, p, r.pstate)
           I == [q \in Procs |-> entering(evs[q], p, r.pstate)]
           rest == [q \in Procs |-> triggered(evs[q], I[q], now, flips[q])]
           again == [reqs |-> <<[e.reqs[own] EXCEPT !.when = now]>>, top |-> 1, wake |-> now]
<1>1. time' = now /\ cur' = p /\ calls' = 0 /\ woke' = [told EXCEPT !.pstate = r.pstate]
  BY DEF Restart
<1>2. \/ ev' = [rest EXCEPT ![p] = NoEvent] /\ tmin' = Inf
      \/ own \in mine /\ ev' = [rest EXCEPT ![p] = again] /\ tmin' = now
  BY DEF Restart
<1>3. Choice(evs, I)
  BY DEF Choice, entering, AllSound
<1>4. AllTriggered(evs, rest, I, now)
  <2>1. PICK J, F : J = I /\ F = rest
    OBVIOUS
  <2>2. F = [q \in Procs |-> triggered(evs[q], J[q], now, flips[q])] /\ Choice(evs, J)
    BY <2>1, <1>3
  <2>3. AllTriggered(evs, F, J, now)
    BY <2>2, TriggerAll
  <2>4. QED  BY <2>1, <2>3
<1>5. own \in mine => own \in DOMAIN e.reqs /\ e.reqs[own].list = "SW"
  BY DEF entering
<1>6. Renewed(e, NoEvent, now)
  BY DEF Renewed
<1>7. own \in mine => Renewed(e, again, now) /\ again # NoEvent
  <2>1. SUFFICES ASSUME own \in mine
                 PROVE  Renewed(e, again, now) /\ again # NoEvent
    OBVIOUS
  <2>2. PICK f : f = again
    OBVIOUS
  <2>3. Renewed(e, f, now)
    BY <1>5, <2>1, <2>2, Renewing
  <2>4. f.top = 1 /\ NoEvent.top = 0
    BY <2>2 DEF NoEvent
  <2>5. QED  BY <2>2, <2>3, <2>4
<1>8. \E g : /\ ev' = [rest EXCEPT ![p] = g] /\ Renewed(e, g, now)
             /\ tmin' \in 0 .. Inf /\ (g # NoEvent => tmin' = now)
  <2>1. CASE ev' = [rest EXCEPT ![p] = NoEvent] /\ tmin' = Inf
    <3>1. Inf \in 0 .. Inf
      BY Constants
    <3> HIDE DEF now, mine, I, rest, again
    <3>2. QED  BY <2>1, <3>1, <1>6
  <2>2. CASE own \in mine /\ ev' = [rest EXCEPT ![p] = again] /\ tmin' = now
    BY <2>2, <1>7
  <2>3. QED  BY <1>2, <2>1, <2>2
<1>9. rest = [q \in Procs |-> rest[q]]
  OBVIOUS
<1> HIDE DEF now, mine, I, rest, again
<1>10. PICK g : /\ ev' = [rest EXCEPT ![p] = g] /\ Renewed(e, g, now)
                /\ tmin' \in 0 .. Inf /\ (g # NoEvent => tmin' = now)
  BY <1>8
<1>11. ev' = [q \in Procs |-> ev'[q]] /\ ev'[p] = g /\ \A q \in Procs \ {p} : ev'[q] = rest[q]
  BY <1>9, <1>10
<1>12. Restarted(p, e, evs, now)
  BY <1>4, <1>10, <1>11 DEF Restarted, AllTriggered
<1>13. QED  BY <1>1, <1>12 DEF now

\* What the process is told when it is restarted by request r.
WokenBy(r) == woke'.id = r.id /\ woke'.what = r.what /\ woke'.when = r.when

\* Delivery of the event e of p to p.
Delivered(p, e) ==
  LET r == top(e)
  IN  /\ ev' = [q \in Procs |-> ev'[q]]
      /\ \A q \in Procs \ {p} :
           /\ Alike(ev[q], ev'[q]) /\ Kin(ev[q], ev'[q]) /\ Stirred(ev[q], ev'[q], e.wake)
           /\ Mute(ev[q], ev'[q])
           /\ r.id = "SIGNAL" => \A i \in clears(ev[q], r.ai) : ev'[q].reqs[i].when = e.wake
      /\ Renewed(e, ev'[p], e.wake)
      /\ tmin' \in 0 .. Inf /\ (ev'[p] # NoEvent => tmin' = e.wake)
      /\ time' = e.wake /\ cur' = p /\ calls' = 0
      /\ \/ r.id # "SIGNAL" /\ sig' = sig /\ ended' = ended /\ WokenBy(r)
         \/ r.id = "SIGNAL" /\ sig' = taken(r.ai) /\ ended' = ended /\ WokenBy(r)
         \/ r.id = "SIGNAL" /\ sig' = taken(r.ai) /\ ended' = "corrupt" /\ woke'.id = "CLEAR"

LEMMA Delivering ==
  ASSUME AInv, NEW p \in Procs, NEW e, Sound(e), e.wake \in 0 .. Inf, NEW flips, NEW own,
         Deliver(p, e, flips, own)
  PROVE  Delivered(p, e)
<1> DEFINE r == top(e)
           I == [q \in Procs |-> clears(ev[q], r.ai)]
           evs == [q \in Procs |-> triggered(ev[q], I[q], e.wake, flips[q])]
<1>1. AllSound(ev) /\ ev = [q \in Procs |-> ev[q]]
  BY DEF AInv, Chained, AllSound, TypeOK, Listed, OnList
<1>2. CASE r.id # "SIGNAL"
  <2>1. Restart(p, e, r, ev, Told(r), flips, own) /\ sig' = sig /\ ended' = ended
    BY <1>2 DEF Deliver
  <2>2. PICK E, t, R : E = ev /\ t = Told(r) /\ R = r
    OBVIOUS
  <2>3. /\ Restarted(p, e, E, e.wake)
        /\ time' = e.wake /\ cur' = p /\ calls' = 0 /\ woke' = [t EXCEPT !.pstate = R.pstate]
    BY <1>1, <2>1, <2>2, Restarting
  <2>4. WokenBy(r)
    BY <2>2, <2>3 DEF WokenBy, Told
  <2>5. QED  BY <1>2, <2>1, <2>2, <2>3, <2>4 DEF Restarted, Delivered
<1>3. CASE r.id = "SIGNAL"
  <2>1. Choice(ev, I)
    BY DEF Choice, clears, IsClear
  <2>2. AllTriggered(ev, evs, I, e.wake)
    <3>1. PICK E, J, F : E = ev /\ J = I /\ F = evs
      OBVIOUS
    <3>2. F = [q \in Procs |-> triggered(E[q], J[q], e.wake, flips[q])] /\ Choice(E, J) /\ AllSound(E)
      BY <1>1, <2>1, <3>1
    <3>3. AllTriggered(E, F, J, e.wake)
      BY <3>2, TriggerAll
    <3>4. QED  BY <3>1, <3>3
  <2>3. AllSound(evs)
    BY <1>1, <2>2 DEF AllTriggered, Alike, Kin, Same, AllSound
  <2>4. evs = [q \in Procs |-> triggered(ev[q], clears(ev[q], r.ai), e.wake, flips[q])]
    OBVIOUS
  <2>5. /\ sig' = taken(r.ai)
        /\ \/ /\ Restart(p, e, e.reqs[flips[p]], evs, [Told(r) EXCEPT !.id = "CLEAR"], flips, own)
              /\ ended' = "corrupt"
           \/ /\ Restart(p, e, r, evs, Told(r), flips, own) /\ ended' = ended
    BY <1>3, <2>4 DEF Deliver
  <2> HIDE DEF evs
  <2>6. \E R, t : /\ Restart(p, e, R, evs, t, flips, own)
                  /\ \/ ended' = "corrupt" /\ t = [Told(r) EXCEPT !.id = "CLEAR"]
                     \/ ended' = ended /\ t = Told(r) /\ R = r
    <3>1. CASE /\ Restart(p, e, e.reqs[flips[p]], evs, [Told(r) EXCEPT !.id = "CLEAR"], flips, own)
               /\ ended' = "corrupt"
      BY <3>1
    <3>2. CASE Restart(p, e, r, evs, Told(r), flips, own) /\ ended' = ended
      BY <3>2
    <3>3. QED  BY <2>5, <3>1, <3>2
  <2>7. PICK R, t : /\ Restart(p, e, R, evs, t, flips, own)
                    /\ \/ ended' = "corrupt" /\ t = [Told(r) EXCEPT !.id = "CLEAR"]
                       \/ ended' = ended /\ t = Told(r) /\ R = r
    BY <2>6
  <2>8. PICK E : E = evs
    OBVIOUS
  <2>9. /\ Restarted(p, e, E, e.wake)
        /\ time' = e.wake /\ cur' = p /\ calls' = 0 /\ woke' = [t EXCEPT !.pstate = R.pstate]
    BY <2>3, <2>7, <2>8, Restarting
  <2>10. \/ ended' = "corrupt" /\ woke'.id = "CLEAR"
         \/ ended' = ended /\ WokenBy(r)
    <3>1. CASE ended' = "corrupt" /\ t = [Told(r) EXCEPT !.id = "CLEAR"]
      BY <3>1, <2>9 DEF Told
    <3>2. CASE ended' = ended /\ t = Told(r) /\ R = r
      BY <3>2, <2>9 DEF Told, WokenBy
    <3>3. QED  BY <2>7, <3>1, <3>2
  <2>11. ASSUME NEW q \in Procs \ {p}
         PROVE  /\ Alike(ev[q], ev'[q]) /\ Kin(ev[q], ev'[q]) /\ Stirred(ev[q], ev'[q], e.wake)
                /\ Mute(ev[q], ev'[q])
                /\ \A i \in clears(ev[q], r.ai) : ev'[q].reqs[i].when = e.wake
    <3>1. PICK a, b, c : a = ev[q] /\ b = evs[q] /\ c = ev'[q]
      OBVIOUS
    <3>2. /\ Alike(a, b) /\ Kin(a, b) /\ Stirred(a, b, e.wake)
          /\ Retimed(a, b, clears(a, r.ai), e.wake) /\ Mute(a, b)
      BY <2>2, <3>1 DEF AllTriggered
    <3>3. Alike(b, c) /\ Kin(b, c) /\ Stirred(b, c, e.wake) /\ Mute(b, c)
      BY <2>8, <2>9, <3>1 DEF Restarted
    <3>4. Alike(a, c) /\ Kin(a, c) /\ Stirred(a, c, e.wake)
      BY <3>2, <3>3, StirredTwice
    <3>5. ASSUME NEW i \in clears(a, r.ai)
          PROVE  c.reqs[i].when = e.wake
      <4>1. i \in DOMAIN a.reqs /\ i \in DOMAIN b.reqs
        BY <3>2 DEF clears, Alike
      <4>2. b.reqs[i].when = e.wake
        BY <3>2, <3>5, <4>1 DEF Retimed
      <4>3. QED  BY <3>3, <4>1, <4>2 DEF Stirred, Touched
    <3>6. Mute(a, c)
      BY <3>2, <3>3 DEF Mute, Alike, Same
    <3>7. QED  BY <3>1, <3>4, <3>5, <3>6
  <2>12. /\ ev' = [q \in Procs |-> ev'[q]] /\ Renewed(e, ev'[p], e.wake)
         /\ tmin' \in 0 .. Inf /\ (ev'[p] # NoEvent => tmin' = e.wake)
    BY <2>9 DEF Restarted
  <2>13. QED  BY <1>3, <2>5, <2>9, <2>10, <2>11, <2>12 DEF Delivered
<1>4. QED  BY <1>2, <1>3

\* The event that the main loop delivers: one that is due first, or the priority event,
\* which shows its request.
Regular(p, e) ==
  /\ pe = None /\ e = ev[p] /\ \A q \in Procs : e.wake <= ev[q].wake
  /\ top(e).id = "SIGNAL" => sigOf(top(e).ai) # None

Priority(p, e) ==
  /\ Urgent(p, e.top) /\ pe \notin {None, Gone} /\ e.wake = time
  /\ top(e).when = time /\ top(e).id = "SIGNAL" /\ sigOf(top(e).ai) # None

Chosen(p, e) ==
  /\ p \in alive /\ e.reqs = ev[p].reqs /\ Sound(e) /\ e.top \in DOMAIN e.reqs
  /\ e.wake \in 0 .. Horizon /\ AtLoop
  /\ Regular(p, e) \/ Priority(p, e)
  /\ Delivered(p, e)
  /\ pe' = None /\ UNCHANGED <<alive, born, father, dying>>

LEMMA DispatchChooses ==
  ASSUME AInv, NEW p \in Procs, NEW flips, NEW own, Dispatch(p, flips, own)
  PROVE  \E e : Chosen(p, e)
<1>1. PICK e : e = ev[p]
  OBVIOUS
<1>2. Sound(e) /\ e.wake # Inf
  BY <1>1 DEF Dispatch, Due, AInv, Chained
<1>3. e.wake \in 0 .. Horizon
  BY <1>2, Constants DEF Sound, Events
<1>4. e # NoEvent /\ e.top \in DOMAIN e.reqs
  BY <1>2 DEF NoEvent, Sound
<1>5. p \in alive
  BY <1>1, <1>4 DEF AInv, Dead
<1>6. /\ AtLoop /\ pe = None /\ \A q \in Procs : e.wake <= ev[q].wake
      /\ top(e).id = "SIGNAL" => sigOf(top(e).ai) # None
      /\ Deliver(p, e, flips, own) /\ UNCHANGED <<alive, born, father, pe, dying>>
  BY <1>1 DEF Dispatch, Due
<1>7. Delivered(p, e)
  <2>1. e.wake \in 0 .. Inf
    BY <1>3, Constants
  <2>2. QED  BY <1>2, <1>6, <2>1, Delivering
<1>8. Chosen(p, e)
  BY <1>1, <1>2, <1>3, <1>4, <1>5, <1>6, <1>7 DEF Chosen, Regular
<1>9. QED  BY <1>8

LEMMA PriorityChooses ==
  ASSUME AInv, NEW flips, NEW own, DispatchPriority(flips, own)
  PROVE  \E p \in Procs : \E e : Chosen(p, e)
<1>1. AtLoop /\ pe \notin {None, Gone} /\ pe' = None /\ UNCHANGED <<alive, born, father, dying>>
  BY DEF DispatchPriority
<1>2. PICK p \in Procs : \E i \in DOMAIN ev[p].reqs :
        Urgent(p, i) /\ ev[p].reqs[i].when = time /\ ev[p].reqs[i].id = "SIGNAL"
  BY <1>1 DEF AInv, Pressing
<1>3. PICK i \in DOMAIN ev[p].reqs :
        Urgent(p, i) /\ ev[p].reqs[i].when = time /\ ev[p].reqs[i].id = "SIGNAL"
  BY <1>2
<1>4. PICK e : e = shown(ev[p], i)
  OBVIOUS
<1>5. e.reqs = ev[p].reqs /\ e.top = i /\ e.wake = time /\ top(e) = ev[p].reqs[i]
  BY <1>3, <1>4 DEF shown, top
<1>6. pe.proc = p /\ pe.idx = i
  BY <1>3 DEF Urgent
<1>7. Deliver(p, e, flips, own) /\ sigOf(top(e).ai) # None
  BY <1>4, <1>6 DEF DispatchPriority
<1>8. p \in alive
  BY <1>3, NoEventSound DEF AInv, Dead
<1>9. e \in Events /\ time \in 0 .. Horizon /\ time \in 0 .. Inf
  <2>1. ev[p] \in Events /\ time \in 0 .. Horizon /\ Len(ev[p].reqs) <= MaxChain
    BY DEF AInv, TypeOK
  <2>2. ev[p].reqs \in Seq(Requests) /\ i \in 0 .. MaxChain
    BY <2>1, Constants DEF Events
  <2>3. e = [reqs |-> ev[p].reqs, top |-> i, wake |-> time]
    BY <1>3, <1>4 DEF shown
  <2>4. QED  BY <2>1, <2>2, <2>3, Constants DEF Events
<1>10. Sound(e)
  BY <1>3, <1>5, <1>9 DEF Sound, AInv, TypeOK
<1>11. Delivered(p, e)
  BY <1>5, <1>7, <1>9, <1>10, Delivering
<1>12. Priority(p, e)
  BY <1>1, <1>3, <1>5, <1>7 DEF Priority
<1>13. Chosen(p, e)
  BY <1>1, <1>5, <1>8, <1>9, <1>10, <1>11, <1>12 DEF Chosen
<1>14. QED  BY <1>13

LEMMA ChosenKeeps ==
  ASSUME AInv, NEW p \in Procs, NEW e, Chosen(p, e)
  PROVE  AInv'
<1>1. /\ p \in alive /\ e.reqs = ev[p].reqs /\ Sound(e) /\ e.top \in DOMAIN e.reqs
      /\ e.wake \in 0 .. Horizon /\ pe' = None /\ UNCHANGED <<alive, born, father, dying>>
  BY DEF Chosen
<1>2. PICK r : r = top(e)
  OBVIOUS
<1>3. r \in Requests
  BY <1>1, <1>2 DEF top, Sound, Events
<1>4. /\ ev' = [q \in Procs |-> ev'[q]]
      /\ \A q \in Procs \ {p} :
           Alike(ev[q], ev'[q]) /\ Kin(ev[q], ev'[q]) /\ Stirred(ev[q], ev'[q], e.wake)
      /\ Renewed(e, ev'[p], e.wake) /\ tmin' \in 0 .. Inf
      /\ time' = e.wake /\ cur' = p /\ calls' = 0
  BY DEF Chosen, Delivered
<1>5. /\ sig' = sig \/ sig' = taken(r.ai)
      /\ ended' = ended \/ ended' = "corrupt"
      /\ WokenBy(r) \/ woke'.id = "CLEAR"
  BY <1>2 DEF Chosen, Delivered
<1>6. \A q \in Procs : Sound(ev'[q])
  BY <1>4, NoEventSound DEF Alike, Renewed
<1>7. PICK E : E = ev'
  OBVIOUS
<1>8. E \in [Procs -> Events] /\ \A q \in Procs : Len(E[q].reqs) <= MaxChain /\ E[q].top <= Len(E[q].reqs)
  BY <1>4, <1>6, <1>7, EventsTyped
<1>9. TypeOK'
  <2>1. sig' \in [Procs -> [sender : Procs, spec : Specs] \cup {None}]
    BY <1>5 DEF AInv, TypeOK, taken
  <2>2. ended' \in {"no", "over", "lost", "corrupt"}
    BY <1>5 DEF AInv, TypeOK
  <2>3. woke'.id \in Ids
    BY <1>3, <1>5 DEF WokenBy, Requests, Ids
  <2>4. calls' \in 0 .. MaxCalls
    BY <1>4, Constants
  <2>5. QED  BY <1>1, <1>4, <1>7, <1>8, <2>1, <2>2, <2>3, <2>4 DEF AInv, TypeOK
<1>10. Chained'
  BY <1>6 DEF Chained
<1>11. Dead'
  BY <1>1, <1>4 DEF AInv, Dead, Alike
<1>12. Idle' /\ Pressing'
  BY <1>1, <1>4, Constants DEF Idle, Pressing, AInv, TypeOK
<1>13. Listed'
  <2>1. ASSUME NEW q \in Procs, NEW i \in DOMAIN ev'[q].reqs
        PROVE  OnList(ev'[q].reqs[i], alive)
    <3>1. CASE q # p
      <4>1. i \in DOMAIN ev[q].reqs /\ OnList(ev[q].reqs[i], alive)
        BY <1>4, <3>1 DEF Alike, AInv, Listed
      <4>2. PICK x, s : x = ev[q].reqs[i] /\ s = ev'[q].reqs[i]
        OBVIOUS
      <4>3. s.what = x.what /\ s.id = x.id /\ s.ai = x.ai /\ s.list = x.list
        BY <1>4, <3>1, <4>1, <4>2 DEF Alike, Same, Kin
      <4>4. QED  BY <4>1, <4>2, <4>3 DEF OnList
    <3>2. CASE q = p
      <4>1. ev'[p] # NoEvent
        BY <3>2, NoEventSound
      <4>2. PICK j \in DOMAIN e.reqs :
              /\ e.reqs[j].list = "SW" /\ e.reqs[j].ai = ev'[p].reqs[1].ai
              /\ Same(e.reqs[j], ev'[p].reqs[1])
        BY <1>4, <4>1 DEF Renewed
      <4>3. i = 1 /\ ev'[p].reqs[1].list = "SW"
        BY <1>4, <3>2, <4>1 DEF Renewed
      <4>4. OnList(e.reqs[j], alive)
        BY <1>1 DEF AInv, Listed
      <4>5. PICK x, s : x = e.reqs[j] /\ s = ev'[p].reqs[1]
        OBVIOUS
      <4>6. s.what = x.what /\ s.id = x.id /\ s.ai = x.ai /\ s.list = x.list
        BY <4>2, <4>3, <4>5 DEF Same
      <4>7. QED  BY <3>2, <4>3, <4>4, <4>5, <4>6 DEF OnList
    <3>3. QED  BY <3>1, <3>2
  <2>2. QED  BY <1>1, <2>1 DEF Listed
<1>14. QED  BY <1>9, <1>10, <1>11, <1>12, <1>13 DEF AInv

-----------------------------------------------------------------------------
(* All steps                                                                *)

\* Every step is of one of these kinds.
LEMMA Steps ==
  ASSUME AInv, [Next]_vars
  PROVE  \/ Waiting \/ Unwait \/ Quiet \/ UNCHANGED vars
         \/ \E x \in alive, spec \in Specs : SignalP(x, spec)
         \/ \E x \in alive, flips \in FLIPs, spec \in Specs : Signal(x, spec, flips)
         \/ \E x \in alive, flips \in FLIPs : Erase(x, flips)
         \/ \E p \in Procs : Create(p)
         \/ \E p \in Procs : Ending(p)
         \/ \E p \in Procs : \E e : Chosen(p, e)
         \/ \E p \in Procs, i \in 1 .. MaxChain : BackToQueue(p, i)
         \/ \E flips \in FLIPs : NoEvents(flips)
<1>1. alive \subseteq Procs /\ Root \in Procs
  BY Constants DEF AInv, TypeOK
<1>2. ASSUME NEW flips, NEW p \in Procs,
             Kill(p, flips) \/ Exit(flips) \/ ImplicitTerminate(flips) \/ Perish(p)
      PROVE  \E x \in Procs : Ending(x)
  BY <1>2, Endings
<1>3. CASE Acting
  <2>1. CASE \E x \in alive, flips \in FLIPs : Kill(x, flips)
    BY <1>1, <1>2, <2>1
  <2>2. CASE \E flips \in FLIPs : Exit(flips) \/ ImplicitTerminate(flips)
    BY <1>1, <1>2, <2>2
  <2>3. CASE \E p \in Procs : Perish(p)
    BY <1>2, <2>3
  <2>4. QED  BY <1>3, <2>1, <2>2, <2>3 DEF Acting, Quiet
<1>4. CASE Looping
  <2>1. CASE \E flips \in FLIPs, own \in 0 .. MaxChain : DispatchPriority(flips, own)
    BY <2>1, PriorityChooses
  <2>2. CASE \E flips \in FLIPs, own \in 0 .. MaxChain, p \in Procs : Dispatch(p, flips, own)
    BY <2>2, DispatchChooses
  <2>3. QED  BY <1>4, <2>1, <2>2 DEF Looping, Quiet
<1>5. QED  BY <1>3, <1>4 DEF Next

LEMMA AInvNext == AInv /\ [Next]_vars => AInv'
<1> SUFFICES ASSUME AInv, [Next]_vars
             PROVE  AInv'
  OBVIOUS
<1>1. CASE Waiting
  BY <1>1, WaitingKeeps
<1>2. CASE Unwait
  BY <1>2, UnwaitKeeps
<1>3. CASE Quiet \/ UNCHANGED vars
  BY <1>3, QuietKeeps
<1>4. ASSUME NEW x \in alive, NEW spec \in Specs, SignalP(x, spec)
      PROVE  AInv'
  BY <1>4, SignalPKeeps
<1>5. ASSUME NEW x \in alive, NEW flips \in FLIPs, NEW spec \in Specs, Signal(x, spec, flips)
      PROVE  AInv'
  BY <1>5, SignalKeeps
<1>6. ASSUME NEW x \in alive, NEW flips \in FLIPs, Erase(x, flips)
      PROVE  AInv'
  BY <1>6, EraseKeeps
<1>7. ASSUME NEW p \in Procs, Create(p)
      PROVE  AInv'
  BY <1>7, CreateKeeps
<1>8. ASSUME NEW p \in Procs, Ending(p)
      PROVE  AInv'
  BY <1>8, EndingKeeps
<1>9. ASSUME NEW p \in Procs, NEW e, Chosen(p, e)
      PROVE  AInv'
  BY <1>9, ChosenKeeps
<1>10. ASSUME NEW p \in Procs, NEW i \in 1 .. MaxChain, BackToQueue(p, i)
       PROVE  AInv'
  BY <1>10, BackKeeps
<1>11. ASSUME NEW flips \in FLIPs, NoEvents(flips)
       PROVE  AInv'
  BY <1>11, NoEventsKeeps
<1>12. QED
  BY <1>1, <1>2, <1>3, <1>4, <1>5, <1>6, <1>7, <1>8, <1>9, <1>10, <1>11, Steps

LEMMA AInvInit == Init => AInv
<1> SUFFICES ASSUME Init
             PROVE  AInv
  OBVIOUS
<1>1. \A q \in Procs : ev[q] = NoEvent
  BY DEF Init
<1>2. Chained /\ Dead /\ Listed
  BY <1>1, NoEventSound DEF Chained, Dead, Listed
<1>3. Idle /\ Pressing
  BY DEF Init, Idle, Pressing
<1>4. NoEvent \in Events /\ Len(NoEvent.reqs) = 0 /\ NoEvent.top = 0
  BY NoEventSound DEF Sound, NoEvent
<1>5. TypeOK
  BY <1>4, Constants DEF Init, TypeOK, NoWake, Ids
<1>6. QED  BY <1>2, <1>3, <1>5 DEF AInv

LEMMA Always == Spec => []AInv
<1>1. Spec => Init /\ [][Next]_vars
  BY DEF Spec
<1>2. QED  BY <1>1, AInvInit, AInvNext, PTL

\* The state of the kernel keeps its type, whatever the processes do: in particular the
\* events always show one of their own requests (ZZ_EVENT::chain and new_top_request).
THEOREM Typing == Spec => []TypeOK
<1>1. AInv => TypeOK
  BY DEF AInv
<1>2. QED  BY <1>1, Always, PTL

-----------------------------------------------------------------------------
(* Each event shows its earliest request                                    *)

\* Request x is exempt: the one that signalP made due behind the back of the event.
Upright(e, x, now) ==
  /\ now <= e.wake
  /\ \A i \in DOMAIN e.reqs :
       /\ now <= e.reqs[i].when
       /\ i # x => e.wake <= e.reqs[i].when /\ (i = e.top => e.wake = e.reqs[i].when)

exempt(q) == IF pe # None /\ pe.proc = q THEN pe.idx ELSE 0

Ordered == \A q \in Procs : Upright(ev[q], exempt(q), time)

LEMMA Numbers ==
  ASSUME NEW e, Sound(e)
  PROVE  e.wake \in Nat /\ e.top \in Nat /\ \A i \in DOMAIN e.reqs : e.reqs[i].when \in Nat /\ i \in Nat
<1>1. e.reqs \in Seq(Requests) /\ e.wake \in 0 .. Inf /\ e.top \in 0 .. MaxChain
  BY DEF Sound, Events
<1>2. \A i \in DOMAIN e.reqs : e.reqs[i] \in Requests /\ i \in Nat
  BY <1>1
<1>3. QED  BY <1>1, <1>2, Constants DEF Requests

LEMMA UprightStirred ==
  ASSUME NEW e, Sound(e), NEW f, NEW x, NEW now \in Nat, Upright(e, x, now),
         Alike(e, f), Stirred(e, f, now)
  PROVE  Upright(f, x, now)
<1>1. /\ DOMAIN f.reqs = DOMAIN e.reqs /\ Sound(f)
      /\ e.wake \in Nat /\ f.wake \in Nat
      /\ \A i \in DOMAIN e.reqs : e.reqs[i].when \in Nat /\ f.reqs[i].when \in Nat
  BY Numbers DEF Alike
<1>2. \A i \in DOMAIN e.reqs : now <= f.reqs[i].when
  BY <1>1 DEF Stirred, Touched, Upright
<1>3. CASE Unmoved(e, f)
  BY <1>1, <1>3 DEF Unmoved, Upright
<1>4. CASE Stays(e, f, now)
  <2>1. f.wake = now /\ e.wake = now /\ f.top = e.top
    BY <1>1, <1>4 DEF Stays, Upright
  <2>2. ASSUME NEW i \in DOMAIN f.reqs, i # x, i = f.top
        PROVE  f.wake = f.reqs[i].when
    <3>1. e.reqs[i].when = now
      BY <1>1, <2>1, <2>2 DEF Upright
    <3>2. QED  BY <1>1, <2>1, <3>1 DEF Stirred, Touched
  <2>3. QED  BY <1>1, <1>2, <2>1, <2>2 DEF Upright
<1>5. CASE Turns(e, f, now)
  BY <1>1, <1>2, <1>5 DEF Turns, Upright
<1>6. QED  BY <1>3, <1>4, <1>5 DEF Stirred

\* Time advances to the first event.
LEMMA UprightLater ==
  ASSUME NEW e, Sound(e), NEW now \in Nat, NEW later \in Nat, Upright(e, 0, now), later <= e.wake
  PROVE  Upright(e, 0, later)
<1>1. e.wake \in Nat /\ \A i \in DOMAIN e.reqs : e.reqs[i].when \in Nat /\ i # 0
  <2>1. e.reqs \in Seq(Requests)
    BY DEF Sound, Events
  <2>2. QED  BY <2>1, Numbers
<1>2. QED  BY <1>1 DEF Upright

LEMMA UprightNone == ASSUME NEW x, NEW now \in 0 .. Inf PROVE Upright(NoEvent, x, now)
BY Constants, NoEventSound DEF Upright, NoEvent

\* What the event of the running process shows.
CurMin == cur # None /\ ev[cur] # NoEvent => ev[cur].wake = tmin

\* Station::terminate is called before any wait.
Bare == dying # {} /\ cur # None => ev[cur] = NoEvent

\* Whether the new request takes over the event.
TakesOver(e, f, r) ==
  /\ f.top = Len(e.reqs) + 1 /\ tmin' = r.when
  /\ e = NoEvent \/ r.when <= tmin
  /\ f.wake = r.when \/ (f.wake = e.wake /\ tmin = r.when /\ r.when # Inf /\ e # NoEvent)

Holds(e, f, r) ==
  /\ e # NoEvent /\ tmin <= r.when /\ f.top = e.top /\ f.wake = e.wake /\ tmin' = tmin

LEMMA AddingTakes ==
  ASSUME AInv, cur \in alive, NEW r, NEW flip, Fresh(r), AddRequest(r, flip)
  PROVE  TakesOver(ev[cur], ev'[cur], r) \/ Holds(ev[cur], ev'[cur], r)
<1> DEFINE takes == \/ FirstWait
                    \/ tmin > r.when
                    \/ tmin = r.when /\ r.when # Inf /\ flip
           w == IF takes /\ ~(r.ai = Timer /\ tmin = r.when /\ ~FirstWait)
                THEN r.when ELSE ev[cur].wake
           g == [reqs |-> Append(ev[cur].reqs, r),
                 top  |-> IF takes THEN Len(ev[cur].reqs) + 1 ELSE ev[cur].top,
                 wake |-> w]
<1>1. cur \in Procs /\ ev \in [Procs -> Events] /\ r \in Requests
      /\ tmin \in Nat /\ r.when \in Nat
  BY Constants DEF AInv, TypeOK, Fresh, Requests
<1>2. ev' = [ev EXCEPT ![cur] = g] /\ tmin' = IF takes THEN r.when ELSE tmin
  BY DEF AddRequest
<1>3. ev'[cur] = g
  BY <1>1, <1>2
<1>4. g.top = (IF takes THEN Len(ev[cur].reqs) + 1 ELSE ev[cur].top) /\ g.wake = w
  OBVIOUS
<1> HIDE DEF g
<1>5. CASE takes
  <2>1. g.top = Len(ev[cur].reqs) + 1 /\ tmin' = r.when
    BY <1>2, <1>4, <1>5
  <2>2. ev[cur] = NoEvent \/ r.when <= tmin
    BY <1>1, <1>5 DEF FirstWait
  <2>3. g.wake = r.when \/ (g.wake = ev[cur].wake /\ tmin = r.when /\ r.when # Inf /\ ev[cur] # NoEvent)
    BY <1>1, <1>4, <1>5 DEF FirstWait
  <2>4. QED  BY <1>3, <2>1, <2>2, <2>3 DEF TakesOver
<1>6. CASE ~ takes
  <2>1. g.top = ev[cur].top /\ tmin' = tmin /\ g.wake = ev[cur].wake
    BY <1>2, <1>4, <1>6
  <2>2. ev[cur] # NoEvent
    BY <1>6 DEF FirstWait
  <2>3. tmin <= r.when
    BY <1>1, <1>6
  <2>4. QED  BY <1>3, <2>1, <2>2, <2>3 DEF Holds
<1>7. QED  BY <1>5, <1>6

LEMMA UprightAdded ==
  ASSUME AInv, NEW e, NEW f, NEW r, NEW x, Sound(e), r \in Requests, time <= r.when,
         Extended(e, f, r), TakesOver(e, f, r) \/ Holds(e, f, r),
         Upright(e, x, time), e # NoEvent => e.wake = tmin
  PROVE  Upright(f, x, time) /\ f.wake = tmin'
<1> DEFINE n == Len(e.reqs) + 1
<1>1. /\ DOMAIN f.reqs = 1 .. n /\ DOMAIN e.reqs = 1 .. Len(e.reqs) /\ Len(e.reqs) \in Nat
      /\ f.reqs[n] = r /\ (\A i \in DOMAIN e.reqs : f.reqs[i] = e.reqs[i])
      /\ e = NoEvent \/ e.top \in 1 .. Len(e.reqs)
  BY DEF Extended, Sound
<1>2. /\ time \in Nat /\ tmin \in Nat /\ r.when \in Nat /\ e.wake \in Nat
      /\ \A i \in 1 .. Len(e.reqs) : e.reqs[i].when \in Nat
  BY <1>1, Numbers, Constants DEF AInv, TypeOK, Requests
<1>3. \A i \in 1 .. Len(e.reqs) :
        /\ time <= e.reqs[i].when
        /\ i # x => e.wake <= e.reqs[i].when /\ (i = e.top => e.wake = e.reqs[i].when)
  BY <1>1 DEF Upright
<1>4. f.wake = tmin' /\ time <= f.wake
  BY <1>2 DEF TakesOver, Holds, Upright
<1>5. ASSUME NEW i \in DOMAIN f.reqs
      PROVE  time <= f.reqs[i].when
  <2>1. CASE i = n
    BY <1>1, <2>1
  <2>2. CASE i \in 1 .. Len(e.reqs)
    BY <1>1, <1>3, <2>2
  <2>3. QED  BY <1>1, <2>1, <2>2
<1>6. ASSUME NEW i \in DOMAIN f.reqs, i # x
      PROVE  f.wake <= f.reqs[i].when
  <2>1. CASE i = n
    BY <1>1, <1>2, <2>1 DEF TakesOver, Holds
  <2>2. CASE i \in 1 .. Len(e.reqs)
    <3>1. e # NoEvent
      BY <1>1, <2>2, NoEventSound
    <3>2. f.wake <= e.wake
      BY <1>2, <3>1 DEF TakesOver, Holds
    <3>3. f.wake \in Nat
      BY <1>2, <3>1 DEF TakesOver, Holds
    <3>4. QED  BY <1>1, <1>2, <1>3, <1>6, <2>2, <3>2, <3>3
  <2>3. QED  BY <1>1, <2>1, <2>2
<1>7. ASSUME NEW i \in DOMAIN f.reqs, i # x, i = f.top
      PROVE  f.wake = f.reqs[i].when
  <2>1. CASE TakesOver(e, f, r)
    <3>1. f.reqs[i] = r
      BY <1>1, <1>7, <2>1 DEF TakesOver
    <3>2. QED  BY <2>1, <3>1 DEF TakesOver
  <2>2. CASE Holds(e, f, r)
    <3>1. i = e.top /\ i \in 1 .. Len(e.reqs)
      BY <1>1, <1>7, <2>2 DEF Holds
    <3>2. QED  BY <1>1, <1>3, <1>7, <2>2, <3>1 DEF Holds
  <2>3. QED  BY <2>1, <2>2
<1>8. QED  BY <1>4, <1>5, <1>6, <1>7 DEF Upright

LEMMA ExemptTypes ==
  ASSUME AInv
  PROVE  /\ \A q \in Procs : pe = None \/ pe = Gone => exempt(q) = 0
         /\ pe # None => pe.proc \in Procs \cup {None} /\ pe.idx \in Nat
BY Constants DEF AInv, TypeOK, exempt, Gone

LEMMA StirOrders ==
  ASSUME AInv, Ordered, EventsStir(time), UNCHANGED <<time, pe>>
  PROVE  Ordered'
<1>1. ASSUME NEW q \in Procs
      PROVE  Upright(ev'[q], exempt(q)', time')
  <2>1. PICK e, f, x, t : e = ev[q] /\ f = ev'[q] /\ x = exempt(q) /\ t = time
    OBVIOUS
  <2>2. Sound(e) /\ t \in Nat /\ Upright(e, x, t) /\ Alike(e, f) /\ Stirred(e, f, t)
    BY <2>1, Constants DEF AInv, TypeOK, Chained, Ordered, EventsStir
  <2>3. Upright(f, x, t)
    BY <2>2, UprightStirred
  <2>4. exempt(q)' = x
    BY <2>1 DEF exempt
  <2>5. QED  BY <2>1, <2>3, <2>4
<1>2. QED  BY <1>1 DEF Ordered

LEMMA UprightRenewed ==
  ASSUME NEW e, NEW f, NEW now \in 0 .. Inf, Renewed(e, f, now)
  PROVE  Upright(f, 0, now)
<1>1. CASE f = NoEvent
  BY <1>1, UprightNone
<1>2. CASE f # NoEvent
  BY <1>2, Constants DEF Renewed, Upright
<1>3. QED  BY <1>1, <1>2

\* The event that is delivered shows a request that is due.
LEMMA ChosenOrders ==
  ASSUME AInv, Ordered, NEW p \in Procs, NEW e, Chosen(p, e)
  PROVE  /\ Ordered' /\ top(e).when = e.wake /\ time <= e.wake
         /\ \A q \in Procs \ {p} : e.wake <= ev[q].wake \/ e.wake = time
         /\ \A q \in Procs \ {p} : exempt(q) = 0
<1>1. /\ e.reqs = ev[p].reqs /\ Sound(e) /\ e.top \in DOMAIN e.reqs /\ pe' = None
      /\ Regular(p, e) \/ Priority(p, e)
      /\ \A q \in Procs \ {p} : Alike(ev[q], ev'[q]) /\ Stirred(ev[q], ev'[q], e.wake)
      /\ Renewed(e, ev'[p], e.wake) /\ time' = e.wake
      /\ e.wake \in Nat /\ time \in Nat /\ e.wake \in 0 .. Inf
  BY Constants DEF Chosen, Delivered, AInv, TypeOK
<1>2. \A q \in Procs \ {p} : exempt(q) = 0
  BY <1>1 DEF Regular, Priority, Urgent, exempt
<1>3. \A q \in Procs : exempt(q)' = 0
  BY <1>1 DEF exempt
<1>4. e.top # 0
  BY <1>1 DEF Sound, Events
<1>5. top(e).when = e.wake /\ time <= e.wake
  <2>1. CASE Regular(p, e)
    <3>1. exempt(p) = 0 /\ e = ev[p]
      BY <2>1 DEF Regular, exempt
    <3>2. Upright(e, 0, time)
      BY <3>1 DEF Ordered
    <3>3. QED  BY <1>1, <1>4, <3>2 DEF Upright, top
  <2>2. CASE Priority(p, e)
    BY <1>1, <2>2 DEF Priority
  <2>3. QED  BY <1>1, <2>1, <2>2
<1>6. \A q \in Procs \ {p} : e.wake <= ev[q].wake \/ e.wake = time
  BY <1>1 DEF Regular, Priority
<1>7. ASSUME NEW q \in Procs
      PROVE  Upright(ev'[q], 0, e.wake)
  <2>1. CASE q = p
    BY <2>1, <1>1, UprightRenewed
  <2>2. CASE q # p
    <3>1. PICK a, b, t, w : a = ev[q] /\ b = ev'[q] /\ t = time /\ w = e.wake
      OBVIOUS
    <3>2. /\ Sound(a) /\ Upright(a, 0, t) /\ Alike(a, b) /\ Stirred(a, b, w)
          /\ t \in Nat /\ w \in Nat /\ (w <= a.wake \/ w = t)
      BY <1>1, <1>2, <1>6, <2>2, <3>1 DEF AInv, Chained, Ordered
    <3>3. Upright(a, 0, w)
      BY <3>2, UprightLater
    <3>4. Upright(b, 0, w)
      BY <3>2, <3>3, UprightStirred
    <3>5. QED  BY <3>1, <3>4
  <2>3. QED  BY <2>1, <2>2
<1>8. Ordered'
  BY <1>1, <1>3, <1>7 DEF Ordered
<1>9. QED  BY <1>2, <1>5, <1>6, <1>8

LEMMA WaitingOrders ==
  ASSUME AInv, Ordered, CurMin, Waiting
  PROVE  Ordered' /\ CurMin'
<1>1. ended = "no" /\ cur \in alive /\ dying = {} /\ calls' \in 0 .. MaxCalls
  BY WaitingAdds
<1>2. PICK r, flip : Fresh(r) /\ AddRequest(r, flip)
  BY WaitingAdds
<1>3. /\ ev' = [ev EXCEPT ![cur] = ev'[cur]] /\ Extended(ev[cur], ev'[cur], r)
      /\ TakesOver(ev[cur], ev'[cur], r) \/ Holds(ev[cur], ev'[cur], r)
  BY <1>1, <1>2, AddingExtends, AddingTakes
<1>4. cur \in Procs /\ cur # None /\ ev \in [Procs -> Events]
  BY <1>1, Constants DEF AInv, TypeOK
<1>5. \A q \in Procs \ {cur} : ev'[q] = ev[q]
  BY <1>3, <1>4
<1>6. UNCHANGED <<time, cur, pe>>
  BY <1>2 DEF AddRequest
<1>7. Upright(ev'[cur], exempt(cur), time) /\ ev'[cur].wake = tmin'
  <2>1. PICK e, f, x : e = ev[cur] /\ f = ev'[cur] /\ x = exempt(cur)
    OBVIOUS
  <2>2. /\ Sound(e) /\ r \in Requests /\ time <= r.when /\ Extended(e, f, r)
        /\ TakesOver(e, f, r) \/ Holds(e, f, r)
        /\ Upright(e, x, time) /\ (e # NoEvent => e.wake = tmin)
    BY <1>2, <1>3, <1>4, <2>1 DEF AInv, Chained, Fresh, Ordered, CurMin
  <2>3. QED  BY <2>1, <2>2, UprightAdded
<1>8. \A q \in Procs : exempt(q)' = exempt(q)
  BY <1>6 DEF exempt
<1>9. Ordered'
  BY <1>5, <1>6, <1>7, <1>8 DEF Ordered
<1>10. QED  BY <1>6, <1>7, <1>9 DEF CurMin

LEMMA SignalPOrders ==
  ASSUME AInv, Ordered, NEW x, NEW spec, SignalP(x, spec)
  PROVE  Ordered'
<1>1. pe = None /\ time' = time
  BY DEF SignalP
<1>2. PICK p \in Procs : \E i \in DOMAIN ev[p].reqs :
           /\ pe' = [proc |-> p, idx |-> i]
           /\ ev' = [ev EXCEPT ![p] = ev'[p]]
           /\ Alike(ev[p], ev'[p]) /\ Prompted(ev[p], ev'[p], i, time)
  BY SignalPPrompts
<1>3. PICK i \in DOMAIN ev[p].reqs :
           /\ pe' = [proc |-> p, idx |-> i]
           /\ ev' = [ev EXCEPT ![p] = ev'[p]]
           /\ Alike(ev[p], ev'[p]) /\ Prompted(ev[p], ev'[p], i, time)
  BY <1>2
<1>4. \A q \in Procs \ {p} : ev'[q] = ev[q]
  BY <1>3 DEF AInv, TypeOK
<1>5. \A q \in Procs : exempt(q) = 0
  BY <1>1 DEF exempt
<1>6. exempt(p)' = i /\ \A q \in Procs \ {p} : exempt(q)' = 0
  BY <1>3, Constants DEF exempt, AInv, TypeOK
<1>7. Upright(ev'[p], i, time)
  <2>1. PICK e, f, t : e = ev[p] /\ f = ev'[p] /\ t = time
    OBVIOUS
  <2>2. /\ Sound(e) /\ t \in Nat /\ Upright(e, 0, t) /\ Alike(e, f) /\ Prompted(e, f, i, t)
        /\ i \in DOMAIN e.reqs
    BY <1>3, <1>5, <2>1 DEF AInv, TypeOK, Chained, Ordered
  <2>3. \A j \in DOMAIN e.reqs : j # 0 /\ e.reqs[j].when \in Nat
    BY <2>2, Numbers DEF Sound, Events
  <2>4. Upright(f, i, t)
    BY <2>2, <2>3 DEF Upright, Alike, Prompted
  <2>5. QED  BY <2>1, <2>4
<1>8. QED  BY <1>1, <1>4, <1>5, <1>6, <1>7 DEF Ordered

LEMMA BackOrders ==
  ASSUME AInv, Ordered, NEW p \in Procs, NEW i, BackToQueue(p, i)
  PROVE  Ordered'
<1>1. /\ ev' = [ev EXCEPT ![p] = ev'[p]] /\ Alike(ev[p], ev'[p]) /\ Requeued(ev[p], ev'[p])
  BY BackRequeues
<1>2. UNCHANGED <<time, pe>> /\ pe = None
  BY DEF BackToQueue, Due
<1>3. \A q \in Procs \ {p} : ev'[q] = ev[q]
  BY <1>1 DEF AInv, TypeOK
<1>4. \A q \in Procs : exempt(q) = 0 /\ exempt(q)' = 0
  BY <1>2 DEF exempt
<1>5. Upright(ev'[p], 0, time)
  <2>1. PICK e, f, t : e = ev[p] /\ f = ev'[p] /\ t = time
    OBVIOUS
  <2>2. Sound(e) /\ t \in Nat /\ t <= Inf /\ Inf \in Nat /\ Upright(e, 0, t) /\ Alike(e, f) /\ Requeued(e, f)
    BY <1>1, <1>4, <2>1, Constants DEF AInv, TypeOK, Chained, Ordered
  <2>3. \A j \in DOMAIN e.reqs : t <= f.reqs[j].when /\ f.wake <= f.reqs[j].when
    BY <2>2 DEF Upright, Requeued
  <2>4. QED  BY <2>1, <2>2, <2>3 DEF Upright, Alike, Requeued
<1>6. QED  BY <1>2, <1>3, <1>4, <1>5 DEF Ordered

LEMMA EndingOrders ==
  ASSUME AInv, Ordered, NEW p, Ending(p)
  PROVE  Ordered'
<1>1. p \in Procs /\ time' = time /\ time \in 0 .. Inf
  BY Constants DEF Ending, AInv, TypeOK
<1>2. PICK hard, flips : Destroy(p, hard, flips)
  BY DEF Ending
<1>3. /\ ev'[p] = NoEvent
      /\ \A q \in Procs \ {p} : Alike(ev[q], ev'[q]) /\ Stirred(ev[q], ev'[q], time)
  BY <1>1, <1>2, Destroying
<1>4. \A q \in Procs \ {p} : exempt(q)' = exempt(q)
  BY <1>2, Constants DEF Destroy, exempt, Gone
<1>5. ASSUME NEW q \in Procs
      PROVE  Upright(ev'[q], exempt(q)', time)
  <2>1. CASE q = p
    BY <2>1, <1>1, <1>3, UprightNone
  <2>2. CASE q # p
    <3>1. PICK a, b, t, x : a = ev[q] /\ b = ev'[q] /\ t = time /\ x = exempt(q)
      OBVIOUS
    <3>2. Sound(a) /\ Upright(a, x, t) /\ Alike(a, b) /\ Stirred(a, b, t) /\ t \in Nat
      BY <1>1, <1>3, <2>2, <3>1, Constants DEF AInv, Chained, Ordered
    <3>3. Upright(b, x, t)
      BY <3>2, UprightStirred
    <3>4. QED  BY <1>4, <2>2, <3>1, <3>3
  <2>3. QED  BY <2>1, <2>2
<1>6. QED  BY <1>1, <1>5 DEF Ordered

\* The first event of a process.
LEMMA Creating ==
  ASSUME AInv, NEW p \in Procs, Create(p)
  PROVE  /\ p \notin alive /\ ev[p] = NoEvent /\ cur \in alive /\ dying = {} /\ ended = "no"
         /\ \A q \in Procs \ {p} : ev'[q] = ev[q]
         /\ Sound(ev'[p]) /\ ev'[p] # NoEvent
         /\ DOMAIN ev'[p].reqs = {1} /\ ev'[p].top = 1 /\ ev'[p].wake = time
         /\ ev'[p].reqs[1] = request(p, "START", 0, 0, time, "none")
<1> DEFINE r == request(p, "START", 0, 0, time, "none")
           f == [reqs |-> <<r>>, top |-> 1, wake |-> time]
<1>1. ev' = [ev EXCEPT ![p] = f] /\ p \notin born
  BY DEF Create
<1>2. cur \in alive /\ dying = {} /\ ended = "no" /\ ev \in [Procs -> Events]
  BY CallTypes DEF Create, AInv, TypeOK
<1>3. p \notin alive /\ ev[p] = NoEvent
  BY <1>1 DEF AInv, TypeOK, Dead
<1>4. f.top = 1 /\ f.wake = time /\ DOMAIN f.reqs = {1} /\ f.reqs[1] = r
  OBVIOUS
<1>5. Sound(ev'[p])
  BY CreateKeeps DEF AInv, Chained
<1> HIDE DEF f
<1>6. ev'[p] = f /\ \A q \in Procs \ {p} : ev'[q] = ev[q]
  BY <1>1, <1>2
<1>7. f # NoEvent
  BY <1>4, NoEventSound
<1>8. QED  BY <1>2, <1>3, <1>4, <1>5, <1>6, <1>7

LEMMA CreateOrders ==
  ASSUME AInv, Ordered, NEW p \in Procs, Create(p)
  PROVE  Ordered'
<1>1. /\ \A q \in Procs \ {p} : ev'[q] = ev[q]
      /\ DOMAIN ev'[p].reqs = {1} /\ ev'[p].top = 1 /\ ev'[p].wake = time
      /\ ev'[p].reqs[1] = request(p, "START", 0, 0, time, "none")
  BY Creating
<1>2. UNCHANGED <<time, pe>> /\ time \in Nat
  BY DEF Create, AInv, TypeOK
<1>3. \A q \in Procs : exempt(q)' = exempt(q)
  BY <1>2 DEF exempt
<1>4. ev'[p].reqs[1].when = time
  BY <1>1 DEF request
<1>5. Upright(ev'[p], exempt(p), time)
  BY <1>1, <1>2, <1>4 DEF Upright
<1>6. QED  BY <1>1, <1>2, <1>3, <1>5 DEF Ordered

LEMMA UnwaitOrders == AInv /\ Ordered /\ Unwait => Ordered'
<1> SUFFICES ASSUME AInv, Ordered, Unwait
             PROVE  Ordered'
  OBVIOUS
<1>1. /\ ev' = [ev EXCEPT ![cur] = NoEvent] /\ time' = time
      /\ pe' = IF pe # None /\ pe.proc = cur THEN Gone ELSE pe
  BY DEF Unwait
<1>2. cur \in Procs /\ time \in 0 .. Inf
  BY CallTypes, Constants DEF Unwait, AInv, TypeOK
<1>3. ev'[cur] = NoEvent /\ \A q \in Procs \ {cur} : ev'[q] = ev[q]
  BY <1>1, <1>2 DEF AInv, TypeOK
<1>4. \A q \in Procs \ {cur} : exempt(q)' = exempt(q)
  BY <1>1, Constants DEF exempt, Gone
<1>5. QED  BY <1>1, <1>2, <1>3, <1>4, UprightNone DEF Ordered

\* The calls that trigger the events of others are made before the first wait.
Early == "actAfterWait" \notin Usage

Opened == Ordered /\ CurMin /\ Bare

\* A call of the running process that touches others leaves its own event alone, which
\* does not exist yet.
LEMMA BareCall ==
  ASSUME AInv, Early, NEW op, Call(op), BeforeWaits,
         \A q \in Procs : ev[q] = NoEvent => ev'[q] = NoEvent, UNCHANGED <<cur, dying>>
  PROVE  CurMin' /\ Bare'
BY CallTypes DEF Early, BeforeWaits, FirstWait, CurMin, Bare

LEMMA EndingOpens ==
  ASSUME AInv, Early, CurMin, Bare, NEW p, Ending(p)
  PROVE  CurMin' /\ Bare'
<1>1. CASE InLoop
  BY <1>1 DEF InLoop, CurMin, Bare
<1>2. CASE ~InLoop /\ cur = None
  <2>1. cur' = None
    BY <1>2 DEF Ending
  <2>2. QED  BY <2>1 DEF CurMin, Bare
<1>3. CASE ~InLoop /\ cur # None
  <2>1. UNCHANGED <<tmin, cur, woke>> /\ cur # p /\ (BeforeWaits \/ dying # {}) /\ p \in Procs
        /\ cur \in Procs
    BY <1>3 DEF Ending, AInv, TypeOK
  <2>2. ev[cur] = NoEvent
    BY <1>3, <2>1 DEF Bare, BeforeWaits, FirstWait, Early
  <2>3. PICK hard, flips : Destroy(p, hard, flips)
    BY DEF Ending
  <2>4. ev'[cur] = NoEvent
    BY <2>1, <2>2, <2>3, Destroying DEF Alike
  <2>5. QED  BY <2>1, <2>4 DEF CurMin, Bare
<1>4. QED  BY <1>1, <1>2, <1>3

LEMMA ChosenOpens ==
  ASSUME AInv, NEW p \in Procs, NEW e, Chosen(p, e)
  PROVE  CurMin' /\ Bare'
<1>1. /\ Renewed(e, ev'[p], e.wake) /\ (ev'[p] # NoEvent => tmin' = e.wake) /\ cur' = p
      /\ dying' = {}
  BY DEF Chosen, Delivered, AtLoop
<1>2. QED  BY <1>1 DEF CurMin, Bare, Renewed

LEMMA OpenedNext == AInv /\ Early /\ Opened /\ [Next]_vars => Opened'
<1> SUFFICES ASSUME AInv, Early, Ordered, CurMin, Bare, [Next]_vars
             PROVE  Ordered' /\ CurMin' /\ Bare'
  BY DEF Opened
<1>1. CASE Waiting
  <2>1. dying' = {}
    BY <1>1, WaitingAdds DEF AddRequest
  <2>2. QED  BY <1>1, <2>1, WaitingOrders DEF Bare
<1>2. CASE Unwait
  <2>1. ev'[cur] = NoEvent /\ dying' = {} /\ cur' = cur
    BY <1>2, CallTypes DEF Unwait, AInv, TypeOK
  <2>2. QED  BY <1>2, <2>1, UnwaitOrders DEF CurMin, Bare
<1>3. CASE Quiet \/ UNCHANGED vars
  <2>1. UNCHANGED <<time, ev, pe>>
    BY <1>3 DEF Quiet, Sleep, StationTerminate, PriorityLost, PriorityGone, vars
  <2>2. Ordered'
    BY <2>1 DEF Ordered, exempt
  <2>3. CASE Sleep
    BY <2>2, <2>3 DEF Sleep, InLoop, CurMin, Bare
  <2>4. CASE \E st \in {Owner[p] : p \in Procs} : StationTerminate(st)
    BY <2>1, <2>2, <2>4 DEF StationTerminate, CurMin, Bare, BeforeWaits, FirstWait, Early
  <2>5. CASE PriorityLost \/ PriorityGone \/ UNCHANGED vars
    <3>1. UNCHANGED <<ev, cur, tmin, dying>>
      BY <2>5 DEF PriorityLost, PriorityGone, vars
    <3>2. QED  BY <2>2, <3>1 DEF CurMin, Bare
  <2>6. QED  BY <1>3, <2>3, <2>4, <2>5 DEF Quiet
<1>4. ASSUME NEW x \in alive, NEW spec \in Specs, SignalP(x, spec)
      PROVE  Ordered' /\ CurMin' /\ Bare'
  <2>1. PICK p \in Procs : ev' = [ev EXCEPT ![p] = ev'[p]] /\ Alike(ev[p], ev'[p])
    BY <1>4, SignalPPrompts
  <2>2. \A q \in Procs : ev[q] = NoEvent => ev'[q] = NoEvent
    BY <2>1 DEF AInv, TypeOK, Alike
  <2>3. CurMin' /\ Bare'
    BY <1>4, <2>2, BareCall DEF SignalP
  <2>4. QED  BY <1>4, <2>3, SignalPOrders
<1>5. ASSUME NEW x \in alive, NEW flips \in FLIPs, NEW spec \in Specs, Signal(x, spec, flips)
      PROVE  Ordered' /\ CurMin' /\ Bare'
  <2>1. EventsStir(time)
    BY <1>5, SignalStirs
  <2>2. CurMin' /\ Bare'
    BY <1>5, <2>1, BareCall DEF Signal, EventsStir, Alike
  <2>3. QED  BY <1>5, <2>1, <2>2, StirOrders DEF Signal
<1>6. ASSUME NEW x \in alive, NEW flips \in FLIPs, Erase(x, flips)
      PROVE  Ordered' /\ CurMin' /\ Bare'
  <2>1. EventsStir(time)
    BY <1>6, EraseStirs
  <2>2. CurMin' /\ Bare'
    BY <1>6, <2>1, BareCall DEF Erase, EventsStir, Alike
  <2>3. QED  BY <1>6, <2>1, <2>2, StirOrders DEF Erase
<1>7. ASSUME NEW p \in Procs, Create(p)
      PROVE  Ordered' /\ CurMin' /\ Bare'
  <2>1. p # cur /\ UNCHANGED <<cur, dying, tmin>> /\ cur \in Procs
    BY <1>7, Creating DEF Create, AInv, TypeOK
  <2>2. ev'[cur] = ev[cur]
    BY <1>7, <2>1, Creating
  <2>3. QED  BY <1>7, <2>1, <2>2, CreateOrders DEF CurMin, Bare
<1>8. ASSUME NEW p \in Procs, Ending(p)
      PROVE  Ordered' /\ CurMin' /\ Bare'
  BY <1>8, EndingOrders, EndingOpens
<1>9. ASSUME NEW p \in Procs, NEW e, Chosen(p, e)
      PROVE  Ordered' /\ CurMin' /\ Bare'
  BY <1>9, ChosenOrders, ChosenOpens
<1>10. ASSUME NEW p \in Procs, NEW i \in 1 .. MaxChain, BackToQueue(p, i)
       PROVE  Ordered' /\ CurMin' /\ Bare'
  <2>1. cur' = None
    BY <1>10 DEF BackToQueue, Due, AtLoop
  <2>2. QED  BY <1>10, <2>1, BackOrders DEF CurMin, Bare
<1>11. ASSUME NEW flips \in FLIPs, NoEvents(flips)
       PROVE  Ordered' /\ CurMin' /\ Bare'
  <2>1. cur' = None /\ UNCHANGED <<time, pe>>
    BY <1>11 DEF NoEvents, AtLoop
  <2>2. QED  BY <1>11, <2>1, NoEventsStir, StirOrders DEF CurMin, Bare
<1>12. QED
  BY <1>1, <1>2, <1>3, <1>4, <1>5, <1>6, <1>7, <1>8, <1>9, <1>10, <1>11, Steps

LEMMA OpenedInit == Init => Opened
<1> SUFFICES ASSUME Init
             PROVE  Opened
  OBVIOUS
<1>1. time \in 0 .. Inf /\ \A q \in Procs : ev[q] = NoEvent
  BY Constants DEF Init
<1>2. time = 0 /\ \A q \in Procs : exempt(q) = 0
  BY DEF Init, exempt
<1>3. Ordered
  BY <1>1, <1>2, UprightNone DEF Ordered
<1>4. QED  BY <1>1, <1>3, Constants DEF Init, CurMin, Bare, Opened

LEMMA AlwaysOpened == ASSUME Early PROVE Spec => [](AInv /\ Opened)
<1>1. Init => Opened
  BY OpenedInit
<1>2. Opened /\ AInv /\ [Next]_vars => Opened'
  BY OpenedNext
<1>3. Spec => Init /\ [][Next]_vars
  BY DEF Spec
<1>4. QED  BY <1>1, <1>2, <1>3, Always, PTL

\* "The occurrence of the earliest of those events will resuscitate the process": when the
\* main loop looks at the queue, every event shows an earliest request of its chain and
\* has its time (wait, the trigger loops and min_request agree), for any number of
\* processes and requests, provided that processes trigger others before they wait.
THEOREM Earliest == ASSUME Early PROVE Spec => []EarliestWins
<1>1. AInv /\ Opened => EarliestWins
  <2>1. SUFFICES ASSUME AInv, Ordered, pe = None, NEW p \in Procs, NEW i \in DOMAIN ev[p].reqs
                 PROVE  ev[p].wake = top(ev[p]).when /\ ev[p].wake <= ev[p].reqs[i].when
    BY DEF EarliestWins, Opened
  <2>2. PICK e : e = ev[p]
    OBVIOUS
  <2>3. Sound(e) /\ Upright(e, 0, time)
    BY <2>1, <2>2 DEF AInv, Chained, Ordered, exempt
  <2>4. i \in DOMAIN e.reqs /\ \A j \in DOMAIN e.reqs : j # 0
    BY <2>1, <2>2, <2>3 DEF Sound, Events
  <2>5. e.top \in DOMAIN e.reqs
    BY <2>3, <2>4, NoEventSound DEF Sound
  <2>6. QED  BY <2>2, <2>3, <2>4, <2>5 DEF Upright, top
<1>2. QED  BY <1>1, AlwaysOpened, PTL

-----------------------------------------------------------------------------
(* Nobody misses a signal, and nobody is early                              *)

\* What NoLostWakeup says of one request.
Informed(r, s, now) ==
  r.list = "TW" =>
    /\ r.id = "SIGNAL" /\ s[r.ai] # None => r.when = now
    /\ r.id = "CLEAR" /\ s[r.ai] = None => r.when = now

AllInformed == \A q \in Procs : \A i \in DOMAIN ev[q].reqs : Informed(ev[q].reqs[i], sig, time)

\* A request for a signal or its absence is for that of a process.
LEMMA SignalLists ==
  ASSUME AInv, NEW q \in Procs, NEW i \in DOMAIN ev[q].reqs, ev[q].reqs[i].list = "TW",
         ev[q].reqs[i].id \in {"SIGNAL", "CLEAR"}
  PROVE  ev[q].reqs[i].ai \in Procs
<1>1. OnList(ev[q].reqs[i], alive) /\ alive \subseteq Procs
  BY DEF AInv, Listed, TypeOK
<1>2. QED  BY <1>1 DEF OnList

\* The same signals, at the same time.
LEMMA StirInforms ==
  ASSUME AInv, AllInformed, EventsStir(time), UNCHANGED <<time, sig>>
  PROVE  AllInformed'
<1>1. ASSUME NEW q \in Procs, NEW i \in DOMAIN ev'[q].reqs
      PROVE  Informed(ev'[q].reqs[i], sig, time)
  <2>1. i \in DOMAIN ev[q].reqs
    BY DEF EventsStir, Alike
  <2>2. PICK r, s : r = ev[q].reqs[i] /\ s = ev'[q].reqs[i]
    OBVIOUS
  <2>3. Informed(r, sig, time)
    BY <2>1, <2>2 DEF AllInformed
  <2>4. s.id = r.id /\ s.ai = r.ai /\ s.list = r.list /\ (s.when = r.when \/ s.when = time)
    BY <2>1, <2>2 DEF EventsStir, Alike, Same, Kin, Stirred, Touched
  <2>5. QED  BY <2>2, <2>3, <2>4 DEF Informed
<1>2. QED  BY <1>1 DEF AllInformed

LEMMA DepositSome ==
  ASSUME AInv, NEW op, Call(op), NEW spec \in Specs
  PROVE  [sender |-> cur, spec |-> spec] # None
<1>1. [sender |-> cur, spec |-> spec] \in [sender : Procs, spec : Specs]
  BY CallTypes
<1>2. QED  BY <1>1, Constants

LEMMA SignalInforms ==
  ASSUME AInv, AllInformed, NEW x \in alive, NEW spec \in Specs, NEW flips, Signal(x, spec, flips)
  PROVE  AllInformed'
<1>1. AllTriggered(ev, ev', [q \in Procs |-> signals(ev[q], x)], time)
  BY SignalStirs
<1>2. sig' = deposit(x, spec) /\ time' = time /\ x \in Procs
  BY DEF Signal, AInv, TypeOK
<1>3. ASSUME NEW q \in Procs, NEW i \in DOMAIN ev'[q].reqs
      PROVE  Informed(ev'[q].reqs[i], sig', time)
  <2>1. i \in DOMAIN ev[q].reqs
    BY <1>1 DEF AllTriggered, Alike
  <2>2. PICK r, s : r = ev[q].reqs[i] /\ s = ev'[q].reqs[i]
    OBVIOUS
  <2>3. Informed(r, sig, time) /\ (r.list = "TW" /\ r.id \in {"SIGNAL", "CLEAR"} => r.ai \in Procs)
    BY <2>1, <2>2, SignalLists DEF AllInformed
  <2>4. /\ s.id = r.id /\ s.ai = r.ai /\ s.list = r.list
        /\ s.when = IF i \in signals(ev[q], x) THEN time ELSE r.when
    BY <1>1, <2>1, <2>2 DEF AllTriggered, Alike, Same, Kin, Retimed
  <2>5. r.list = "TW" /\ r.id = "SIGNAL" /\ r.ai = x => s.when = time
    BY <2>1, <2>2, <2>4 DEF signals, IsSignal
  <2>6. \A y \in Procs : sig'[y] = IF y = x THEN [sender |-> cur, spec |-> spec] ELSE sig[y]
    BY <1>2 DEF deposit, AInv, TypeOK
  <2>7. sig'[x] # None
    BY <1>2, <2>6, DepositSome DEF Signal
  <2>8. QED  BY <2>2, <2>3, <2>4, <2>5, <2>6, <2>7, <1>2 DEF Informed
<1>4. QED  BY <1>2, <1>3 DEF AllInformed

LEMMA EraseInforms ==
  ASSUME AInv, AllInformed, NEW x \in alive, NEW flips, Erase(x, flips)
  PROVE  AllInformed'
<1>1. AllTriggered(ev, ev', [q \in Procs |-> clears(ev[q], x)], time)
  BY EraseStirs
<1>2. sig' = [sig EXCEPT ![x] = None] /\ time' = time /\ x \in Procs
  BY DEF Erase, AInv, TypeOK
<1>3. ASSUME NEW q \in Procs, NEW i \in DOMAIN ev'[q].reqs
      PROVE  Informed(ev'[q].reqs[i], sig', time)
  <2>1. i \in DOMAIN ev[q].reqs
    BY <1>1 DEF AllTriggered, Alike
  <2>2. PICK r, s : r = ev[q].reqs[i] /\ s = ev'[q].reqs[i]
    OBVIOUS
  <2>3. Informed(r, sig, time) /\ (r.list = "TW" /\ r.id \in {"SIGNAL", "CLEAR"} => r.ai \in Procs)
    BY <2>1, <2>2, SignalLists DEF AllInformed
  <2>4. /\ s.id = r.id /\ s.ai = r.ai /\ s.list = r.list
        /\ s.when = IF i \in clears(ev[q], x) THEN time ELSE r.when
    BY <1>1, <2>1, <2>2 DEF AllTriggered, Alike, Same, Kin, Retimed
  <2>5. r.list = "TW" /\ r.id = "CLEAR" /\ r.ai = x => s.when = time
    BY <2>1, <2>2, <2>4 DEF clears, IsClear
  <2>6. \A y \in Procs : sig'[y] = IF y = x THEN None ELSE sig[y]
    BY <1>2 DEF AInv, TypeOK
  <2>7. QED  BY <2>2, <2>3, <2>4, <2>5, <2>6, <1>2 DEF Informed
<1>4. QED  BY <1>2, <1>3 DEF AllInformed

LEMMA SignalPInforms ==
  ASSUME AInv, AllInformed, NEW x \in alive, NEW spec \in Specs, SignalP(x, spec)
  PROVE  AllInformed'
<1>1. PICK p \in Procs : \E i \in DOMAIN ev[p].reqs :
           /\ \A q \in Procs : \A j \in DOMAIN ev[q].reqs :
                IsSignal(x, ev[q].reqs[j]) => q = p /\ j = i
           /\ ev' = [ev EXCEPT ![p] = ev'[p]]
           /\ Alike(ev[p], ev'[p]) /\ Prompted(ev[p], ev'[p], i, time)
  BY SignalPPrompts
<1>2. PICK i \in DOMAIN ev[p].reqs :
           /\ \A q \in Procs : \A j \in DOMAIN ev[q].reqs :
                IsSignal(x, ev[q].reqs[j]) => q = p /\ j = i
           /\ ev' = [ev EXCEPT ![p] = ev'[p]]
           /\ Alike(ev[p], ev'[p]) /\ Prompted(ev[p], ev'[p], i, time)
  BY <1>1
<1>3. sig' = deposit(x, spec) /\ time' = time /\ x \in Procs
  BY DEF SignalP, AInv, TypeOK
<1>4. \A q \in Procs \ {p} : ev'[q] = ev[q]
  BY <1>2 DEF AInv, TypeOK
<1>5. \A y \in Procs : sig'[y] = IF y = x THEN [sender |-> cur, spec |-> spec] ELSE sig[y]
  BY <1>3 DEF deposit, AInv, TypeOK
<1>6. sig'[x] # None
  BY <1>3, <1>5, DepositSome DEF SignalP
<1>7. ASSUME NEW q \in Procs, NEW j \in DOMAIN ev'[q].reqs
      PROVE  Informed(ev'[q].reqs[j], sig', time)
  <2>1. j \in DOMAIN ev[q].reqs
    BY <1>2, <1>4 DEF Alike
  <2>2. PICK r, s : r = ev[q].reqs[j] /\ s = ev'[q].reqs[j]
    OBVIOUS
  <2>3. Informed(r, sig, time) /\ (r.list = "TW" /\ r.id \in {"SIGNAL", "CLEAR"} => r.ai \in Procs)
    BY <2>1, <2>2, SignalLists DEF AllInformed
  <2>4. /\ s.id = r.id /\ s.ai = r.ai /\ s.list = r.list
        /\ s.when = r.when \/ s.when = time
    BY <1>2, <1>4, <2>1, <2>2 DEF Alike, Same, Prompted, Kin
  <2>5. r.list = "TW" /\ r.id = "SIGNAL" /\ r.ai = x => s.when = time
    <3>1. SUFFICES ASSUME IsSignal(x, r)
                   PROVE  s.when = time
      BY DEF IsSignal
    <3>2. q = p /\ j = i
      BY <3>1, <2>1, <2>2, <1>2
    <3>3. QED  BY <3>2, <2>1, <2>2, <1>2 DEF Prompted
  <2>6. QED  BY <2>2, <2>3, <2>4, <2>5, <1>3, <1>5, <1>6 DEF Informed
<1>8. QED  BY <1>3, <1>7 DEF AllInformed

LEMMA EndingInforms ==
  ASSUME AInv, AllInformed, NEW p, Ending(p)
  PROVE  AllInformed'
<1>1. p \in Procs /\ time' = time
  BY DEF Ending, AInv, TypeOK
<1>2. PICK hard, flips : Destroy(p, hard, flips)
  BY DEF Ending
<1>3. /\ ev'[p] = NoEvent
      /\ \A q \in Procs \ {p} : Alike(ev[q], ev'[q]) /\ Bereaved(ev[q], ev'[q], p)
  BY <1>1, <1>2, Destroying
<1>4. \A y \in Procs \ {p} : sig'[y] = sig[y]
  BY <1>1, <1>2 DEF Destroy, AInv, TypeOK
<1>5. ASSUME NEW q \in Procs, NEW i \in DOMAIN ev'[q].reqs
      PROVE  Informed(ev'[q].reqs[i], sig', time)
  <2>1. q # p
    BY <1>3, <1>5, NoEventSound
  <2>2. i \in DOMAIN ev[q].reqs
    BY <1>3, <2>1 DEF Alike
  <2>3. PICK r, s : r = ev[q].reqs[i] /\ s = ev'[q].reqs[i]
    OBVIOUS
  <2>4. /\ Informed(r, sig, time) /\ OnList(r, alive)
        /\ r.list = "TW" /\ r.id \in {"SIGNAL", "CLEAR"} => r.ai \in Procs
    BY <2>2, <2>3, SignalLists DEF AllInformed, AInv, Listed
  <2>5. s.id = r.id /\ s.what = r.what
    BY <1>3, <2>1, <2>2, <2>3 DEF Alike, Same
  <2>6. /\ s.ai = IF moves(r, p, ev[q].wake <= time) THEN heir(p) ELSE r.ai
        /\ s.list = IF r.list \in {"TW", "SW"} /\ r.what = p THEN "orphan" ELSE r.list
        /\ s.when = r.when \/ s.when = time
    BY <1>3, <2>1, <2>2, <2>3 DEF Bereaved
  <2>7. s.list = "TW" => r.list = "TW" /\ r.ai # p /\ s.ai = r.ai
    BY <2>4, <2>6 DEF OnList, moves
  <2>8. QED  BY <2>3, <2>4, <2>5, <2>6, <2>7, <1>4 DEF Informed
<1>6. QED  BY <1>1, <1>5 DEF AllInformed

LEMMA ChosenInforms ==
  ASSUME AInv, Ordered, AllInformed, NEW p \in Procs, NEW e, Chosen(p, e)
  PROVE  AllInformed'
<1>1. /\ time <= e.wake /\ time \in Nat /\ e.wake \in Nat
      /\ \A q \in Procs \ {p} : (e.wake <= ev[q].wake \/ e.wake = time) /\ exempt(q) = 0
  BY ChosenOrders DEF AInv, TypeOK, Chosen
<1>2. PICK x, w : x = top(e).ai /\ w = e.wake
  OBVIOUS
<1>3. /\ \A q \in Procs \ {p} : Alike(ev[q], ev'[q]) /\ Kin(ev[q], ev'[q]) /\ Stirred(ev[q], ev'[q], w)
      /\ \/ sig' = sig
         \/ sig' = taken(x) /\ \A q \in Procs \ {p} : \A i \in clears(ev[q], x) : ev'[q].reqs[i].when = w
      /\ Renewed(e, ev'[p], w) /\ time' = w
  BY <1>2 DEF Chosen, Delivered
<1>4. ASSUME NEW q \in Procs, NEW i \in DOMAIN ev'[q].reqs
      PROVE  Informed(ev'[q].reqs[i], sig', w)
  <2>1. CASE q = p
    <3>1. ev'[p].reqs[i].list = "SW"
      BY <1>3, <1>4, <2>1, NoEventSound DEF Renewed
    <3>2. QED  BY <2>1, <3>1 DEF Informed
  <2>2. CASE q # p
    <3>1. i \in DOMAIN ev[q].reqs
      BY <1>3, <2>2 DEF Alike
    <3>2. PICK a, r, s : a = ev[q] /\ r = ev[q].reqs[i] /\ s = ev'[q].reqs[i]
      OBVIOUS
    <3>3. Informed(r, sig, time) /\ (r.list = "TW" /\ r.id \in {"SIGNAL", "CLEAR"} => r.ai \in Procs)
      BY <3>1, <3>2, SignalLists DEF AllInformed
    <3>4. s.id = r.id /\ s.ai = r.ai /\ s.list = r.list /\ (s.when = r.when \/ s.when = w)
      BY <1>3, <2>2, <3>1, <3>2 DEF Alike, Same, Kin, Stirred, Touched
    <3>5. r.when = time => w = time
      <4>1. SUFFICES ASSUME r.when = time
                     PROVE  w = time
        OBVIOUS
      <4>2. Sound(a) /\ Upright(a, 0, time) /\ i \in DOMAIN a.reqs /\ r = a.reqs[i]
        BY <1>1, <2>2, <3>1, <3>2 DEF AInv, Chained, Ordered
      <4>3. a.wake <= time /\ a.wake \in Nat
        <5>1. i # 0
          BY <4>2 DEF Sound, Events
        <5>2. QED  BY <4>1, <4>2, <5>1, Numbers DEF Upright
      <4>4. QED  BY <1>1, <1>2, <2>2, <3>2, <4>3
    <3>6. CASE sig' = sig
      BY <3>2, <3>3, <3>4, <3>5, <3>6 DEF Informed
    <3>7. CASE sig' = taken(x) /\ \A j \in clears(ev[q], x) : ev'[q].reqs[j].when = w
      <4>1. \A y \in Procs : sig'[y] = IF y = x THEN None ELSE sig[y]
        BY <3>7 DEF taken, AInv, TypeOK
      <4>2. r.list = "TW" /\ r.id = "CLEAR" /\ r.ai = x => s.when = w
        BY <3>1, <3>2, <3>7 DEF clears, IsClear
      <4>3. QED  BY <3>2, <3>3, <3>4, <3>5, <4>1, <4>2 DEF Informed
    <3>8. QED  BY <1>3, <2>2, <3>6, <3>7
  <2>3. QED  BY <2>1, <2>2
<1>5. QED  BY <1>3, <1>4 DEF AllInformed

LEMMA BackInforms ==
  ASSUME AInv, AllInformed, NEW p \in Procs, NEW i, BackToQueue(p, i)
  PROVE  AllInformed'
<1>1. /\ ev' = [ev EXCEPT ![p] = ev'[p]] /\ Alike(ev[p], ev'[p]) /\ Requeued(ev[p], ev'[p])
  BY BackRequeues
<1>2. /\ UNCHANGED <<time, sig>>
      /\ top(ev[p]).id = "SIGNAL" /\ sigOf(top(ev[p]).ai) = None
  BY DEF BackToQueue
<1>3. \A q \in Procs \ {p} : ev'[q] = ev[q]
  BY <1>1 DEF AInv, TypeOK
<1>4. ASSUME NEW q \in Procs, NEW j \in DOMAIN ev'[q].reqs
      PROVE  Informed(ev'[q].reqs[j], sig, time)
  <2>1. CASE q # p
    BY <1>3, <1>4, <2>1 DEF AllInformed
  <2>2. CASE q = p
    <3>1. j \in DOMAIN ev[p].reqs
      BY <1>1, <1>4, <2>2 DEF Alike
    <3>2. PICK e, r, s : e = ev[p] /\ r = ev[p].reqs[j] /\ s = ev'[p].reqs[j]
      OBVIOUS
    <3>3. Informed(r, sig, time) /\ (r.list = "TW" /\ r.id \in {"SIGNAL", "CLEAR"} => r.ai \in Procs)
      BY <3>1, <3>2, SignalLists DEF AllInformed
    <3>4. /\ s.id = r.id /\ s.ai = r.ai /\ s.list = r.list
          /\ s.when = IF j = e.top THEN Inf ELSE r.when
      BY <1>1, <3>1, <3>2 DEF Alike, Same, Requeued, Kin
    <3>5. CASE j = e.top
      <4>1. r.id = "SIGNAL" /\ sigOf(r.ai) = None
        BY <1>2, <3>2, <3>5 DEF top
      <4>2. QED  BY <2>2, <3>2, <3>3, <3>4, <4>1 DEF Informed, sigOf
    <3>6. CASE j # e.top
      BY <2>2, <3>2, <3>3, <3>4, <3>6 DEF Informed
    <3>7. QED  BY <3>5, <3>6
  <2>3. QED  BY <2>1, <2>2
<1>5. QED  BY <1>2, <1>4 DEF AllInformed

LEMMA WaitingInforms == AInv /\ AllInformed /\ Waiting => AllInformed'
<1> SUFFICES ASSUME AInv, AllInformed, Waiting
             PROVE  AllInformed'
  OBVIOUS
<1>1. cur \in alive
  BY WaitingAdds
<1>2. PICK r, flip : Fresh(r) /\ AddRequest(r, flip)
  BY WaitingAdds
<1>3. ev' = [ev EXCEPT ![cur] = ev'[cur]] /\ Extended(ev[cur], ev'[cur], r)
  BY <1>1, <1>2, AddingExtends
<1>4. cur \in Procs /\ UNCHANGED <<time, sig>>
  BY <1>1, <1>2 DEF AInv, TypeOK, AddRequest
<1>5. \A q \in Procs \ {cur} : ev'[q] = ev[q]
  BY <1>3, <1>4 DEF AInv, TypeOK
<1>6. ASSUME NEW q \in Procs, NEW i \in DOMAIN ev'[q].reqs
      PROVE  Informed(ev'[q].reqs[i], sig, time)
  <2>1. CASE i \in DOMAIN ev[q].reqs
    BY <1>3, <1>5, <1>6, <2>1 DEF AllInformed, Extended
  <2>2. CASE i \notin DOMAIN ev[q].reqs
    <3>1. q = cur /\ ev'[q].reqs[i] = r
      BY <1>3, <1>5, <1>6, <2>2 DEF Extended
    <3>2. QED  BY <1>2, <3>1 DEF Fresh, Informed
  <2>3. QED  BY <2>1, <2>2
<1>7. QED  BY <1>4, <1>6 DEF AllInformed

LEMMA InformedNext == AInv /\ Opened /\ AllInformed /\ [Next]_vars => AllInformed'
<1> SUFFICES ASSUME AInv, Ordered, AllInformed, [Next]_vars
             PROVE  AllInformed'
  BY DEF Opened
<1>1. CASE Waiting
  BY <1>1, WaitingInforms
<1>2. CASE Unwait
  <2>1. ev' = [ev EXCEPT ![cur] = NoEvent] /\ UNCHANGED <<time, sig>>
    BY <1>2 DEF Unwait
  <2>2. \A q \in Procs : ev'[q] = ev[q] \/ ev'[q] = NoEvent
    BY <2>1 DEF AInv, TypeOK
  <2>3. QED  BY <2>1, <2>2, NoEventSound DEF AllInformed
<1>3. CASE Quiet \/ UNCHANGED vars
  <2>1. UNCHANGED <<time, sig, ev>>
    BY <1>3 DEF Quiet, Sleep, StationTerminate, PriorityLost, PriorityGone, vars
  <2>2. QED  BY <2>1 DEF AllInformed
<1>4. ASSUME NEW x \in alive, NEW spec \in Specs, SignalP(x, spec)
      PROVE  AllInformed'
  BY <1>4, SignalPInforms
<1>5. ASSUME NEW x \in alive, NEW flips \in FLIPs, NEW spec \in Specs, Signal(x, spec, flips)
      PROVE  AllInformed'
  BY <1>5, SignalInforms
<1>6. ASSUME NEW x \in alive, NEW flips \in FLIPs, Erase(x, flips)
      PROVE  AllInformed'
  BY <1>6, EraseInforms
<1>7. ASSUME NEW p \in Procs, Create(p)
      PROVE  AllInformed'
  <2>1. /\ \A q \in Procs \ {p} : ev'[q] = ev[q]
        /\ DOMAIN ev'[p].reqs = {1} /\ ev'[p].reqs[1] = request(p, "START", 0, 0, time, "none")
        /\ UNCHANGED <<time, sig>>
    BY <1>7, Creating DEF Create
  <2>2. Informed(ev'[p].reqs[1], sig, time)
    BY <2>1 DEF Informed, request
  <2>3. QED  BY <2>1, <2>2 DEF AllInformed
<1>8. ASSUME NEW p \in Procs, Ending(p)
      PROVE  AllInformed'
  BY <1>8, EndingInforms
<1>9. ASSUME NEW p \in Procs, NEW e, Chosen(p, e)
      PROVE  AllInformed'
  BY <1>9, ChosenInforms
<1>10. ASSUME NEW p \in Procs, NEW i \in 1 .. MaxChain, BackToQueue(p, i)
       PROVE  AllInformed'
  BY <1>10, BackInforms
<1>11. ASSUME NEW flips \in FLIPs, NoEvents(flips)
       PROVE  AllInformed'
  BY <1>11, NoEventsStir, StirInforms DEF NoEvents
<1>12. QED
  BY <1>1, <1>2, <1>3, <1>4, <1>5, <1>6, <1>7, <1>8, <1>9, <1>10, <1>11, Steps

\* A process never sleeps past a signal that is in the repository it waits at, nor past
\* the emptiness of one: wait, signal, signalP, erase, the delivery of a signal and the
\* return of an event to the queue agree on the time of the requests.  It needs the order
\* of the events: time must not leave a request behind that is due.
THEOREM Wakeups == ASSUME Early PROVE Spec => []NoLostWakeup
<1>1. Init => AllInformed
  BY NoEventSound DEF Init, AllInformed
<1>2. AInv /\ Opened /\ AllInformed /\ [Next]_vars => AllInformed'
  BY InformedNext
<1>3. AllInformed => NoLostWakeup
  BY DEF AllInformed, Informed, NoLostWakeup
<1>4. Spec => Init /\ [][Next]_vars
  BY DEF Spec
<1>5. QED  BY <1>1, <1>2, <1>3, <1>4, AlwaysOpened, PTL

\* Steps outside the main loop change neither the time nor why the process runs.
LEMMA WokeStays ==
  ASSUME AInv, [Next]_vars
  PROVE  \/ UNCHANGED time /\ (cur' = None \/ UNCHANGED <<cur, woke>>)
         \/ \E p \in Procs : \E e : Chosen(p, e)
<1>1. CASE Waiting
  BY <1>1, WaitingAdds DEF AddRequest
<1>2. CASE Unwait
  BY <1>2 DEF Unwait
<1>3. CASE Quiet \/ UNCHANGED vars
  BY <1>3 DEF Quiet, Sleep, InLoop, StationTerminate, PriorityLost, PriorityGone, vars
<1>4. ASSUME NEW x \in alive, NEW spec \in Specs, SignalP(x, spec)
      PROVE  UNCHANGED <<cur, woke, time>>
  BY <1>4 DEF SignalP
<1>5. ASSUME NEW x \in alive, NEW flips \in FLIPs, NEW spec \in Specs, Signal(x, spec, flips)
      PROVE  UNCHANGED <<cur, woke, time>>
  BY <1>5 DEF Signal
<1>6. ASSUME NEW x \in alive, NEW flips \in FLIPs, Erase(x, flips)
      PROVE  UNCHANGED <<cur, woke, time>>
  BY <1>6 DEF Erase
<1>7. ASSUME NEW p \in Procs, Create(p)
      PROVE  UNCHANGED <<cur, woke, time>>
  BY <1>7 DEF Create
<1>8. ASSUME NEW p \in Procs, Ending(p)
      PROVE  UNCHANGED time /\ (cur' = None \/ UNCHANGED <<cur, woke>>)
  BY <1>8 DEF Ending, InLoop
<1>9. ASSUME NEW p \in Procs, NEW i \in 1 .. MaxChain, BackToQueue(p, i)
      PROVE  UNCHANGED <<cur, woke, time>>
  BY <1>9 DEF BackToQueue
<1>10. ASSUME NEW flips \in FLIPs, NoEvents(flips)
       PROVE  UNCHANGED <<cur, woke, time>>
  BY <1>10 DEF NoEvents
<1>11. QED
  BY <1>1, <1>2, <1>3, <1>4, <1>5, <1>6, <1>7, <1>8, <1>9, <1>10, Steps

\* The Timer restarts a process exactly when it asked for it.
THEOREM Punctual == ASSUME Early PROVE Spec => []TimerOnTime
<1>1. Init => TimerOnTime
  BY DEF Init, TimerOnTime, NoWake
<1>2. AInv /\ Opened /\ TimerOnTime /\ [Next]_vars => TimerOnTime'
  <2>1. SUFFICES ASSUME AInv, Ordered, TimerOnTime, [Next]_vars
                 PROVE  TimerOnTime'
    BY DEF Opened
  <2>2. CASE UNCHANGED time /\ (cur' = None \/ UNCHANGED <<cur, woke>>)
    BY <2>1, <2>2 DEF TimerOnTime
  <2>3. ASSUME NEW p \in Procs, NEW e, Chosen(p, e)
        PROVE  TimerOnTime'
    <3>1. top(e).when = e.wake
      BY <2>1, <2>3, ChosenOrders
    <3>2. time' = e.wake /\ (WokenBy(top(e)) \/ woke'.id = "CLEAR")
      BY <2>3 DEF Chosen, Delivered
    <3>3. QED  BY <3>1, <3>2 DEF WokenBy, TimerOnTime
  <2>4. QED  BY <2>1, <2>2, <2>3, WokeStays
<1>3. Spec => Init /\ [][Next]_vars
  BY DEF Spec
<1>4. QED  BY <1>1, <1>2, <1>3, AlwaysOpened, PTL

\* Time never goes back: whatever the main loop takes from the queue is not in the past.
THEOREM Forward == ASSUME Early PROVE Spec => TimeAdvances
<1>1. AInv /\ Opened /\ [Next]_vars => [time <= time']_vars
  <2>1. SUFFICES ASSUME AInv, Ordered, [Next]_vars
                 PROVE  time <= time'
    BY DEF Opened
  <2>2. CASE UNCHANGED time
    BY <2>1, <2>2 DEF AInv, TypeOK
  <2>3. ASSUME NEW p \in Procs, NEW e, Chosen(p, e)
        PROVE  time <= time'
    BY <2>1, <2>3, ChosenOrders DEF Chosen, Delivered
  <2>4. QED  BY <2>1, <2>2, <2>3, WokeStays
<1>2. Spec => [][Next]_vars
  BY DEF Spec
<1>3. Spec => [][time <= time']_vars
  BY <1>1, <1>2, AlwaysOpened, PTL
<1>4. QED  BY <1>3 DEF TimeAdvances

-----------------------------------------------------------------------------
(* What an event shows, whatever the program does                           *)

\* An event that shows a request for what has not happened is not scheduled, except for
\* that of the process behind the priority event.
Honest(e, x) ==
  e.top \in DOMAIN e.reqs /\ e.top # x /\ e.reqs[e.top].when = Inf => e.wake = Inf

\* A DEATH request comes true when the process it asks for is gone, and not before.
Mourned(e, living, known) ==
  \A i \in DOMAIN e.reqs : e.reqs[i].id = "DEATH" =>
    /\ e.reqs[i].what \in known
    /\ e.reqs[i].when # Inf => e.reqs[i].what \notin living

Plain == \A q \in Procs : Honest(ev[q], exempt(q)) /\ Mourned(ev[q], alive, born)

LEMMA PlainNone == ASSUME NEW x, NEW living, NEW known PROVE Honest(NoEvent, x) /\ Mourned(NoEvent, living, known)
BY NoEventSound DEF Honest, Mourned

LEMMA HonestStirred ==
  ASSUME NEW e, NEW f, NEW x, NEW now \in 0 .. Horizon, Sound(e), Alike(e, f), Stirred(e, f, now),
         Honest(e, x)
  PROVE  Honest(f, x)
<1>1. SUFFICES ASSUME f.top \in DOMAIN f.reqs, f.top # x, f.reqs[f.top].when = Inf
               PROVE  f.wake = Inf
  BY DEF Honest
<1>2. now # Inf /\ now \in Nat /\ f.top \in DOMAIN e.reqs
  BY <1>1, Constants DEF Alike
<1>3. CASE Unmoved(e, f)
  BY <1>1, <1>2, <1>3 DEF Unmoved, Honest
<1>4. CASE Stays(e, f, now)
  <2>1. e.reqs[e.top].when = Inf
    BY <1>1, <1>2, <1>4 DEF Stays, Stirred, Touched
  <2>2. e.wake = Inf
    BY <1>1, <1>2, <1>4, <2>1 DEF Stays, Honest
  <2>3. QED  BY <1>2, <1>4, <2>2, Constants DEF Stays
<1>5. CASE Turns(e, f, now)
  BY <1>1, <1>2, <1>5 DEF Turns
<1>6. QED  BY <1>3, <1>4, <1>5 DEF Stirred

LEMMA MournedAlike ==
  ASSUME NEW e, NEW f, NEW living, NEW known, Mourned(e, living, known), Alike(e, f),
         \A i \in DOMAIN e.reqs : e.reqs[i].id = "DEATH" => f.reqs[i].when \in {e.reqs[i].when, Inf}
  PROVE  Mourned(f, living, known)
BY DEF Mourned, Alike, Same

LEMMA MournedBereaved ==
  ASSUME NEW e, NEW f, NEW living, NEW known, NEW p, Mourned(e, living, known),
         Alike(e, f), Bereaved(e, f, p)
  PROVE  Mourned(f, living \ {p}, known)
<1>1. ASSUME NEW i \in DOMAIN f.reqs, f.reqs[i].id = "DEATH"
      PROVE  /\ f.reqs[i].what \in known
             /\ f.reqs[i].when # Inf => f.reqs[i].what \notin living \ {p}
  <2>1. PICK r, s : r = e.reqs[i] /\ s = f.reqs[i]
    OBVIOUS
  <2>2. i \in DOMAIN e.reqs /\ r.id = "DEATH" /\ s.what = r.what
    BY <1>1, <2>1 DEF Alike, Same
  <2>3. r.what \in known /\ (r.when # Inf => r.what \notin living)
    BY <2>1, <2>2 DEF Mourned
  <2>4. s.when = r.when \/ r.what = p
    BY <2>1, <2>2 DEF Bereaved, ToldOf
  <2>5. QED  BY <2>1, <2>2, <2>3, <2>4
<1>2. QED  BY <1>1 DEF Mourned

LEMMA StirPlain ==
  ASSUME AInv, Plain, EventsStir(time), UNCHANGED <<alive, born, pe>>
  PROVE  Plain'
<1>1. ASSUME NEW q \in Procs
      PROVE  Honest(ev'[q], exempt(q)) /\ Mourned(ev'[q], alive, born)
  <2>1. PICK e, f, x, t : e = ev[q] /\ f = ev'[q] /\ x = exempt(q) /\ t = time
    OBVIOUS
  <2>2. /\ t \in 0 .. Horizon /\ Sound(e) /\ Alike(e, f) /\ Stirred(e, f, t) /\ Mute(e, f)
        /\ Honest(e, x) /\ Mourned(e, alive, born)
    BY <2>1 DEF AInv, TypeOK, Chained, EventsStir, Plain
  <2>3. Honest(f, x)
    BY <2>2, HonestStirred
  <2>4. Mourned(f, alive, born)
    BY <2>2, MournedAlike DEF Mute
  <2>5. QED  BY <2>1, <2>3, <2>4
<1>2. \A q \in Procs : exempt(q)' = exempt(q)
  BY DEF exempt
<1>3. QED  BY <1>1, <1>2 DEF Plain

LEMMA WaitingPlain == AInv /\ Plain /\ Waiting => Plain'
<1> SUFFICES ASSUME AInv, Plain, Waiting
             PROVE  Plain'
  OBVIOUS
<1>1. cur \in alive
  BY WaitingAdds
<1>2. PICK r, flip : Fresh(r) /\ AddRequest(r, flip)
  BY WaitingAdds
<1>3. PICK e, f, x : e = ev[cur] /\ f = ev'[cur] /\ x = exempt(cur)
  OBVIOUS
<1>4. /\ ev' = [ev EXCEPT ![cur] = f] /\ Extended(e, f, r)
      /\ TakesOver(e, f, r) \/ Holds(e, f, r)
  BY <1>1, <1>2, <1>3, AddingExtends, AddingTakes
<1>5. cur \in Procs /\ UNCHANGED <<alive, born, pe>> /\ alive \subseteq born
  BY <1>1, <1>2 DEF AInv, TypeOK, AddRequest
<1>6. \A q \in Procs \ {cur} : ev'[q] = ev[q]
  BY <1>4, <1>5 DEF AInv, TypeOK
<1>7. Sound(e) /\ Honest(e, x) /\ Mourned(e, alive, born)
  BY <1>3, <1>5 DEF AInv, Chained, Plain
<1>8. Honest(f, x)
  <2>1. CASE TakesOver(e, f, r)
    <3>1. f.reqs[f.top] = r
      BY <1>4, <2>1 DEF TakesOver, Extended
    <3>2. QED  BY <2>1, <3>1 DEF TakesOver, Honest
  <2>2. CASE Holds(e, f, r)
    <3>1. e.top \in DOMAIN e.reqs
      BY <1>7, <2>2 DEF Holds, Sound
    <3>2. QED  BY <1>4, <1>7, <2>2, <3>1 DEF Holds, Extended, Honest
  <2>3. QED  BY <1>4, <2>1, <2>2
<1>9. Mourned(f, alive, born)
  <2>1. ASSUME NEW i \in DOMAIN f.reqs, f.reqs[i].id = "DEATH"
        PROVE  f.reqs[i].what \in born /\ (f.reqs[i].when # Inf => f.reqs[i].what \notin alive)
    <3>1. CASE i \in DOMAIN e.reqs
      BY <1>4, <1>7, <2>1, <3>1 DEF Extended, Mourned
    <3>2. CASE i \notin DOMAIN e.reqs
      <4>1. f.reqs[i] = r
        BY <1>4, <2>1, <3>2 DEF Extended
      <4>2. QED  BY <1>2, <1>5, <2>1, <4>1 DEF Fresh
    <3>3. QED  BY <3>1, <3>2
  <2>2. QED  BY <2>1 DEF Mourned
<1>10. \A q \in Procs : exempt(q)' = exempt(q)
  BY <1>5 DEF exempt
<1>11. QED  BY <1>3, <1>5, <1>6, <1>8, <1>9, <1>10 DEF Plain

LEMMA SignalPPlain ==
  ASSUME AInv, Plain, NEW x, NEW spec, SignalP(x, spec)
  PROVE  Plain'
<1>1. PICK p \in Procs : \E i \in DOMAIN ev[p].reqs :
           /\ IsSignal(x, ev[p].reqs[i]) /\ pe' = [proc |-> p, idx |-> i]
           /\ ev' = [ev EXCEPT ![p] = ev'[p]]
           /\ Alike(ev[p], ev'[p]) /\ Prompted(ev[p], ev'[p], i, time)
  BY SignalPPrompts
<1>2. PICK i \in DOMAIN ev[p].reqs :
           /\ IsSignal(x, ev[p].reqs[i]) /\ pe' = [proc |-> p, idx |-> i]
           /\ ev' = [ev EXCEPT ![p] = ev'[p]]
           /\ Alike(ev[p], ev'[p]) /\ Prompted(ev[p], ev'[p], i, time)
  BY <1>1
<1>3. pe = None /\ UNCHANGED <<alive, born>>
  BY DEF SignalP
<1>4. \A q \in Procs \ {p} : ev'[q] = ev[q]
  BY <1>2 DEF AInv, TypeOK
<1>5. \A q \in Procs : exempt(q) = 0
  BY <1>3 DEF exempt
<1>6. exempt(p)' = i /\ \A q \in Procs \ {p} : exempt(q)' = 0
  BY <1>2, Constants DEF exempt, AInv, TypeOK
<1>7. PICK e, f : e = ev[p] /\ f = ev'[p]
  OBVIOUS
<1>8. /\ Sound(e) /\ Honest(e, 0) /\ Mourned(e, alive, born) /\ Alike(e, f) /\ Prompted(e, f, i, time)
      /\ e.reqs[i].id = "SIGNAL"
  BY <1>2, <1>5, <1>7 DEF AInv, Chained, Plain, IsSignal
<1>9. Honest(f, i)
  <2>1. e.top # 0 \/ e.top \notin DOMAIN e.reqs
    BY <1>8 DEF Sound, Events
  <2>2. QED  BY <1>8, <2>1 DEF Honest, Prompted, Alike
<1>10. Mourned(f, alive, born)
  BY <1>8, MournedAlike DEF Prompted
<1>11. QED  BY <1>3, <1>4, <1>5, <1>6, <1>7, <1>9, <1>10 DEF Plain

LEMMA BackPlain ==
  ASSUME AInv, Plain, NEW p \in Procs, NEW i, BackToQueue(p, i)
  PROVE  Plain'
<1>1. /\ ev' = [ev EXCEPT ![p] = ev'[p]] /\ Alike(ev[p], ev'[p]) /\ Requeued(ev[p], ev'[p])
  BY BackRequeues
<1>2. UNCHANGED <<alive, born, pe>>
  BY DEF BackToQueue
<1>3. \A q \in Procs \ {p} : ev'[q] = ev[q]
  BY <1>1 DEF AInv, TypeOK
<1>4. PICK e, f : e = ev[p] /\ f = ev'[p]
  OBVIOUS
<1>5. Alike(e, f) /\ Requeued(e, f) /\ Mourned(e, alive, born)
  BY <1>1, <1>4 DEF Plain
<1>6. \A x : Honest(f, x)
  BY <1>5 DEF Requeued, Honest
<1>7. Mourned(f, alive, born)
  BY <1>5, MournedAlike DEF Requeued
<1>8. \A q \in Procs : exempt(q)' = exempt(q)
  BY <1>2 DEF exempt
<1>9. QED  BY <1>2, <1>3, <1>4, <1>6, <1>7, <1>8 DEF Plain

LEMMA CreatePlain ==
  ASSUME AInv, Plain, NEW p \in Procs, Create(p)
  PROVE  Plain'
<1>1. /\ \A q \in Procs \ {p} : ev'[q] = ev[q]
      /\ DOMAIN ev'[p].reqs = {1} /\ ev'[p].top = 1
      /\ ev'[p].reqs[1] = request(p, "START", 0, 0, time, "none")
      /\ p \notin born /\ born' = born \cup {p} /\ alive' = alive \cup {p}
      /\ UNCHANGED pe /\ time \in 0 .. Horizon
  BY Creating DEF Create, AInv, TypeOK
<1>2. time # Inf
  BY <1>1, Constants
<1>3. ev'[p].reqs[1].when = time /\ ev'[p].reqs[1].id = "START"
  BY <1>1 DEF request
<1>4. Honest(ev'[p], exempt(p)) /\ Mourned(ev'[p], alive', born')
  BY <1>1, <1>2, <1>3 DEF Honest, Mourned
<1>5. ASSUME NEW q \in Procs \ {p}
      PROVE  Mourned(ev[q], alive', born')
  <2>1. Mourned(ev[q], alive, born)
    BY DEF Plain
  <2>2. QED  BY <1>1, <2>1 DEF Mourned
<1>6. \A q \in Procs : exempt(q)' = exempt(q)
  BY <1>1 DEF exempt
<1>7. QED  BY <1>1, <1>4, <1>5, <1>6 DEF Plain

LEMMA EndingPlain ==
  ASSUME AInv, Plain, NEW p, Ending(p)
  PROVE  Plain'
<1>1. p \in Procs /\ born' = born /\ time \in 0 .. Horizon
  BY DEF Ending, AInv, TypeOK
<1>2. PICK hard, flips : Destroy(p, hard, flips)
  BY DEF Ending
<1>3. /\ ev'[p] = NoEvent
      /\ \A q \in Procs \ {p} :
           Alike(ev[q], ev'[q]) /\ Stirred(ev[q], ev'[q], time) /\ Bereaved(ev[q], ev'[q], p)
  BY <1>1, <1>2, Destroying
<1>4. alive' = alive \ {p} /\ \A q \in Procs \ {p} : exempt(q)' = exempt(q)
  BY <1>2, Constants DEF Destroy, exempt, Gone
<1>5. ASSUME NEW q \in Procs \ {p}
      PROVE  Honest(ev'[q], exempt(q)) /\ Mourned(ev'[q], alive \ {p}, born)
  <2>1. Sound(ev[q]) /\ Honest(ev[q], exempt(q)) /\ Mourned(ev[q], alive, born)
    BY DEF AInv, Chained, Plain
  <2>2. Honest(ev'[q], exempt(q))
    BY <1>1, <1>3, <2>1, HonestStirred
  <2>3. Mourned(ev'[q], alive \ {p}, born)
    BY <1>3, <2>1, MournedBereaved
  <2>4. QED  BY <2>2, <2>3
<1>6. QED  BY <1>1, <1>3, <1>4, <1>5, PlainNone DEF Plain

LEMMA ChosenPlain ==
  ASSUME AInv, Plain, NEW p \in Procs, NEW e, Chosen(p, e)
  PROVE  Plain' /\ top(e).when # Inf
<1>1. /\ e.reqs = ev[p].reqs /\ e.top \in DOMAIN e.reqs /\ pe' = None /\ UNCHANGED <<alive, born>>
      /\ Regular(p, e) \/ Priority(p, e)
      /\ \A q \in Procs \ {p} : /\ Alike(ev[q], ev'[q]) /\ Mute(ev[q], ev'[q])
                                /\ Stirred(ev[q], ev'[q], e.wake)
      /\ Renewed(e, ev'[p], e.wake) /\ e.wake \in 0 .. Horizon /\ time \in 0 .. Horizon
  BY DEF Chosen, Delivered, AInv, TypeOK
<1>2. Inf \notin 0 .. Horizon
  BY Constants
<1>3. \A q \in Procs \ {p} : exempt(q) = 0
  BY <1>1 DEF Regular, Priority, Urgent, exempt
<1>4. \A q \in Procs : exempt(q)' = 0
  BY <1>1 DEF exempt
<1>5. top(e).when # Inf
  <2>1. CASE Regular(p, e)
    <3>1. Honest(e, 0) /\ Sound(e)
      BY <2>1 DEF Regular, exempt, Plain, AInv, Chained
    <3>2. e.top # 0
      BY <1>1, <3>1 DEF Sound, Events
    <3>3. QED  BY <1>1, <1>2, <3>1, <3>2 DEF Honest, top
  <2>2. CASE Priority(p, e)
    BY <1>1, <1>2, <2>2 DEF Priority
  <2>3. QED  BY <1>1, <2>1, <2>2
<1>6. ASSUME NEW q \in Procs \ {p}
      PROVE  Honest(ev'[q], 0) /\ Mourned(ev'[q], alive, born)
  <2>1. Sound(ev[q]) /\ Honest(ev[q], 0) /\ Mourned(ev[q], alive, born)
    BY <1>3 DEF AInv, Chained, Plain
  <2>2. Honest(ev'[q], 0)
    BY <1>1, <2>1, HonestStirred
  <2>3. Mourned(ev'[q], alive, born)
    BY <1>1, <2>1, MournedAlike DEF Mute
  <2>4. QED  BY <2>2, <2>3
<1>7. Honest(ev'[p], 0) /\ Mourned(ev'[p], alive, born)
  <2>1. CASE ev'[p] = NoEvent
    BY <2>1, PlainNone
  <2>2. CASE ev'[p] # NoEvent
    <3>1. /\ DOMAIN ev'[p].reqs = {1} /\ ev'[p].top = 1 /\ ev'[p].reqs[1].when # Inf
          /\ ev'[p].reqs[1].list = "SW"
      BY <1>1, <1>2, <2>2 DEF Renewed
    <3>2. OnList(ev'[p].reqs[1], alive)
      BY <1>1, <3>1, ChosenKeeps DEF AInv, Listed
    <3>3. ev'[p].reqs[1].id # "DEATH"
      BY <3>1, <3>2 DEF OnList
    <3>4. QED  BY <3>1, <3>3 DEF Honest, Mourned
  <2>3. QED  BY <2>1, <2>2
<1>8. QED  BY <1>1, <1>4, <1>5, <1>6, <1>7 DEF Plain

LEMMA PlainNext == AInv /\ Plain /\ [Next]_vars => Plain'
<1> SUFFICES ASSUME AInv, Plain, [Next]_vars
             PROVE  Plain'
  OBVIOUS
<1>1. CASE Waiting
  BY <1>1, WaitingPlain
<1>2. CASE Unwait
  <2>1. /\ ev' = [ev EXCEPT ![cur] = NoEvent] /\ UNCHANGED <<alive, born>>
        /\ pe' = IF pe # None /\ pe.proc = cur THEN Gone ELSE pe
    BY <1>2 DEF Unwait
  <2>2. cur \in Procs
    BY <1>2, CallTypes DEF Unwait
  <2>3. ev'[cur] = NoEvent /\ \A q \in Procs \ {cur} : ev'[q] = ev[q] /\ exempt(q)' = exempt(q)
    BY <2>1, <2>2, Constants DEF AInv, TypeOK, exempt, Gone
  <2>4. QED  BY <2>1, <2>3, PlainNone DEF Plain
<1>3. CASE Quiet \/ UNCHANGED vars
  <2>1. UNCHANGED <<alive, born, ev, pe>>
    BY <1>3 DEF Quiet, Sleep, StationTerminate, PriorityLost, PriorityGone, vars
  <2>2. QED  BY <2>1 DEF Plain, exempt
<1>4. ASSUME NEW x \in alive, NEW spec \in Specs, SignalP(x, spec)
      PROVE  Plain'
  BY <1>4, SignalPPlain
<1>5. ASSUME NEW x \in alive, NEW flips \in FLIPs, NEW spec \in Specs, Signal(x, spec, flips)
      PROVE  Plain'
  BY <1>5, SignalStirs, StirPlain DEF Signal
<1>6. ASSUME NEW x \in alive, NEW flips \in FLIPs, Erase(x, flips)
      PROVE  Plain'
  BY <1>6, EraseStirs, StirPlain DEF Erase
<1>7. ASSUME NEW p \in Procs, Create(p)
      PROVE  Plain'
  BY <1>7, CreatePlain
<1>8. ASSUME NEW p \in Procs, Ending(p)
      PROVE  Plain'
  BY <1>8, EndingPlain
<1>9. ASSUME NEW p \in Procs, NEW e, Chosen(p, e)
      PROVE  Plain'
  BY <1>9, ChosenPlain
<1>10. ASSUME NEW p \in Procs, NEW i \in 1 .. MaxChain, BackToQueue(p, i)
       PROVE  Plain'
  BY <1>10, BackPlain
<1>11. ASSUME NEW flips \in FLIPs, NoEvents(flips)
       PROVE  Plain'
  BY <1>11, NoEventsStir, StirPlain DEF NoEvents
<1>12. QED
  BY <1>1, <1>2, <1>3, <1>4, <1>5, <1>6, <1>7, <1>8, <1>9, <1>10, <1>11, Steps

LEMMA AlwaysPlain == Spec => [](AInv /\ Plain)
<1>1. Init => Plain
  BY PlainNone DEF Init, Plain
<1>2. Plain /\ AInv /\ [Next]_vars => Plain'
  BY PlainNext
<1>3. Spec => Init /\ [][Next]_vars
  BY DEF Spec
<1>4. QED  BY <1>1, <1>2, <1>3, Always, PTL

-----------------------------------------------------------------------------
(* Who exists, and who is told of a death                                   *)

\* Fathers exist, and nobody is his own ancestor.
Elders ==
  /\ \A q \in Procs : father[q] \in alive \cup {Kernel, None}
  /\ \E rank \in [Procs -> Nat] : \A q \in Procs : father[q] \in Procs => rank[father[q]] < rank[q]

LEMMA HeirLives ==
  ASSUME AInv, Elders, NEW p \in Procs
  PROVE  heir(p) \in (alive \ {p}) \cup {Kernel}
<1>1. PICK rank \in [Procs -> Nat] : \A q \in Procs : father[q] \in Procs => rank[father[q]] < rank[q]
  BY DEF Elders
<1>2. father[p] # p
  BY <1>1
<1>3. QED  BY <1>2 DEF heir, Elders

LEMMA CreateElders ==
  ASSUME AInv, Elders, NEW p \in Procs, Create(p)
  PROVE  Elders'
<1>1. /\ father' = [father EXCEPT ![p] = cur] /\ alive' = alive \cup {p} /\ cur \in alive
      /\ p \notin alive /\ alive \subseteq Procs /\ father \in [Procs -> Procs \cup {Kernel, None}]
  BY Creating DEF Create, AInv, TypeOK
<1>2. PICK rank \in [Procs -> Nat] : \A q \in Procs : father[q] \in Procs => rank[father[q]] < rank[q]
  BY DEF Elders
<1>3. \A q \in Procs : father'[q] = IF q = p THEN cur ELSE father[q]
  BY <1>1
<1>4. \A q \in Procs : father[q] \in Procs => father[q] # p
  BY <1>1, Constants DEF Elders
<1> DEFINE new == [rank EXCEPT ![p] = rank[cur] + 1]
<1>5. new \in [Procs -> Nat]
  BY <1>1
<1>6. \A q \in Procs : new[q] = IF q = p THEN rank[cur] + 1 ELSE rank[q]
  OBVIOUS
<1> HIDE DEF new
<1>7. ASSUME NEW q \in Procs, father'[q] \in Procs
      PROVE  new[father'[q]] < new[q]
  <2>1. CASE q = p
    BY <1>1, <1>3, <1>6, <2>1
  <2>2. CASE q # p
    BY <1>2, <1>3, <1>4, <1>6, <1>7, <2>2
  <2>3. QED  BY <2>1, <2>2
<1>8. \A q \in Procs : father'[q] \in alive' \cup {Kernel, None}
  BY <1>1, <1>3 DEF Elders
<1>9. QED  BY <1>5, <1>7, <1>8 DEF Elders

LEMMA EndingElders ==
  ASSUME AInv, Elders, NEW p, Ending(p)
  PROVE  Elders'
<1>1. p \in Procs /\ father' = adopt(p) /\ alive' = alive \ {p}
  BY DEF Ending, Destroy, AInv, TypeOK
<1>2. PICK rank \in [Procs -> Nat] : \A q \in Procs : father[q] \in Procs => rank[father[q]] < rank[q]
  BY DEF Elders
<1>3. \A q \in Procs : father'[q] = IF q = p THEN None ELSE IF father[q] = p THEN heir(p) ELSE father[q]
  BY <1>1 DEF adopt
<1>4. heir(p) \in (alive \ {p}) \cup {Kernel}
  BY <1>1, HeirLives
<1>5. \A q \in Procs : father'[q] \in (alive \ {p}) \cup {Kernel, None}
  BY <1>3, <1>4 DEF Elders
<1>6. ASSUME NEW q \in Procs, father'[q] \in Procs
      PROVE  rank[father'[q]] < rank[q]
  <2>1. CASE q = p
    BY <1>3, <1>6, <2>1, Constants
  <2>2. CASE q # p /\ father[q] # p
    BY <1>2, <1>3, <1>6, <2>2
  <2>3. CASE q # p /\ father[q] = p
    <3>1. father'[q] = heir(p) /\ rank[p] < rank[q]
      BY <1>1, <1>2, <1>3, <2>3
    <3>2. heir(p) = father[p]
      BY <1>6, <3>1, Constants DEF heir
    <3>3. rank[father[p]] < rank[p] /\ father[p] \in Procs
      BY <1>1, <1>2, <1>6, <3>1, <3>2
    <3>4. rank[q] \in Nat /\ rank[p] \in Nat /\ rank[father[p]] \in Nat
      BY <1>1, <3>3
    <3>5. QED  BY <3>1, <3>2, <3>3, <3>4
  <2>4. QED  BY <2>1, <2>2, <2>3
<1>7. QED  BY <1>1, <1>2, <1>5, <1>6 DEF Elders

LEMMA EldersNext == AInv /\ Elders /\ [Next]_vars => Elders'
<1> SUFFICES ASSUME AInv, Elders, [Next]_vars
             PROVE  Elders'
  OBVIOUS
<1>1. CASE UNCHANGED <<father, alive>>
  BY <1>1 DEF Elders
<1>2. CASE Waiting
  BY <1>1, <1>2, WaitingAdds DEF AddRequest
<1>3. CASE Unwait \/ Quiet \/ UNCHANGED vars
  BY <1>1, <1>3 DEF Unwait, Quiet, Sleep, StationTerminate, PriorityLost, PriorityGone, vars
<1>4. ASSUME NEW x, NEW spec, NEW flips, SignalP(x, spec) \/ Signal(x, spec, flips)
                                         \/ Erase(x, flips) \/ NoEvents(flips)
      PROVE  Elders'
  BY <1>1, <1>4 DEF SignalP, Signal, Erase, NoEvents
<1>5. ASSUME NEW p, NEW e, Chosen(p, e)
      PROVE  Elders'
  BY <1>1, <1>5 DEF Chosen
<1>6. ASSUME NEW p, NEW i, BackToQueue(p, i)
      PROVE  Elders'
  BY <1>1, <1>6 DEF BackToQueue
<1>7. QED
  BY <1>2, <1>3, <1>4, <1>5, <1>6, CreateElders, EndingElders, Steps

\* What is true of each request of an event e: only the Timer restarts a process in the
\* future; a request that may still be delivered points to somebody who exists, except
\* the one behind the priority event.
Tended(e, i, x, living, now) ==
  LET r == e.reqs[i]
  IN  /\ r.ai = Timer \/ r.when \in {now, Inf}
      /\ \/ r.ai \in living \cup {Kernel, Timer}
         \/ r.when = Inf
         \/ i = x /\ (e.top # i \/ e.wake > now)

AllTended == \A q \in Procs : \A i \in DOMAIN ev[q].reqs : Tended(ev[q], i, exempt(q), alive, time)

LEMMA TendedStirred ==
  ASSUME NEW e, Sound(e), NEW f, NEW i \in DOMAIN e.reqs, NEW x, NEW living, NEW now \in Nat,
         Alike(e, f), Kin(e, f), Stirred(e, f, now), OnList(e.reqs[i], living),
         Tended(e, i, x, living, now)
  PROVE  Tended(f, i, x, living, now)
<1>1. PICK r, s : r = e.reqs[i] /\ s = f.reqs[i]
  OBVIOUS
<1>2. /\ s.ai = r.ai /\ s.id = r.id /\ s.what = r.what /\ s.list = r.list
      /\ s.when = r.when \/ (s.when = now /\ r.list \in {"TW", "SW"})
  BY <1>1 DEF Alike, Same, Kin, Stirred, Touched
<1>3. CASE r.ai \in living \cup {Kernel, Timer}
  BY <1>1, <1>2, <1>3 DEF Tended
<1>4. CASE r.ai \notin living \cup {Kernel, Timer}
  <2>1. ~ r.list \in {"TW", "SW"} /\ s.when = r.when
    BY <1>1, <1>2, <1>4 DEF OnList
  <2>2. CASE r.when = Inf
    BY <1>1, <1>2, <2>1, <2>2 DEF Tended
  <2>3. CASE r.when # Inf
    <3>1. i = x /\ (e.top # i \/ e.wake > now) /\ e.wake \in Nat
      BY <1>1, <1>4, <2>3, Numbers DEF Tended
    <3>2. f.top # i \/ f.wake > now
      BY <1>1, <2>1, <3>1 DEF Stirred, Unmoved, Stays, Turns
    <3>3. QED  BY <1>1, <1>2, <2>1, <3>1, <3>2 DEF Tended
  <2>4. QED  BY <2>2, <2>3
<1>5. QED  BY <1>3, <1>4

\* Time advances.
LEMMA TendedLater ==
  ASSUME NEW e, Sound(e), NEW i \in DOMAIN e.reqs, NEW living,
         NEW now \in Nat, NEW later \in Nat, now <= later, later <= e.wake \/ later = now,
         Upright(e, 0, now), Tended(e, i, 0, living, now)
  PROVE  Tended(e, i, 0, living, later)
<1>1. i # 0 /\ e.wake \in Nat /\ e.reqs[i].when \in Nat
  BY Numbers DEF Sound, Events
<1>2. e.wake <= e.reqs[i].when
  BY <1>1 DEF Upright
<1>3. e.reqs[i].when = now => later = now
  BY <1>1, <1>2
<1>4. QED  BY <1>1, <1>3 DEF Tended

\* p is destroyed.
LEMMA TendedBereaved ==
  ASSUME AInv, NEW p \in alive, heir(p) \in (alive \ {p}) \cup {Kernel},
         NEW e, Sound(e), NEW f, NEW i \in DOMAIN e.reqs, NEW x,
         Alike(e, f), Stirred(e, f, time), Bereaved(e, f, p), OnList(e.reqs[i], alive),
         Upright(e, x, time), i = x => e.reqs[i].id = "SIGNAL",
         Tended(e, i, x, alive, time)
  PROVE  Tended(f, i, x, alive \ {p}, time)
<1>1. PICK r, s : r = e.reqs[i] /\ s = f.reqs[i]
  OBVIOUS
<1>2. p # Timer /\ p # Kernel /\ time \in Nat /\ e.wake \in Nat /\ r.when \in Nat
  BY <1>1, Constants, Numbers DEF AInv, TypeOK
<1>3. /\ s.id = r.id /\ s.what = r.what
      /\ s.ai = IF moves(r, p, e.wake <= time) THEN heir(p) ELSE r.ai
      /\ s.when = r.when \/ (s.when = time /\ ToldOf(r, p))
  BY <1>1 DEF Alike, Same, Bereaved
<1>4. s.ai = Timer \/ s.when \in {time, Inf}
  BY <1>1, <1>2, <1>3 DEF Tended, moves
<1>5. \/ s.ai \in (alive \ {p}) \cup {Kernel, Timer}
      \/ s.when = Inf
      \/ i = x /\ (f.top # i \/ f.wake > time)
  <2>1. CASE moves(r, p, e.wake <= time)
    BY <1>3, <2>1
  <2>2. CASE ~moves(r, p, e.wake <= time) /\ r.ai \in (alive \ {p}) \cup {Kernel, Timer}
    BY <1>3, <2>2
  <2>3. CASE ~moves(r, p, e.wake <= time) /\ r.ai = p
    <3>1. e.wake > time /\ r.list # "TW" /\ s.when = r.when
      BY <1>2, <1>3, <2>3 DEF moves, ToldOf
    <3>2. CASE r.when = Inf
      BY <3>1, <3>2
    <3>3. CASE r.when # Inf
      <4>1. r.when = time
        BY <1>1, <1>2, <2>3, <3>3 DEF Tended
      <4>2. i = x
        BY <1>1, <1>2, <3>1, <4>1 DEF Upright
      <4>3. ~ r.list \in {"TW", "SW"}
        BY <1>1, <3>1, <4>2 DEF OnList
      <4>4. f.top # i \/ f.wake > time
        BY <1>1, <1>2, <3>1, <4>3 DEF Stirred, Unmoved, Stays, Turns
      <4>5. QED  BY <4>2, <4>4
    <3>4. QED  BY <3>2, <3>3
  <2>4. CASE r.ai \notin alive \cup {Kernel, Timer}
    <3>1. ~ r.list \in {"TW", "SW"} /\ s.when = r.when
      BY <1>1, <1>3, <2>4 DEF OnList, ToldOf
    <3>2. CASE r.when = Inf
      BY <3>1, <3>2
    <3>3. CASE r.when # Inf
      <4>1. i = x /\ (e.top # i \/ e.wake > time)
        BY <1>1, <2>4, <3>3 DEF Tended
      <4>2. f.top # i \/ f.wake > time
        BY <1>1, <1>2, <3>1, <4>1 DEF Stirred, Unmoved, Stays, Turns
      <4>3. QED  BY <4>1, <4>2
    <3>4. QED  BY <3>2, <3>3
  <2>5. QED  BY <2>1, <2>2, <2>3, <2>4
<1>6. QED  BY <1>1, <1>4, <1>5 DEF Tended

LEMMA ExemptSignal ==
  ASSUME AInv, NEW q \in Procs, NEW i \in DOMAIN ev[q].reqs, i = exempt(q)
  PROVE  ev[q].reqs[i].id = "SIGNAL" /\ ev[q].reqs[i].when = time
<1>1. i # 0
  BY DEF AInv, Chained, Sound, Events
<1>2. pe # None /\ pe.proc = q /\ pe.idx = i
  BY <1>1 DEF exempt
<1>3. pe # Gone
  BY <1>2, Constants DEF Gone
<1>4. PICK p \in Procs : \E j \in DOMAIN ev[p].reqs :
        Urgent(p, j) /\ ev[p].reqs[j].when = time /\ ev[p].reqs[j].id = "SIGNAL"
  BY <1>2, <1>3 DEF AInv, Pressing
<1>5. PICK j \in DOMAIN ev[p].reqs :
        Urgent(p, j) /\ ev[p].reqs[j].when = time /\ ev[p].reqs[j].id = "SIGNAL"
  BY <1>4
<1>6. p = q /\ j = i
  BY <1>2, <1>5 DEF Urgent
<1>7. QED  BY <1>5, <1>6

LEMMA StirTends ==
  ASSUME AInv, AllTended, EventsStir(time), UNCHANGED <<time, alive, born, pe>>
  PROVE  AllTended'
<1>1. ASSUME NEW q \in Procs, NEW i \in DOMAIN ev'[q].reqs
      PROVE  Tended(ev'[q], i, exempt(q), alive, time)
  <2>1. PICK e, f, x, t : e = ev[q] /\ f = ev'[q] /\ x = exempt(q) /\ t = time
    OBVIOUS
  <2>2. /\ Sound(e) /\ i \in DOMAIN e.reqs /\ t \in Nat /\ OnList(e.reqs[i], alive)
        /\ Alike(e, f) /\ Kin(e, f) /\ Mute(e, f) /\ Stirred(e, f, t)
        /\ Tended(e, i, x, alive, t)
    BY <2>1 DEF AInv, Chained, TypeOK, Listed, EventsStir, AllTended, Alike
  <2>3. Tended(f, i, x, alive, t)
    BY <2>2, TendedStirred
  <2>4. QED  BY <2>1, <2>3
<1>2. \A q \in Procs : exempt(q)' = exempt(q)
  BY DEF exempt
<1>3. QED  BY <1>1, <1>2 DEF AllTended

LEMMA EndingTends ==
  ASSUME AInv, Ordered, Elders, AllTended, NEW p, Ending(p)
  PROVE  AllTended'
<1>1. p \in Procs /\ p \in alive /\ UNCHANGED <<time, born>>
  BY DEF Ending, AInv, TypeOK
<1>2. PICK hard, flips : Destroy(p, hard, flips)
  BY DEF Ending
<1>3. /\ ev'[p] = NoEvent
      /\ \A q \in Procs \ {p} :
           Alike(ev[q], ev'[q]) /\ Stirred(ev[q], ev'[q], time) /\ Bereaved(ev[q], ev'[q], p)
  BY <1>1, <1>2, Destroying
<1>4. alive' = alive \ {p} /\ \A q \in Procs \ {p} : exempt(q)' = exempt(q)
  BY <1>2, Constants DEF Destroy, exempt, Gone
<1>5. ASSUME NEW q \in Procs, NEW i \in DOMAIN ev'[q].reqs
      PROVE  q # p /\ Tended(ev'[q], i, exempt(q), alive \ {p}, time)
  <2>1. q # p
    BY <1>3, <1>5, NoEventSound
  <2>2. PICK e, f, x : e = ev[q] /\ f = ev'[q] /\ x = exempt(q)
    OBVIOUS
  <2>3. i \in DOMAIN e.reqs
    BY <1>3, <1>5, <2>1, <2>2 DEF Alike
  <2>4. i = x => e.reqs[i].id = "SIGNAL"
    BY <2>2, <2>3, ExemptSignal
  <2>5. /\ Sound(e) /\ OnList(e.reqs[i], alive) /\ Upright(e, x, time)
        /\ Alike(e, f) /\ Stirred(e, f, time) /\ Bereaved(e, f, p)
        /\ Tended(e, i, x, alive, time)
    BY <1>3, <2>1, <2>2, <2>3 DEF AInv, Chained, Listed, Ordered, AllTended
  <2>6. Tended(f, i, x, alive \ {p}, time)
    BY <1>1, <2>3, <2>4, <2>5, HeirLives, TendedBereaved
  <2>7. QED  BY <2>1, <2>2, <2>6
<1>6. QED  BY <1>1, <1>4, <1>5 DEF AllTended

LEMMA ChosenTends ==
  ASSUME AInv, Ordered, AllTended, NEW p \in Procs, NEW e, Chosen(p, e)
  PROVE  AllTended'
<1>1. /\ time <= e.wake /\ time \in Nat /\ e.wake \in Nat
      /\ \A q \in Procs \ {p} : (e.wake <= ev[q].wake \/ e.wake = time) /\ exempt(q) = 0
  BY ChosenOrders DEF AInv, TypeOK, Chosen
<1>2. PICK w : w = e.wake
  OBVIOUS
<1>3. /\ \A q \in Procs \ {p} : /\ Alike(ev[q], ev'[q]) /\ Kin(ev[q], ev'[q])
                                /\ Stirred(ev[q], ev'[q], w) /\ Mute(ev[q], ev'[q])
      /\ Renewed(e, ev'[p], w) /\ time' = w /\ pe' = None /\ UNCHANGED <<alive, born>>
  BY <1>2 DEF Chosen, Delivered
<1>4. ASSUME NEW q \in Procs, NEW i \in DOMAIN ev'[q].reqs
      PROVE  Tended(ev'[q], i, 0, alive, w)
  <2>1. CASE q = p
    <3>1. ev'[p].reqs[i].list = "SW" /\ ev'[p].reqs[i].when = w
      BY <1>3, <1>4, <2>1, NoEventSound DEF Renewed
    <3>2. OnList(ev'[p].reqs[i], alive)
      BY <1>3, <1>4, <2>1, ChosenKeeps DEF AInv, Listed
    <3>3. QED  BY <2>1, <3>1, <3>2 DEF Tended, OnList
  <2>2. CASE q # p
    <3>1. PICK a, b, t : a = ev[q] /\ b = ev'[q] /\ t = time
      OBVIOUS
    <3>2. /\ Sound(a) /\ i \in DOMAIN a.reqs /\ t \in Nat /\ w \in Nat /\ OnList(a.reqs[i], alive)
          /\ Alike(a, b) /\ Kin(a, b) /\ Mute(a, b) /\ Stirred(a, b, w)
          /\ Tended(a, i, 0, alive, t) /\ Upright(a, 0, t)
          /\ t <= w /\ (w <= a.wake \/ w = t)
      BY <1>1, <1>2, <1>3, <1>4, <2>2, <3>1 DEF AInv, Chained, Listed, AllTended, Ordered, Alike
    <3>3. Tended(a, i, 0, alive, w)
      BY <3>2, TendedLater
    <3>4. Tended(b, i, 0, alive, w)
      BY <3>2, <3>3, TendedStirred
    <3>5. QED  BY <3>1, <3>4
  <2>3. QED  BY <2>1, <2>2
<1>5. \A q \in Procs : exempt(q)' = 0
  BY <1>3 DEF exempt
<1>6. QED  BY <1>3, <1>4, <1>5 DEF AllTended

\* The request stays, the event shows the same one or another.
LEMMA TendedSame ==
  ASSUME NEW e, NEW f, NEW i, NEW x, NEW living, NEW now,
         Tended(e, i, x, living, now), f.reqs[i] = e.reqs[i],
         f.top # i \/ (f.top = e.top /\ f.wake = e.wake)
  PROVE  Tended(f, i, x, living, now)
BY DEF Tended

LEMMA WaitingTends == AInv /\ AllTended /\ Waiting => AllTended'
<1> SUFFICES ASSUME AInv, AllTended, Waiting
             PROVE  AllTended'
  OBVIOUS
<1>1. cur \in alive
  BY WaitingAdds
<1>2. PICK r, flip : Fresh(r) /\ AddRequest(r, flip)
  BY WaitingAdds
<1>3. /\ ev' = [ev EXCEPT ![cur] = ev'[cur]] /\ Extended(ev[cur], ev'[cur], r)
      /\ TakesOver(ev[cur], ev'[cur], r) \/ Holds(ev[cur], ev'[cur], r)
  BY <1>1, <1>2, AddingExtends, AddingTakes
<1>4. cur \in Procs /\ UNCHANGED <<time, alive, born, pe>> /\ alive \subseteq born
  BY <1>1, <1>2 DEF AInv, TypeOK, AddRequest
<1>5. \A q \in Procs \ {cur} : ev'[q] = ev[q]
  BY <1>3, <1>4 DEF AInv, TypeOK
<1>6. ASSUME NEW q \in Procs, NEW i \in DOMAIN ev'[q].reqs
      PROVE  Tended(ev'[q], i, exempt(q), alive, time)
  <2>1. CASE q # cur
    BY <1>5, <1>6, <2>1 DEF AllTended
  <2>2. CASE q = cur /\ i \in DOMAIN ev[cur].reqs
    <3>1. PICK e, f, x : e = ev[cur] /\ f = ev'[cur] /\ x = exempt(cur)
      OBVIOUS
    <3>2. Tended(e, i, x, alive, time) /\ f.reqs[i] = e.reqs[i]
      BY <1>3, <1>4, <2>2, <3>1 DEF AllTended, Extended
    <3>3. f.top # i \/ (f.top = e.top /\ f.wake = e.wake)
      BY <1>3, <2>2, <3>1 DEF Extended, TakesOver, Holds
    <3>4. Tended(f, i, x, alive, time)
      BY <3>2, <3>3, TendedSame
    <3>5. QED  BY <2>2, <3>1, <3>4
  <2>3. CASE q = cur /\ i \notin DOMAIN ev[cur].reqs
    <3>1. ev'[q].reqs[i] = r
      BY <1>3, <1>6, <2>3 DEF Extended
    <3>2. QED  BY <1>2, <1>4, <3>1 DEF Fresh, Tended
  <2>4. QED  BY <2>1, <2>2, <2>3
<1>7. \A q \in Procs : exempt(q)' = exempt(q)
  BY <1>4 DEF exempt
<1>8. QED  BY <1>4, <1>6, <1>7 DEF AllTended

LEMMA SignalPTends ==
  ASSUME AInv, AllTended, NEW x \in alive, NEW spec, SignalP(x, spec)
  PROVE  AllTended'
<1>1. PICK p \in Procs : \E i \in DOMAIN ev[p].reqs :
           /\ IsSignal(x, ev[p].reqs[i])
           /\ ev' = [ev EXCEPT ![p] = ev'[p]]
           /\ Alike(ev[p], ev'[p]) /\ Prompted(ev[p], ev'[p], i, time)
  BY SignalPPrompts
<1>2. PICK i \in DOMAIN ev[p].reqs :
           /\ IsSignal(x, ev[p].reqs[i])
           /\ ev' = [ev EXCEPT ![p] = ev'[p]]
           /\ Alike(ev[p], ev'[p]) /\ Prompted(ev[p], ev'[p], i, time)
  BY <1>1
<1>3. pe = None /\ UNCHANGED <<time, alive, born>>
  BY DEF SignalP
<1>4. \A q \in Procs \ {p} : ev'[q] = ev[q]
  BY <1>2 DEF AInv, TypeOK
<1>5. ASSUME NEW q \in Procs, NEW j \in DOMAIN ev'[q].reqs, NEW y
      PROVE  Tended(ev'[q], j, y, alive, time)
  <2>1. j \in DOMAIN ev[q].reqs
    BY <1>2, <1>4 DEF Alike
  <2>2. PICK e, f : e = ev[q] /\ f = ev'[q]
    OBVIOUS
  <2>3. Tended(e, j, 0, alive, time) /\ j # 0
    BY <1>3, <2>1, <2>2 DEF AllTended, exempt, AInv, Chained, Sound, Events
  <2>4. /\ f.reqs[j].id = e.reqs[j].id /\ f.reqs[j].what = e.reqs[j].what
        /\ f.reqs[j].ai = e.reqs[j].ai
        /\ \/ f.reqs[j].when = e.reqs[j].when
           \/ f.reqs[j].when = time /\ IsSignal(x, e.reqs[j])
    BY <1>2, <1>4, <2>1, <2>2 DEF Alike, Same, Prompted, Kin
  <2>5. QED  BY <2>2, <2>3, <2>4 DEF Tended, IsSignal
<1>6. QED  BY <1>3, <1>5 DEF AllTended

LEMMA BackTends ==
  ASSUME AInv, AllTended, NEW p \in Procs, NEW i, BackToQueue(p, i)
  PROVE  AllTended'
<1>1. /\ ev' = [ev EXCEPT ![p] = ev'[p]] /\ Alike(ev[p], ev'[p]) /\ Requeued(ev[p], ev'[p])
  BY BackRequeues
<1>2. UNCHANGED <<time, alive, born, pe>> /\ pe = None /\ top(ev[p]).id = "SIGNAL"
  BY DEF BackToQueue, Due
<1>3. \A q \in Procs \ {p} : ev'[q] = ev[q]
  BY <1>1 DEF AInv, TypeOK
<1>4. ASSUME NEW q \in Procs, NEW j \in DOMAIN ev'[q].reqs
      PROVE  Tended(ev'[q], j, 0, alive, time)
  <2>1. j \in DOMAIN ev[q].reqs
    BY <1>1, <1>3 DEF Alike
  <2>2. PICK e, f : e = ev[q] /\ f = ev'[q]
    OBVIOUS
  <2>3. Tended(e, j, 0, alive, time) /\ j # 0
    BY <1>2, <2>1, <2>2 DEF AllTended, exempt, AInv, Chained, Sound, Events
  <2>4. /\ f.reqs[j].id = e.reqs[j].id /\ f.reqs[j].what = e.reqs[j].what
        /\ f.reqs[j].ai = e.reqs[j].ai
        /\ \/ f.reqs[j].when = e.reqs[j].when
           \/ f.reqs[j].when = Inf /\ e.reqs[j].id = "SIGNAL"
    BY <1>1, <1>2, <1>3, <2>1, <2>2 DEF Alike, Same, Requeued, Kin, top
  <2>5. QED  BY <2>2, <2>3, <2>4 DEF Tended
<1>5. \A q \in Procs : exempt(q)' = 0
  BY <1>2 DEF exempt
<1>6. QED  BY <1>2, <1>4, <1>5 DEF AllTended

LEMMA CreateTends ==
  ASSUME AInv, AllTended, NEW p \in Procs, Create(p)
  PROVE  AllTended'
<1>1. /\ \A q \in Procs \ {p} : ev'[q] = ev[q]
      /\ DOMAIN ev'[p].reqs = {1} /\ ev'[p].reqs[1] = request(p, "START", 0, 0, time, "none")
      /\ p \notin born /\ born' = born \cup {p} /\ alive' = alive \cup {p} /\ UNCHANGED <<time, pe>>
  BY Creating DEF Create
<1>2. Tended(ev'[p], 1, exempt(p), alive', time)
  BY <1>1 DEF Tended, request
<1>3. ASSUME NEW q \in Procs \ {p}, NEW i \in DOMAIN ev[q].reqs
      PROVE  Tended(ev[q], i, exempt(q), alive', time)
  <2>1. Tended(ev[q], i, exempt(q), alive, time)
    BY DEF AllTended
  <2>2. QED  BY <1>1, <2>1 DEF Tended
<1>4. \A q \in Procs : exempt(q)' = exempt(q)
  BY <1>1 DEF exempt
<1>5. QED  BY <1>1, <1>2, <1>3, <1>4 DEF AllTended

LEMMA TendedNext == AInv /\ Opened /\ Elders /\ AllTended /\ [Next]_vars => AllTended'
<1> SUFFICES ASSUME AInv, Ordered, Elders, AllTended, [Next]_vars
             PROVE  AllTended'
  BY DEF Opened
<1>1. CASE Waiting
  BY <1>1, WaitingTends
<1>2. CASE Unwait
  <2>1. /\ ev' = [ev EXCEPT ![cur] = NoEvent] /\ UNCHANGED <<time, alive, born>>
        /\ pe' = IF pe # None /\ pe.proc = cur THEN Gone ELSE pe
    BY <1>2 DEF Unwait
  <2>2. cur \in Procs
    BY <1>2, CallTypes DEF Unwait
  <2>3. ev'[cur] = NoEvent /\ \A q \in Procs \ {cur} : ev'[q] = ev[q] /\ exempt(q)' = exempt(q)
    BY <2>1, <2>2, Constants DEF AInv, TypeOK, exempt, Gone
  <2>4. QED  BY <2>1, <2>3, NoEventSound DEF AllTended
<1>3. CASE Quiet \/ UNCHANGED vars
  <2>1. UNCHANGED <<time, alive, born, ev, pe>>
    BY <1>3 DEF Quiet, Sleep, StationTerminate, PriorityLost, PriorityGone, vars
  <2>2. QED  BY <2>1 DEF AllTended, exempt
<1>4. ASSUME NEW x \in alive, NEW spec \in Specs, SignalP(x, spec)
      PROVE  AllTended'
  BY <1>4, SignalPTends
<1>5. ASSUME NEW x \in alive, NEW flips \in FLIPs, NEW spec \in Specs, Signal(x, spec, flips)
      PROVE  AllTended'
  BY <1>5, SignalStirs, StirTends DEF Signal
<1>6. ASSUME NEW x \in alive, NEW flips \in FLIPs, Erase(x, flips)
      PROVE  AllTended'
  BY <1>6, EraseStirs, StirTends DEF Erase
<1>7. ASSUME NEW p \in Procs, Create(p)
      PROVE  AllTended'
  BY <1>7, CreateTends
<1>8. ASSUME NEW p \in Procs, Ending(p)
      PROVE  AllTended'
  BY <1>8, EndingTends
<1>9. ASSUME NEW p \in Procs, NEW e, Chosen(p, e)
      PROVE  AllTended'
  BY <1>9, ChosenTends
<1>10. ASSUME NEW p \in Procs, NEW i \in 1 .. MaxChain, BackToQueue(p, i)
       PROVE  AllTended'
  BY <1>10, BackTends
<1>11. ASSUME NEW flips \in FLIPs, NoEvents(flips)
       PROVE  AllTended'
  BY <1>11, NoEventsStir, StirTends DEF NoEvents
<1>12. QED
  BY <1>1, <1>2, <1>3, <1>4, <1>5, <1>6, <1>7, <1>8, <1>9, <1>10, <1>11, Steps

\* Everybody who exists waits for something, or runs, or is a process of System.
Awake == \A q \in alive : q # cur /\ Owner[q] # System => ev[q] # NoEvent

LEMMA AwakeNext == AInv /\ Awake /\ [Next]_vars => Awake'
<1> SUFFICES ASSUME AInv, Awake, [Next]_vars
             PROVE  Awake'
  OBVIOUS
<1>1. alive \subseteq Procs /\ ev \in [Procs -> Events]
  BY DEF AInv, TypeOK
<1>2. ASSUME UNCHANGED <<alive, cur>>,
             \A q \in Procs \ {cur} : ev[q] # NoEvent => ev'[q] # NoEvent
      PROVE  Awake'
  BY <1>1, <1>2 DEF Awake
<1>3. CASE Waiting
  <2>1. cur \in alive
    BY <1>3, WaitingAdds
  <2>2. PICK r, flip : Fresh(r) /\ AddRequest(r, flip)
    BY <1>3, WaitingAdds
  <2>3. ev' = [ev EXCEPT ![cur] = ev'[cur]]
    BY <2>1, <2>2, AddingExtends
  <2>4. \A q \in Procs \ {cur} : ev'[q] = ev[q]
    BY <1>1, <2>1, <2>3
  <2>5. QED  BY <1>2, <2>2, <2>4 DEF AddRequest
<1>4. CASE Unwait
  <2>1. UNCHANGED <<alive, cur>> /\ \A q \in Procs \ {cur} : ev'[q] = ev[q]
    BY <1>1, <1>4 DEF Unwait
  <2>2. QED  BY <1>2, <2>1
<1>5. CASE Quiet \/ UNCHANGED vars
  <2>1. CASE Sleep
    BY <2>1 DEF Sleep, FirstWait, InLoop, Awake
  <2>2. CASE ~Sleep
    <3>1. UNCHANGED <<alive, ev, cur>>
      BY <1>5, <2>2 DEF Quiet, StationTerminate, PriorityLost, PriorityGone, vars
    <3>2. QED  BY <3>1 DEF Awake
  <2>3. QED  BY <2>1, <2>2
<1>6. ASSUME NEW x \in alive, NEW spec \in Specs, SignalP(x, spec)
      PROVE  Awake'
  <2>1. PICK p \in Procs : ev' = [ev EXCEPT ![p] = ev'[p]] /\ Alike(ev[p], ev'[p])
    BY <1>6, SignalPPrompts
  <2>2. \A q \in Procs : ev[q] # NoEvent => ev'[q] # NoEvent
    BY <1>1, <2>1 DEF Alike
  <2>3. QED  BY <1>2, <1>6, <2>2 DEF SignalP
<1>7. ASSUME NEW x \in alive, NEW flips \in FLIPs, NEW spec \in Specs, Signal(x, spec, flips)
      PROVE  Awake'
  BY <1>2, <1>7, SignalStirs DEF Signal, EventsStir, Alike
<1>8. ASSUME NEW x \in alive, NEW flips \in FLIPs, Erase(x, flips)
      PROVE  Awake'
  BY <1>2, <1>8, EraseStirs DEF Erase, EventsStir, Alike
<1>9. ASSUME NEW p \in Procs, Create(p)
      PROVE  Awake'
  <2>1. /\ \A q \in Procs \ {p} : ev'[q] = ev[q]
        /\ ev'[p] # NoEvent /\ alive' = alive \cup {p} /\ cur' = cur
    BY <1>9, Creating DEF Create
  <2>2. QED  BY <1>1, <2>1 DEF Awake
<1>10. ASSUME NEW p \in Procs, Ending(p)
       PROVE  Awake'
  <2>1. PICK hard, flips : Destroy(p, hard, flips)
    BY <1>10 DEF Ending
  <2>2. alive' = alive \ {p} /\ (cur' = cur \/ p = cur)
    BY <1>10, <2>1 DEF Destroy, Ending
  <2>3. \A q \in Procs \ {p} : Alike(ev[q], ev'[q])
    BY <1>10, <2>1, Destroying
  <2>4. QED  BY <1>1, <2>2, <2>3 DEF Awake, Alike
<1>11. ASSUME NEW p \in Procs, NEW e, Chosen(p, e)
       PROVE  Awake'
  <2>1. /\ cur' = p /\ cur = None /\ alive' = alive
        /\ \A q \in Procs \ {p} : Alike(ev[q], ev'[q])
    BY <1>11 DEF Chosen, Delivered, AtLoop
  <2>2. QED  BY <1>1, <2>1, Constants DEF Awake, Alike
<1>12. ASSUME NEW p \in Procs, NEW i \in 1 .. MaxChain, BackToQueue(p, i)
       PROVE  Awake'
  <2>1. ev' = [ev EXCEPT ![p] = ev'[p]] /\ Alike(ev[p], ev'[p])
    BY <1>12, BackRequeues
  <2>2. \A q \in Procs : ev[q] # NoEvent => ev'[q] # NoEvent
    BY <1>1, <2>1 DEF Alike
  <2>3. QED  BY <1>2, <1>12, <2>2 DEF BackToQueue
<1>13. ASSUME NEW flips \in FLIPs, NoEvents(flips)
       PROVE  Awake'
  BY <1>2, <1>13, NoEventsStir DEF NoEvents, EventsStir, Alike
<1>14. QED
  BY <1>3, <1>4, <1>5, <1>6, <1>7, <1>8, <1>9, <1>10, <1>11, <1>12, <1>13, Steps

LEMMA EldersInit == Init => Elders
<1>1. SUFFICES ASSUME Init
               PROVE  Elders
  OBVIOUS
<1>2. [q \in Procs |-> 0] \in [Procs -> Nat] /\ \A q \in Procs : father[q] \notin Procs
  BY <1>1, Constants DEF Init
<1>3. QED  BY <1>1, <1>2 DEF Init, Elders

\* What LivingWait says of the processes themselves, whatever the program does.
Families ==
  AtLoop =>
    \A p \in Procs :
      /\ p \notin alive => ev[p] = NoEvent
      /\ p \in alive /\ Owner[p] # System => ev[p] # NoEvent
      /\ p \in alive => father[p] \in alive \cup {Kernel, None}

\* Whoever exists waits for something, unless it is a process of System, and has a father who
\* exists, or the Kernel; whoever is gone waits for nothing.
THEOREM Kinship == Spec => []Families
<1>1. Init => Elders /\ Awake
  BY EldersInit, Constants DEF Init, Awake
<1>2. AInv /\ Elders /\ Awake /\ [Next]_vars => Elders' /\ Awake'
  BY EldersNext, AwakeNext
<1>3. AInv /\ Elders /\ Awake => Families
  <2>1. SUFFICES ASSUME AInv, Elders, Awake, AtLoop, NEW p \in Procs
                 PROVE  /\ p \notin alive => ev[p] = NoEvent
                        /\ p \in alive /\ Owner[p] # System => ev[p] # NoEvent
                        /\ p \in alive => father[p] \in alive \cup {Kernel, None}
    BY DEF Families
  <2>2. QED  BY <2>1, Constants DEF AInv, Dead, Awake, AtLoop, Elders
<1>4. Spec => Init /\ [][Next]_vars
  BY DEF Spec
<1>5. QED  BY <1>1, <1>2, <1>3, <1>4, Always, PTL

CInv == Elders /\ AllTended /\ Awake

LEMMA AlwaysTended == ASSUME Early PROVE Spec => [](AInv /\ Opened /\ CInv)
<1>1. Init => CInv
  <2>1. SUFFICES ASSUME Init
                 PROVE  CInv
    OBVIOUS
  <2>2. Elders /\ Awake
    BY <2>1, EldersInit, Constants DEF Init, Awake
  <2>3. AllTended
    BY <2>1, NoEventSound DEF Init, AllTended
  <2>4. QED  BY <2>2, <2>3 DEF CInv
<1>2. AInv /\ Opened /\ CInv /\ [Next]_vars => CInv'
  BY EldersNext, TendedNext, AwakeNext DEF CInv
<1>3. Spec => Init /\ [][Next]_vars
  BY DEF Spec
<1>4. QED  BY <1>1, <1>2, <1>3, AlwaysOpened, PTL

\* Whoever is terminated, in whatever order and by whom: those who exist wait for something,
\* except on System, and have a father who exists, those who are gone wait for nothing, and
\* no event that is due points to somebody who is gone, as the main loop looks there.
THEOREM Survivors == ASSUME Early PROVE Spec => []LivingWait
<1>1. AInv /\ Opened /\ CInv => LivingWait
  <2>1. SUFFICES ASSUME AInv, Ordered, Elders, AllTended, Awake, AtLoop, NEW p \in Procs
                 PROVE  /\ p \notin alive => ev[p] = NoEvent
                        /\ p \in alive /\ Owner[p] # System => ev[p] # NoEvent
                        /\ ev[p] # NoEvent /\ ev[p].wake = time => top(ev[p]).ai \in alive \cup {Kernel, Timer}
                        /\ p \in alive => father[p] \in alive \cup {Kernel, None}
    BY DEF Opened, CInv, LivingWait
  <2>2. p \notin alive => ev[p] = NoEvent
    BY <2>1 DEF AInv, Dead
  <2>3. p \in alive /\ Owner[p] # System => ev[p] # NoEvent
    BY <2>1, Constants DEF Awake, AtLoop
  <2>4. p \in alive => father[p] \in alive \cup {Kernel, None}
    BY <2>1 DEF Elders
  <2>5. ASSUME ev[p] # NoEvent, ev[p].wake = time
        PROVE  top(ev[p]).ai \in alive \cup {Kernel, Timer}
    <3>1. PICK e, i : e = ev[p] /\ i = ev[p].top
      OBVIOUS
    <3>2. i \in DOMAIN e.reqs
      BY <2>1, <2>5, <3>1 DEF AInv, Chained, Sound
    <3>3. Tended(e, i, exempt(p), alive, time)
      BY <2>1, <3>1, <3>2 DEF AllTended
    <3>4. e.reqs[i].when = time
      <4>1. CASE i = exempt(p)
        BY <2>1, <3>1, <3>2, <4>1, ExemptSignal
      <4>2. CASE i # exempt(p)
        BY <2>1, <2>5, <3>1, <3>2, <4>2 DEF Ordered, Upright
      <4>3. QED  BY <4>1, <4>2
    <3>5. time \in 0 .. Horizon /\ time # Inf
      BY <2>1, Constants DEF AInv, TypeOK
    <3>6. QED  BY <2>5, <3>1, <3>3, <3>4, <3>5 DEF Tended, top
  <2>6. QED  BY <2>2, <2>3, <2>4, <2>5
<1>2. QED  BY <1>1, AlwaysTended, PTL

\* Who was told of a death.
Grieving == cur # None /\ woke.id = "DEATH" => woke.what \in born \ alive

LEMMA AliveBorn ==
  ASSUME AInv, [Next]_vars
  PROVE  born \subseteq born' /\ alive' \cap born \subseteq alive
<1>1. CASE UNCHANGED <<alive, born>>
  BY <1>1
<1>2. CASE Waiting
  BY <1>1, <1>2, WaitingAdds DEF AddRequest
<1>3. CASE Unwait \/ Quiet \/ UNCHANGED vars
  BY <1>1, <1>3 DEF Unwait, Quiet, Sleep, StationTerminate, PriorityLost, PriorityGone, vars
<1>4. ASSUME NEW x, NEW spec, NEW flips, SignalP(x, spec) \/ Signal(x, spec, flips)
                                         \/ Erase(x, flips) \/ NoEvents(flips)
      PROVE  UNCHANGED <<alive, born>>
  BY <1>4 DEF SignalP, Signal, Erase, NoEvents
<1>5. ASSUME NEW p, NEW e, NEW i, Chosen(p, e) \/ BackToQueue(p, i)
      PROVE  born \subseteq born' /\ alive' \cap born \subseteq alive
  <2>1. CASE Chosen(p, e)
    BY <2>1 DEF Chosen
  <2>2. CASE BackToQueue(p, i)
    BY <2>2 DEF BackToQueue
  <2>3. QED  BY <1>5, <2>1, <2>2
<1>6. ASSUME NEW p \in Procs, Create(p)
      PROVE  born \subseteq born' /\ alive' \cap born \subseteq alive
  BY <1>6 DEF Create
<1>7. ASSUME NEW p \in Procs, Ending(p)
      PROVE  born \subseteq born' /\ alive' \cap born \subseteq alive
  <2>1. PICK hard, flips : Destroy(p, hard, flips)
    BY <1>7 DEF Ending
  <2>2. QED  BY <1>7, <2>1 DEF Ending, Destroy
<1>8. QED
  BY <1>1, <1>2, <1>3, <1>4, <1>5, <1>6, <1>7, Steps

\* A process that is told of a death by wait (p, DEATH, ...) finds p gone, and p does not
\* come back.
THEOREM Deaths == Spec => []DeathMeansGone
<1>1. Init => Grieving
  BY DEF Init, Grieving, NoWake
<1>2. AInv /\ Plain /\ Grieving /\ [Next]_vars => Grieving'
  <2>1. SUFFICES ASSUME AInv, Plain, Grieving, [Next]_vars
                 PROVE  Grieving'
    OBVIOUS
  <2>2. CASE cur' = None \/ UNCHANGED <<cur, woke>>
    BY <2>1, <2>2, AliveBorn DEF Grieving
  <2>3. ASSUME NEW p \in Procs, NEW e, Chosen(p, e)
        PROVE  Grieving'
    <3>1. top(e).when # Inf /\ UNCHANGED <<alive, born>>
      BY <2>1, <2>3, ChosenPlain DEF Chosen
    <3>2. WokenBy(top(e)) \/ woke'.id = "CLEAR"
      BY <2>3 DEF Chosen, Delivered
    <3>3. PICK i, r : i = e.top /\ r = ev[p].reqs[i]
      OBVIOUS
    <3>4. r = top(e) /\ i \in DOMAIN ev[p].reqs /\ Mourned(ev[p], alive, born) /\ r.when # Inf
      BY <2>1, <2>3, <3>1, <3>3 DEF Chosen, Plain, top
    <3>5. r.id = "DEATH" => r.what \in born \ alive
      BY <3>3, <3>4 DEF Mourned
    <3>6. QED  BY <3>1, <3>2, <3>4, <3>5 DEF WokenBy, Grieving
  <2>4. QED  BY <2>1, <2>2, <2>3, WokeStays
<1>3. Grieving => DeathMeansGone
  BY DEF Grieving, DeathMeansGone
<1>4. Spec => Init /\ [][Next]_vars
  BY DEF Spec
<1>5. QED  BY <1>1, <1>2, <1>3, <1>4, AlwaysPlain, PTL

-----------------------------------------------------------------------------
(* The priority signal                                                      *)

\* What may become of a signal, held by x, that the pending priority event stands for.
Kept(x) ==
  \/ sig'[x] = None
  \/ pe' = Gone
  \/ pe' = pe /\ holder' = x /\ sig'[x] = sig[x]

\* While a process runs or a station is terminated, the signal stays in place unless it is
\* erased or somebody concerned is terminated.
LEMMA PromiseKept ==
  ASSUME AInv, Promised, ~AtLoop, [Next]_vars
  PROVE  Kept(holder)
<1>1. PICK q \in Procs : \E i \in DOMAIN ev[q].reqs : Urgent(q, i)
  BY DEF Promised, AInv, Pressing
<1>2. PICK i \in DOMAIN ev[q].reqs : Urgent(q, i)
  BY <1>1
<1>3. SUFFICES ASSUME NEW x, x = holder
               PROVE  Kept(x)
  OBVIOUS
<1>4. pe.proc = q /\ pe.idx = i /\ x = ev[q].reqs[i].ai /\ pe # None /\ pe # Gone
  BY <1>2, <1>3 DEF Urgent, holder, Promised
<1>5. x \in Procs /\ sig[x] # None
  BY <1>3 DEF Promised, sigOf
<1>6. ASSUME pe' = pe, ev'[q].reqs[i].ai = x, sig'[x] = sig[x] \/ sig'[x] = None
      PROVE  Kept(x)
  BY <1>4, <1>6 DEF Kept, holder
<1>7. ASSUME pe' = pe, EventsStir(time), sig'[x] = sig[x] \/ sig'[x] = None
      PROVE  Kept(x)
  BY <1>2, <1>4, <1>6, <1>7 DEF EventsStir, Kin
<1>8. CASE Waiting
  <2>1. cur \in alive
    BY <1>8, WaitingAdds
  <2>2. PICK r, flip : Fresh(r) /\ AddRequest(r, flip)
    BY <1>8, WaitingAdds
  <2>3. ev' = [ev EXCEPT ![cur] = ev'[cur]] /\ Extended(ev[cur], ev'[cur], r)
    BY <2>1, <2>2, AddingExtends
  <2>4. UNCHANGED <<pe, sig>>
    BY <2>2 DEF AddRequest
  <2>5. ev'[q].reqs[i] = ev[q].reqs[i]
    BY <1>2, <2>3 DEF Extended, AInv, TypeOK
  <2>6. QED  BY <1>4, <1>6, <2>4, <2>5
<1>9. CASE Unwait
  <2>1. /\ ev' = [ev EXCEPT ![cur] = NoEvent] /\ sig' = sig
        /\ pe' = IF pe # None /\ pe.proc = cur THEN Gone ELSE pe
    BY <1>9 DEF Unwait
  <2>2. CASE q = cur
    BY <1>4, <2>1, <2>2 DEF Kept
  <2>3. CASE q # cur
    <3>1. pe' = pe /\ sig'[x] = sig[x] /\ ev'[q] = ev[q]
      BY <1>4, <2>1, <2>3 DEF AInv, TypeOK
    <3>2. QED  BY <1>4, <1>6, <3>1
  <2>4. QED  BY <2>2, <2>3
<1>10. CASE Quiet \/ UNCHANGED vars
  <2>1. UNCHANGED <<pe, ev, sig>>
    BY <1>10 DEF Quiet, Sleep, StationTerminate, PriorityLost, PriorityGone, vars
  <2>2. QED  BY <1>4, <1>6, <2>1
<1>11. ASSUME NEW y \in alive, NEW spec, SignalP(y, spec)
       PROVE  Kept(x)
  BY <1>4, <1>11 DEF SignalP
<1>12. ASSUME NEW y \in alive, NEW flips \in FLIPs, NEW spec \in Specs, Signal(y, spec, flips)
       PROVE  Kept(x)
  <2>1. sig[y] = None /\ sig' = deposit(y, spec) /\ pe' = pe
    BY <1>12 DEF Signal
  <2>2. sig'[x] = sig[x]
    BY <1>5, <2>1 DEF deposit, AInv, TypeOK
  <2>3. QED  BY <1>7, <1>12, <2>1, <2>2, SignalStirs
<1>13. ASSUME NEW y \in alive, NEW flips \in FLIPs, Erase(y, flips)
       PROVE  Kept(x)
  <2>1. sig' = [sig EXCEPT ![y] = None] /\ pe' = pe
    BY <1>13 DEF Erase
  <2>2. sig'[x] = sig[x] \/ sig'[x] = None
    BY <1>5, <2>1 DEF AInv, TypeOK
  <2>3. QED  BY <1>7, <1>13, <2>1, <2>2, EraseStirs
<1>14. ASSUME NEW p \in Procs, Create(p)
       PROVE  Kept(x)
  <2>1. ev[p] = NoEvent /\ (\A y \in Procs \ {p} : ev'[y] = ev[y]) /\ UNCHANGED <<pe, sig>>
    BY <1>14, Creating DEF Create
  <2>2. q # p
    BY <1>2, <2>1, NoEventSound
  <2>3. QED  BY <1>4, <1>6, <2>1, <2>2
<1>15. ASSUME NEW p \in Procs, Ending(p)
       PROVE  Kept(x)
  <2>1. PICK hard, flips : Destroy(p, hard, flips)
    BY <1>15 DEF Ending
  <2>2. /\ sig' = [sig EXCEPT ![p] = None]
        /\ pe' = IF pe # None /\ pe.proc = p THEN Gone ELSE pe
    BY <2>1 DEF Destroy
  <2>3. CASE q = p
    BY <1>4, <2>2, <2>3 DEF Kept
  <2>4. CASE x = p
    BY <1>5, <2>2, <2>4 DEF Kept, AInv, TypeOK
  <2>5. CASE q # p /\ x # p
    <3>1. pe' = pe /\ sig'[x] = sig[x]
      BY <1>4, <1>5, <2>2, <2>5 DEF AInv, TypeOK
    <3>2. Bereaved(ev[q], ev'[q], p)
      BY <1>15, <2>1, <2>5, Destroying
    <3>3. ev'[q].reqs[i].ai = x
      BY <1>2, <1>4, <2>5, <3>2 DEF Bereaved, moves
    <3>4. QED  BY <1>6, <3>1, <3>3
  <2>6. QED  BY <2>3, <2>4, <2>5
<1>16. ASSUME NEW p, NEW e, Chosen(p, e)
       PROVE  Kept(x)
  BY <1>16 DEF Chosen
<1>17. ASSUME NEW p, NEW j, BackToQueue(p, j)
       PROVE  Kept(x)
  BY <1>17 DEF BackToQueue, Due
<1>18. ASSUME NEW flips, NoEvents(flips)
       PROVE  Kept(x)
  BY <1>18 DEF NoEvents
<1>19. QED
  BY <1>8, <1>9, <1>10, <1>11, <1>12, <1>13, <1>14, <1>15, <1>16, <1>17, <1>18, Steps

\* In the main loop nothing can be done but to deliver the priority event.
LEMMA PriorityAlone ==
  ASSUME AInv, Promised, AtLoop, Next
  PROVE  \E flips, own : DispatchPriority(flips, own)
<1>1. cur = None /\ dying = {} /\ pe # None /\ pe # Gone
  BY DEF AtLoop, Promised
<1>2. ~Waiting
  <2>1. cur \notin alive
    BY <1>1, Constants DEF AInv, TypeOK
  <2>2. QED  BY <2>1, WaitingAdds
<1>3. ~Acting
  BY <1>1 DEF Acting, Unwait, SignalP, Erase, Kill, Signal, Create, Exit, ImplicitTerminate, Sleep,
              StationTerminate, Perish, Call
<1>4. ~PriorityLost
  BY DEF PriorityLost, Promised, holder
<1>5. ASSUME NEW flips, NEW own, NEW p, NEW i
      PROVE  ~NoEvents(flips) /\ ~Dispatch(p, flips, own) /\ ~BackToQueue(p, i) /\ ~PriorityGone
  BY <1>1 DEF NoEvents, Dispatch, BackToQueue, Due, PriorityGone
<1>6. QED  BY <1>2, <1>3, <1>4, <1>5 DEF Next, Looping

LEMMA PriorityMet ==
  ASSUME AInv, Promised, NEW flips, NEW own, DispatchPriority(flips, own)
  PROVE  time' = time /\ cur' = pe.proc /\ woke'.took /\ woke'.sender = sig[holder].sender
<1>1. PICK p \in Procs : \E i \in DOMAIN ev[p].reqs :
        Urgent(p, i) /\ ev[p].reqs[i].when = time /\ ev[p].reqs[i].id = "SIGNAL"
  BY DEF Promised, AInv, Pressing
<1>2. PICK i \in DOMAIN ev[p].reqs :
        Urgent(p, i) /\ ev[p].reqs[i].when = time /\ ev[p].reqs[i].id = "SIGNAL"
  BY <1>1
<1>3. pe.proc = p /\ pe.idx = i
  BY <1>2 DEF Urgent
<1>4. PICK e, r : e = shown(ev[p], i) /\ r = ev[p].reqs[i]
  OBVIOUS
<1>5. top(e) = r /\ e.wake = time /\ r.id = "SIGNAL" /\ r.ai = holder
  BY <1>2, <1>3, <1>4 DEF shown, top, holder
<1>6. Deliver(p, e, flips, own)
  BY <1>3, <1>4 DEF DispatchPriority
<1>7. PICK t : t = Told(r)
  OBVIOUS
<1>8. t.took = TRUE /\ t.sender = sig[holder].sender
  <2>1. sigOf(r.ai) = sig[holder]
    BY <1>5 DEF Promised, sigOf
  <2>2. QED  BY <1>5, <1>7, <2>1 DEF Told
<1>9. \E R, E, u : /\ Restart(p, e, R, E, u, flips, own)
                   /\ u = t \/ u = [t EXCEPT !.id = "CLEAR"]
  BY <1>5, <1>6, <1>7 DEF Deliver
<1>10. PICK R, E, u : /\ Restart(p, e, R, E, u, flips, own)
                      /\ u = t \/ u = [t EXCEPT !.id = "CLEAR"]
  BY <1>9
<1>11. time' = time /\ cur' = p /\ woke' = [u EXCEPT !.pstate = R.pstate]
  BY <1>5, <1>10 DEF Restart
<1>12. woke'.took = TRUE /\ woke'.sender = sig[holder].sender
  BY <1>7, <1>8, <1>10, <1>11 DEF Told
<1>13. QED  BY <1>3, <1>11, <1>12

\* A signal sent by signalP with an argument reaches the only process that waits for it next
\* and in the same ITU, whatever else is due, unless it is erased, or its holder or its
\* recipient is terminated, before the sender returns.  Nothing is assumed about the program.
THEOREM Priorities == Spec => PriorityGoesNext
<1>1. AInv /\ [Next]_vars =>
        [Promised =>
           LET x == holder
           IN  IF AtLoop
               THEN time' = time /\ cur' = pe.proc /\ woke'.took /\ woke'.sender = sig[x].sender
               ELSE \/ sig'[x] = None
                    \/ pe' = Gone
                    \/ pe' = pe /\ holder' = x /\ sig'[x] = sig[x]]_vars
  <2>1. CASE AInv /\ Promised /\ AtLoop /\ Next
    <3>1. PICK flips, own : DispatchPriority(flips, own)
      BY <2>1, PriorityAlone
    <3>2. QED  BY <2>1, <3>1, PriorityMet
  <2>2. CASE AInv /\ Promised /\ ~AtLoop /\ [Next]_vars
    BY <2>2, PromiseKept DEF Kept
  <2>3. QED  BY <2>1, <2>2
<1>2. Spec => Init /\ [][Next]_vars
  BY DEF Spec
<1>3. Spec => [][Promised =>
           LET x == holder
           IN  IF AtLoop
               THEN time' = time /\ cur' = pe.proc /\ woke'.took /\ woke'.sender = sig[x].sender
               ELSE \/ sig'[x] = None
                    \/ pe' = Gone
                    \/ pe' = pe /\ holder' = x /\ sig'[x] = sig[x]]_vars
  BY <1>1, <1>2, Always, PTL
<1>4. QED  BY <1>3 DEF PriorityGoesNext

-----------------------------------------------------------------------------
(* Whose signal it is                                                       *)

\* A process for whose signal somebody is about to be restarted is not terminated.
Settled == "dieSignalled" \notin Usage

\* A SIGNAL request that may be delivered is on the list of the process that it names.
Owned(r) == r.id = "SIGNAL" /\ r.when # Inf => r.list = "TW"

AllOwned == \A q \in Procs : \A i \in DOMAIN ev[q].reqs : Owned(ev[q].reqs[i])

\* Nobody is about to be restarted by the signal of a process that Station::terminate
\* has still to come to.
Unsignalled ==
  \A p \in dying : \A q \in Procs : \A i \in DOMAIN ev[q].reqs :
    IsSignal(p, ev[q].reqs[i]) => ev[q].reqs[i].when = Inf

OwnedStep(e, f) == \A i \in DOMAIN f.reqs : Owned(f.reqs[i])

LEMMA OwnedStirred ==
  ASSUME NEW e, NEW f, NEW now, Alike(e, f), Kin(e, f), Stirred(e, f, now),
         \A i \in DOMAIN e.reqs : Owned(e.reqs[i]) /\ OnList(e.reqs[i], alive)
  PROVE  OwnedStep(e, f)
<1>1. ASSUME NEW i \in DOMAIN f.reqs
      PROVE  Owned(f.reqs[i])
  <2>1. PICK r, s : r = e.reqs[i] /\ s = f.reqs[i]
    OBVIOUS
  <2>2. i \in DOMAIN e.reqs
    BY DEF Alike
  <2>3. Owned(r) /\ OnList(r, alive)
    BY <2>1, <2>2
  <2>4. s.id = r.id /\ s.list = r.list /\ (s.when = r.when \/ r.list \in {"TW", "SW"})
    BY <2>1, <2>2 DEF Alike, Same, Kin, Stirred, Touched
  <2>5. QED  BY <2>1, <2>3, <2>4 DEF Owned, OnList
<1>2. QED  BY <1>1 DEF OwnedStep

LEMMA StirOwns ==
  ASSUME AInv, AllOwned, EventsStir(time)
  PROVE  AllOwned'
<1>1. ASSUME NEW q \in Procs
      PROVE  OwnedStep(ev[q], ev'[q])
  BY OwnedStirred DEF EventsStir, AllOwned, AInv, Listed
<1>2. QED  BY <1>1 DEF OwnedStep, AllOwned

LEMMA EndingOwns ==
  ASSUME AInv, Settled, AllOwned, Unsignalled, NEW p, Ending(p)
  PROVE  AllOwned' /\ Unsignalled'
<1>1. p \in Procs /\ dying' \subseteq dying /\ time' = time
  BY DEF Ending, AInv, TypeOK
<1>2. PICK hard, flips : Destroy(p, hard, flips)
  BY DEF Ending
<1>3. /\ ev'[p] = NoEvent
      /\ \A q \in Procs \ {p} : Alike(ev[q], ev'[q]) /\ Bereaved(ev[q], ev'[q], p)
  BY <1>1, <1>2, Destroying
<1>4. \A q \in Procs : \A i \in DOMAIN ev[q].reqs : IsSignal(p, ev[q].reqs[i]) => ev[q].reqs[i].when = Inf
  BY DEF Ending, MayDie, Settled, Unsignalled
<1>5. ASSUME NEW q \in Procs, NEW i \in DOMAIN ev'[q].reqs
      PROVE  /\ Owned(ev'[q].reqs[i])
             /\ \A x \in dying : IsSignal(x, ev'[q].reqs[i]) => ev'[q].reqs[i].when = Inf
  <2>1. q # p
    BY <1>3, <1>5, NoEventSound
  <2>2. i \in DOMAIN ev[q].reqs
    BY <1>3, <2>1 DEF Alike
  <2>3. PICK r, s : r = ev[q].reqs[i] /\ s = ev'[q].reqs[i]
    OBVIOUS
  <2>4. Owned(r) /\ OnList(r, alive) /\ (IsSignal(p, r) => r.when = Inf)
    BY <1>4, <2>2, <2>3 DEF AllOwned, AInv, Listed
  <2>5. \A x \in dying : IsSignal(x, r) => r.when = Inf
    BY <2>2, <2>3 DEF Unsignalled
  <2>6. s.id = r.id
    BY <1>3, <2>1, <2>2, <2>3 DEF Alike, Same
  <2>7. /\ s.ai = IF moves(r, p, ev[q].wake <= time) THEN heir(p) ELSE r.ai
        /\ s.list = IF r.list \in {"TW", "SW"} /\ r.what = p THEN "orphan" ELSE r.list
        /\ s.when = r.when \/ (s.when = time /\ ToldOf(r, p))
    BY <1>3, <2>1, <2>2, <2>3 DEF Bereaved
  <2>8. Owned(s)
    BY <2>4, <2>6, <2>7 DEF Owned, OnList, IsSignal, ToldOf
  <2>9. s.list = "TW" => r.list = "TW" /\ s.ai = r.ai
    BY <2>4, <2>7 DEF OnList, moves
  <2>10. \A x \in dying : IsSignal(x, s) => s.when = Inf
    BY <2>5, <2>6, <2>7, <2>9 DEF IsSignal, ToldOf
  <2>11. QED  BY <2>3, <2>8, <2>10
<1>6. QED  BY <1>1, <1>5 DEF AllOwned, Unsignalled

LEMMA ChosenOwns ==
  ASSUME AInv, AllOwned, NEW p \in Procs, NEW e, Chosen(p, e)
  PROVE  AllOwned'
<1>1. /\ \A q \in Procs \ {p} : /\ Alike(ev[q], ev'[q]) /\ Kin(ev[q], ev'[q])
                                /\ Stirred(ev[q], ev'[q], e.wake)
      /\ Renewed(e, ev'[p], e.wake)
  BY DEF Chosen, Delivered
<1>2. ASSUME NEW q \in Procs
      PROVE  OwnedStep(ev[q], ev'[q])
  <2>1. CASE q # p
    BY <1>1, <2>1, OwnedStirred DEF AllOwned, AInv, Listed
  <2>2. CASE q = p
    <3>1. \A i \in DOMAIN ev'[p].reqs : ev'[p].reqs[i].list = "SW" /\ OnList(ev'[p].reqs[i], alive')
      BY <1>1, ChosenKeeps, NoEventSound DEF Renewed, AInv, Listed
    <3>2. QED  BY <2>2, <3>1 DEF OnList, Owned, OwnedStep
  <2>3. QED  BY <2>1, <2>2
<1>3. QED  BY <1>2 DEF OwnedStep, AllOwned

LEMMA OwnedNext == AInv /\ Settled /\ AllOwned /\ Unsignalled /\ [Next]_vars => AllOwned' /\ Unsignalled'
<1> SUFFICES ASSUME AInv, Settled, AllOwned, Unsignalled, [Next]_vars
             PROVE  AllOwned' /\ Unsignalled'
  OBVIOUS
<1>1. ASSUME dying' = {}, AllOwned'
      PROVE  AllOwned' /\ Unsignalled'
  BY <1>1 DEF Unsignalled
<1>2. CASE Waiting
  <2>1. cur \in alive /\ dying = {}
    BY <1>2, WaitingAdds
  <2>2. PICK r, flip : Fresh(r) /\ AddRequest(r, flip)
    BY <1>2, WaitingAdds
  <2>3. ev' = [ev EXCEPT ![cur] = ev'[cur]] /\ Extended(ev[cur], ev'[cur], r)
    BY <2>1, <2>2, AddingExtends
  <2>4. cur \in Procs /\ dying' = {}
    BY <2>1, <2>2 DEF AInv, TypeOK, AddRequest
  <2>5. \A q \in Procs \ {cur} : ev'[q] = ev[q]
    BY <2>3, <2>4 DEF AInv, TypeOK
  <2>6. \A q \in Procs : \A i \in DOMAIN ev'[q].reqs : ev'[q].reqs[i] = r \/ (i \in DOMAIN ev[q].reqs /\ ev'[q].reqs[i] = ev[q].reqs[i])
    BY <2>3, <2>5 DEF Extended
  <2>7. AllOwned'
    BY <2>2, <2>6 DEF AllOwned, Owned, Fresh
  <2>8. QED  BY <1>1, <2>4, <2>7
<1>3. CASE Unwait
  <2>1. ev' = [ev EXCEPT ![cur] = NoEvent] /\ dying' = {}
    BY <1>3, CallTypes DEF Unwait
  <2>2. \A q \in Procs : ev'[q] = ev[q] \/ ev'[q] = NoEvent
    BY <2>1 DEF AInv, TypeOK
  <2>3. QED  BY <1>1, <2>1, <2>2, NoEventSound DEF AllOwned
<1>4. CASE Quiet \/ UNCHANGED vars
  <2>1. ev' = ev
    BY <1>4 DEF Quiet, Sleep, StationTerminate, PriorityLost, PriorityGone, vars
  <2>2. AllOwned'
    BY <2>1 DEF AllOwned
  <2>3. CASE \E st \in {Owner[p] : p \in Procs} : StationTerminate(st)
    <3>1. \A p \in dying' : MayDie(p)
      BY <2>3 DEF StationTerminate
    <3>2. QED  BY <2>1, <2>2, <3>1 DEF MayDie, Settled, Unsignalled
  <2>4. CASE ~ \E st \in {Owner[p] : p \in Procs} : StationTerminate(st)
    <3>1. dying' = dying
      BY <1>4, <2>4 DEF Quiet, Sleep, PriorityLost, PriorityGone, vars
    <3>2. QED  BY <2>1, <2>2, <3>1 DEF Unsignalled
  <2>5. QED  BY <2>3, <2>4
<1>5. ASSUME NEW x \in alive, NEW spec \in Specs, SignalP(x, spec)
      PROVE  AllOwned' /\ Unsignalled'
  <2>1. PICK p \in Procs : \E i \in DOMAIN ev[p].reqs :
           /\ IsSignal(x, ev[p].reqs[i]) /\ ev' = [ev EXCEPT ![p] = ev'[p]]
           /\ Alike(ev[p], ev'[p]) /\ Prompted(ev[p], ev'[p], i, time)
    BY <1>5, SignalPPrompts
  <2>2. PICK i \in DOMAIN ev[p].reqs :
           /\ IsSignal(x, ev[p].reqs[i]) /\ ev' = [ev EXCEPT ![p] = ev'[p]]
           /\ Alike(ev[p], ev'[p]) /\ Prompted(ev[p], ev'[p], i, time)
    BY <2>1
  <2>3. \A q \in Procs \ {p} : ev'[q] = ev[q]
    BY <2>2 DEF AInv, TypeOK
  <2>4. ASSUME NEW j \in DOMAIN ev'[p].reqs
        PROVE  Owned(ev'[p].reqs[j])
    <3>1. j \in DOMAIN ev[p].reqs /\ Owned(ev[p].reqs[j])
      BY <2>2 DEF Alike, AllOwned
    <3>2. PICK r, s : r = ev[p].reqs[j] /\ s = ev'[p].reqs[j]
      OBVIOUS
    <3>3. s.id = r.id /\ s.list = r.list /\ (s.when = r.when \/ IsSignal(x, r))
      BY <2>2, <3>1, <3>2 DEF Alike, Same, Prompted, Kin
    <3>4. QED  BY <3>1, <3>2, <3>3 DEF Owned, IsSignal
  <2>5. dying' = {} /\ AllOwned'
    BY <1>5, <2>3, <2>4 DEF SignalP, Call, AllOwned
  <2>6. QED  BY <1>1, <2>5
<1>6. ASSUME NEW x \in alive, NEW flips \in FLIPs, NEW spec \in Specs, Signal(x, spec, flips)
      PROVE  AllOwned' /\ Unsignalled'
  BY <1>1, <1>6, SignalStirs, StirOwns DEF Signal, Call
<1>7. ASSUME NEW x \in alive, NEW flips \in FLIPs, Erase(x, flips)
      PROVE  AllOwned' /\ Unsignalled'
  BY <1>1, <1>7, EraseStirs, StirOwns DEF Erase, Call
<1>8. ASSUME NEW p \in Procs, Create(p)
      PROVE  AllOwned' /\ Unsignalled'
  <2>1. /\ \A q \in Procs \ {p} : ev'[q] = ev[q]
        /\ DOMAIN ev'[p].reqs = {1} /\ ev'[p].reqs[1] = request(p, "START", 0, 0, time, "none")
        /\ dying' = {}
    BY <1>8, Creating DEF Create
  <2>2. Owned(ev'[p].reqs[1])
    BY <2>1 DEF Owned, request
  <2>3. QED  BY <1>1, <2>1, <2>2 DEF AllOwned
<1>9. ASSUME NEW p \in Procs, Ending(p)
      PROVE  AllOwned' /\ Unsignalled'
  BY <1>9, EndingOwns
<1>10. ASSUME NEW p \in Procs, NEW e, Chosen(p, e)
       PROVE  AllOwned' /\ Unsignalled'
  BY <1>1, <1>10, ChosenOwns DEF Chosen, AtLoop
<1>11. ASSUME NEW p \in Procs, NEW i \in 1 .. MaxChain, BackToQueue(p, i)
       PROVE  AllOwned' /\ Unsignalled'
  <2>1. ev' = [ev EXCEPT ![p] = ev'[p]] /\ Alike(ev[p], ev'[p]) /\ Requeued(ev[p], ev'[p])
    BY <1>11, BackRequeues
  <2>2. \A q \in Procs \ {p} : ev'[q] = ev[q]
    BY <2>1 DEF AInv, TypeOK
  <2>3. ASSUME NEW j \in DOMAIN ev'[p].reqs
        PROVE  Owned(ev'[p].reqs[j])
    <3>1. j \in DOMAIN ev[p].reqs /\ Owned(ev[p].reqs[j])
      BY <2>1 DEF Alike, AllOwned
    <3>2. PICK r, s : r = ev[p].reqs[j] /\ s = ev'[p].reqs[j]
      OBVIOUS
    <3>3. s.id = r.id /\ s.list = r.list /\ (s.when = r.when \/ s.when = Inf)
      BY <2>1, <3>1, <3>2 DEF Alike, Same, Requeued, Kin
    <3>4. QED  BY <3>1, <3>2, <3>3 DEF Owned
  <2>4. dying' = {} /\ AllOwned'
    BY <1>11, <2>2, <2>3 DEF BackToQueue, Due, AtLoop, AllOwned
  <2>5. QED  BY <1>1, <2>4
<1>12. ASSUME NEW flips \in FLIPs, NoEvents(flips)
       PROVE  AllOwned' /\ Unsignalled'
  BY <1>1, <1>12, NoEventsStir, StirOwns DEF NoEvents, AtLoop
<1>13. QED
  BY <1>2, <1>3, <1>4, <1>5, <1>6, <1>7, <1>8, <1>9, <1>10, <1>11, <1>12, Steps

\* Only the main loop restarts a process by a signal.
LEMMA WokenBySignal ==
  ASSUME AInv, [Next]_vars, cur = None, woke'.id = "SIGNAL"
  PROVE  \E p \in Procs : \E e : Chosen(p, e) /\ WokenBy(top(e)) /\ sig' = taken(top(e).ai)
<1>1. woke.id # "SIGNAL" /\ NoWake.id # "SIGNAL"
  BY DEF AInv, Idle, NoWake
<1>2. CASE woke' = woke
  BY <1>1, <1>2
<1>3. CASE Waiting \/ Unwait
  BY <1>2, <1>3, WaitingAdds DEF AddRequest, Unwait
<1>4. CASE Quiet \/ UNCHANGED vars
  BY <1>1, <1>4 DEF Quiet, Sleep, InLoop, StationTerminate, PriorityLost, PriorityGone, vars
<1>5. ASSUME NEW x, NEW spec, NEW flips, SignalP(x, spec) \/ Signal(x, spec, flips)
                                         \/ Erase(x, flips) \/ NoEvents(flips)
      PROVE  woke' = woke
  BY <1>5 DEF SignalP, Signal, Erase, NoEvents
<1>6. ASSUME NEW p, NEW i, Create(p) \/ BackToQueue(p, i)
      PROVE  woke' = woke
  BY <1>6 DEF Create, BackToQueue
<1>7. ASSUME NEW p, Ending(p)
      PROVE  woke' = woke \/ woke' = NoWake
  BY <1>7 DEF Ending, InLoop
<1>8. ASSUME NEW p \in Procs, NEW e, Chosen(p, e)
      PROVE  WokenBy(top(e)) /\ sig' = taken(top(e).ai)
  <2>1. Delivered(p, e)
    BY <1>8 DEF Chosen
  <2>2. PICK r : r = top(e)
    OBVIOUS
  <2>3. \/ r.id # "SIGNAL" /\ WokenBy(r)
        \/ r.id = "SIGNAL" /\ sig' = taken(r.ai) /\ WokenBy(r)
        \/ woke'.id = "CLEAR"
    BY <2>1, <2>2 DEF Delivered
  <2>4. QED  BY <2>2, <2>3 DEF WokenBy
<1>9. QED
  BY <1>1, <1>2, <1>3, <1>4, <1>5, <1>6, <1>7, <1>8, Steps

\* Who receives a signal receives it from the repository named in the wait request, and
\* takes it away, provided that nobody is terminated while his signal is on its way.
THEOREM Repositories == ASSUME Settled PROVE Spec => SignalFromItsRepository
<1>1. Init => AllOwned /\ Unsignalled
  BY NoEventSound DEF Init, AllOwned, Unsignalled
<1>2. AInv /\ AllOwned /\ Unsignalled /\ [Next]_vars => AllOwned' /\ Unsignalled'
  BY OwnedNext
<1>3. AInv /\ Plain /\ AllOwned /\ [Next]_vars =>
        [woke'.took /\ woke'.id = "SIGNAL" /\ cur = None =>
           sig[woke'.what] # None /\ sig'[woke'.what] = None]_vars
  <2>1. SUFFICES ASSUME AInv, Plain, AllOwned, [Next]_vars, woke'.id = "SIGNAL", cur = None
                 PROVE  sig[woke'.what] # None /\ sig'[woke'.what] = None
    OBVIOUS
  <2>2. PICK p \in Procs : \E e : Chosen(p, e) /\ WokenBy(top(e)) /\ sig' = taken(top(e).ai)
    BY <2>1, WokenBySignal
  <2>3. PICK e : Chosen(p, e) /\ WokenBy(top(e)) /\ sig' = taken(top(e).ai)
    BY <2>2
  <2>4. PICK r, i : r = top(e) /\ i = e.top
    OBVIOUS
  <2>5. r.when # Inf /\ r.id = "SIGNAL" /\ woke'.what = r.what
    BY <2>1, <2>3, <2>4, ChosenPlain DEF WokenBy
  <2>6. r = ev[p].reqs[i] /\ i \in DOMAIN ev[p].reqs
    BY <2>3, <2>4 DEF Chosen, top
  <2>7. Owned(r) /\ OnList(r, alive)
    BY <2>1, <2>6 DEF AllOwned, AInv, Listed
  <2>8. r.what = r.ai
    BY <2>5, <2>7 DEF Owned, OnList
  <2>9. sigOf(r.ai) # None
    BY <2>3, <2>4, <2>5 DEF Chosen, Regular, Priority
  <2>10. r.ai \in Procs /\ sig[r.ai] # None
    BY <2>9 DEF sigOf
  <2>11. sig'[r.ai] = None
    BY <2>1, <2>3, <2>4, <2>10 DEF taken, AInv, TypeOK
  <2>12. QED  BY <2>5, <2>8, <2>10, <2>11
<1>4. Spec => Init /\ [][Next]_vars
  BY DEF Spec
<1>5. Spec => [](AInv /\ Plain /\ AllOwned)
  BY <1>1, <1>2, <1>4, AlwaysPlain, PTL
<1>6. Spec => [][woke'.took /\ woke'.id = "SIGNAL" /\ cur = None =>
                   sig[woke'.what] # None /\ sig'[woke'.what] = None]_vars
  BY <1>3, <1>4, <1>5, PTL
<1>7. QED  BY <1>6 DEF SignalFromItsRepository

=============================================================================
