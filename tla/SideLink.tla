-------------------------------- MODULE SideLink --------------------------------
(***************************************************************************)
(* Links and ports (link.cc).  A packet or a jamming signal is an activity of   *)
(* the port that emits it; another port hears it later, by the distance.  A     *)
(* link keeps an activity while some port may still hear it, then for its        *)
(* linger time in the archive.  A request for an event of a port is given the     *)
(* time of that event as far as it can be foreseen from the activities alive;    *)
(* each start and end of an activity makes requests of other ports earlier or    *)
(* later.                                                                    *)
(*                                                                         *)
(* Links of the types BLink and ULink, without faults.  A station has one port    *)
(* and one process.  Processes that do not wait for port events are moved by     *)
(* their timers at any time; a process that waits may be restarted for another   *)
(* reason as well (Alarm).  The lists Alive and Archived are sets of numbers;    *)
(* an activity is put at the head, so the first in a list is the last number.     *)
(***************************************************************************)
EXTENDS Naturals, Sequences, FiniteSets, SequencesExt, FiniteSetsExt

CONSTANTS
  NPorts,         \* ports have the numbers LRId from 0 to NPorts - 1
  Distances,      \* Distances[p][q] is DV [q] of port p
  Types,          \* the types of link to be considered
  Linger,         \* the linger time that the link is created with
  Waiters,        \* ports whose processes wait for events of the port
  Awaited,        \* sequences of events that they wait for at a time
  Receivers,      \* Receivers[p]: sets of stations that packets of port p are addressed to
  None,
  MaxActivities,  \* bound: activities of the link
  Horizon         \* bound: the last time

Ports == 0 .. NPorts - 1

ASSUME LinkAssumption ==
  /\ NPorts \in Nat \ {0}
  /\ Distances \in [Ports -> [Ports -> Nat]]
  /\ \A p, q \in Ports : Distances[p][q] = Distances[q][p] /\ (Distances[p][q] = 0 <=> p = q)
  /\ Types \subseteq {"broadcast", "unidirectional"}
  /\ Linger \in Nat /\ Waiters \subseteq Ports
  /\ Receivers \in [Ports -> SUBSET (SUBSET Ports)]
  /\ None \notin Nat
  /\ MaxActivities \in Nat /\ Horizon \in Nat \ {0}

VARIABLES
  Time,
  Type,       \* of the link
  link,       \* activities that ever were, Alive, Archived and their counters
  Activity,   \* of each port: its activity under way, or 0
  event,      \* of each waiting process: its requests, which of them the event shows
  tmin,       \* zz_c_wait_tmin
  TheProcess, \* the port whose process is running, or None
  woke        \* what the running process was restarted with

vars == <<Time, Type, link, Activity, event, tmin, TheProcess, woke>>

Inf == 2 * (Horizon + Max({Distances[p][q] : p, q \in Ports}) + 1)

Events == {"SILENCE", "ACTIVITY", "BOJ", "EOJ", "BOT", "EOT", "BMP", "EMP", "ANYEVENT", "COLLISION"}

-----------------------------------------------------------------------------
(* Activities as a port hears them                                         *)

hears(p, q) == Type = "broadcast" \/ q <= p

\* Fault: activities leave the link when the farthest port hears their end.
MaxDistance_Bare(p) ==
  Max({0} \cup {Distances[p][q] : q \in {k \in Ports : Type = "broadcast" \/ k > p}})

\* makeTopologyL
MaxDistance(p) ==
  1 + Max({0} \cup {Distances[p][q] : q \in {k \in Ports : Type = "broadcast" \/ k > p}})

\* setPurgeDelay
PurgeDelay == IF Linger <= 1 THEN 0 ELSE Linger

starts(lk, p, n) == lk.activity[n].STime + Distances[p][lk.activity[n].LRId]

ends(lk, p, n) ==
  IF lk.activity[n].FTime = Inf THEN Inf
  ELSE lk.activity[n].FTime + Distances[p][lk.activity[n].LRId]

isJam(lk, n) == lk.activity[n].Type = "JAM"

sensed(lk, p) == {n \in lk.Alive : hears(p, lk.activity[n].LRId)}

\* sort_acs_s, sort_acs_p: the activities S in the order of their key.
sorted(S, key) ==
  CHOOSE s \in [1 .. Cardinality(S) -> S] :
    \A i, j \in DOMAIN s : i < j => s[i] # s[j] /\ key[s[i]] <= key[s[j]]

byStart(lk, p, S) == sorted(S, [n \in S |-> starts(lk, p, n)])

\* What a request is told: the time, the packet (Info01) and the kind of event (Info02).
answer(when, pkt, info) == [when |-> when, pkt |-> pkt, info |-> info]

Unknown == answer(Inf, 0, "none")

packet(lk, n) == IF isJam(lk, n) THEN 0 ELSE n

\* Of activities S, the one that starts or ends first, and first in the list if there are several.
earliestStart(lk, p, S) ==
  LET t == Min({starts(lk, p, n) : n \in S})
  IN  IF S = {} THEN Unknown
      ELSE answer(t, packet(lk, Max({n \in S : starts(lk, p, n) = t})), "none")

earliestEnd(lk, p, S) ==
  LET t == Min({ends(lk, p, n) : n \in S})
  IN  IF S = {} THEN Unknown
      ELSE answer(t, packet(lk, Max({n \in S : ends(lk, p, n) = t})), "none")

\* A period up to te goes on with activity n.
extended(lk, p, te, n) ==
  IF starts(lk, p, n) <= te /\ ends(lk, p, n) > te THEN ends(lk, p, n) ELSE te

\* The end of a period of activities that starts with time t.
periodEnd(lk, p, t, S) ==
  LET s == byStart(lk, p, S)
      te[k \in 0 .. Cardinality(S)] == IF k = 0 THEN t ELSE extended(lk, p, te[k - 1], s[k])
  IN  te[Cardinality(S)]

silenceTime(lk, p) ==
  LET A == sensed(lk, p)
  IN  IF lk.NAlive = 0 \/ \A n \in A : starts(lk, p, n) <= Time => ends(lk, p, n) <= Time
      THEN Time
      ELSE periodEnd(lk, p, Time, A)

\* Transfer n meets one before; tfa is the latest end so far, tc the collision.
met(lk, p, c, n) ==
  IF c.tc # Inf THEN c
  ELSE IF c.tfa # 0 /\ starts(lk, p, n) < c.tfa THEN [tc |-> starts(lk, p, n), tfa |-> c.tfa]
  ELSE [tc |-> Inf, tfa |-> IF ends(lk, p, n) > c.tfa THEN ends(lk, p, n) ELSE c.tfa]

\* Transfers in the order in which they start.
firstOverlap(lk, p, S) ==
  LET s == byStart(lk, p, S)
      c[k \in 0 .. Cardinality(S)] ==
        IF k = 0 THEN [tc |-> Inf, tfa |-> 0] ELSE met(lk, p, c[k - 1], s[k])
  IN  c[Cardinality(S)].tc

collisionTime(lk, p, lookatjams) ==
  LET A  == {n \in sensed(lk, p) : ends(lk, p, n) > Time}
      J  == {n \in A : isJam(lk, n)}
      tc == Min({firstOverlap(lk, p, A \ J)} \cup
                {starts(lk, p, n) : n \in IF lookatjams THEN J ELSE {}})
  IN  IF lk.NAlive = 0 THEN Inf ELSE Max({tc, Time})

\* The faster method for a port that transmits: what it hears of other ports.
myCollisionTime(lk, p) ==
  LET A == {n \in sensed(lk, p) : lk.activity[n].LRId # p}
  IN  IF \E n \in A : starts(lk, p, n) < Time /\ ends(lk, p, n) > Time THEN Time
      ELSE Min({Inf} \cup {starts(lk, p, n) : n \in {m \in A : starts(lk, p, m) >= Time}})

eojTime(lk, p) ==
  LET J     == {n \in sensed(lk, p) : isJam(lk, n) /\ ends(lk, p, n) >= Time}
      first == byStart(lk, p, J)[1]
  IN  IF lk.NAliveJams = 0 \/ J = {} THEN Inf ELSE periodEnd(lk, p, ends(lk, p, first), J)

activityTime(lk, p) ==
  LET A   == sensed(lk, p)
      now == {n \in A : starts(lk, p, n) <= Time /\ ends(lk, p, n) > Time}
  IN  IF now # {} THEN answer(Time, packet(lk, Max(now)), "none")
      ELSE earliestStart(lk, p, {n \in A : starts(lk, p, n) > Time})

bojTime(lk, p) ==
  LET J == {n \in sensed(lk, p) : isJam(lk, n)}
  IN  IF \E n \in J : starts(lk, p, n) <= Time /\ ends(lk, p, n) > Time THEN Time
      ELSE earliestStart(lk, p, {n \in J : starts(lk, p, n) > Time}).when

botTime(lk, p) ==
  earliestStart(lk, p, {n \in sensed(lk, p) : ~isJam(lk, n) /\ starts(lk, p, n) >= Time})

bmpTime(lk, p) ==
  earliestStart(lk, p, {n \in sensed(lk, p) :
    ~isJam(lk, n) /\ starts(lk, p, n) >= Time /\ p \in lk.activity[n].Receiver})

eotTime(lk, p) ==
  earliestEnd(lk, p, {n \in sensed(lk, p) :
    lk.activity[n].Type = "TRANSMISSION" /\ ends(lk, p, n) >= Time})

empTime(lk, p) ==
  earliestEnd(lk, p, {n \in sensed(lk, p) :
    /\ lk.activity[n].Type = "TRANSMISSION" /\ ends(lk, p, n) >= Time
    /\ p \in lk.activity[n].Receiver})

\* The kinds of events that ANYEVENT tells apart.
beginning(lk, n) == IF isJam(lk, n) THEN "BOJ" ELSE "BOT"

ending(lk, n) ==
  CASE lk.activity[n].Type = "JAM" -> "EOJ"
    [] lk.activity[n].Type = "TRANSMISSION" -> "EOT"
    [] lk.activity[n].Type = "TRANSMISSION_A" -> "ABTPACKET"

\* Several answers when the nearest events are simultaneous, and FLIP decides.
aevTimes(lk, p) ==
  LET next(n) == IF starts(lk, p, n) < Time
                 THEN answer(ends(lk, p, n), packet(lk, n), ending(lk, n))
                 ELSE answer(starts(lk, p, n), packet(lk, n), beginning(lk, n))
      S == {next(n) : n \in {m \in sensed(lk, p) : ends(lk, p, m) >= Time}}
      F == {a \in S : a.when # Inf}
  IN  IF F = {} THEN {Unknown} ELSE {a \in F : \A b \in F : a.when <= b.when}

-----------------------------------------------------------------------------
(* Requests                                                                *)

NoEvent == [reqs |-> <<>>, top |-> 0, wake |-> Inf, pkt |-> 0, info |-> "none"]
Failed  == [NoEvent EXCEPT !.info = "failed"]   \* an assertion of link.cc fails

NoWake == [id |-> "none", pkt |-> 0, info |-> "none"]

request(queue, id, a) ==
  [queue |-> queue, id |-> id, when |-> a.when, pkt |-> a.pkt, info |-> a.info]

\* new_top_request
show(e, i) ==
  [e EXCEPT !.top = i, !.wake = e.reqs[i].when, !.pkt = e.reqs[i].pkt, !.info = e.reqs[i].info]

\* ZZ_REQUEST::min_request: one of these is drawn.
min_requests(e) == {i \in DOMAIN e.reqs : \A j \in DOMAIN e.reqs : e.reqs[i].when <= e.reqs[j].when}

\* The request gets a new answer and takes over the event when it is earlier,
\* or by FLIP when it is as early.
retime(e, i, a) ==
  LET r  == request(e.reqs[i].queue, e.reqs[i].id, a)
      e1 == [e EXCEPT !.reqs[i] = r]
  IN  (IF e.wake <= a.when THEN {e1} ELSE {}) \cup (IF e.wake >= a.when THEN {show(e1, i)} ELSE {})

sooner(e, i, a) == IF e.reqs[i].when <= a.when THEN {e} ELSE retime(e, i, a)

\* Fault: the event goes on showing a request that was put off.
later_NoMinimum(e, i, t) ==
  IF e.reqs[i].when > t THEN {Failed}
  ELSE IF e.reqs[i].when = t THEN {e} ELSE {[e EXCEPT !.reqs[i].when = t]}

\* Something is postponed; the event then shows the earliest of the requests.
later(e, i, t) ==
  LET e1 == [e EXCEPT !.reqs[i].when = t]
  IN  IF e.reqs[i].when > t THEN {Failed}
      ELSE IF e.reqs[i].when = t THEN {e}
      ELSE IF e.top = i THEN {show(e1, j) : j \in min_requests(e1)} ELSE {e1}

\* The same request, with the time recomputed after something has ended.
again(e, i, t) ==
  IF t > e.reqs[i].when THEN {Failed}
  ELSE sooner(e, i, answer(t, e.reqs[i].pkt, e.reqs[i].info))

-----------------------------------------------------------------------------
(* Activity n of link lk has just started or ended (act): what becomes of     *)
(* request i of the event e of port q, which hears it at hearsAt.             *)

Endings == {"EOT", "EOJ", "ABTPACKET"}

hearsAt(lk, q, n) == Time + Distances[q][lk.activity[n].LRId]

\* reschedule_act, reschedule_boj, reschedule_eot
reschedule_act(lk, q, n, e, i) == sooner(e, i, answer(hearsAt(lk, q, n), packet(lk, n), "none"))

\* reschedule_mpa, reschedule_emp
reschedule_mpa(lk, q, n, e, i) ==
  IF q \in lk.activity[n].Receiver THEN reschedule_act(lk, q, n, e, i) ELSE {e}

\* Of simultaneous events either may be the one that is told.
reschedule_aev(lk, q, n, act, e, i) ==
  LET t   == hearsAt(lk, q, n)
      new == answer(t, IF act \in {"BOT", "EOT"} THEN n ELSE 0, act)
  IN  (IF e.reqs[i].when <= t THEN {e} ELSE {}) \cup
      (IF e.reqs[i].when >= t THEN retime(e, i, new) ELSE {})

\* Only transfers are considered when a packet starts: a jam may be earlier.
reschedule_col(lk, q, n, act, e, i) ==
  LET t == hearsAt(lk, q, n)
  IN  CASE act = "BOJ" -> sooner(e, i, answer(t, 0, "none"))
        [] act = "BOT" -> IF e.reqs[i].when <= t THEN {e}
                          ELSE sooner(e, i, answer(collisionTime(lk, q, FALSE), 0, "none"))
        [] act \in Endings -> IF e.reqs[i].when < t THEN {e} ELSE later(e, i, collisionTime(lk, q, TRUE))

reschedule_myc(lk, q, n, e, i) == sooner(e, i, answer(hearsAt(lk, q, n), 0, "none"))

reschedule_sil(lk, q, n, act, e, i) ==
  LET t == hearsAt(lk, q, n)
  IN  IF act \in Endings
      THEN IF e.reqs[i].when <= t THEN {e} ELSE again(e, i, silenceTime(lk, q))
      ELSE IF e.reqs[i].when < t THEN {e} ELSE later(e, i, silenceTime(lk, q))

reschedule_eoj(lk, q, n, act, e, i) ==
  LET t == hearsAt(lk, q, n)
  IN  IF act = "EOJ"
      THEN IF e.reqs[i].when <= t THEN {e} ELSE again(e, i, eojTime(lk, q))
      ELSE IF e.reqs[i].when < t THEN {e} ELSE later(e, i, eojTime(lk, q))

reschedule(lk, q, n, act, queue, e, i) ==
  CASE queue \in {"ACTIVITY", "BOT", "BOJ", "EOT"} -> reschedule_act(lk, q, n, e, i)
    [] queue \in {"BMP", "EMP"}                    -> reschedule_mpa(lk, q, n, e, i)
    [] queue = "ANYEVENT"                          -> reschedule_aev(lk, q, n, act, e, i)
    [] queue = "COLLISION"                         -> reschedule_col(lk, q, n, act, e, i)
    [] queue = "MY_COLLISION"                      -> reschedule_myc(lk, q, n, e, i)
    [] queue = "SILENCE"                           -> reschedule_sil(lk, q, n, act, e, i)
    [] queue = "EOJ"                               -> reschedule_eoj(lk, q, n, act, e, i)

\* Request i of an event that may be any of S, when this queue is gone through.
visited(lk, q, n, act, queue, S, i) ==
  UNION {IF e.info = "failed" \/ e.reqs[i].queue # queue THEN {e}
         ELSE reschedule(lk, q, n, act, queue, e, i) : e \in S}

\* A queue is gone through, the newest request first.
walked(lk, q, n, act, queue, S) ==
  LET m == Len(event[q].reqs)
      R[k \in 0 .. m] == IF k = 0 THEN S ELSE visited(lk, q, n, act, queue, R[k - 1], m + 1 - k)
  IN  R[m]

\* All that may become of the event of port q when the queues are gone through in this order.
rescheduled(lk, q, n, act, queues) ==
  LET W[k \in 0 .. Len(queues)] ==
        IF k = 0 THEN {event[q]} ELSE walked(lk, q, n, act, queues[k], W[k - 1])
  IN  IF hears(q, lk.activity[n].LRId) THEN W[Len(queues)] ELSE {event[q]}

\* Every waiting process, each in one of the ways that are possible for it.
RescheduleAll(lk, n, act, queues) ==
  LET S == [q \in Waiters |-> rescheduled(lk, q, n, act, queues)]
  IN  \E f \in [Waiters -> UNION {S[q] : q \in Waiters}] :
        /\ \A q \in Waiters : f[q] \in S[q]
        /\ event' = f

-----------------------------------------------------------------------------
(* The operations of a port                                                *)

Init ==
  /\ Time = 1 /\ Type \in Types
  /\ link = [activity |-> <<>>, Alive |-> {}, Archived |-> {}, NAlive |-> 0, NAliveJams |-> 0]
  /\ Activity = [p \in Ports |-> 0]
  /\ event = [q \in Waiters |-> NoEvent]
  /\ tmin = Inf /\ TheProcess = None /\ woke = NoWake

\* Processes that wait for port events use their ports before they wait.
active(p) ==
  IF p \in Waiters THEN TheProcess = p /\ event[p].reqs = <<>> ELSE TheProcess = None

\* zz_gen_activity, and the counters of the link
started(p, type, to) ==
  LET n == Len(link.activity) + 1
  IN  [link EXCEPT !.activity = Append(@, [STime |-> Time, FTime |-> Inf, LRId |-> p,
                                            Type |-> type, Receiver |-> to]),
                   !.Alive = @ \cup {n}, !.NAlive = @ + 1,
                   !.NAliveJams = IF type = "JAM" THEN @ + 1 ELSE @]

Start(p, lk, act, queues) ==
  /\ active(p) /\ Activity[p] = 0 /\ Len(link.activity) < MaxActivities
  /\ link' = lk
  /\ Activity' = [Activity EXCEPT ![p] = Len(lk.activity)]
  /\ RescheduleAll(lk, Len(lk.activity), act, queues)
  /\ woke' = NoWake
  /\ UNCHANGED <<Time, Type, tmin, TheProcess>>

startTransmit(p) ==
  \E to \in Receivers[p] :
    Start(p, started(p, "TRANSMISSION_A", to), "BOT",
          <<"ACTIVITY", "BOT", "COLLISION", "MY_COLLISION", "SILENCE", "BMP", "ANYEVENT">>)

startJam(p) ==
  Start(p, started(p, "JAM", {}), "BOJ",
        <<"ACTIVITY", "COLLISION", "MY_COLLISION", "SILENCE", "BOJ", "EOJ", "ANYEVENT">>)

\* The activity under way ends with this type; LinkService is told when to remove it.
finished(p, type) ==
  [link EXCEPT !.activity[Activity[p]].FTime = Time, !.activity[Activity[p]].Type = type]

Finish(p, lk, act, queues) ==
  /\ active(p) /\ Activity[p] # 0 /\ Time > link.activity[Activity[p]].STime
  /\ link' = lk
  /\ Activity' = [Activity EXCEPT ![p] = 0]
  /\ RescheduleAll(lk, Activity[p], act, queues)
  /\ woke' = NoWake
  /\ UNCHANGED <<Time, Type, tmin, TheProcess>>

\* stop and abort do the same with a jam.
stopJam(p) ==
  /\ Activity[p] # 0 /\ isJam(link, Activity[p])
  /\ Finish(p, finished(p, "JAM"), "EOJ", <<"SILENCE", "EOJ", "ANYEVENT">>)

stop(p) ==
  /\ Activity[p] # 0 /\ ~isJam(link, Activity[p])
  /\ Finish(p, finished(p, "TRANSMISSION"), "EOT",
            <<"EOT", "EMP", "ANYEVENT", "SILENCE", "COLLISION">>)

\* Only ANYEVENT is told ABTPACKET; SILENCE and COLLISION are told EOT.
abort(p) ==
  /\ Activity[p] # 0 /\ ~isJam(link, Activity[p])
  /\ Finish(p, finished(p, "TRANSMISSION_A"), "ABTPACKET", <<"ANYEVENT", "SILENCE", "COLLISION">>)

\* Fault: a jam that has gone is still counted.
gone_JamsCounted(n) ==
  [link EXCEPT !.Alive = @ \ {n}, !.NAlive = @ - 1,
               !.Archived = IF PurgeDelay = 0 THEN @ ELSE @ \cup {n}]

\* LinkService, RemFromLk
gone(n) ==
  [link EXCEPT !.Alive = @ \ {n}, !.NAlive = @ - 1,
               !.NAliveJams = IF isJam(link, n) THEN @ - 1 ELSE @,
               !.Archived = IF PurgeDelay = 0 THEN @ ELSE @ \cup {n}]

dueFromLk(n) == link.activity[n].FTime # Inf /\ Time = link.activity[n].FTime + MaxDistance(link.activity[n].LRId)

RemFromLk(n) ==
  /\ TheProcess = None /\ n \in link.Alive /\ dueFromLk(n)
  /\ link' = gone(n)
  /\ UNCHANGED <<Time, Type, Activity, event, tmin, TheProcess, woke>>

dueFromAr(n) == Time = link.activity[n].FTime + MaxDistance(link.activity[n].LRId) + PurgeDelay

RemFromAr(n) ==
  /\ TheProcess = None /\ n \in link.Archived /\ dueFromAr(n)
  /\ link' = [link EXCEPT !.Archived = @ \ {n}]
  /\ UNCHANGED <<Time, Type, Activity, event, tmin, TheProcess, woke>>

-----------------------------------------------------------------------------
(* Processes that wait for port events                                     *)

\* While the port transmits, a collision is what it hears of others.
queueOf(p, ev) == IF ev = "COLLISION" /\ Activity[p] # 0 THEN "MY_COLLISION" ELSE ev

\* AevMode is YES, the default: ANYEVENT is answered by what is in the link already.
answers(p, ev) ==
  CASE ev = "ANYEVENT"  -> aevTimes(link, p)
    [] ev = "ACTIVITY"  -> {activityTime(link, p)}
    [] ev = "BOT"       -> {botTime(link, p)}
    [] ev = "BMP"       -> {bmpTime(link, p)}
    [] ev = "EOT"       -> {eotTime(link, p)}
    [] ev = "EMP"       -> {empTime(link, p)}
    [] ev = "SILENCE"   -> {answer(silenceTime(link, p), 0, "none")}
    [] ev = "BOJ"       -> {answer(bojTime(link, p), 0, "none")}
    [] ev = "EOJ"       -> {answer(eojTime(link, p), 0, "none")}
    [] ev = "COLLISION" ->
         {answer(IF Activity[p] # 0 THEN myCollisionTime(link, p)
                 ELSE collisionTime(link, p, TRUE), 0, "none")}

waits(p) == [i \in DOMAIN event[p].reqs |-> event[p].reqs[i].id]

\* What the process was restarted with is kept until it does something.  The first
\* request makes the event; a later one takes it over when it is
\* earlier, or by FLIP when it is as early.
Wait(p, ev) ==
  /\ TheProcess = p
  /\ \E c \in Awaited : IsPrefix(Append(waits(p), ev), c)
  /\ \E a \in answers(p, ev), FLIP \in BOOLEAN :
       LET e == [event[p] EXCEPT !.reqs = Append(@, request(queueOf(p, ev), ev, a))]
           overtakes == \/ event[p].reqs = <<>>
                        \/ a.when < Inf /\ (a.when < tmin \/ (a.when = tmin /\ FLIP))
       IN  /\ event' = [event EXCEPT ![p] = IF overtakes THEN show(e, Len(e.reqs)) ELSE e]
           /\ tmin' = IF overtakes THEN a.when ELSE tmin
  /\ woke' = NoWake
  /\ UNCHANGED <<Time, Type, link, Activity, TheProcess>>

\* The process returns to the main loop, with one of the sequences Awaited or with none.
Sleep ==
  /\ TheProcess # None /\ waits(TheProcess) \in Awaited \cup {<<>>}
  /\ TheProcess' = None /\ tmin' = Inf /\ woke' = NoWake
  /\ UNCHANGED <<Time, Type, link, Activity, event>>

Restart(q, id, pkt, info) ==
  /\ TheProcess = None /\ TheProcess' = q
  /\ woke' = [id |-> id, pkt |-> pkt, info |-> info]
  /\ event' = [event EXCEPT ![q] = NoEvent] /\ tmin' = Inf
  /\ UNCHANGED <<Time, Type, link, Activity>>

\* Fault: simultaneous events of a port come in any order.
givesWay_Never(q, id) == {}

\* Requests of the same port due now that come before the event id.
givesWay(q, id) ==
  {i \in DOMAIN event[q].reqs :
    /\ event[q].reqs[i].when = Time
    /\ \/ id \in {"ACTIVITY", "BOT"} /\ event[q].reqs[i].id = "BMP"
       \/ id = "ACTIVITY" /\ event[q].reqs[i].id = "BOT"
       \/ id \in {"SILENCE", "EOT"} /\ event[q].reqs[i].id = "EMP"
       \/ id = "SILENCE" /\ event[q].reqs[i].id = "EOT"}

\* The main loop delivers the event that is due, or a request that has priority over it;
\* BMP and EMP have priority over BOT and EOT.
Dispatch(q) ==
  /\ event[q].reqs # <<>> /\ event[q].wake = Time
  /\ LET e == event[q]
         id == e.reqs[e.top].id
         first == {i \in givesWay(q, id) : givesWay(q, e.reqs[i].id) = {}}
     IN  IF first = {} THEN Restart(q, id, e.pkt, e.info)
         ELSE \E i \in first : Restart(q, e.reqs[i].id, e.reqs[i].pkt, e.info)

\* Another event restarts the process: its port requests are dropped.
Alarm(q) == Restart(q, "none", 0, "none")

\* Time starts with the first activity.
Tick ==
  /\ TheProcess = None /\ Time < Horizon /\ link.activity # <<>>
  /\ \A q \in Waiters : event[q].wake # Time
  /\ \A n \in link.Alive : ~dueFromLk(n)
  /\ \A n \in link.Archived : ~dueFromAr(n)
  /\ Time' = Time + 1
  /\ UNCHANGED <<Type, link, Activity, event, tmin, TheProcess, woke>>

Next ==
  \/ \E p \in Ports : startTransmit(p) \/ startJam(p) \/ stopJam(p) \/ stop(p) \/ abort(p)
  \/ \E n \in link.Alive : RemFromLk(n)
  \/ \E n \in link.Archived : RemFromAr(n)
  \/ \E q \in Waiters : Dispatch(q) \/ Alarm(q) \/ \E ev \in Events : Wait(q, ev)
  \/ Sleep
  \/ Tick

Spec == Init /\ [][Next]_vars

-----------------------------------------------------------------------------
(* Inquiries about the past                                                *)

known(p) == {n \in link.Alive \cup link.Archived : hears(p, link.activity[n].LRId) /\ starts(link, p, n) <= Time}

byEnd(p) == sorted(known(p), [n \in known(p) |-> ends(link, p, n)])

nothingYet == [tc |-> 0, gap |-> FALSE]

\* The last period begins with tc, or as early as activity n, if that is part of it.
backTo(p, b, n) ==
  IF b.gap \/ (b.tc # 0 /\ ends(link, p, n) < b.tc) THEN [tc |-> b.tc, gap |-> TRUE]
  ELSE [tc |-> IF b.tc = 0 \/ starts(link, p, n) < b.tc THEN starts(link, p, n) ELSE b.tc, gap |-> FALSE]

\* The beginning of the last period of activity heard, 0 if nothing is known: the
\* activities are looked through backwards, up to a gap.
lastBOA(p) ==
  LET m == Cardinality(known(p))
      s == byEnd(p)
      b[k \in 0 .. m] == IF k = 0 THEN nothingYet ELSE backTo(p, b[k - 1], s[m + 1 - k])
  IN  b[m].tc

\* The last end of an activity; Inf while one is heard.
lastEOA(p) ==
  LET F == {ends(link, p, n) : n \in known(p)}
  IN  IF \E f \in F : f > Time THEN Inf ELSE Max({0} \cup F)

\* Those heard now.
activities(p) == {n \in sensed(link, p) : starts(link, p, n) <= Time /\ ends(link, p, n) > Time}

\* Those whose event of this type is heard now.
events(p, etype) ==
  CASE etype = "BOT" -> {n \in sensed(link, p) : ~isJam(link, n) /\ starts(link, p, n) = Time}
    [] etype = "EOT" -> {n \in sensed(link, p) : link.activity[n].Type = "TRANSMISSION" /\ ends(link, p, n) = Time}
    [] etype = "BOJ" -> {n \in sensed(link, p) : isJam(link, n) /\ starts(link, p, n) = Time}
    [] etype = "EOJ" -> {n \in sensed(link, p) : isJam(link, n) /\ ends(link, p, n) = Time}

-----------------------------------------------------------------------------
(* Properties                                                              *)

LastHeard == Inf \div 2

Heard(lk, p) == {n \in DOMAIN lk.activity : hears(p, lk.activity[n].LRId)}

HeardAt(lk, p, t) == {n \in Heard(lk, p) : starts(lk, p, n) <= t /\ t < ends(lk, p, n)}

Beginning(lk, p, t) == {n \in Heard(lk, p) : starts(lk, p, n) = t}

Ending(lk, p, t) == {n \in Heard(lk, p) : ends(lk, p, n) = t}

\* What the events mean, told from all activities there ever were.
Happens(lk, p, queue, t) ==
  CASE queue = "ACTIVITY"     -> HeardAt(lk, p, t) # {}
    [] queue = "SILENCE"      -> HeardAt(lk, p, t) = {}
    [] queue = "BOT"          -> \E n \in Beginning(lk, p, t) : ~isJam(lk, n)
    [] queue = "BMP"          -> \E n \in Beginning(lk, p, t) : p \in lk.activity[n].Receiver
    [] queue = "EOT"          -> \E n \in Ending(lk, p, t) : lk.activity[n].Type = "TRANSMISSION"
    [] queue = "EMP"          -> \E n \in Ending(lk, p, t) : /\ lk.activity[n].Type = "TRANSMISSION"
                                                       /\ p \in lk.activity[n].Receiver
    [] queue = "BOJ"          -> \E n \in HeardAt(lk, p, t) : isJam(lk, n)
    [] queue = "EOJ"          -> /\ \E n \in Ending(lk, p, t) : isJam(lk, n)
                                /\ \A n \in HeardAt(lk, p, t) : ~isJam(lk, n)
    [] queue = "COLLISION"    -> \/ \E n \in HeardAt(lk, p, t) : isJam(lk, n)
                                \/ Cardinality(HeardAt(lk, p, t)) >= 2
    [] queue = "MY_COLLISION" -> \E n \in HeardAt(lk, p, t) : lk.activity[n].LRId # p
    [] queue = "ANYEVENT"     -> Beginning(lk, p, t) \cup Ending(lk, p, t) # {}

Activities ==
  [STime : 1 .. Horizon, FTime : (1 .. Horizon) \cup {Inf}, LRId : Ports,
   Type : {"JAM", "TRANSMISSION", "TRANSMISSION_A"}, Receiver : SUBSET Ports]

Requests ==
  [queue : Events \cup {"MY_COLLISION"}, id : Events, when : 1 .. Inf, pkt : 0 .. MaxActivities,
   info : {"none", "BOT", "EOT", "BOJ", "EOJ", "ABTPACKET"}]

\* Types of what the link keeps.  Alive and NAlive, NAliveJams say the same, and a
\* port's activity is the one of its activities that has no end.
LinkTyped ==
  /\ Time \in 1 .. Horizon /\ Type \in Types
  /\ link.activity \in Seq(Activities) /\ Len(link.activity) <= MaxActivities
  /\ link.Alive \cup link.Archived \subseteq DOMAIN link.activity /\ link.Alive \cap link.Archived = {}
  /\ link.NAlive = Cardinality(link.Alive)
  /\ link.NAliveJams = Cardinality({n \in link.Alive : isJam(link, n)})
  /\ \A p \in Ports : {n \in DOMAIN link.activity : link.activity[n].LRId = p /\ link.activity[n].FTime = Inf}
                      = {Activity[p]} \ {0}

\* Types of the link and of what the processes wait for.
TypeOK ==
  /\ LinkTyped
  /\ \A q \in Waiters : event[q].reqs \in Seq(Requests)
  /\ tmin \in 1 .. Inf /\ TheProcess \in Waiters \cup {None}

\* A pending request for an event of a port always has the time at which that event
\* comes next, as far as it follows from the activities so far, and the process
\* is due at the earliest of these times: whatever has started, ended, been purged or
\* been postponed since (reschedule_*, LinkService).
Foreseen ==
  \A q \in Waiters :
    LET e == event[q]
        next(queue) == Min({Inf} \cup {t \in Time .. LastHeard : Happens(link, q, queue, t)})
    IN  /\ e # Failed
        /\ \A i \in DOMAIN e.reqs : e.reqs[i].when = next(e.reqs[i].queue)
        /\ e.reqs # <<>> => /\ e.wake = e.reqs[e.top].when
                            /\ \A i \in DOMAIN e.reqs : e.wake <= e.reqs[i].when

\* What a packet that comes with an event is to be.
Tells(p, id, n, info) ==
  /\ n # 0 => n \in link.Alive \cup link.Archived /\ n \in Heard(link, p)
  /\ id \in {"BOT", "BMP"} => n # 0 /\ starts(link, p, n) = Time
  /\ id \in {"EOT", "EMP"} => n # 0 /\ ends(link, p, n) = Time
  /\ id \in {"BMP", "EMP"} => n # 0 /\ p \in link.activity[n].Receiver
  /\ id = "ACTIVITY" => IF n = 0 THEN (\E m \in HeardAt(link, p, Time) : isJam(link, m)) ELSE n \in HeardAt(link, p, Time)
  /\ id = "ANYEVENT" => \/ \E m \in Beginning(link, p, Time) : info = beginning(link, m) /\ n = packet(link, m)
                        \/ \E m \in Ending(link, p, Time) : info = ending(link, m) /\ n \in {0, packet(link, m)}

\* A process that is restarted by its port is told an event that is heard there now,
\* with a packet that it is about and that is still in the link; of simultaneous events
\* that it waits for it is told BMP before BOT before ACTIVITY, and EMP before EOT
\* before SILENCE (the main loop, reschedule_*).
EventIsTrue ==
  [][\A q \in Waiters : TheProcess = None /\ TheProcess' = q /\ woke'.id # "none" =>
       LET awaited == {event[q].reqs[i].id : i \in DOMAIN event[q].reqs}
           id == woke'.id
       IN  /\ Happens(link, q, id, Time) /\ Tells(q, id, woke'.pkt, woke'.info)
           /\ id \in {"ACTIVITY", "BOT"} /\ Happens(link, q, "BMP", Time) => "BMP" \notin awaited
           /\ id = "ACTIVITY" /\ Happens(link, q, "BOT", Time) => "BOT" \notin awaited
           /\ id \in {"SILENCE", "EOT"} /\ Happens(link, q, "EMP", Time) => "EMP" \notin awaited
           /\ id = "SILENCE" /\ Happens(link, q, "EOT", Time) => "EOT" \notin awaited]_vars

\* Inquiries of a port about the present tell what is heard there, as if nothing was
\* ever removed (activities, events).
PresentIsKnown ==
  \A p \in Ports :
    /\ activities(p) = HeardAt(link, p, Time)
    /\ events(p, "BOT") \cup events(p, "BOJ") = Beginning(link, p, Time)
    /\ events(p, "EOT") \cup events(p, "EOJ") =
         {n \in Ending(link, p, Time) : link.activity[n].Type # "TRANSMISSION_A"}

\* What a port has begun to hear.
Past(p) == {n \in Heard(link, p) : starts(link, p, n) <= Time}

\* lastEOA is right as far back as the linger time.
LastEndIsKnown ==
  \A p \in Ports :
    LET eoa == Max({0} \cup {ends(link, p, n) : n \in Past(p)})
    IN  IF HeardAt(link, p, Time) # {} THEN lastEOA(p) = Inf
        ELSE eoa # 0 /\ eoa + PurgeDelay >= Time => lastEOA(p) = eoa

\* Inquiries of a port tell what has been heard there, as if nothing was ever
\* removed: about the present in any case, about the past as far back as the linger time.
PastIsKnown ==
  /\ PresentIsKnown /\ LastEndIsKnown
  /\ \A p \in Ports :
       LET boa == Max({0} \cup {starts(link, p, n) :
                         n \in {m \in Past(p) : HeardAt(link, p, starts(link, p, m) - 1) = {}}})
       IN  boa # 0 /\ boa + PurgeDelay >= Time => lastBOA(p) = boa
=============================================================================
