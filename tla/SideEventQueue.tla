---------------------------- MODULE SideEventQueue ----------------------------
(***************************************************************************)
(* The time-ordered event queue of the SMURPH kernel (ZZ_EVENT in          *)
(* KERNEL/global.h and KERNEL/inlines.h) as the linked list it is, together *)
(* with the two operations that walk it while they change it: the trigger   *)
(* loop of an activity interpreter and the sweep of terminate (Kernel).     *)
(*                                                                         *)
(* A process owns at most one event; the event is known by its process.     *)
(* Its request chain is a function from the interpreters it waits for to    *)
(* the time ('when') of the request; 'top' is the request the event shows.  *)
(* All wait requests of one activation are issued in one step here; what    *)
(* happens between two of them is the subject of SideProcess.  The loops are  *)
(* steps of their own, one for each event that they come to.                *)
(***************************************************************************)
EXTENDS Naturals, Sequences, FiniteSets, FiniteSetsExt, SequencesExt

CONSTANTS
  Procs,      \* user processes
  Root,       \* the process the kernel starts by hand
  None,       \* no process: the main loop is running
  Det,        \* the ZZ_DET build (mks -D): FLIP is 0, FIFO among equals
  TimeLimit,  \* zz_max_Time
  Horizon,    \* bound: no timer is set beyond this time
  MaxHolders, \* bound: processes waiting for Kernel DEATH at a time
  Chains      \* bound: the sets of interpreters an activation waits for

ASSUME EventQueueAssumption ==
  /\ Root \in Procs /\ None \notin Procs /\ Det \in BOOLEAN
  /\ TimeLimit \in Nat /\ Horizon \in Nat /\ MaxHolders \in Nat
  /\ Chains \subseteq (SUBSET {"timer", "proc", "kernel"}) \ {{}}

VARIABLES
  time,    \* Time
  queue,   \* zz_eq up to the sentinel, as a sequence of processes
  ev,      \* waketime, top request and request chain of each event
  asked,   \* queued processes in the order of their wait calls
  pending, \* processes whose request a trigger loop has not come to yet
  cur,     \* TheProcess, None inside the main loop
  phase,   \* init: Root's first activation; run; stop (the trigger loop of
           \* terminate), sweep, over: ZZ_Kernel is NULL; done: zz_done ()
  cursor   \* the loop variable 'ev' of the sweep, None at the sentinel

vars == <<time, queue, ev, asked, pending, cur, phase, cursor>>

Inf   == Horizon + 1                 \* TIME_inf
Times == 0 .. Inf
AIs   == {"start", "timer", "proc", "kernel"}

Queued(q) == ToSet(q)
NoEvent   == [wake |-> Inf, top |-> "start", when |-> [s \in {} |-> Inf]]

-----------------------------------------------------------------------------
(* List surgery, on a queue q of events e                                   *)

place(q, p) == CHOOSE i \in 1 .. Len(q) : q[i] = p

\* ZZ_EVENT::enqueue: before the first event that is not earlier, or, when
\* deterministic, behind the last one that is not later.
enqueue(q, e, p) ==
  LET w == e[p].wake
      i == IF Det
           THEN Max({j \in 1 .. Len(q) : e[q[j]].wake <= w} \cup {0}) + 1
           ELSE Min({j \in 1 .. Len(q) : e[q[j]].wake >= w} \cup {Len(q) + 1})
  IN  InsertAt(q, i, p)

\* ZZ_EVENT::store: an event that never occurs as yet goes to the very end.
store(q, p) == Append(q, p)

remove(q, p) == RemoveAt(q, place(q, p))

\* Fault: the event changes its wake time but not its place.
reschedule_InPlace(q, e, p) == q

reschedule(q, e, p) == enqueue(remove(q, p), e, p)

\* ZZ_EVENT::new_top_request, before the event is rescheduled.
new_top_request(e, p, ai) ==
  [e EXCEPT ![p] = [wake |-> @.when[ai], top |-> ai, when |-> @.when]]

\* 'next' of an event, None for the sentinel.
successor(q, p) == IF place(q, p) = Len(q) THEN None ELSE q[place(q, p) + 1]

\* The processes on the TWList of an interpreter.
TWList(ai) == {p \in Queued(asked) : ai \in DOMAIN ev[p].when}

FLIPs == IF Det THEN {FALSE} ELSE BOOLEAN

-----------------------------------------------------------------------------
Init ==
  /\ time = 0 /\ queue = <<>> /\ asked = <<>> /\ pending = {}
  /\ ev = [p \in Procs |-> NoEvent]
  /\ cur = Root
  /\ phase = "init" /\ cursor = None

Running == cur # None /\ phase \in {"init", "run", "over"} /\ pending = {}

\* Processes that do not exist: any of them may stand for the next one made.
Unused == Procs \ (Queued(queue) \cup {cur})

\* zz_start: the START event of a process made by the running one.
Create ==
  /\ Running /\ Unused # {}
  /\ LET p == CHOOSE q \in Unused : TRUE
         e == [wake |-> time, top |-> "start", when |-> [s \in {"start"} |-> time]]
     IN  /\ ev' = [ev EXCEPT ![p] = e]
         /\ queue' = enqueue(queue, ev', p)
         /\ asked' = Append(asked, p)
  /\ UNCHANGED <<time, pending, cur, phase, cursor>>

\* The wait calls of one activation: to the Timer (t is its delay), to a
\* process, to the Kernel for its DEATH.
Wait(S, t) ==
  /\ Running /\ cur \notin Queued(queue)
  /\ time + t <= Horizon
  /\ "timer" \notin S => t = 0
  /\ "kernel" \in S => Cardinality(TWList("kernel")) < MaxHolders
  /\ LET when == [s \in S |-> IF s = "timer" THEN time + t ELSE Inf]
         top  == IF "timer" \in S THEN "timer" ELSE CHOOSE s \in S : TRUE
         e    == [wake |-> when[top], top |-> top, when |-> when]
     IN  /\ ev' = [ev EXCEPT ![cur] = e]
         /\ queue' = IF e.wake = Inf THEN store(queue, cur) ELSE enqueue(queue, ev', cur)
  /\ asked' = Append(asked, cur)
  /\ UNCHANGED <<time, pending, cur, phase, cursor>>

\* Process::signal, the part that concerns the queue: its loop begins.
Signal ==
  /\ Running /\ TWList("proc") # {}
  /\ pending' = TWList("proc")
  /\ UNCHANGED <<time, queue, ev, asked, cur, phase, cursor>>

\* The loop 'for (rq = TWList; ...) { rq->when = Time; if (waketime > Time ||
\* FLIP) new_top_request (rq); }' of signal and terminate comes to the request of
\* p.  Requests are pooled in at the head of a TWList: the last one comes first.
Trigger(p) ==
  /\ p \in pending
  /\ \A q \in pending : place(asked, q) <= place(asked, p)
  /\ LET ai == IF phase = "stop" THEN "kernel" ELSE "proc"
         e  == [ev EXCEPT ![p].when[ai] = time]
     IN  \E flip \in FLIPs :
           IF e[p].wake > time \/ flip
           THEN ev' = new_top_request(e, p, ai) /\ queue' = reschedule(queue, ev', p)
           ELSE ev' = e /\ UNCHANGED queue
  /\ pending' = pending \ {p}
  /\ UNCHANGED <<time, asked, cur, phase, cursor>>

\* The process returns to the main loop.
Return ==
  /\ Running
  /\ cur' = None
  /\ phase' = IF phase = "init" THEN "run" ELSE phase
  /\ UNCHANGED <<time, queue, ev, asked, pending, cursor>>

-----------------------------------------------------------------------------
(* The main loop and ZZ_EVENT::get                                         *)

AtLoop == cur = None /\ phase \in {"run", "over"}
NoEventsLeft == \A p \in Queued(queue) : ev[p].wake = Inf

\* The events among which get () draws: the leading run of equal wake times.
Candidates ==
  {queue[i] : i \in {j \in 1 .. (IF Det THEN 1 ELSE Len(queue)) :
                       \A k \in 1 .. j : ev[queue[k]].wake = ev[queue[1]].wake}}

\* Fault: get () does not notice that the first event has no wake time.
Scheduled_Unchecked == queue # <<>>

\* The first event has a wake time.
Scheduled == queue # <<>> /\ ev[queue[1]].wake # Inf

Get(p) ==
  /\ AtLoop /\ Scheduled
  /\ phase = "run" => time < TimeLimit
  /\ p \in Candidates
  /\ queue' = remove(queue, p)
  /\ ev' = [ev EXCEPT ![p] = NoEvent]
  /\ asked' = remove(asked, p)
  /\ time' = ev[p].wake
  /\ cur' = p
  /\ UNCHANGED <<pending, phase, cursor>>

\* terminate (Kernel): called by a process, at the time limit, or by
\* zz_noevents (); it wakes the processes waiting for Kernel DEATH.
KernelTerminate ==
  /\ phase = "run" /\ pending = {}
  /\ cur = None => time >= TimeLimit \/ NoEventsLeft
  /\ pending' = TWList("kernel")
  /\ phase' = "stop"
  /\ UNCHANGED <<time, queue, ev, asked, cur, cursor>>

\* The sweep of the queue begins.
SweepBegin ==
  /\ phase = "stop" /\ pending = {}
  /\ phase' = "sweep"
  /\ cursor' = IF queue = <<>> THEN None ELSE queue[1]
  /\ UNCHANGED <<time, queue, ev, asked, pending, cur>>

\* Fault: the held event keeps its other requests.
held_Whole(when) == when

\* The requests that remain of a held event.
held(when) == [s \in {"kernel"} |-> when["kernel"]]

\* Fault: the loop begins anew after it has moved an event.
SweepHold_Anew ==
  /\ phase = "sweep" /\ cursor # None
  /\ "kernel" \in DOMAIN ev[cursor].when
  /\ LET e == new_top_request(ev, cursor, "kernel")
     IN  /\ queue' = reschedule(queue, e, cursor)
         /\ ev' = [e EXCEPT ![cursor].when = held(@)]
         /\ cursor' = queue'[1]
  /\ UNCHANGED <<time, asked, pending, cur, phase>>

\* HOLD: an event waiting for Kernel DEATH is rescheduled and keeps that
\* request only; the loop goes on with what follows it in the new order.
SweepHold ==
  /\ phase = "sweep" /\ cursor # None
  /\ "kernel" \in DOMAIN ev[cursor].when
  /\ LET e == new_top_request(ev, cursor, "kernel")
     IN  /\ queue' = reschedule(queue, e, cursor)
         /\ ev' = [e EXCEPT ![cursor].when = held(@)]
         /\ cursor' = successor(queue', cursor)
  /\ UNCHANGED <<time, asked, pending, cur, phase>>

\* "Irrelevant -- deallocate"
SweepDrop ==
  /\ phase = "sweep" /\ cursor # None
  /\ "kernel" \notin DOMAIN ev[cursor].when
  /\ cursor' = successor(queue, cursor)
  /\ queue' = remove(queue, cursor)
  /\ ev' = [ev EXCEPT ![cursor] = NoEvent]
  /\ asked' = remove(asked, cursor)
  /\ UNCHANGED <<time, pending, cur, phase>>

\* The sentinel is reached: longjmp (zz_mloop).
SweepEnd ==
  /\ phase = "sweep" /\ cursor = None
  /\ phase' = "over" /\ cur' = None
  /\ UNCHANGED <<time, queue, ev, asked, pending, cursor>>

\* The second call of terminate (Kernel) ends the program: zz_done ().
Done ==
  /\ phase = "over" /\ pending = {}
  /\ cur # None \/ NoEventsLeft
  /\ phase' = "done" /\ cur' = None
  /\ queue' = <<>> /\ asked' = <<>> /\ ev' = [p \in Procs |-> NoEvent]
  /\ UNCHANGED <<time, pending, cursor>>

Sweep == SweepBegin \/ SweepHold \/ SweepDrop \/ SweepEnd

Next ==
  \/ Create \/ Signal \/ Return \/ KernelTerminate \/ Sweep \/ Done
  \/ \E p \in Procs : Get(p) \/ Trigger(p)
  \/ \E S \in Chains, t \in 0 .. Horizon : Wait(S, t)

\* terminate (Kernel) is a loop of the program, and another one: it keeps running.
Terminating == Sweep \/ (phase = "stop" /\ \E p \in Procs : Trigger(p))

Spec == Init /\ [][Next]_vars /\ WF_vars(Terminating)

-----------------------------------------------------------------------------
Events ==
  [wake : Times, top : AIs, when : UNION {[S -> Times] : S \in SUBSET AIs}]

TypeOK ==
  /\ time \in 0 .. Horizon
  /\ queue \in Seq(Procs) /\ asked \in Seq(Procs) /\ pending \subseteq Procs
  /\ ev \in [Procs -> Events]
  /\ cur \in Procs \cup {None} /\ cursor \in Procs \cup {None}
  /\ phase \in {"init", "run", "stop", "sweep", "over", "done"}

\* The list stays ordered by wake time and links every pending event once,
\* whatever is rescheduled and from where (inlines.h enqueue, remove).
QueueOrdered ==
  /\ \A i, j \in 1 .. Len(queue) : i < j => ev[queue[i]].wake <= ev[queue[j]].wake
  /\ \A i, j \in 1 .. Len(queue) : queue[i] = queue[j] => i = j
  /\ Queued(queue) = Queued(asked)

\* When the sweep ends, only processes waiting for the Kernel's termination
\* are left, each with that request alone and due now ("Remove all events and
\* requests besides the processes waiting for system termination").
SweepLeavesOnlyHolders ==
  [][ phase = "sweep" /\ phase' = "over" =>
        \A p \in Queued(queue) :
           DOMAIN ev[p].when = {"kernel"} /\ ev[p].wake = time ]_vars

\* terminate (Kernel) comes back to the main loop.
SweepEnds == phase \in {"stop", "sweep"} ~> phase \notin {"stop", "sweep"}
=============================================================================
