------------------------------ MODULE SideProcess ------------------------------
(***************************************************************************)
(* Processes of SMURPH as activity interpreters (KERNEL/process.cc), the    *)
(* Timer (KERNEL/timer.cc) and the part of the main loop (KERNEL/main.cc)   *)
(* that restarts a process and hands it the event.                          *)
(*                                                                         *)
(* One process runs at a time.  Between the restart and its return to the   *)
(* main loop it makes kernel calls, one action each: wait requests, signals, *)
(* creation and termination of processes.  The event of a process is a       *)
(* record [reqs, top, wake]: the chain of its wait requests, the index of the *)
(* request the event shows, and waketime.  The ZZ_DET = ZZ_TAG = 0 build is   *)
(* modelled: ties are broken by FLIP and toss.  The order of the queue is     *)
(* left to SideEventQueue: here any event with the least wake time is next.   *)
(***************************************************************************)
EXTENDS Naturals, Sequences, FiniteSets

CONSTANTS
  Procs,     \* process identities, each used once
  Root,      \* the user's first process
  Kernel,    \* the kernel process: father of last resort
  Timer,     \* the Timer AI
  None,      \* NULL
  Owner,     \* the station that owns each process
  System,    \* the system station, which owns Root and the Kernel
  Specs,     \* what a signal may carry (None when the argument is omitted)
  Ops,       \* bound: the kernel calls that each process makes
  Usage,     \* usage patterns of the protocol program, see the operators below
  States,    \* process states; 0 is the first one
  Horizon,   \* bound: no timer is set beyond this time
  MaxChain,  \* bound: wait requests per activation
  MaxCalls   \* bound: kernel calls per activation

Inf == Horizon + 1    \* TIME_inf

ASSUME ProcessAssumption ==
  /\ Root \in Procs /\ Owner[Root] = System
  /\ {Kernel, Timer, None} \cap Procs = {} /\ Kernel # None /\ Timer \notin {Kernel, None}
  /\ None \notin [sender : Procs, spec : Specs] \cup [proc : Procs \cup {None}, idx : Nat]
  /\ States \subseteq Nat /\ 0 \in States
  /\ Horizon \in Nat /\ MaxChain \in Nat \ {0} /\ MaxCalls \in Nat

VARIABLES
  time,    \* Time
  alive,   \* processes that exist
  born,    \* processes created so far
  father,  \* Process::Father
  sig,     \* the signal repository: ISender and ISpec, None when empty
  ev,      \* the event of each process, NoEvent while it has none
  tmin,    \* zz_c_wait_tmin of the running process
  cur,     \* TheProcess, None in the main loop
  woke,    \* why the running process was restarted and in which state
  pe,      \* zz_pe and zz_pr: the pending priority event
  calls,   \* kernel calls made in this activation
  dying,   \* processes that Station::terminate has not come to yet
  ended    \* "no"; "over": out of events; "lost": failed assertion;
           \* "corrupt": an event is used after its memory was released

vars == <<time, alive, born, father, sig, ev, tmin, cur, woke, pe, calls, dying, ended>>

Ids     == {"START", "SIGNAL", "CLEAR", "DEATH", "CHILD", "STALL", "STATE", "TIMER"}
NoEvent == [reqs |-> <<>>, top |-> 0, wake |-> Inf]
NoWake  == [id |-> "START", what |-> None, pstate |-> 0, when |-> 0,
            took |-> FALSE, sender |-> None]
Gone    == [proc |-> None, idx |-> 0]      \* zz_pe points to a deleted event

\* The FLIP of each event: the request on an AI's list that it prefers when
\* that is triggered, 0 to stay as it is.
FLIPs ==
  {f \in [Procs -> 0 .. MaxChain] :
     \A q \in Procs : f[q] \in {0} \cup {i \in DOMAIN ev[q].reqs : ev[q].reqs[i].list \in {"TW", "SW"}}}

-----------------------------------------------------------------------------
(* Requests and events                                                     *)

\* ZZ_REQUEST: interpreter asked (what) and presently pointed to (ai), event
\* and its argument, state to assume, time, and the list that holds it.
request(ai, id, arg, pstate, when, list) ==
  [ai |-> ai, what |-> ai, id |-> id, arg |-> arg,
   pstate |-> pstate, when |-> when, list |-> list]

top(e) == e.reqs[e.top]

\* Fault: the event shows the request, but keeps its time.
shown_KeepsTime(e, i) == [reqs |-> e.reqs, top |-> i, wake |-> e.wake]

\* new_top_request: the event shows request i.
shown(e, i) == [reqs |-> e.reqs, top |-> i, wake |-> e.reqs[i].when]

\* Requests I get the time t.
dated(reqs, I, t) ==
  [i \in DOMAIN reqs |-> IF i \in I THEN [reqs[i] EXCEPT !.when = t] ELSE reqs[i]]

\* Fault: the event is made due but keeps showing the request it showed.
triggered_KeepsTop(e, I, now, flip) ==
  IF I = {} THEN e ELSE [reqs |-> dated(e.reqs, I, now), top |-> e.top, wake |-> now]

\* Fault: 'when' is set only for the request that takes over the event.
triggered_OnlyTop(e, I, now, flip) ==
  LET t == CHOOSE i \in I : TRUE
  IN  IF I = {} \/ e.wake <= now THEN e
      ELSE [reqs |-> dated(e.reqs, {t}, now), top |-> t, wake |-> now]

\* The loop over TWList or SWList that triggers requests, as far as those of one
\* event are concerned (I): 'when' becomes now, and the request takes over the
\* event if that was due later, or on FLIP.
triggered(e, I, now, flip) ==
  LET t == IF flip \in I THEN flip
           ELSE IF e.wake > now THEN CHOOSE i \in I : TRUE ELSE e.top
  IN  IF I = {} THEN e ELSE [reqs |-> dated(e.reqs, I, now), top |-> t, wake |-> now]

\* Fault: any request is drawn, the earliest or not.
min_requests_Any(reqs) == DOMAIN reqs

\* ZZ_REQUEST::min_request: one of the earliest requests, drawn at random.
min_requests(reqs) ==
  {i \in DOMAIN reqs : \A j \in DOMAIN reqs : reqs[i].when <= reqs[j].when}

sigOf(x) == IF x \in Procs THEN sig[x] ELSE None

-----------------------------------------------------------------------------
(* Which requests of an event e the loops trigger                           *)

IsClear(x, r) == r.list = "TW" /\ r.ai = x /\ r.id = "CLEAR"

\* erase
clears(e, x) == {i \in DOMAIN e.reqs : IsClear(x, e.reqs[i])}

\* Fault: signal triggers the whole TWList, whatever it waits for.
IsSignal_AnyEvent(x, r) == r.list = "TW" /\ r.ai = x

IsSignal(x, r) == r.list = "TW" /\ r.ai = x /\ r.id = "SIGNAL"

\* signal
signals(e, x) == {i \in DOMAIN e.reqs : IsSignal(x, e.reqs[i])}

\* The destructor of p, of father f: a process asked for the death of p, or for that of
\* a child of f.
deaths(e, p) ==
  {i \in DOMAIN e.reqs : e.reqs[i].list = "TW" /\ e.reqs[i].what = p /\ e.reqs[i].id = "DEATH"}

children(e, f) ==
  {i \in DOMAIN e.reqs : e.reqs[i].list = "TW" /\ e.reqs[i].ai = f /\ e.reqs[i].id = "CHILD"}

\* Process p enters state s.
entering(e, p, s) ==
  {i \in DOMAIN e.reqs : e.reqs[i].list = "SW" /\ e.reqs[i].ai = p /\ e.reqs[i].arg = s}

\* zz_noevents
stalls(e) ==
  {i \in DOMAIN e.reqs : e.reqs[i].list = "TW" /\ e.reqs[i].ai = Kernel /\ e.reqs[i].id = "STALL"}

-----------------------------------------------------------------------------
Init ==
  /\ time = 0 /\ alive = {Root} /\ born = {Root}
  /\ father = [p \in Procs |-> None]
  /\ sig = [p \in Procs |-> None]
  /\ ev = [p \in Procs |-> NoEvent]
  /\ tmin = Inf
  /\ cur = Root /\ woke = NoWake /\ pe = None /\ calls = 0
  /\ dying = {} /\ ended = "no"

\* A kernel call by the running process.
Call(op) ==
  /\ ended = "no" /\ cur # None /\ dying = {}
  /\ op \in Ops[cur]
  /\ calls < MaxCalls /\ calls' = calls + 1

\* zz_c_first_wait
FirstWait == ev[cur] = NoEvent

\* Calls that change what others wait for come before the wait requests, in
\* the usual programming style; "actAfterWait" lifts this.
BeforeWaits == FirstWait \/ "actAfterWait" \in Usage

-----------------------------------------------------------------------------
(* wait                                                                    *)

\* Adds r to the chain; r takes over the event when it is earlier than
\* zz_c_wait_tmin, or by FLIP when it ties and is not in the infinite future.
\* A Timer request that wins by FLIP leaves waketime alone (timer.cc:181).
AddRequest(r, flip) ==
  LET e     == ev[cur]
      n     == Len(e.reqs) + 1
      timer == r.ai = Timer
      takes == \/ FirstWait
               \/ tmin > r.when
               \/ tmin = r.when /\ r.when # Inf /\ flip
  IN  /\ n <= MaxChain
      /\ ev' = [ev EXCEPT ![cur] =
                  [reqs |-> Append(e.reqs, r),
                   top  |-> IF takes THEN n ELSE e.top,
                   wake |-> IF takes /\ ~(timer /\ tmin = r.when /\ ~FirstWait)
                            THEN r.when ELSE e.wake]]
      /\ tmin' = IF takes THEN r.when ELSE tmin
      /\ UNCHANGED <<time, alive, born, father, sig, cur, woke, pe, dying, ended>>

WaitTimer(d, s, flip) ==
  /\ Call("waitTimer") /\ time + d <= Horizon
  /\ AddRequest(request(Timer, "TIMER", 0, s, time + d, "T"), flip)

\* proceed (s), or a Timer request with zero delay.
Proceed(s, flip) ==
  /\ Call("proceed")
  /\ AddRequest(request(Timer, "TIMER", 0, s, time, "none"), flip)

WaitSignal(x, s, flip) ==
  /\ Call("waitSignal")
  /\ "signalAndClear" \in Usage \/ \A i \in DOMAIN ev[cur].reqs : ~IsClear(x, ev[cur].reqs[i])
  /\ AddRequest(request(x, "SIGNAL", 0, s, IF sig[x] # None THEN time ELSE Inf, "TW"), flip)

WaitClear(x, s, flip) ==
  /\ Call("waitClear")
  /\ "signalAndClear" \in Usage \/ \A i \in DOMAIN ev[cur].reqs :
                                    ev[cur].reqs[i].id # "SIGNAL" \/ ev[cur].reqs[i].ai # x
  /\ AddRequest(request(x, "CLEAR", 0, s, IF sig[x] = None THEN time ELSE Inf, "TW"), flip)

WaitDeath(x, s) == Call("waitDeath") /\ AddRequest(request(x, "DEATH", 0, s, Inf, "TW"), FALSE)
WaitChild(x, s) == Call("waitChild") /\ AddRequest(request(x, "CHILD", 0, s, Inf, "TW"), FALSE)
WaitStall(s)    == Call("waitStall") /\ AddRequest(request(Kernel, "STALL", 0, s, Inf, "TW"), FALSE)
WaitState(x, a, s) == Call("waitState") /\ AddRequest(request(x, "STATE", a, s, Inf, "SW"), FALSE)

\* unwait: drops the requests issued so far in this activation.
Unwait ==
  /\ Call("unwait") /\ ~FirstWait
  /\ ev' = [ev EXCEPT ![cur] = NoEvent]
  /\ pe' = IF pe # None /\ pe.proc = cur THEN Gone ELSE pe
  /\ UNCHANGED <<time, alive, born, father, sig, tmin, cur, woke, dying, ended>>

-----------------------------------------------------------------------------
(* Signals                                                                 *)

\* ISender and ISpec
deposit(x, spec) == [sig EXCEPT ![x] = [sender |-> cur, spec |-> spec]]

\* Process::signal; REJECTED leaves everything as it is.
Signal(x, spec, flips) ==
  /\ Call("signal") /\ BeforeWaits
  /\ sig[x] = None
  /\ sig' = deposit(x, spec)
  /\ ev' = [q \in Procs |-> triggered(ev[q], signals(ev[q], x), time, flips[q])]
  /\ UNCHANGED <<time, alive, born, father, tmin, cur, woke, pe, dying, ended>>

\* Process::signalP, with exactly one process waiting, an empty repository
\* and no other priority event pending; otherwise it fails an assertion or
\* returns REJECTED.
SignalP(x, spec) ==
  /\ Call("signalP") /\ BeforeWaits
  /\ sig[x] = None /\ pe = None
  /\ \E p \in Procs, i \in 1 .. MaxChain :
       /\ \A q \in Procs : signals(ev[q], x) = IF q = p THEN {i} ELSE {}
       /\ pe' = [proc |-> p, idx |-> i]
       /\ ev' = [ev EXCEPT ![p] = [reqs |-> dated(@.reqs, {i}, time), top |-> @.top, wake |-> @.wake]]
  /\ sig' = deposit(x, spec)
  /\ UNCHANGED <<time, alive, born, father, tmin, cur, woke, dying, ended>>

\* Process::erase of a nonempty repository.
Erase(x, flips) ==
  /\ Call("erase") /\ BeforeWaits
  /\ sig[x] # None
  /\ sig' = [sig EXCEPT ![x] = None]
  /\ ev' = [q \in Procs |-> triggered(ev[q], clears(ev[q], x), time, flips[q])]
  /\ UNCHANGED <<time, alive, born, father, tmin, cur, woke, pe, dying, ended>>

-----------------------------------------------------------------------------
(* Creation and termination                                                *)

\* zz_start: the new process is scheduled now by a START request to itself.
Create(p) ==
  /\ Call("create") /\ BeforeWaits
  /\ p \notin born
  /\ born' = born \cup {p} /\ alive' = alive \cup {p}
  /\ father' = [father EXCEPT ![p] = cur]
  /\ ev' = [ev EXCEPT ![p] =
              [reqs |-> <<request(p, "START", 0, 0, time, "none")>>, top |-> 1, wake |-> time]]
  /\ UNCHANGED <<time, sig, tmin, cur, woke, pe, dying, ended>>

\* ~Process.  Who inherits from p.
heir(p) == IF father[p] = None THEN Kernel ELSE father[p]

\* Fault: the children keep pointing to the process that is destroyed.
adopt_Forgotten(p) == [father EXCEPT ![p] = None]

\* Children receive a new owner.
adopt(p) ==
  [q \in Procs |-> IF q = p THEN None ELSE IF father[q] = p THEN heir(p) ELSE father[q]]

\* Fault: only the events of this ITU are repaired, not the rest of TWList.
moves_OnlyDue(r, p, due) == r.ai = p /\ due

\* A request that points to p points to its heir when its event is due or
\* when it is on p's TWList.
moves(r, p, due) == r.ai = p /\ (due \/ r.list = "TW")

inherited(e, p) ==
  [reqs |-> [i \in DOMAIN e.reqs |->
               IF moves(e.reqs[i], p, e.wake <= time)
               THEN [e.reqs[i] EXCEPT !.ai = heir(p)] ELSE e.reqs[i]],
   top |-> e.top, wake |-> e.wake]

\* p's lists move to zz_orphans.
orphaned(e, p) ==
  [reqs |-> [i \in DOMAIN e.reqs |->
               IF e.reqs[i].list \in {"TW", "SW"} /\ e.reqs[i].what = p
               THEN [e.reqs[i] EXCEPT !.list = "orphan"] ELSE e.reqs[i]],
   top |-> e.top, wake |-> e.wake]

\* What becomes of the event e of another process; hard is the variant of
\* Station::terminate, which triggers nothing.
survived(e, p, hard, flip) ==
  LET e1 == inherited(e, p)
      e2 == triggered(e1, IF hard THEN {} ELSE deaths(e1, p), time, flip)
      e3 == orphaned(e2, p)
  IN  triggered(e3, IF hard THEN {} ELSE children(e3, father[p]), time, flip)

Destroy(p, hard, flips) ==
  /\ alive' = alive \ {p}
  /\ father' = adopt(p)
  /\ sig' = [sig EXCEPT ![p] = None]   \* released with the process
  /\ ev' = [q \in Procs |-> IF q = p THEN NoEvent ELSE survived(ev[q], p, hard, flips[q])]
  /\ pe' = IF pe # None /\ pe.proc = p THEN Gone ELSE pe

\* Two usage patterns that the kernel does not survive or the manual leaves
\* open: a process dies while a priority event is pending, or while somebody is
\* about to be restarted by a signal deposited at it.
MayDie(p) ==
  /\ pe = None \/ "dieAfterSignalP" \in Usage
  /\ \/ "dieSignalled" \in Usage
     \/ \A q \in Procs : \A i \in DOMAIN ev[q].reqs :
          IsSignal(p, ev[q].reqs[i]) => ev[q].reqs[i].when = Inf

\* Back in the main loop the variables of the activation mean nothing.
InLoop == cur' = None /\ woke' = NoWake /\ calls' = 0 /\ tmin' = Inf

\* terminate (p) of another process.
Kill(p, flips) ==
  /\ Call("kill") /\ BeforeWaits
  /\ p \in alive \ {cur} /\ MayDie(p)
  /\ Destroy(p, FALSE, flips)
  /\ UNCHANGED <<time, born, tmin, cur, woke, dying, ended>>

\* terminate: the process destroys itself and returns to the main loop.
Exit(flips) ==
  /\ ended = "no" /\ cur # None /\ dying = {} /\ "exit" \in Ops[cur]
  /\ MayDie(cur)
  /\ Destroy(cur, FALSE, flips)
  /\ InLoop
  /\ UNCHANGED <<time, born, dying, ended>>

\* Station::terminate: every process of the station, found before the first one is
\* destroyed.  (Of System it would destroy the Kernel as well.)
StationTerminate(st) ==
  /\ Call("station") /\ BeforeWaits /\ st # System
  /\ \A p \in alive : Owner[p] = st => MayDie(p)
  /\ dying' = {p \in alive : Owner[p] = st}
  /\ UNCHANGED <<time, alive, born, father, sig, ev, tmin, cur, woke, pe, ended>>

\* The loop of Station::terminate, in any order.
Perish(p) ==
  /\ ended = "no" /\ p \in dying
  /\ Destroy(p, TRUE, [q \in Procs |-> 0])
  /\ dying' = dying \ {p}
  /\ IF p = cur THEN InLoop ELSE UNCHANGED <<cur, woke, calls, tmin>>
  /\ UNCHANGED <<time, born, ended>>

\* The process returns to the main loop.  A process of System may do so without a
\* wait request: it lives on and is never restarted.
Sleep ==
  /\ ended = "no" /\ cur # None /\ dying = {}
  /\ ~FirstWait \/ Owner[cur] = System
  /\ InLoop
  /\ UNCHANGED <<time, alive, born, father, sig, ev, pe, dying, ended>>

\* A process of another station that returns without a wait request is terminated (unless
\* the option -e makes this an error).
ImplicitTerminate(flips) ==
  /\ ended = "no" /\ cur # None /\ dying = {}
  /\ FirstWait /\ Owner[cur] # System
  /\ MayDie(cur)
  /\ Destroy(cur, FALSE, flips)
  /\ InLoop
  /\ UNCHANGED <<time, born, dying, ended>>

-----------------------------------------------------------------------------
(* The main loop                                                           *)

AtLoop == ended = "no" /\ cur = None /\ dying = {}

\* Restarts p, whose event e is off the queue, with request r of e: time
\* advances, processes waiting for p to enter r.pstate are triggered, the
\* request chain of e is released.  evs are the events after the signal, if
\* there was one, was taken.
Restart(p, e, r, evs, told, flips, own) ==
  LET now  == e.wake
      mine == entering(e, p, r.pstate)
      rest == [q \in Procs |-> triggered(evs[q], entering(evs[q], p, r.pstate), now, flips[q])]
  IN  /\ time' = now /\ cur' = p /\ calls' = 0
      /\ woke' = [told EXCEPT !.pstate = r.pstate]
      \* the special case of a process waiting for itself
      /\ IF mine = {}
         THEN own = 0 /\ ev' = [rest EXCEPT ![p] = NoEvent] /\ tmin' = Inf
         ELSE /\ own \in mine
              /\ ev' = [rest EXCEPT ![p] =
                   [reqs |-> <<[e.reqs[own] EXCEPT !.when = now]>>, top |-> 1, wake |-> now]]
              /\ tmin' = now

\* What the process finds in TheSender and TheSignal, and why it runs.
Told(r) ==
  [id |-> r.id, what |-> r.what, pstate |-> r.pstate, when |-> r.when,
   took |-> r.id = "SIGNAL",
   sender |-> IF r.id = "SIGNAL" THEN sigOf(r.ai).sender ELSE None]

\* Fault: the signal stays in the repository after it was received.
taken_Kept(x) == sig

\* erase () upon delivery
taken(x) == [sig EXCEPT ![x] = None]

\* Delivery of the top request of p's event e.  A signal is erased from the
\* repository, which triggers the CLEAR waiters; when one of these is in the
\* chain being delivered, FLIP may make new_top_request put the event back
\* into the queue and show the CLEAR request instead.
Deliver(p, e, flips, own) ==
  LET r    == top(e)
      mine == clears(e, r.ai)
      evs  == [q \in Procs |-> triggered(ev[q], clears(ev[q], r.ai), e.wake, flips[q])]
  IN  IF r.id # "SIGNAL"
      THEN /\ Restart(p, e, r, ev, Told(r), flips, own)
           /\ UNCHANGED <<sig, ended>>
      ELSE /\ sig' = taken(r.ai)
           /\ IF flips[p] \in mine
              THEN /\ Restart(p, e, e.reqs[flips[p]], evs,
                              [Told(r) EXCEPT !.id = "CLEAR"], flips, own)
                   /\ ended' = "corrupt"
              ELSE /\ Restart(p, e, r, evs, Told(r), flips, own)
                   /\ UNCHANGED ended

\* Fault: the regular events are looked at before the priority event.
Due_Overtakes(p) ==
  AtLoop /\ ev[p].wake # Inf /\ \A q \in Procs : ev[p].wake <= ev[q].wake

\* Fault: the check for an undefined wake time is missing in get ().
Due_Undefined(p) ==
  AtLoop /\ pe = None /\ ev[p] # NoEvent /\ \A q \in Procs : ev[p].wake <= ev[q].wake

\* ZZ_EVENT::get
Due(p) ==
  /\ AtLoop /\ pe = None
  /\ ev[p].wake # Inf /\ \A q \in Procs : ev[p].wake <= ev[q].wake

\* A regular event.
Dispatch(p, flips, own) ==
  /\ Due(p)
  /\ top(ev[p]).id = "SIGNAL" => sigOf(top(ev[p]).ai) # None
  /\ Deliver(p, ev[p], flips, own)
  /\ UNCHANGED <<alive, born, father, pe, dying>>

\* "Back to the queue": the signal has been taken or erased in the meantime.
BackToQueue(p, i) ==
  /\ Due(p)
  /\ top(ev[p]).id = "SIGNAL" /\ sigOf(top(ev[p]).ai) = None
  /\ LET reqs == dated(ev[p].reqs, {ev[p].top}, Inf)
     IN  /\ i \in min_requests(reqs)
         /\ ev' = [ev EXCEPT ![p] = [reqs |-> reqs, top |-> i, wake |-> reqs[i].when]]
  /\ UNCHANGED <<time, alive, born, father, sig, tmin, cur, woke, pe, calls, dying, ended>>

\* The priority event: the recipient runs next, whatever else is due.
DispatchPriority(flips, own) ==
  /\ AtLoop /\ pe \notin {None, Gone}
  /\ LET p == pe.proc
         e == shown(ev[p], pe.idx)
         s == sigOf(top(e).ai)
     IN  /\ s # None /\ s.spec # None
         /\ Deliver(p, e, flips, own)
  /\ pe' = None
  /\ UNCHANGED <<alive, born, father, dying>>

\* assert (Info01 != NULL, "Internal error -- priority signal lost")
PriorityLost ==
  /\ AtLoop /\ pe \notin {None, Gone}
  /\ LET s == sigOf(ev[pe.proc].reqs[pe.idx].ai) IN s # None => s.spec = None
  /\ ended' = "lost"
  /\ UNCHANGED <<time, alive, born, father, sig, ev, tmin, cur, woke, pe, calls, dying>>

\* zz_pe->new_top_request with the event of a terminated process.
PriorityGone ==
  /\ AtLoop /\ pe = Gone
  /\ ended' = "corrupt"
  /\ UNCHANGED <<time, alive, born, father, sig, ev, tmin, cur, woke, pe, calls, dying>>

\* zz_noevents: nothing is scheduled; STALL waiters are restarted, or the
\* simulation ends.
NoEvents(flips) ==
  /\ AtLoop /\ pe = None
  /\ \A p \in Procs : ev[p].wake = Inf
  /\ IF \E p \in Procs : stalls(ev[p]) # {}
     THEN /\ ev' = [q \in Procs |-> triggered(ev[q], stalls(ev[q]), time, flips[q])]
          /\ UNCHANGED ended
     ELSE ended' = "over" /\ UNCHANGED ev
  /\ UNCHANGED <<time, alive, born, father, sig, tmin, cur, woke, pe, calls, dying>>

-----------------------------------------------------------------------------
Waiting ==
  \E s \in States :
    \/ \E flip \in BOOLEAN :
         \/ \E d \in 1 .. Horizon : WaitTimer(d, s, flip)
         \/ Proceed(s, flip)
         \/ \E x \in alive : WaitSignal(x, s, flip) \/ WaitClear(x, s, flip)
    \/ \E x \in alive :
         \/ WaitDeath(x, s) \/ WaitChild(x, s)
         \/ \E a \in States : WaitState(x, a, s)
    \/ WaitStall(s)

Acting ==
  \/ Unwait
  \/ \E x \in alive, spec \in Specs : SignalP(x, spec)
  \/ \E x \in alive, flips \in FLIPs :
       Erase(x, flips) \/ Kill(x, flips) \/ \E spec \in Specs : Signal(x, spec, flips)
  \/ \E p \in Procs : Create(p)
  \/ \E flips \in FLIPs : Exit(flips) \/ ImplicitTerminate(flips)
  \/ Sleep
  \/ \E st \in {Owner[p] : p \in Procs} : StationTerminate(st)
  \/ \E p \in Procs : Perish(p)

Looping ==
  \/ \E flips \in FLIPs :
       \/ NoEvents(flips)
       \/ \E own \in 0 .. MaxChain :
            DispatchPriority(flips, own) \/ \E p \in Procs : Dispatch(p, flips, own)
  \/ \E p \in Procs, i \in 1 .. MaxChain : BackToQueue(p, i)
  \/ PriorityLost
  \/ PriorityGone

Next == Waiting \/ Acting \/ Looping

Spec == Init /\ [][Next]_vars

-----------------------------------------------------------------------------
AIs == Procs \cup {Kernel, Timer}

Requests ==
  [ai : AIs, what : AIs, id : Ids, arg : States, pstate : States, when : 0 .. Inf,
   list : {"TW", "SW", "T", "none", "orphan"}]

Events == [reqs : Seq(Requests), top : 0 .. MaxChain, wake : 0 .. Inf]

TypeOK ==
  /\ time \in 0 .. Horizon /\ tmin \in 0 .. Inf /\ calls \in 0 .. MaxCalls
  /\ alive \subseteq born /\ born \subseteq Procs /\ dying \subseteq alive
  /\ father \in [Procs -> Procs \cup {Kernel, None}]
  /\ sig \in [Procs -> [sender : Procs, spec : Specs] \cup {None}]
  /\ ev \in [Procs -> Events]
  /\ \A p \in Procs : Len(ev[p].reqs) <= MaxChain /\ ev[p].top <= Len(ev[p].reqs)
  /\ cur \in alive \cup {None} /\ woke.id \in Ids
  /\ pe \in [proc : Procs \cup {None}, idx : 0 .. MaxChain] \cup {None}
  /\ ended \in {"no", "over", "lost", "corrupt"}

Ok == ended \in {"no", "over"}

\* A signal that is pending never lets a process wait for it beyond the current
\* ITU, and nobody sleeps for CLEAR on an empty repository (wait, signal,
\* erase and the two ways back to the queue agree on 'when').
NoLostWakeup ==
  Ok => \A p \in Procs : \A i \in DOMAIN ev[p].reqs :
          LET r == ev[p].reqs[i]
          IN  r.list = "TW" =>
                /\ r.id = "SIGNAL" /\ sig[r.ai] # None => r.when = time
                /\ r.id = "CLEAR" /\ sig[r.ai] = None => r.when = time

\* "the occurrence of the earliest of those events will resuscitate the
\* process": in the main loop each event shows an earliest request of its chain.
EarliestWins ==
  AtLoop /\ pe = None =>
    \A p \in Procs : \A i \in DOMAIN ev[p].reqs :
       ev[p].wake = top(ev[p]).when /\ ev[p].wake <= ev[p].reqs[i].when

\* Whoever is terminated, and in whatever order: a process that exists waits for
\* something, unless it is one of System, which may return without a wait request; a
\* process that is gone waits for nothing; a due event never points to a process that is
\* gone (the main loop looks into zz_CE->ai); and the father of a process exists, since
\* the descendants of a terminated one move to its father.
LivingWait ==
  AtLoop =>
    \A p \in Procs :
      /\ p \notin alive => ev[p] = NoEvent
      /\ p \in alive /\ Owner[p] # System => ev[p] # NoEvent
      /\ ev[p] # NoEvent /\ ev[p].wake = time => top(ev[p]).ai \in alive \cup {Kernel, Timer}
      /\ p \in alive => father[p] \in alive \cup {Kernel, None}

\* A process restarted by DEATH finds the process it named gone, whoever is
\* terminated in between, and only those who waited for it are told.
DeathMeansGone ==
  cur # None /\ woke.id = "DEATH" => woke.what \notin alive

\* The signal comes from the repository named in the wait request.
SignalFromItsRepository ==
  [][ woke'.took /\ woke'.id = "SIGNAL" /\ cur = None =>
        sig[woke'.what] # None /\ sig'[woke'.what] = None ]_vars

\* No process is restarted by the Timer before its time.
TimerOnTime == cur # None /\ woke.id = "TIMER" => woke.when = time

\* Time never goes back: no event is behind the time of the one before.
TimeAdvances == [][time <= time']_vars

\* The process at which the signal behind the priority event was deposited, or its heir.
holder == ev[pe.proc].reqs[pe.idx].ai

\* A priority event is pending and the signal that it stands for is in place.
Promised ==
  pe \notin {None, Gone} /\ LET s == sigOf(holder) IN s # None /\ s.spec # None

\* "As soon as the process that executes signalP is suspended, the waiting recipient of the
\* signal is restarted.  No other process is run in the meantime": back in the main loop
\* the next step restarts that process, in the same ITU, with that very signal.  Until then
\* nothing else takes the signal away than its being erased, the end of the process that
\* holds it, or the end of the recipient's wait; so "priority signal lost" (main.cc:1099)
\* needs one of the first two, or a signalP without an argument.
PriorityGoesNext ==
  [][ Promised =>
        LET x == holder
        IN  IF AtLoop
            THEN time' = time /\ cur' = pe.proc /\ woke'.took /\ woke'.sender = sig[x].sender
            ELSE \/ sig'[x] = None
                 \/ pe' = Gone
                 \/ pe' = pe /\ holder' = x /\ sig'[x] = sig[x] ]_vars
=============================================================================
