------------------------------ MODULE SideMailbox ------------------------------
(***************************************************************************)
(* The internal mailbox (KERNEL/mailbox.cc): a typed FIFO of bounded         *)
(* capacity, a capacity 0 mailbox, or a barrier, and the way the main loop    *)
(* (KERNEL/main.cc) delivers its events, RECEIVE among them.                  *)
(*                                                                         *)
(* Events are numbered as in KERNEL/global.h: a count is its own number.      *)
(* A request carries what trigger loops leave in it for the process (Info01,  *)
(* the item, and Info02, the mailbox); the event of a process holds a copy of  *)
(* both, taken from the request it shows.  A request with id TIMER stands for  *)
(* whatever else the process waits for.  The ZZ_DET = ZZ_TAG = 0 build.        *)
(***************************************************************************)
EXTENDS Integers, Sequences, FiniteSets

CONSTANTS
  Procs,     \* processes, all created before the model starts
  None,      \* NULL, and no process
  Box,       \* the mailbox, as found in TheMailbox
  Events,    \* the events that processes wait for
  Limits,    \* the capacities that setLimit gives the mailbox, one at first
  First,     \* the capacity at the start
  MaxItems,  \* bound: items put in a run; they are numbered in this order
  Horizon,   \* bound: no timer is set beyond this time
  MaxChain,  \* bound: wait requests per activation
  MaxCalls,  \* bound: kernel calls per activation
  Deletes    \* whether the mailbox is deleted by one of its users

ASSUME MailboxAssumption ==
  /\ IsFiniteSet(Procs) /\ None \notin Procs /\ Box # None
  /\ None \notin [proc : Procs, idx : Nat, item : Nat, kept : BOOLEAN]
  /\ Events \subseteq Int /\ Limits \subseteq Int /\ First \in Limits
  /\ {MaxItems, Horizon, MaxCalls} \subseteq Nat /\ MaxChain \in Nat \ {0} /\ Deletes \in BOOLEAN

EMPTY    == 0
GET      == -3
NEWITEM  == -4
NONEMPTY == -5
RECEIVE  == -6
TIMER    == -100    \* an event of another interpreter
START    == -101

Inf == Horizon + 1  \* TIME_inf

VARIABLES
  time,    \* Time
  limit,   \* capacity; negative for a barrier
  count,   \* number of items, as the mailbox keeps it
  items,   \* the list from head to tail
  gone,    \* the mailbox has been deleted
  made,    \* items put so far
  ev,      \* the event of each process
  tmin,    \* zz_c_wait_tmin
  cur,     \* TheProcess, None in the main loop
  woke,    \* zz_event_id, TheItem and TheMailbox of the running process
  pe,      \* zz_pe, zz_pr and the item put; kept until the sender
           \* uses the mailbox again (a history variable)
  calls,   \* kernel calls made in this activation
  ended    \* "no"; "over": no events; "lost": failed assertion;
           \* "corrupt": the memory of a deleted mailbox is used

box    == <<limit, count, items, gone, made>>
vars   == <<time, box, ev, tmin, cur, woke, pe, calls, ended>>

NoEvent == [reqs |-> <<>>, top |-> 0, wake |-> Inf, item |-> None, mbox |-> None]
NoWake  == [id |-> START, item |-> None, mbox |-> None]

request(id, when, item) ==
  [id |-> id, when |-> when, item |-> item,
   mbox |-> IF id \in {TIMER, START} THEN None ELSE Box, list |-> id \notin {TIMER, START}]

\* ZZ_EVENT::new_top_request, the fields it copies.
show(e, i) ==
  [e EXCEPT !.top = i, !.wake = e.reqs[i].when, !.item = e.reqs[i].item, !.mbox = e.reqs[i].mbox]

FLIPs == {f \in [Procs -> 0 .. MaxChain] :
            \A p \in Procs : f[p] \in {0} \cup {i \in DOMAIN ev[p].reqs : ev[p].reqs[i].list}}

\* Fault: the item is not handed to the request.
handed_Nothing(r, item) == [r EXCEPT !.when = time]

\* A request that is due now, with an item in its Info01.
handed(r, item) == [r EXCEPT !.when = time, !.item = item]

\* What the loops of put and get, of erase and of ~Mailbox make of a request.
handing(item) == [p \in Procs |-> [i \in DOMAIN ev[p].reqs |-> handed(ev[p].reqs[i], item)]]

waking ==
  [p \in Procs |-> [i \in DOMAIN ev[p].reqs |-> [ev[p].reqs[i] EXCEPT !.when = time]]]

dropping ==
  [p \in Procs |-> [i \in DOMAIN ev[p].reqs |->
     [handed(ev[p].reqs[i], None) EXCEPT !.mbox = None, !.list = FALSE]]]

awaiting(e, E) == {i \in DOMAIN e.reqs : e.reqs[i].list /\ e.reqs[i].id \in E}

\* One event in such a loop: its requests for the events E become what they are
\* in told, and one of them takes over the event if that was due later, or on FLIP.
fired(e, E, told, flip) ==
  LET I == awaiting(e, E)
      d == [e EXCEPT !.reqs = [i \in DOMAIN e.reqs |-> IF i \in I THEN told[i] ELSE e.reqs[i]]]
  IN  IF I = {} THEN e
      ELSE IF flip \in I THEN show(d, flip)
      ELSE IF e.wake > time THEN show(d, CHOOSE i \in I : TRUE)
      ELSE d

\* The loop over WList.
trigger(E, told, flips) == [p \in Procs |-> fired(ev[p], E, told[p], flips[p])]

-----------------------------------------------------------------------------
Init ==
  /\ time = 0 /\ limit = First /\ count = 0 /\ items = <<>> /\ gone = FALSE /\ made = 0
  /\ ev = [p \in Procs |-> [reqs |-> <<request(START, 0, None)>>, top |-> 1, wake |-> 0,
                            item |-> None, mbox |-> None]]
  /\ tmin = Inf /\ cur = None /\ woke = NoWake /\ pe = None /\ calls = 0 /\ ended = "no"

Call == ended = "no" /\ cur # None /\ calls < MaxCalls /\ calls' = calls + 1

UseBox == Call /\ ~gone

-----------------------------------------------------------------------------
(* wait                                                                    *)

\* checkImmediate, for an internal mailbox.
checkImmediate(id) ==
  /\ limit >= 0
  /\ IF id \in {NONEMPTY, RECEIVE} THEN count > 0 ELSE count = id

\* The assertions of wait.
legal(id) ==
  /\ limit = 0 => id = NEWITEM
  /\ limit > 0 => RECEIVE <= id /\ id <= limit

AddRequest(r, flip) ==
  LET e     == ev[cur]
      n     == Len(e.reqs) + 1
      added == [e EXCEPT !.reqs = Append(@, r)]
      takes == \/ e = NoEvent
               \/ tmin > r.when
               \/ tmin = r.when /\ r.when # Inf /\ flip
  IN  /\ n <= MaxChain
      /\ ev' = [ev EXCEPT ![cur] = IF takes THEN show(added, n) ELSE added]
      /\ tmin' = IF takes THEN r.when ELSE tmin
      /\ UNCHANGED <<time, box, cur, woke, pe, ended>>

Wait(id, flip) ==
  /\ UseBox /\ legal(id)
  /\ LET now  == checkImmediate(id)
         item == IF now /\ id = NONEMPTY THEN Head(items)
                 ELSE IF now /\ id >= 0 THEN count ELSE None
     IN  AddRequest(request(id, IF now THEN time ELSE Inf, item), flip)

\* A request to another interpreter, d ITUs from now.
WaitTimer(d, flip) ==
  /\ Call /\ time + d <= Horizon
  /\ AddRequest(request(TIMER, time + d, None), flip)

-----------------------------------------------------------------------------
(* Operations                                                              *)

\* Calls that trigger requests precede the wait calls of the activation.
BeforeWaits == ev[cur] = NoEvent

\* Fault: only NEWITEM waiters and those of the right count are told.
awaitsPut_NewitemOnly == {NEWITEM, count + 1}

\* The events of put: NEWITEM, NONEMPTY and RECEIVE, and the new count.
awaitsPut == {id \in Events : id < GET} \cup {count + 1}

\* The sender of a pending priority item uses the mailbox again.
touched == IF pe = None THEN None ELSE [pe EXCEPT !.kept = FALSE]

\* Fault: one item too many.
Room_OffByOne == count <= limit

Room == count < limit

\* zz_put, on a FIFO with room.
Put(flips) ==
  /\ UseBox /\ BeforeWaits /\ made < MaxItems
  /\ limit > 0 /\ Room
  /\ ev' = trigger(awaitsPut, handing(made + 1), flips)
  /\ made' = made + 1
  /\ count' = count + 1
  /\ items' = Append(items, made + 1)
  /\ pe' = touched
  /\ UNCHANGED <<limit, gone, time, tmin, cur, woke, ended>>

\* zz_put on a capacity 0 mailbox stores nothing.
PutThrough(flips) ==
  /\ UseBox /\ BeforeWaits /\ made < MaxItems
  /\ limit = 0
  /\ ev' = trigger({NEWITEM}, handing(made + 1), flips)
  /\ made' = made + 1
  /\ pe' = touched
  /\ UNCHANGED <<limit, count, items, gone, time, tmin, cur, woke, ended>>

\* signal (sig) of a barrier, which is zz_put (sig).
SignalBarrier(s, flips) ==
  /\ UseBox /\ BeforeWaits
  /\ limit < 0
  /\ ev' = trigger({s}, handing(s), flips)
  /\ UNCHANGED <<time, box, tmin, cur, woke, pe, ended>>

\* zz_get; on an empty mailbox it changes nothing.
Get(flips) ==
  /\ UseBox /\ BeforeWaits
  /\ count > 0
  /\ ev' = trigger({GET, count - 1}, handing(None), flips)
  /\ count' = count - 1
  /\ items' = Tail(items)
  /\ pe' = touched
  /\ UNCHANGED <<limit, gone, made, time, tmin, cur, woke, ended>>

\* zz_erase, which is void on a barrier.
Erase(flips) ==
  /\ UseBox /\ BeforeWaits
  /\ limit >= 0
  /\ ev' = trigger({EMPTY, GET}, waking, flips)
  /\ count' = 0 /\ items' = <<>>
  /\ pe' = touched
  /\ UNCHANGED <<limit, gone, made, time, tmin, cur, woke, ended>>

\* zz_putP on an empty FIFO or on a capacity 0 mailbox.  A second recipient or
\* a second pending priority event fails an assertion.
PutP ==
  /\ UseBox /\ BeforeWaits /\ made < MaxItems
  /\ pe = None
  /\ limit >= 0 /\ count = 0
  /\ LET n == IF limit > 0 THEN 1 ELSE 0
         W == {w \in Procs \X (1 .. MaxChain) :
                 /\ w[2] \in DOMAIN ev[w[1]].reqs
                 /\ LET r == ev[w[1]].reqs[w[2]]
                    IN  r.list /\ r.id \in (IF limit > 0 THEN awaitsPut ELSE {NEWITEM})}
     IN  /\ Cardinality(W) <= 1
         /\ count' = n
         /\ items' = [i \in 1 .. n |-> made + 1]
         /\ IF W = {} THEN UNCHANGED <<ev, pe>>     \* REJECTED
            ELSE LET w == CHOOSE v \in W : TRUE
                 IN  /\ ev' = [ev EXCEPT ![w[1]].reqs[w[2]] = handed(@, made + 1)]
                     /\ pe' = [proc |-> w[1], idx |-> w[2], item |-> made + 1, kept |-> TRUE]
  /\ made' = made + 1
  /\ UNCHANGED <<limit, gone, time, tmin, cur, woke, ended>>

\* setLimit; the remaining arguments fail an assertion.
SetLimit(lim) ==
  /\ UseBox
  /\ lim \in Limits \ {limit}
  /\ lim >= count \/ (lim < 0 /\ count = 0)
  /\ (limit < 0) = (lim < 0) \/ \A p \in Procs : \A i \in DOMAIN ev[p].reqs : ~ev[p].reqs[i].list
  /\ limit' = lim
  /\ UNCHANGED <<count, items, gone, made, time, ev, tmin, cur, woke, pe, ended>>

\* ~Mailbox: every waiter is told, with TheMailbox NULL, and its request moves
\* to zz_orphans.  A program that deletes the mailbox with a priority event
\* pending is not modelled.
Delete(flips) ==
  /\ Deletes /\ UseBox /\ BeforeWaits /\ pe = None
  /\ ev' = trigger(Events, dropping, flips)
  /\ gone' = TRUE /\ count' = 0 /\ items' = <<>>
  /\ UNCHANGED <<limit, made, time, tmin, cur, woke, pe, ended>>

\* Back to the main loop; a process without a request is terminated.
Sleep ==
  /\ ended = "no" /\ cur # None
  /\ cur' = None /\ woke' = NoWake /\ calls' = 0 /\ tmin' = Inf
  /\ UNCHANGED <<time, box, ev, pe, ended>>

-----------------------------------------------------------------------------
(* The main loop                                                           *)

AtLoop == ended = "no" /\ cur = None

Due(p) ==
  /\ AtLoop /\ pe = None
  /\ ev[p].wake # Inf /\ \A q \in Procs : ev[p].wake <= ev[q].wake

\* p is restarted by its event e with item as TheItem.
Restart(p, e, item) ==
  /\ time' = e.wake /\ cur' = p /\ calls' = 0 /\ tmin' = Inf
  /\ woke' = [id |-> e.reqs[e.top].id, item |-> item, mbox |-> e.mbox]
  /\ ev' = [ev EXCEPT ![p] = NoEvent]
  /\ pe' = None
  /\ UNCHANGED <<limit, gone, made>>

Id(e) == e.reqs[e.top].id

\* Every event but RECEIVE: Info01 and Info02 are those of the event.
DispatchOther(p) ==
  /\ Due(p) /\ Id(ev[p]) # RECEIVE
  /\ Restart(p, ev[p], ev[p].item)
  /\ UNCHANGED <<count, items, ended>>

\* Fault: the item is not looked for before it is taken.
Available_Assumed == TRUE

\* "Check if the item can actually be acquired"
Available == count > 0

\* RECEIVE with an item: the head is removed, and nobody else is told.
DispatchReceive(p) ==
  /\ Due(p) /\ Id(ev[p]) = RECEIVE /\ ~gone
  /\ Available
  /\ Restart(p, ev[p], IF items = <<>> THEN None ELSE Head(items))
  /\ count' = count - 1
  /\ items' = IF items = <<>> THEN <<>> ELSE Tail(items)
  /\ UNCHANGED ended

\* "Sorry, back to the queue"; m->count of a deleted mailbox may read as 0.
BackToQueue(p, i) ==
  /\ Due(p) /\ Id(ev[p]) = RECEIVE
  /\ gone \/ ~Available
  /\ LET e == [ev[p] EXCEPT !.reqs[ev[p].top].when = Inf]
     IN  /\ i \in DOMAIN e.reqs /\ \A j \in DOMAIN e.reqs : e.reqs[i].when <= e.reqs[j].when
         /\ ev' = [ev EXCEPT ![p] = show(e, i)]
  /\ UNCHANGED <<time, box, tmin, cur, woke, pe, calls, ended>>

\* or as anything else.
ReceiveGone(p) ==
  /\ Due(p) /\ Id(ev[p]) = RECEIVE /\ gone
  /\ ended' = "corrupt"
  /\ UNCHANGED <<time, box, ev, tmin, cur, woke, pe, calls>>

\* The priority event.
DispatchPriority ==
  /\ AtLoop /\ pe # None
  /\ LET p == pe.proc
         e == show(ev[p], pe.idx)
     IN  IF Id(e) # RECEIVE
         THEN Restart(p, e, e.item) /\ UNCHANGED <<count, items, ended>>
         ELSE IF count > 0
         THEN /\ Restart(p, e, Head(items))
              /\ count' = count - 1 /\ items' = Tail(items)
              /\ UNCHANGED ended
         ELSE \* assert (m->count, "... item lost at priority event")
              /\ ended' = "lost"
              /\ UNCHANGED <<time, box, ev, tmin, cur, woke, pe, calls>>

NoEvents ==
  /\ AtLoop /\ pe = None
  /\ \A p \in Procs : ev[p].wake = Inf
  /\ ended' = "over"
  /\ UNCHANGED <<time, box, ev, tmin, cur, woke, pe, calls>>

-----------------------------------------------------------------------------
Running ==
  \/ \E flip \in BOOLEAN :
       (\E id \in Events : Wait(id, flip)) \/ (\E d \in 0 .. Horizon : WaitTimer(d, flip))
  \/ \E flips \in FLIPs :
       \/ Put(flips) \/ PutThrough(flips) \/ Get(flips) \/ Erase(flips) \/ Delete(flips)
       \/ \E s \in Events : SignalBarrier(s, flips)
  \/ PutP
  \/ \E lim \in Limits : SetLimit(lim)
  \/ Sleep

Looping ==
  \/ \E p \in Procs :
       \/ DispatchOther(p) \/ DispatchReceive(p) \/ ReceiveGone(p)
       \/ \E i \in 1 .. MaxChain : BackToQueue(p, i)
  \/ DispatchPriority
  \/ NoEvents

Next == Running \/ Looping

Spec == Init /\ [][Next]_vars

-----------------------------------------------------------------------------
Requests ==
  [id : Int, when : 0 .. Inf, item : {None} \cup Int, mbox : {None, Box}, list : BOOLEAN]

TypeOK ==
  /\ time \in 0 .. Horizon /\ tmin \in 0 .. Inf /\ calls \in 0 .. MaxCalls
  /\ limit \in Limits /\ count \in Nat /\ made \in 0 .. MaxItems
  /\ items \in Seq(1 .. MaxItems) /\ gone \in BOOLEAN
  /\ ev \in [Procs -> [reqs : Seq(Requests), top : Nat, wake : 0 .. Inf,
                       item : {None} \cup Int, mbox : {None, Box}]]
  /\ \A p \in Procs : ev[p].top \in 0 .. Len(ev[p].reqs) /\ Len(ev[p].reqs) <= MaxChain
  /\ cur \in Procs \cup {None}
  /\ pe = None \/ pe \in [proc : Procs, idx : 1 .. MaxChain, item : 1 .. MaxItems, kept : BOOLEAN]
  /\ pe # None => pe.idx \in DOMAIN ev[pe.proc].reqs
  /\ ended \in {"no", "over", "lost", "corrupt"}

\* The counter, the list and the capacity agree, whichever of put, putP, get,
\* erase, setLimit and the delivery of RECEIVE come between ("inconsistent
\* item count" is asserted in get, putP and erase).
CountMatches == count = Len(items) /\ (limit >= 0 => count <= limit)

\* No process sleeps for RECEIVE or NONEMPTY while the mailbox holds an item.
NoLostItem ==
  limit > 0 /\ count > 0 =>
    \A p \in Procs : \A i \in DOMAIN ev[p].reqs :
      LET r == ev[p].reqs[i]
      IN  r.list /\ r.id \in {RECEIVE, NONEMPTY} => r.when = time

\* A process restarted by RECEIVE holds the oldest item, which is no longer
\* in the mailbox, even when several were promised the same item ("a guaranteed
\* delivery of an item").
ReceiveDelivers ==
  [][ cur = None /\ cur' # None /\ woke'.id = RECEIVE /\ limit >= 0 =>
        items # <<>> /\ woke'.item = Head(items) /\ items' = Tail(items) ]_vars

\* The recipient of putP runs next and finds the item that was put, whatever
\* else it waits for, unless the sender has used the mailbox again itself.
PriorityDelivered ==
  [][ pe # None /\ pe.kept /\ AtLoop =>
        cur' = pe.proc /\ woke'.item = pe.item /\ ended' = "no" ]_vars

=============================================================================
