# Formal models of the SMURPH kernel (SIDE)

SIDE is a C++ kernel for specifying reactive systems and protocols (SMURPH):
a program is a set of *processes*, finite state machines that are restarted by
*events* of *activity interpreters* (AIs). Everything runs in one operating
system thread, but the processes interleave: the order in which events of the
same instant (ITU) are delivered is drawn at random, and every kernel call may
trigger requests of other processes. This project models the kernel
(`src/SIDE/SOURCES/KERNEL`) in TLA+, checks the models with TLC and proves
theorems about seven of them with TLAPS. One of the example protocols, Go-Back-N
(`src/SIDE/Examples/ARQ`), is modelled as well: it is a program of the kind the kernel
is for, with loss, timeouts and a window.

## 1. Inventory

| Part | State | Operations | Correct when |
|---|---|---|---|
| Event queue, `inlines.h`, `global.h` (`ZZ_EVENT`) | the doubly linked list `zz_eq`, wake times, the shown request of each event | `enqueue`, `store`, `remove`, `new_top_request`, `get`; loops over requests that reorder the list; the sweep of `terminate (Kernel)` | the list is ordered and complete whatever is moved; nothing due is passed; the sweep ends and keeps what it promises |
| Processes, `process.cc`, `main.cc` | `Father`, `TWList`, `SWList`, `ISender`/`ISpec`, `zz_pe`, `zz_c_wait_tmin` | `wait`, `unwait`, `signal`, `signalP`, `erase`, `create`, `terminate`, `~Process`, `Station::terminate`, the main loop | no wakeup is lost; the earliest event wins; no event points to a process that is gone |
| Timer, `timer.cc` | `WList` | `wait`, `proceed`, `setDelay`, `getDelay` | nobody is restarted before the time asked for |
| Internal mailboxes, `mailbox.cc` | `count`, `limit`, the item list, `WList` | `put`, `putP`, `get`, `erase`, `setLimit`, `wait`, deletion, delivery of RECEIVE | an item is delivered once and in order; nobody sleeps while it is there |
| Bound mailboxes, `connect.h` | two rings (`ibuf/iin/iout/count`, `obuf/oin/oout`), the socket | `connect`, `disconnect`, `resize`, `read`, `readToSentinel`, `readAvailable`, `write`, `rawRead`, `rawWrite`, `readInput`, `flushOutput`, the main loop's `zz_push_sockets` | the streams of bytes pass unchanged; input is announced; a closed connection is announced |
| Journals, RESYNC, REAL, `connect.h`, `main.cc` | journal files, wall-clock time | recording, replay, synchronisation | replay gives the recorded input |
| Observers, `observer.cc`, `main.cc` | the inspect list, one timeout event | `inspect`, `timeout`, the scan after each event | the first inspect that fits is taken and the rest is dropped |
| Links and ports, `link.cc` | activities (`Alive`, `Archived`, counters), the port's own activity, port requests `RQueue` | `startTransmit`, `startJam`, `stop`, `abort`, `wait`, the `reschedule_` family, `LinkService`, inquiries about the present and the past | a process is told what its port hears, when it hears it; an activity is removed only when nobody will ask about it |
| Client, `client.cc` | traffic patterns (`RemBSI`, `FlgSUS`, pilot events), message queues, counters behind three limits | `GenMSG`, `GenBurst`, `getPacket` of `Traffic` and `Client` with or without a predicate, `release`, `suspend`, `resume`, `wait` | an active pattern has one pilot event; counters and queues agree; nobody sleeps for a message that is there |
| Go-Back-N, `Examples/ARQ` | the window, serial numbers modulo window size + 1, one packet on each link | `Transmitter`, `AckMonitor`, `Receiver`, `Acknowledger` | packets are received in order, once each, whatever is damaged |
| Radio channels, `radio.cc` | transceivers, activities, interference histograms | transmission, reception, assessment by user methods | as for links |
| Stations, `station.cc`, `system.cc` | topology | creation, `terminate` | (built once) |
| Random variables, BIG arithmetic, I/O | - | sequential | functional |
| Displays, monitor, DSD, SMPP, `mks`, `maker` | windows, templates, connections | I/O and translation | (not kernel logic) |

**How they interact.** A process calls `wait` of any AI: a request joins the list
of that AI (`TWList`, `SWList`, `WList`) and the chain of the process's event. A
call such as `put` or `signal` walks a list and *triggers* requests: `when` becomes
the present time, and the request may become the one the event shows
(`new_top_request`, which also moves the event in the queue). The main loop takes
an event from the head of the queue, does what the event needs *at delivery*
(erases the signal, removes the item), releases the chain and calls the process.
Before each event it visits all sockets.

**What is hard.** (1) Three copies of the same fact: `when` in the request,
`waketime` in the event, the position in the queue, and a fourth,
`zz_c_wait_tmin`, while the process is running. (2) Promise and delivery are two
steps: a signal, item or mailbox that triggered an event may be gone when the event
is delivered. (3) Loops over a list whose body moves the element they stand on.
(4) Objects are deleted while requests, events and `zz_pe` point to them. (5) Ring
indices are advanced in six places, each with its own arithmetic. (6) A port event is
foreseen: its time is computed when it is asked for, and corrected by each later start and
end of an activity, in ten kinds of requests. (7) An activity is removed by a timer that
must be longer than the longest propagation. (8) A traffic pattern is driven by two
events that `suspend` cancels one by one while bursts overlap. `PROJECT.json`
lists the places as hazards, with the properties that cover them.

## 2. Modules

| Module | Models | Composition |
|---|---|---|
| `SideEventQueue` | the queue as a sequence, its surgery, trigger loops, the sweep | three processes with fixed request sets |
| `SideEventQueue_proofs` | the theorems | extends `SideEventQueue` and `SideSequences` |
| `SideProcess` | requests, signals, life and death of processes, dispatch | the order of the queue abstracted to "any least wake time", which `SideEventQueue!QueueOrdered` justifies |
| `SideProcess_proofs` | the theorems | extends `SideProcess` |
| `SideMailbox` | one internal mailbox and its users | request handling as in `SideProcess`; other AIs are one Timer request |
| `SideMailbox_proofs` | the theorems | extends `SideMailbox` |
| `SideByteStream` | what one direction of a connection promises: a queue of bytes between a writer and a reader | abstract specification |
| `SideBoundMailbox` | one bound mailbox, the socket, the waiting processes | a waiter is reduced to asleep / due / none; each direction implements `SideByteStream` by a refinement mapping (`Receives`, `Sends`) |
| `SideBoundMailbox_proofs` | the theorems | extends `SideBoundMailbox` |
| `SideClient` | patterns, the Client, message queues, processes that take packets | requests reduced to sets of waits and of triggered ones |
| `SideClient_proofs` | the theorems | extends `SideClient` and `SideSequences` |
| `SideSequences` | lemmas about insertion, removal, members and sorting of sequences, functions defined by recursion and extreme elements | used by the proofs about queues, searches and lists of activities |
| `SideLink` | activities, ports, port requests of a process, delivery with priorities, the archive | the request chain and its event as in `SideProcess`, with answers in place of triggers |
| `SideLink_proofs` | the theorems | extends `SideLink` and `SideSequences` |
| `SideDelivery` | what a reliable protocol promises: packets taken, received in order, released | abstract specification |
| `SideARQ` | the four processes of Go-Back-N, two damaging links, the timer | implements `SideDelivery` by a refinement mapping (`Delivers`) |
| `SideARQ_proofs` | the theorems | extends `SideARQ` |
| `MC...` | instances for TLC | one per component |

**Correspondence.** One action stands for one kernel call or for one turn of the
main loop, with every request it triggers. `SideProcess` and `SideMailbox` make
each kernel call of an activation an action of its own, so that what one call
leaves behind is seen by the next; the loops over request lists are the operator
`trigger`, whose argument `flips` holds the outcome of every `FLIP`. `get ()` draws
among the simultaneous events at random: `Dispatch` is enabled for each of them. A
process is restarted with `woke`, which holds what the program finds in `TheEvent`,
`TheItem`, `TheMailbox` or `TheSender`. Two loops whose body moves events or releases processes are taken
one turn at a time: the trigger loops of `SideEventQueue` (`pending` holds the processes the loop has not come to,
`Trigger` serves one of them) and `Station::terminate` of `SideProcess` (`dying`, `Perish`). The build is the usual one: `ZZ_DET` and
`ZZ_TAG` are 0 (`SideEventQueue` has the ZZ_DET ordering as the constant `Det`).

`ended = "corrupt"` and `"lost"` in `SideProcess` and `SideMailbox` record that the
code would use released memory, or that an assertion fails: the model stops there
and does not say what follows.

`Owner` of `SideProcess` gives each process its station. A process that returns to the main loop without a wait request is
terminated (`ImplicitTerminate`), as main.cc:1644 does by default (option -e makes it an error), except on `System`, to which the root process
and the Kernel belong: there it lives on without an event (`Sleep`). `TheStation` is that of the running process; a program may set it to
another one, which is left out.

`SideBoundMailbox` numbers the bytes of a connection in each direction, and a ring
slot holds the number of the byte that was copied into it. So "the contents of the
ring" is modelled exactly, and `good` turns FALSE as soon as a byte is handed over
whose number is not the next one; `forced` remembers that a connection was ended by
the program's own `disconnect (CLEAR)`, the one way that may drop bytes. `n1` and `n2` in `ReadInput` and `Flush` are what
the two calls of `read` or `write` on the socket return: anything between nothing and
what was asked for. `Arrive` and `Close` are the other party; the socket keeps what
it was sent until it is read. `Input` and `Output` are two instances of `SideByteStream`: the bytes held are those of
the ring from `iout` (`oout`) on, read around its end (`ringBytes`), and the bytes written and taken are the counts of
what entered and left it. An unbound mailbox has two empty rings, so `count` of
an internal life of the same mailbox is not part of this module.

`SideARQ` follows the states of the processes in `protocol.cc`; a packet enters a link, a sequence, when its
transmission is stopped, since no other event of it is awaited, and leaves it by an arrival or by damage
(`Damage1`, `Damage2`). A packet carries its serial number and, for the properties alone, the position of its
message in the stream. An entry of the window may become older than the timeout at any moment
(`GetLate`). `Delivers` is the specification of `SideDelivery`, whose variables
`accepted`, `received` and `released` are those of `SideARQ`.

`SideClient` keeps, for a pattern, the number of pending events of each kind (`arrivals`,
`bursts`) in the place of the events, since `suspend` finds and cancels them all; random
intervals and lengths are free choices. `MQTail` is modelled beside the list `MQ`, as a pointer that
may be wrong. `release` comes any number of steps after `getPacket`.

`SideLink` has `Distances` for the vectors `DV`, `MaxDistance` for what `makeTopologyL`
computes of them, and one operator for each `...Time` function and each `reschedule_` loop. A
`reschedule_` operator gives the set of what may become of an event, since `FLIP` decides ties; `Failed`
stands for an assertion of `link.cc` that fails. The record `link` holds all activities that ever
were; only `Alive` and `Archived` are looked at by the operations, the rest is there for the properties, which
say what is heard from the full history. An activity that starts and ends at the same time is
left out, as is a process that starts or ends an activity after its own wait requests (section 5).

**Usage patterns** (`Usage` in `SideProcess`). Four things that a program can do are
switched on per run, so that a run may either rule them out (and show that the rest
is right) or show what follows: calling `signal` after `wait` (`actAfterWait`),
waiting for SIGNAL and CLEAR of one repository at a time (`signalAndClear`),
dying while somebody is about to be restarted by one's signal (`dieSignalled`) or while
a priority event is pending (`dieAfterSignalP`). In `SideMailbox`, calls that
trigger requests precede the wait calls of an activation. `Usage` of `SideClient` does the same for a pattern that is
suspended and resumed before the Client has started (`resumeEarly`) and one that is suspended in the middle of a burst
(`suspendInBurst`).

## 3. Runs

| Run | Instance | Distinct states | Question |
|---|---|---|---|
| `events` | 3 processes, 2 times, one Kernel waiter | 36 328 | is the list right after every move; does the sweep end |
| `signals` | 3 processes, chains of 2 requests, 2 calls per activation, times 0..1 | 587 344 | can a wakeup or a signal be lost; can the Timer be early or time go back |
| `death` | 3 processes, System and another station, kill, exit, station termination, state waits; `signalP` with and without an argument, `erase` | 312 539 | does anything point to the dead; does each event show its earliest request; is a priority signal delivered next |
| `mailbox` | 2 processes, limits 1, 0 and barrier, 2 items | 1 007 015 | can an item be lost, doubled or overlooked |
| `bound` | buffers of 2 and 5, one sentinel, 4 bytes each way, 3 waiters | 176 233 | is each direction a stream of bytes; is input announced |
| `arq` | window of 2, serial numbers 0..2, 4 messages, 2 packets in a link, any number of damages | 53 520 | is every message received once and in order, and in the end; is an acknowledgement legal |
| `client` | 2 patterns, one of them bursty, 2 stations, 2 processes, limits of 1 and 2 messages | 208 640 | do suspend and resume, limits and the middle of a queue leave events, counters and queues right |
| `link` | 3 ports at distances 1 and 2, 2 activities of any kind, 4 groups of events, times 1..5, both types of link | 376 390 | is what a port tells its process true, complete and in time |
| `events_holders` | 2 Kernel waiters | stops at the violation | violation of `SweepEnds` |
| `own_request` | 2 processes, 3 calls per activation, `actAfterWait` | stops at the violation | violation of `EarliestWins` |
| `bound_receive` | RECEIVE on a ring of 3 slots | stops at the violation | violation of `BytesInOrder` |
| `client_burst` | suspend in the middle of a burst | stops at the violation | violation of `BurstGoesOn` |

**Bounds.** `Horizon` is the last time a Timer can be set to; two times are enough to
have "now" and "later", and no property compares differences. `MaxChain` = 2 gives
every pair of requests of one process, and what goes wrong in a chain (which of two
is shown, which of two ties) needs two. `MaxCalls` bounds the kernel calls of one
activation; each passing run has at least a trigger and a wait, or two waits.
`MaxItems` = 2 with a limit of 1 gives full, empty and the capacity boundary.
`MaxBytes` = 4 with a ring of 3 slots wraps both indices; growing to 6 slots gives a
`resize` at every position. The proofs have no such bounds. `MaxHolders` keeps the
number of processes waiting for Kernel DEATH at one, the largest for which the
sweep ends (safety is proved for any number). In `SideARQ`, a window of 2 gives serial numbers that wrap within 4
messages (`MLimit`), a full window, and acknowledgements that cover two packets; `Capacity` bounds the packets
in a link. In `SideClient`, `MaxBurst` = 2 and `Horizon` = 1 let a burst of two, of one and of
none start while another one has messages left, and `QSLimit`, `TLimit`, `SLimit` are
reached in every order. In `SideLink` time starts with the first activity, since nothing before it
can be told apart; two activities overlap, touch or follow each other in every order, and 5 times let a
port ask for an activity before it starts, while it is heard, after its end, after it left
the link and after it left the archive. `Awaited` groups the events that are simultaneous by nature, and those that are put off together; a process waits for one whole group.

**Deadlock** is checked in `arq` and `link`, which never stop: Go-Back-N may always lose one more packet,
and a process of a port may be restarted by something else. It is not checked in the others: a simulation ends when
it runs out of events (`NoEvents`), after `terminate (Kernel)` (`Done`), or with a failed assertion,
and the bounds on bytes, items, messages and connections stop the rest.

**Fairness.** `WF(Terminating)`: what `terminate (Kernel)` does, waking those who wait for it and the sweep, are two
loops without any waiting. `SideARQ`: weak fairness of the
steps of each process that the kernel restarts when their event has come (`Transmitter`, `SendAck`,
`AckDone`), and time passes (`GetLate (0)`); strong
fairness, for each serial number, of the arrival of an undamaged frame and acknowledgement (`NewFrame`, `NextAck`), since bits are damaged
independently (`setFaultRate`), so that not every copy is damaged. `SideClient`: the kernel delivers the priority event
(`WF(RestartPriority)`) and the pilot event of a pattern (`SF(GenMessage(t))`: other
processes may suspend and resume the pattern in between). Nothing is assumed of the program, which may never
wait, read or take a message, nor of the other party of a socket.

## 4. Proofs

`SideBoundMailbox_proofs` proves, for buffers of any size, any set of sentinels and of
awaited events, and any number of bytes and connections:

- `TypeCorrect`: `Spec => []TypeOK`
- `RingsAlwaysAgree`: `Spec => []RingsAgree`
- `StreamsInOrder`: `Spec => []BytesInOrder`
- `NothingPendingIsLost`: `Spec => NothingPendingLost`
- `InputIsStream`: `Spec => Receives`, the input side implements `SideByteStream`
- `OutputIsStream`: `Spec => Sends`, the output side does
- `NoInputIsLost`: `Spec => []NoLostInput`

**Assumptions.** `BoundMailboxAssumption` (buffers have at least one byte), and
`~ReceiveWraps`: RECEIVE is used only where the ring is longer than the stream, since
the run `bound_receive` shows that the theorems fail otherwise.

**Argument.** `RingsAgree` is not inductive. `IInv` adds the ranges of all indices and
of both buffers, `got <= taken <= arrived`, that the output counter agrees with the
distance of its indices, and, for RECEIVE, that `iout <= got` and
`arrived <= MaxBytes`, so that an index advanced in the main loop's way does not reach
the end of the ring. The first part of the module is ring arithmetic: `AdvanceDist`
and `DistAdvance` (an index that advances by n is n further ahead, modulo
limit + 1), `FilledInTurn` (bytes copied in behind those of the ring continue their
numbers) and `TakenInTurn`. The second part has one lemma for each kind of
transfer, and one for each group of actions; each says that its actions preserve
`IInv`. `NoLostInput` needs a second invariant, `Awake`: while a process is asleep
on a bound mailbox the condition it waits for is false; only `ReadInput` can make it
true, and then it triggers the request. `NothingPendingLost` follows from the guards
of the ways in which a connection ends together with `IInv` (`iin = iout` means
`count = 0`).

The refinements say more than the invariants they rest on: *what* a ring holds between two steps is what it held before,
without the bytes taken and with those added. `IInv` fixes the number in each slot of a ring (`InTurnNumbered`), so that two
rings with the same numbers hold the same sequence, wherever it starts and however long the ring is (`Holding`); a
resize, which moves every byte, is then a stutter, a read in two parts appends, and each call that reads takes a prefix
(one lemma per group of actions maps them to the actions of `SideByteStream`).

### Go-Back-N

`SideARQ_proofs` proves, for every window size, capacity of the links and number of messages:

- `ARQTypeCorrect`: `Spec => []TypeOK`
- `ARQAcksLegal`: `Spec => []AcksLegal`, the assertion "illegal acknowledgement" never fails
- `ARQWindowIsBacklog`: `Spec => []WindowIsBacklog`
- `ARQNoStaleFrame`: `Spec => []NoStaleFrame`
- `ARQDelivers`: `Spec => Delivery!Spec`, the refinement: initial states map to initial states, and each
  step to a step of `SideDelivery` or to a stutter

**Assumption.** `ARQAssumption`: the window holds at least one packet, and so does a link.

**Argument.** None of the properties is inductive: they need to know what is under way. `IInv` says that the
positions of all frames and acknowledgements that are on a link, kept by a process or being
sent lie within one window of each other (`FrameOK`, `AckOK`, `Frames`, `Acks`, `Sending`, `Replying`), that
serial numbers are those positions modulo window size + 1 (`Numbers`), and how the counts are ordered:
released, then acknowledged, then received, then taken (`Counts`, `Window`). `ModInjective` then says that two positions that
differ by no more than the window size and have equal remainders are equal, so that the comparison
of serial numbers in `Receiver` and `AckMonitor` is one of positions. There is one lemma per action;
`ARQDelivers` follows from `IInv` by `StepDelivers`, which maps each action to one of `SideDelivery` or to a stutter.

### Event queue

`SideEventQueue_proofs` proves, for any processes, chains of requests, times and number of holders:

- `Typing`: `Spec => []TypeOK`
- `Ordering`: `Spec => []QueueOrdered`, in both builds
- `Restarting`: the assertion "illegal restart time" of `terminate (Kernel)` never fails, in both builds
- `Sweeping`: `Spec => SweepLeavesOnlyHolders`, for `Det = FALSE` (section 5 says why)

**Assumption.** `EventQueueAssumption` gives the constants their types.

**Argument.** That an ordered list stays ordered is a lemma about `enqueue` (`InsertAt`) and `remove`, whose
ingredients are in `SideSequences`. `IInv` adds that no queued event lies in the past (`Future`), without which
`enqueue` would not have a place for an event due now. What the sweep leaves behind is a statement about a loop whose
body moves the element it stands on. Its invariant is `Behind`: whatever precedes the loop variable has been held. It
holds because each holder is due now (`Due`, which the trigger loop before the sweep brings about), so that it goes to the head
of the list and its new successor is the event that followed the ones held so far.

### Processes, signals and dispatch

`SideProcess_proofs` proves, for any processes (infinitely many, too), roles, stations, lengths of chains and
of activations:

- `Typing`: `Spec => []TypeOK`, without a hypothesis
- `Earliest`: `Spec => []EarliestWins`
- `Wakeups`: `Spec => []NoLostWakeup`
- `Punctual`: `Spec => []TimerOnTime`
- `Forward`: `Spec => TimeAdvances`
- `Survivors`: `Spec => []LivingWait`
- `Kinship`: `Spec => []Families`, the clauses of `LivingWait` about processes and their fathers, without a hypothesis
- `Deaths`: `Spec => []DeathMeansGone`, without a hypothesis
- `Priorities`: `Spec => PriorityGoesNext`, without a hypothesis
- `Repositories`: `Spec => SignalFromItsRepository`

**Assumptions.** `ProcessAssumption` gives the constants their types and says that NULL is different from
everything that is not NULL, and that the root process belongs to `System`. Further hypotheses say what the program refrains from, since the code fails
otherwise:

| Hypothesis | Theorems | Without it |
|---|---|---|
| `Early`: no calls that trigger requests after the first wait of an activation | `Earliest`, `Wakeups`, `Punctual`, `Forward`, `Survivors` | `zz_c_wait_tmin` is stale (process.cc:290), and a later wait puts the event behind the request just triggered |
| `Settled`: no process dies while somebody is about to be restarted by its signal | `Repositories` | the signal is gone with its repository |

The instances of the runs satisfy the hypotheses of the theorem about each property they check.
Without `Early`, TLC violates `EarliestWins` and `NoLostWakeup` as soon as a process makes three calls per activation (wait,
trigger itself, wait; `own_request`), `TimerOnTime` with four (Timer, SIGNAL, trigger itself, Timer again, a tie that wins
by `FLIP`), and `TimeAdvances` with a request that was left behind and comes back when its event is returned to the queue.
It finds no violation of `LivingWait`; the clause about due events has the hypothesis because its proof needs time to
go forward, and the other clauses are `Kinship`.

**Argument.** None of the properties is inductive. There are five invariants, each relying on those before it:

1. `AInv`: requests, events and the pending priority event fit together: who is not alive has no event, an event
   shows one of its requests, a request on a list of x waits for x, which exists, and the priority event points to a SIGNAL
   request that is due.
2. `Opened`: an event is never later than its requests (`Ordered`), except for the request behind the priority event,
   which `signalP` makes due without moving the event. `CurMin` ties the fourth copy of the time, `zz_c_wait_tmin`, to
   the event of the running process; it is what `Early` is for.
3. `AllInformed`: a request for SIGNAL or CLEAR that is not due waits for what is not the case.
4. `CInv`: fathers exist and nobody is his own ancestor (`Elders`, by the order in which processes are created), so that the
   heir of a terminated process exists and is another one; a request that can be delivered points to somebody who
   exists (`AllTended`); whoever exists waits, unless it is a process of System
   (`Awake`).
5. `Plain`: a request for DEATH that is due, or that is being delivered, names a process that is gone (`Mourned`), and the request
   behind a priority event is one for SIGNAL (`Honest`). It uses only 1, and so holds whatever the program does.

`Priorities` needs no more than 1, too. While the sender is still running, `PromiseKept` goes through its calls: an event that is
touched keeps its requests in place, and only `erase` and the end of a process touch a signal that is there. Back in the main loop `PriorityAlone`
shows that no other step is possible, and `PriorityMet` what the one step does; it is in the same ITU since the request behind the priority event is due now.

Triggering is one relation, `Stirred`: whichever requests a loop serves and whatever the FLIPs say, an event stays, turns to
a request that is due now, or is due already. Each invariant has one lemma about `Stirred`, one about a request that is
added, and then one step per action.

### Internal mailboxes

`SideMailbox_proofs` proves, for any finite number of processes, any items, capacities and sets of awaited events:

- `Typing`: `Spec => []TypeOK`
- `CountIsLength`: `Spec => []CountMatches`
- `NobodySleeps`: `Spec => []NoLostItem`
- `Received`: `Spec => ReceiveDelivers`
- `PriorityIsNext`: `Spec => PriorityDelivered`

**Assumption.** `MailboxAssumption`: types of the constants, finitely many processes, NULL is nothing else.

**Argument.** `IInv` adds to the properties that a barrier and a deleted mailbox are empty (`Stored`), that no event is later
than its requests except for the recipient of a priority item (`Earliest`, `Current`), and where the item of a pending
priority event is (`Priority`). `Earliest` is why `NoLostItem` is stable: time advances only to the first event, and so
not past a request that is due.

### Client

`SideClient_proofs` proves, for any patterns, stations, finite number of processes, limits and sets of requests:

- `Typing`: `Spec => []TypeOK`
- `Counting`: `Spec => []CountersAgree`
- `Linking`: `Spec => []QueuesLinked`
- `Waking`: `Spec => []NoLostWakeup`
- `OldestFirst`: `Spec => EarliestFirst`
- `OneEach`: `Spec => []OnePilot`, if no pattern is suspended and resumed before the Client has started
- `BurstsExact`: `Spec => []BurstExact`, if besides no pattern is suspended in the middle of a burst

The two hypotheses rule out what section 5 says of client.cc:133 and client.cc:177.

**Assumption.** `ClientAssumption`: types of the constants, finitely many processes.

**Argument.** The counters are compared with the cardinality of sets of messages, so the invariant has to say that no message is
in two queues (`Apart`); taking one from a queue then lowers one number by one. `Dated` says that no message is younger
than the present time, so that a new one goes to the end of its queue in order. `Remaining`
(a bursty pattern has a message event only while its burst has messages left) keeps `RemBSI` from going below zero.
`Pilots` and `Bursts` are separate invariants: they follow the events of one pattern through `GenMSG`, `GenBurst`, `suspend` and
`resume`, whatever happens to the queues. `OldestFirst` is about the circular search of `getPacket`: `Oldest` holds of what has been
found in the patterns passed so far (`Better`), and the search passes all of them (`Circle`).

### Links

`SideLink_proofs` proves, for any number of ports, any distances, both types of link, any linger time and any number of
activities:

- `Typing`: `Spec => []TypeOK`, and `Counting`: `Spec => []LinkTyped`, its part about the link and its counters
- `Foresight`: `Spec => []Foreseen`
- `Truth`: `Spec => EventIsTrue`
- `LastPeriod`: `Spec => []PastIsKnown`, with its parts `Present`: `Spec => []PresentIsKnown` and
  `LastEnd`: `Spec => []LastEndIsKnown`

**Assumption.** `LinkAssumption`: types of the constants; distances are symmetric, and zero only from a port to itself.

**Argument.** There are two invariants.

1. `IInv` is about what the link keeps. An activity is removed by a timer. `Kept` says how far in the past an activity has
   ended that is not in `Alive`, or in neither list: by `MaxDistance` of its port, or by the linger time more. `Farthest` says
   that `MaxDistance` is greater than the distance of every port that can hear the activity, so that this port has heard its
   end before (`Gone`); the 1 that `makeTopologyL` adds is what makes "before" strict, so that the end itself is still found
   in its own ITU.
2. `Expecting` is about what the processes wait for: a pending request is `Formed` (its packet is one that its event is about) and
   `Timely` (its time is the first time from now on at which its event happens, or Inf), and the event shows the earliest.
   A new request is so because each `...Time` function returns the right time and packet (`RightBOT` ... `RightAnyEvent`; the sorted
   scans behind SILENCE, EOJ and COLLISION are `PeriodEnd` and `FirstOverlap`). It stays so because nothing that a port will hear changes
   but by starts and ends of activities. Of these, `Grows` and `Ceases` say what another port hears differently, and from which time on;
   `Gains` and `Loses`, for each event, whether it now happens at more times or at fewer; `ByGain`, `ByAgain`, `ByLoss` and
   `ByNothing`, which of the four kinds of correction suits (the time of the change, a recomputed earlier time, a recomputed later time,
   none). `StartServes` and `StopServes` go through the ten kinds of `reschedule_`; `TransmitCovers`, `JamCovers` and `EndCovers` show that
   the queues that `startTransmit`, `startJam`, `stopJam`, `stop` and `abort` leave out are those with nothing to correct. While the queues are gone
   through, `Halfway` says which requests are right for the link as it was and which for the link as it will be. The assertions of
   the `reschedule_` functions (`Failed`) never fail because a loss cannot make an event come earlier (`LossIsLater`).

`Truth` then is about one moment: a request that is due is for an event that happens now (`ComesTrue`), its packet is still in the link (`Told`), and a
request with priority over it would be due as well (`NoPriority`). `LastPeriod` rests on `Gone` and on the search of `lastBOA`
(`Backwards`): going back from the last end, it comes to all activities of the last period before any earlier one, and takes
none of them for the end of a gap.

**Induction.** What a loop over a list returns is proved of a recursive function on `0 .. n`, whose existence is `Recursive`, by
`Reached`: a set that contains 0, and k + 1 with each k below n, contains all up to n. Both are lemmas of `SideSequences` that quantify over sets in the
place of predicates, and rest on the least element of a set of numbers (`Extremes`, from the well-foundedness of inclusion
between finite sets). That a maximum exists (`Bounded`) and that a finite set can be sorted (`InOrder`) are proved in the same manner.

**Only model-checked.** `SweepEnds` (which fails with two Kernel waiters, section 5), `DeliversAll` and `BurstEnds` are liveness
properties; they are not in the prover's reach, and TLC checks them on the instances of section 3. Every other property of a
passing run is a theorem, some of them under the hypotheses on the program that are named above.

## 5. What the checks found

Four statements of the manual or of comments do not hold of the code and have a run:

1. `terminate (Kernel)` loops forever when two processes wait for Kernel DEATH
   (process.cc:593-609; `events_holders`).
2. RECEIVE on a bound mailbox wraps the ring one slot early (main.cc:1202; `bound_receive`).
3. A bursty pattern that is suspended in the middle of a burst and then resumed generates nothing any
   more (client.cc:177; `client_burst`).
4. A process that triggers its own pending request and then waits again compares with a stale `zz_c_wait_tmin`
   (process.cc:290, 387-402; `own_request`): its event shows the later request, and the earlier one does not restart it
   ("the occurrence of the earliest of those events will resuscitate the process", total.tex:5132). Two consequences need more
   calls and have no run of their own: a Timer request that ties with the stale copy takes over the event without
   its time (timer.cc:181), so that the process is restarted by the Timer before its time; and the request left behind comes
   back with a time that has passed when the event is returned to the queue (main.cc:1151-1154), whereupon
   main.cc:1221 turns the clock back.

With ZZ_DET (`Det = TRUE`) the sweep of `terminate (Kernel)` does not keep what its comment says ("Remove all
events and requests besides the processes waiting for system termination", process.cc:565): TLC violates
`SweepLeavesOnlyHolders`. A holder at the head of the queue is due now, so `new_top_request` enqueues it behind the
other events of this time (inlines.h:160-176), and the loop goes on with what follows it there (process.cc:594-610); the
events it has jumped over are kept, and their processes are restarted after the end. No run is devoted to it; the
proof is where it showed.

The following were met while modelling; the runs rule the calls that lead to them out, or the model
records them:

- As in item 4, a process that starts an activity after it has waited for an event of that port leaves `zz_c_wait_tmin`
  stale.
- RECEIVE empties a mailbox without telling those who wait for EMPTY (main.cc:1197-1212).
- A process may be restarted with a stale `TheMailbox` after the mailbox was deleted
  (mailbox.cc:65-84).
- Whoever waits for more bytes than a closed connection has left is never told
  (connect.h:624).
- `Client->resume` returns at once unless *all* patterns are suspended (client.cc:610); the manual
  (total.tex:7560-7570) says that it resumes those that are.
- A pattern that is suspended and resumed before `ClientService` reaches its state `Start` gets a
  second chain of events (client.cc:133).
- The first `Traffic->wait (SUSPEND)` that is satisfied at once leaves `Info02` NULL (client.cc:790).
- The assertion in `Message::getPacket` is inverted (client.cc:2999).
- `Client->isPacket (tf)` sets `TheMessage` to the head of a queue instead of the message that fits
  (client.cc:2757, total.tex:8264).
- `lastBOT` and `lastEOT` look into the archive only if no activity that is alive fits (link.cc:4111, 4168), so
  that a later packet in the archive is overlooked; `lastBOJ` (link.cc:4257) does not merge jams that overlap; `lastEOJ`
  (link.cc:4290) says "heard now" at the time at which a jam ends, `lastEOA` does not.
- While a port transmits, its COLLISION is the activity of others (`ZZ_MY_COLLISION`); its own jam is
  ignored, and the request stays of that kind when another process ends the activity.
- ANYEVENT with ABTPACKET comes with the packet when the request was made after `abort`, and without it
  when it was made before (link.cc:2475, 3334).
- A process of System, the root process among them, that returns without a wait request is not terminated (main.cc:1644): it lives
  on without an event, until another process terminates it.
- The comment at ARQ/protocol.cc:49 calls the first `OldAck` an invalid number; it is the last of the valid ones.

`signalP ()` without an argument fails whenever it is accepted. `global.h:6127` and the manual (total.tex:5681) declare
`int signalP (void *s = NULL)`, but main.cc:1099 asserts that what is delivered is not NULL ("Internal error -- priority
signal lost"). The run `death` has such calls (`None` is in `Specs`), and so reaches `PriorityLost`, which records the failure in
`ended`; it reaches it as well when the sender erases the signal, and when the process that holds it dies. `PriorityGoesNext` says
that no other way leads there: it is about signals with an argument, and names the three ways in which one may be lost. The disagreement
has no run of its own.

The model also reaches states that the manual leaves open, recorded in `ended`: the
priority event of a process that is terminated before its delivery
(`PriorityGone`), a process that waits for SIGNAL and CLEAR of one repository and is
restarted by CLEAR while its signal is taken (`Deliver`), and the main loop's use of
a mailbox that was deleted with RECEIVE due (`ReceiveGone`).

## 6. Not modelled

Formatting, exposure and display routines; MASTER and server sockets, devices and
journals; the ZZ_TAG build; of processes, `Station::terminate` of System, which would destroy the Kernel too (ai.cc:114); `putP` of a barrier (not stored, and not different in its
delivery); in `client.cc` the choice of stations by weights, `receive` and its statistics, `setQSLimit` at
run time and `Message::getPacket`; in `link.cc` propagating collisions (CLink), the interpolators of
PLink, damaged packets, `anotherPacket`, `setAevMode` (`AevMode` is YES, the default, so that ANYEVENT is answered by
what is in the link already, link.cc:2786) and the inquiries `lastBOT`, `lastEOT`, `lastBOJ`, `lastEOJ`, `lastCOL`;
the parts of the table in section 1 without a module. Reasons and sources
are in `PROJECT.json`, `components`. The model of a process chooses its calls freely
among those its role allows; of the protocols written by users only ARQ is modelled.

## 7. Plan

Done: `SideEventQueue`, `SideProcess`, `SideMailbox`, `SideBoundMailbox`, `SideClient` and `SideARQ` with
`SideDelivery` and `SideLink`, each with its proofs; the abstract `SideByteStream`.

Next, in this order:

1. An abstract FIFO for `SideMailbox`.
2. `SideTimer` (`setDelay`, `getDelay`), `SideObserver` (inspects, timeouts).
3. The other types of links (PLink, CLink), then `SideRadio`.
4. BIG arithmetic against a reference definition; journals; the display monitor.
