------------------------------ MODULE SideClient ------------------------------
(***************************************************************************)
(* The Client of SMURPH (client.cc): traffic patterns generate messages, one    *)
(* at a time or in bursts; each station queues them by pattern; processes take   *)
(* packets out of the queues, wait for messages to arrive, and suspend and      *)
(* resume the patterns.                                                       *)
(*                                                                         *)
(* Intervals are abstract: a pending event of a pattern may occur at any time.   *)
(* `Time' matters only as the QTime of a message.  A process either runs (any    *)
(* number of calls, between which Timer events may let others run) or sleeps on   *)
(* a set of Client and Traffic requests; the order of due events is any, save     *)
(* that the event of INTERCEPT comes first (zz_pe).  All patterns are SCL_on and  *)
(* SPF_on, and the program is built with queue limits (ZZ_QSL).                  *)
(***************************************************************************)
EXTENDS Integers, Sequences, FiniteSets, SequencesExt

CONSTANTS
  NTraffics,  \* traffic patterns 0 .. NTraffics - 1
  Bursty,     \* those with a distribution of burst interarrival times
  Stations, Procs,
  At,         \* At[p] is the station of process p
  Awaits,     \* Awaits[p] is the set of requests that p makes
  Calls,      \* Calls[p] is the set of operations that p performs
  None,
  QSLimit,    \* limits: of all messages, of each pattern, of each station
  TLimit, SLimit,
  Lengths, MaxL,  \* lengths of messages; the maximum length of a packet
  Usage,      \* what processes do: "suspendInBurst", "resumeEarly"
  MaxBurst,   \* bound: messages of a burst, and remaining ones
  Horizon     \* bound: the last time

Traffics == 0 .. NTraffics - 1
Client == -1

Requests == [ai : Traffics \cup {Client}, ev : {"ARRIVAL", "INTERCEPT", "SUSPEND", "RESUME"}]

ASSUME ClientAssumption ==
  /\ NTraffics \in Nat \ {0} /\ Bursty \subseteq Traffics
  /\ QSLimit \in Nat \ {0} /\ TLimit \in [Traffics -> Nat] /\ SLimit \in [Stations -> Nat]
  /\ MaxL \in Nat \ {0} /\ Lengths \subseteq Nat
  /\ MaxBurst \in Nat /\ Horizon \in Nat
  /\ IsFiniteSet(Procs) /\ At \in [Procs -> Stations]
  /\ Awaits \in [Procs -> SUBSET Requests]
  /\ None \notin Nat \cup Procs \cup [TP : Traffics, Sender : Stations, last : BOOLEAN]

VARIABLES
  Time,
  started,           \* the state Start of ClientService is over
  FlgSUS, RemBSI,    \* of each pattern
  arrivals, bursts,  \* pending events ARR_MSG and ARR_BST of each pattern
  message,           \* the messages, by their addresses
  MQ, MQTail,        \* MQ[s][t]: the list from MQHead, and the tail pointer
  buffer,            \* the packet buffer of each process
  NQMessages, zz_NQMessages, QSize,
  waits, due,        \* requests of each process, and those triggered
  zz_pe              \* the process with the priority event

pilots   == <<started, FlgSUS, RemBSI, arrivals, bursts>>
queues   == <<message, MQ, MQTail>>
counters == <<NQMessages, zz_NQMessages, QSize>>
waiting  == <<waits, due, zz_pe>>
vars     == <<Time, pilots, queues, buffer, counters, waiting>>

Addresses == 1 .. QSLimit

deleted == [Length |-> 0, QTime |-> 0]

queued(s, t) == ToSet(MQ[s][t])
allocated == UNION {queued(s, t) : s \in Stations, t \in Traffics}
asleep(p) == waits[p] # {}

Init ==
  /\ Time = 0 /\ started = FALSE
  /\ FlgSUS = [t \in Traffics |-> FALSE] /\ RemBSI = [t \in Traffics |-> 0]
  /\ arrivals = [t \in Traffics |-> 0] /\ bursts = [t \in Traffics |-> 0]
  /\ message = [a \in Addresses |-> deleted]
  /\ MQ = [s \in Stations |-> [t \in Traffics |-> <<>>]]
  /\ MQTail = [s \in Stations |-> [t \in Traffics |-> None]]
  /\ buffer = [p \in Procs |-> None]
  /\ NQMessages = [t \in Traffics |-> 0] /\ zz_NQMessages = 0
  /\ QSize = [s \in Stations |-> 0]
  /\ waits = [p \in Procs |-> {}] /\ due = [p \in Procs |-> {}] /\ zz_pe = None

\* Nothing comes before the priority event.
Idle == zz_pe = None

-----------------------------------------------------------------------------
(* Waiting                                                                  *)

\* The request has occurred when it is made.
immediate(r) ==
  /\ r.ai # Client
  /\ \/ r.ev = "SUSPEND" /\ FlgSUS[r.ai]
     \/ r.ev = "RESUME" /\ ~FlgSUS[r.ai]

isSuspended == \A t \in Traffics : FlgSUS[t]

immediateClient(r) ==
  /\ r.ai = Client
  /\ \/ r.ev = "SUSPEND" /\ isSuspended
     \/ r.ev = "RESUME" /\ ~isSuspended

\* Fault: only requests addressed to the Client are triggered.
matches_Client(r, evs, t) == r.ev \in evs /\ r.ai = Client

\* The request is for one of evs and addressed to t.
matches(r, evs, t) == r.ev \in evs /\ r.ai = t

\* Requests of the processes in P addressed to one of ais are triggered.
trigger(P, evs, ais) ==
  due' = [p \in Procs |->
           due[p] \cup {r \in waits[p] : p \in P /\ \E t \in ais : matches(r, evs, t)}]

\* A process asks for events and goes to sleep.  For a message it asks when it has
\* found none, and for INTERCEPT when no other process of the station does.
Wait(p) ==
  /\ Idle /\ ~asleep(p)
  /\ \E R \in SUBSET Awaits[p] :
       /\ R # {}
       /\ \A r \in R :
            r.ev = "ARRIVAL" =>
              \A t \in Traffics : r.ai \in {Client, t} => MQ[At[p]][t] = <<>>
       /\ waits' = [waits EXCEPT ![p] = R]
       /\ due' = [due EXCEPT ![p] = {r \in R : immediate(r) \/ immediateClient(r)}]
  /\ UNCHANGED <<Time, pilots, queues, buffer, counters, zz_pe>>

\* The event of a process shows one of its due requests; all are released.
Restart(p) ==
  /\ Idle /\ due[p] # {}
  /\ waits' = [waits EXCEPT ![p] = {}] /\ due' = [due EXCEPT ![p] = {}]
  /\ UNCHANGED <<Time, pilots, queues, buffer, counters, zz_pe>>

RestartPriority ==
  /\ zz_pe # None
  /\ waits' = [waits EXCEPT ![zz_pe] = {}] /\ due' = [due EXCEPT ![zz_pe] = {}]
  /\ zz_pe' = None
  /\ UNCHANGED <<Time, pilots, queues, buffer, counters>>

-----------------------------------------------------------------------------
(* Generation of messages                                                    *)

\* The first event of a pattern, or the one after resume.
pilot(t) ==
  /\ arrivals' = IF t \in Bursty THEN arrivals ELSE [arrivals EXCEPT ![t] = @ + 1]
  /\ bursts' = IF t \in Bursty THEN [bursts EXCEPT ![t] = @ + 1] ELSE bursts

Start ==
  /\ Idle /\ ~started
  /\ started' = TRUE
  /\ arrivals' = [t \in Traffics |->
                   IF ~FlgSUS[t] /\ t \notin Bursty THEN arrivals[t] + 1 ELSE arrivals[t]]
  /\ bursts' = [t \in Traffics |->
                 IF ~FlgSUS[t] /\ t \in Bursty THEN bursts[t] + 1 ELSE bursts[t]]
  /\ UNCHANGED <<Time, FlgSUS, RemBSI, queues, buffer, counters, waiting>>

\* A limit is reached: the message is ignored.
refused(s, t) ==
  zz_NQMessages >= QSLimit \/ NQMessages[t] >= TLimit[t] \/ QSize[s] >= SLimit[s]

\* The list of messages once a is linked behind the one MQTail points to.
linked(s, t, a) ==
  IF MQ[s][t] = <<>> THEN <<a>>
  ELSE LET tail == CHOOSE i \in DOMAIN MQ[s][t] : MQ[s][t][i] = MQTail[s][t]
       IN  Append(SubSeq(MQ[s][t], 1, tail), a)

\* genMSG, with spfmMQU.
genMSG(s, t, length) ==
  IF refused(s, t) THEN UNCHANGED <<queues, counters, waiting>>
  ELSE LET a == CHOOSE b \in Addresses : b \notin allocated
           here == {p \in Procs : At[p] = s}
           first == {p \in here : \E r \in waits[p] :
                       matches(r, {"INTERCEPT"}, Client) \/ matches(r, {"INTERCEPT"}, t)}
       IN /\ QSize' = [QSize EXCEPT ![s] = @ + 1]
          /\ message' = [message EXCEPT ![a] = [Length |-> length, QTime |-> Time]]
          /\ MQ' = [MQ EXCEPT ![s][t] = linked(s, t, a)]
          /\ MQTail' = [MQTail EXCEPT ![s][t] = a]
          /\ trigger(here, {"ARRIVAL", "INTERCEPT"}, {Client, t})
          /\ IF first = {} THEN UNCHANGED zz_pe ELSE zz_pe' \in first
          /\ NQMessages' = [NQMessages EXCEPT ![t] = @ + 1]
          /\ zz_NQMessages' = zz_NQMessages + 1
          /\ UNCHANGED waits

\* Fault: a burst ends with its first message.
continues_Single(t) == t \notin Bursty

\* Fault: the last message of a burst is followed by another one.
continues_AtZero(t) == t \notin Bursty \/ RemBSI[t] - 1 >= 0

\* Another message follows the one just generated.
continues(t) == t \notin Bursty \/ RemBSI[t] - 1 > 0

GenMessage(t) ==
  /\ Idle /\ arrivals[t] > 0
  /\ \E s \in Stations, length \in Lengths : genMSG(s, t, length)
  /\ RemBSI' = IF t \in Bursty THEN [RemBSI EXCEPT ![t] = @ - 1] ELSE RemBSI
  /\ arrivals' = [arrivals EXCEPT ![t] = IF continues(t) THEN @ ELSE @ - 1]
  /\ UNCHANGED <<Time, started, FlgSUS, bursts, buffer>>

\* Fault: the messages of a burst are started whatever remains of the last one.
begins_Always(t, ml) == ml > 0

\* A burst of ml messages starts the generation of messages.
begins(t, ml) == RemBSI[t] = 0 /\ ml > 0

GenBurst(t) ==
  /\ Idle /\ bursts[t] > 0
  /\ \E ml \in 0 .. MaxBurst :
       /\ RemBSI[t] + ml <= MaxBurst
       /\ arrivals' = [arrivals EXCEPT ![t] = IF begins(t, ml) THEN @ + 1 ELSE @]
       /\ RemBSI' = [RemBSI EXCEPT ![t] = @ + ml]
  /\ UNCHANGED <<Time, started, FlgSUS, bursts, queues, buffer, counters, waiting>>

-----------------------------------------------------------------------------
(* Suspending and resuming                                                   *)

\* Patterns are suspended in the middle of a burst, or resumed before the
\* Client has started, only if the run says so.
maySuspend(T) == "suspendInBurst" \in Usage \/ \A t \in T : FlgSUS[t] \/ RemBSI[t] = 0
mayResume(T)  == "resumeEarly" \in Usage \/ started

\* Fault: the event that generates bursts is forgotten.
cancelled_Messages(T) == bursts

\* The events ARR_BST that are left when the patterns of T are suspended.
cancelled(T) == [t \in Traffics |-> IF t \in T THEN 0 ELSE bursts[t]]

Suspend(p, t) ==
  /\ Idle /\ ~asleep(p) /\ "suspend" \in Calls[p]
  /\ ~FlgSUS[t] /\ maySuspend({t})
  /\ FlgSUS' = [FlgSUS EXCEPT ![t] = TRUE]
  /\ arrivals' = [arrivals EXCEPT ![t] = 0]
  /\ bursts' = cancelled({t})
  /\ trigger(Procs, {"SUSPEND"}, {t})
  /\ UNCHANGED <<Time, started, RemBSI, queues, buffer, counters, waits, zz_pe>>

Resume(p, t) ==
  /\ Idle /\ ~asleep(p) /\ "suspend" \in Calls[p]
  /\ FlgSUS[t] /\ mayResume({t})
  /\ FlgSUS' = [FlgSUS EXCEPT ![t] = FALSE]
  /\ pilot(t)
  /\ trigger(Procs, {"RESUME"}, {t})
  /\ UNCHANGED <<Time, started, RemBSI, queues, buffer, counters, waits, zz_pe>>

ClientSuspend(p) ==
  /\ Idle /\ ~asleep(p) /\ "suspendAll" \in Calls[p]
  /\ ~isSuspended /\ maySuspend(Traffics)
  /\ FlgSUS' = [t \in Traffics |-> TRUE]
  /\ arrivals' = [t \in Traffics |-> IF FlgSUS[t] THEN arrivals[t] ELSE 0]
  /\ bursts' = cancelled({t \in Traffics : ~FlgSUS[t]})
  /\ trigger(Procs, {"SUSPEND"}, {t \in Traffics : ~FlgSUS[t]} \cup {Client})
  /\ UNCHANGED <<Time, started, RemBSI, queues, buffer, counters, waits, zz_pe>>

\* Client->resume () returns at once if isResumed (), that is, unless all patterns
\* are suspended.
ClientResume(p) ==
  /\ Idle /\ ~asleep(p) /\ "suspendAll" \in Calls[p]
  /\ mayResume(Traffics)
  /\ IF ~isSuspended THEN UNCHANGED <<FlgSUS, arrivals, bursts, due>>
     ELSE /\ FlgSUS' = [t \in Traffics |-> FALSE]
          /\ arrivals' = [t \in Traffics |->
                           IF t \in Bursty THEN arrivals[t] ELSE arrivals[t] + 1]
          /\ bursts' = [t \in Traffics |->
                         IF t \in Bursty THEN bursts[t] + 1 ELSE bursts[t]]
          /\ trigger(Procs, {"RESUME"}, Traffics \cup {Client})
  /\ UNCHANGED <<Time, started, RemBSI, queues, buffer, counters, waits, zz_pe>>

-----------------------------------------------------------------------------
(* Packets                                                                  *)

\* Fault: the tail is cleared whichever message it was.
tailAfter_None(s, t, i) == IF MQTail[s][t] = MQ[s][t][i] THEN None ELSE MQTail[s][t]

\* The tail pointer after the list loses its i-th message.
tailAfter(s, t, i) ==
  IF MQTail[s][t] # MQ[s][t][i] THEN MQTail[s][t]
  ELSE IF Len(MQ[s][t]) = 1 THEN None
  ELSE MQ[s][t][i - 1]

\* The packet takes the rest of the message.
isLast(a) == message[a].Length <= MaxL

\* Common part of the getPacket methods: a packet of the i-th message of pattern t.
getPacket(p, t, i) ==
  LET s == At[p]
      a == MQ[s][t][i]
  IN  /\ buffer[p] = None
      /\ buffer' = [buffer EXCEPT ![p] = [TP |-> t, Sender |-> s, last |-> isLast(a)]]
      /\ IF isLast(a)
         THEN /\ MQ' = [MQ EXCEPT ![s][t] = RemoveAt(@, i)]
              /\ MQTail' = [MQTail EXCEPT ![s][t] = tailAfter(s, t, i)]
              /\ message' = [message EXCEPT ![a] = deleted]
         ELSE /\ message' = [message EXCEPT ![a].Length = @ - MaxL]
              /\ UNCHANGED <<MQ, MQTail>>
      /\ UNCHANGED <<Time, pilots, counters, waiting>>

\* The order of a circular search that starts at pattern i.
circular(i) == [k \in 1 .. NTraffics |-> (i + k - 1) % NTraffics]

\* The places of the messages that satisfy tf; the first one counts.
fits(s, t, tf) == {i \in DOMAIN MQ[s][t] : MQ[s][t][i] \in tf}
isFirst(i, s, t, tf) == i \in fits(s, t, tf) /\ \A j \in fits(s, t, tf) : i <= j
QTime(s, t, tf) == message[MQ[s][t][CHOOSE i \in fits(s, t, tf) : isFirst(i, s, t, tf)]].QTime

\* Fault: the search takes the last pattern that has a message.
better_Last(s, tf, best, t) == IF fits(s, t, tf) = {} THEN best ELSE t

\* What the search of the queues has found when it has come to pattern t.
better(s, tf, best, t) ==
  IF fits(s, t, tf) # {} /\ (best = None \/ QTime(s, t, tf) < QTime(s, best, tf)) THEN t ELSE best

\* The variant with a predicate lets the last one of several equals win.
betterFit(s, tf, best, t) ==
  IF fits(s, t, tf) # {} /\ (best = None \/ QTime(s, t, tf) <= QTime(s, best, tf)) THEN t ELSE best

\* The pattern of the message found by a search of the queues from pattern i on.
earliest(s, tf, i) ==
  LET best[k \in 0 .. NTraffics] ==
        IF k = 0 THEN None ELSE better(s, tf, best[k - 1], circular(i)[k])
  IN  best[NTraffics]

earliestFit(s, tf, i) ==
  LET best[k \in 0 .. NTraffics] ==
        IF k = 0 THEN None ELSE betterFit(s, tf, best[k - 1], circular(i)[k])
  IN  best[NTraffics]

\* A packet of pattern t, from the first message that satisfies a predicate, if any.
packetOf(p, t, tf) ==
  \E i \in DOMAIN MQ[At[p]][t] : isFirst(i, At[p], t, tf) /\ getPacket(p, t, i)

TrafficGetPacket(p, t) ==
  Idle /\ ~asleep(p) /\ "get" \in Calls[p] /\ packetOf(p, t, Addresses)

TrafficGetPacketIf(p, t, tf) ==
  Idle /\ ~asleep(p) /\ "getIf" \in Calls[p] /\ packetOf(p, t, tf)

\* A packet of any pattern; i is what TOSS returns.
ClientGetPacket(p, i) ==
  /\ Idle /\ ~asleep(p) /\ "get" \in Calls[p]
  /\ \E t \in Traffics : t = earliest(At[p], Addresses, i) /\ packetOf(p, t, Addresses)

ClientGetPacketIf(p, tf, i) ==
  /\ Idle /\ ~asleep(p) /\ "getIf" \in Calls[p]
  /\ \E t \in Traffics : t = earliestFit(At[p], tf, i) /\ packetOf(p, t, tf)

\* Fault: every packet counts as a message.
counted_Any(b) == TRUE

\* The packet is the last one of its message.
counted(b) == b.last

\* release, with spfmMTR.
Release(p) ==
  /\ Idle /\ ~asleep(p) /\ buffer[p] # None
  /\ buffer' = [buffer EXCEPT ![p] = None]
  /\ IF counted(buffer[p])
     THEN /\ NQMessages' = [NQMessages EXCEPT ![buffer[p].TP] = @ - 1]
          /\ zz_NQMessages' = zz_NQMessages - 1
          /\ QSize' = [QSize EXCEPT ![buffer[p].Sender] = @ - 1]
     ELSE UNCHANGED counters
  /\ UNCHANGED <<Time, pilots, queues, waiting>>

Tick ==
  /\ Idle /\ Time < Horizon
  /\ \A p \in Procs : due[p] = {}
  /\ Time' = Time + 1
  /\ UNCHANGED <<pilots, queues, buffer, counters, waiting>>

-----------------------------------------------------------------------------
Next ==
  \/ Start \/ RestartPriority \/ Tick
  \/ \E t \in Traffics : GenMessage(t) \/ GenBurst(t)
  \/ \E p \in Procs :
       \/ Wait(p) \/ Restart(p) \/ Release(p) \/ ClientSuspend(p) \/ ClientResume(p)
       \/ \E t \in Traffics :
            \/ Suspend(p, t) \/ Resume(p, t) \/ TrafficGetPacket(p, t)
            \/ \E tf \in SUBSET Addresses : TrafficGetPacketIf(p, t, tf)
       \/ \E i \in Traffics :
            \/ ClientGetPacket(p, i)
            \/ \E tf \in SUBSET Addresses : ClientGetPacketIf(p, tf, i)

Spec == Init /\ [][Next]_vars

\* Time does not stand still: an event that is due at some time is delivered, however
\* many other events, and the priority events they cause, come before it.
FairSpec ==
  /\ Spec /\ WF_vars(RestartPriority)
  /\ \A t \in Bursty : SF_vars(GenMessage(t))

-----------------------------------------------------------------------------
TypeOK ==
  /\ Time \in 0 .. Horizon /\ started \in BOOLEAN
  /\ FlgSUS \in [Traffics -> BOOLEAN] /\ RemBSI \in [Traffics -> 0 .. MaxBurst]
  /\ arrivals \in [Traffics -> Nat] /\ bursts \in [Traffics -> Nat]
  /\ message \in [Addresses -> [Length : Nat, QTime : 0 .. Horizon]]
  /\ MQ \in [Stations -> [Traffics -> Seq(Addresses)]]
  /\ MQTail \in [Stations -> [Traffics -> Addresses \cup {None}]]
  /\ buffer \in [Procs -> {None} \cup [TP : Traffics, Sender : Stations, last : BOOLEAN]]
  /\ NQMessages \in [Traffics -> Nat] /\ zz_NQMessages \in Nat
  /\ QSize \in [Stations -> Nat]
  /\ waits \in [Procs -> SUBSET Requests] /\ due \in [Procs -> SUBSET Requests]
  /\ \A p \in Procs : waits[p] \subseteq Awaits[p] /\ due[p] \subseteq waits[p]
  /\ zz_pe \in Procs \cup {None}

\* client.cc:475, 519: through suspensions and resumptions of patterns, one by one
\* and all together, before and after the Client has started, each active pattern
\* has one event that generates messages or bursts, and a suspended one has none.
OnePilot ==
  \A t \in Traffics :
    LET pending == IF t \in Bursty THEN bursts[t] ELSE arrivals[t]
    IN pending = IF started /\ ~FlgSUS[t] THEN 1 ELSE 0

\* client.cc:177: an active pattern in the middle of a burst has an event pending
\* that generates the next message of the burst.
BurstGoesOn ==
  \A t \in Bursty : started /\ ~FlgSUS[t] /\ RemBSI[t] > 0 => arrivals[t] > 0

\* client.cc:164, 177: through overlapping bursts, a bursty pattern has one event that
\* generates a message while messages of the bursts remain, and then none.
BurstExact ==
  \A t \in Bursty : arrivals[t] = IF started /\ ~FlgSUS[t] /\ RemBSI[t] > 0 THEN 1 ELSE 0

\* client.cc:2117, 2314: each counter is the number of messages that are queued or of
\* which the last packet has not been released, and is within its limit.
CountersAgree ==
  LET queuedAt(S, T) == Cardinality(UNION {queued(s, t) : s \in S, t \in T})
      last(S, T) == Cardinality({p \in Procs : buffer[p] # None /\ buffer[p].last
                      /\ buffer[p].Sender \in S /\ buffer[p].TP \in T})
      number(S, T) == queuedAt(S, T) + last(S, T)
  IN /\ zz_NQMessages = number(Stations, Traffics) /\ zz_NQMessages <= QSLimit
     /\ \A t \in Traffics : NQMessages[t] = number(Stations, {t})
                              /\ NQMessages[t] <= TLimit[t]
     /\ \A s \in Stations : QSize[s] = number({s}, Traffics) /\ QSize[s] <= SLimit[s]

\* client.cc:2154, 2663: whichever message a packet is taken from, the tail pointer is
\* the last message of the list, which is in order of arrival, so that genMSG finds
\* no corrupted queue and loses no message.
QueuesLinked ==
  \A s \in Stations, t \in Traffics :
    /\ MQTail[s][t] = IF MQ[s][t] = <<>> THEN None ELSE Last(MQ[s][t])
    /\ \A i, j \in DOMAIN MQ[s][t] : i < j =>
         MQ[s][t][i] # MQ[s][t][j] /\ message[MQ[s][t][i]].QTime <= message[MQ[s][t][j]].QTime

\* client.cc:2811, 2913: a packet acquired from the Client belongs to a message than
\* which no other one that fits is older, wherever the circular search starts.
EarliestFirst ==
  [][ \A p \in Procs : buffer[p] = None /\ buffer'[p] # None =>
        \A i \in Traffics, tf \in SUBSET Addresses :
          ClientGetPacketIf(p, tf, i) \/ (tf = Addresses /\ ClientGetPacket(p, i))
          => \A t \in Traffics : fits(At[p], t, tf) # {} =>
               QTime(At[p], buffer'[p].TP, tf) <= QTime(At[p], t, tf) ]_vars

\* client.cc:2161: no process sleeps for a message that is queued at its station, or for a
\* status that the pattern has, whatever else it waits for and however the
\* status is changed.
NoLostWakeup ==
  \A p \in Procs : \A r \in waits[p] \ due[p] :
    /\ r.ev = "ARRIVAL" =>
         \A t \in Traffics : r.ai \in {Client, t} => MQ[At[p]][t] = <<>>
    /\ r.ai # Client => /\ r.ev = "SUSPEND" => ~FlgSUS[r.ai]
                        /\ r.ev = "RESUME" => FlgSUS[r.ai]

\* client.cc:164: a burst that no other burst follows comes to its end, unless its
\* pattern is suspended.
BurstEnds ==
  \A t \in Bursty : <>[][~GenBurst(t)]_vars => []<>(RemBSI[t] = 0 \/ FlgSUS[t])
=============================================================================
