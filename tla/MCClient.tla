------------------------------- MODULE MCClient -------------------------------
(* Small instances of SideClient for TLC: pattern 0 is bursty, pattern 1 is not. *)
EXTENDS SideClient

CONSTANTS procA, procB, s1, s2, CallsOfA, CallsOfB, RequestsOfA, RequestsOfB

\* Requests, as numbers: 1, 2 ARRIVAL of all and of pattern 0; 3 INTERCEPT of all;
\* 4, 5 SUSPEND and RESUME of pattern 0; 6 RESUME of the Client.
Request(n) ==
  CASE n = 1 -> [ai |-> Client, ev |-> "ARRIVAL"]
    [] n = 2 -> [ai |-> 0, ev |-> "ARRIVAL"]
    [] n = 3 -> [ai |-> Client, ev |-> "INTERCEPT"]
    [] n = 4 -> [ai |-> 0, ev |-> "SUSPEND"]
    [] n = 5 -> [ai |-> 0, ev |-> "RESUME"]
    [] n = 6 -> [ai |-> Client, ev |-> "RESUME"]

MCAt == [p \in Procs |-> IF p = procA THEN s1 ELSE s2]

MCAwaits == [p \in Procs |->
  {Request(n) : n \in IF p = procA THEN RequestsOfA ELSE RequestsOfB}]

MCCalls == [p \in Procs |-> IF p = procA THEN CallsOfA ELSE CallsOfB]

MCTLimit == [t \in Traffics |-> IF t = 0 THEN 2 ELSE 1]

MCSLimit == [s \in Stations |-> IF s = s1 THEN 2 ELSE 1]
=============================================================================
