---------------------------- MODULE SideByteStream ----------------------------
(***************************************************************************)
(* What one direction of a connection promises: a queue of bytes between a     *)
(* writer and a reader.  Bytes are numbered as they are written; whatever the    *)
(* parts in which they are written and taken, and whatever becomes of the         *)
(* buffer behind the queue, the reader takes them from its head.  Bytes that are   *)
(* not taken are given up only with the connection, and then only if the other      *)
(* end has hung up or the program says so.                                     *)
(***************************************************************************)
EXTENDS Naturals, Sequences

VARIABLES
  open,     \* there is a connection
  held,     \* bytes written and not taken yet, oldest first
  written,  \* bytes written in this connection
  taken,    \* those that left the queue
  hungup,   \* the other end has closed the connection
  dropped   \* the last connection was given up by force

vars == <<open, held, written, taken, hungup, dropped>>

Fresh == held = <<>> /\ written = 0 /\ taken = 0 /\ hungup = FALSE

Init == open = FALSE /\ dropped = FALSE /\ Fresh

Open ==
  /\ ~open
  /\ open' = TRUE /\ dropped' = FALSE /\ Fresh'

\* The next bytes join the queue.
Write ==
  /\ open /\ written' > written
  /\ held' = held \o [i \in 1 .. written' - written |-> written + i - 1]
  /\ UNCHANGED <<open, taken, hungup, dropped>>

\* The oldest bytes leave it.
Take ==
  /\ open
  /\ \E n \in 1 .. Len(held) : held' = SubSeq(held, n + 1, Len(held)) /\ taken' = taken + n
  /\ UNCHANGED <<open, written, hungup, dropped>>

HangUp ==
  /\ open /\ hungup' = TRUE
  /\ UNCHANGED <<open, held, written, taken, dropped>>

End ==
  /\ open /\ dropped' \in BOOLEAN
  /\ held = <<>> \/ hungup \/ dropped'
  /\ open' = FALSE /\ Fresh'

Next == Open \/ Write \/ Take \/ HangUp \/ End

Spec == Init /\ [][Next]_vars
=============================================================================
