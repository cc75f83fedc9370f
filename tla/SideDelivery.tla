----------------------------- MODULE SideDelivery -----------------------------
(***************************************************************************)
(* What a data link protocol promises to the Client: the packets taken by    *)
(* the sender with getPacket, numbered in the order in which they are taken,  *)
(* are received in that order, none twice and none left out, and the sender    *)
(* releases a packet only when it has been received.                          *)
(***************************************************************************)
EXTENDS Naturals, Sequences

VARIABLES
  accepted,  \* number of packets taken by the sender
  received,  \* packets handed to receive at the recipient
  released   \* packets released by the sender

vars == <<accepted, received, released>>

Init == accepted = 0 /\ received = <<>> /\ released = <<>>

Accept ==
  /\ accepted' = accepted + 1
  /\ UNCHANGED <<received, released>>

Receive ==
  /\ Len(received) < accepted
  /\ received' = Append(received, Len(received) + 1)
  /\ UNCHANGED <<accepted, released>>

Release ==
  /\ \E n \in Len(released) + 1 .. Len(received) : released' = SubSeq(received, 1, n)
  /\ UNCHANGED <<accepted, received>>

Next == Accept \/ Receive \/ Release

Spec == Init /\ [][Next]_vars

\* Every packet taken is received, and every one received is released.
FairSpec == Spec /\ WF_vars(Receive) /\ WF_vars(Release)
=============================================================================
