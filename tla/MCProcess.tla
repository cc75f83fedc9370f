------------------------------- MODULE MCProcess -------------------------------
(* Small instances of SideProcess for TLC: Root and two processes, of the     *)
(* system station or of another one, each making the calls its role allows.   *)
EXTENDS SideProcess

CONSTANTS root, procA, procB, spec1, OnSystem, OpsOfRoot, OpsOfA, OpsOfB

MCOwner == [x \in Procs |-> IF x \in OnSystem THEN "s0" ELSE "s1"]

MCOps == [x \in Procs |-> IF x = Root THEN OpsOfRoot ELSE IF x = procA THEN OpsOfA ELSE OpsOfB]
=============================================================================
