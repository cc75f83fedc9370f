------------------------------- MODULE MCMailbox -------------------------------
(* Small instances of SideMailbox for TLC; the processes are interchangeable. *)
EXTENDS SideMailbox, TLC

CONSTANTS procA, procB

MCEventsOfAll == {RECEIVE, NONEMPTY, NEWITEM, GET, 1}

MCLimits == {1, 0, -1}

MCSymmetry == Permutations(Procs)
=============================================================================
