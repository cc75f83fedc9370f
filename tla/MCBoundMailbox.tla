---------------------------- MODULE MCBoundMailbox ----------------------------
(* Small instances of SideBoundMailbox for TLC. *)
EXTENDS SideBoundMailbox

MCAwaits == {RECEIVE, SENTINEL, 2}

MCAwaitsReceive == {NEWITEM, RECEIVE}
=============================================================================
