----------------------------- MODULE MCEventQueue -----------------------------
(* Small instances of SideEventQueue for TLC. *)
EXTENDS SideEventQueue
=============================================================================
