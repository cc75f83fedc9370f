--------------------------------- MODULE MCARQ ---------------------------------
(* Small instances of SideARQ for TLC. *)
EXTENDS SideARQ
=============================================================================
