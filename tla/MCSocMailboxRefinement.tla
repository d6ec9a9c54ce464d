------------------------ MODULE MCSocMailboxRefinement ------------------------
(* Finite instance of SocMailboxRefinement for TLC. *)
EXTENDS SocMailboxRefinement

BothOps == {"flush", "dbg"}
=============================================================================
