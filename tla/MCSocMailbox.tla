---------------------------- MODULE MCSocMailbox ----------------------------
(* Finite instances of SocMailbox for TLC. *)
EXTENDS SocMailbox

\* Both kinds of direct operation, and those that read the FIFO only.
BothOps == {"flush", "dbg"}
DbgOnly == {"dbg"}
=============================================================================
