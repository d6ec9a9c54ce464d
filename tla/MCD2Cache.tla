----------------------------- MODULE MCD2Cache -----------------------------
(* Finite instances of D2Cache for TLC. *)
EXTENDS D2Cache
CONSTANTS c1, c2
MCLastLine == {<<1, 1>>}
=============================================================================
