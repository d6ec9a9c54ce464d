---------------------------- MODULE MCGdbSession ----------------------------
(* Finite instances of GdbSession for TLC. *)
EXTENDS GdbSession
=============================================================================
