-------------------------------- MODULE MCC2CC --------------------------------
(* Finite instances of C2CC for TLC. *)
EXTENDS C2CC, TLC

\* Of the four cores of the simulator, three contend for core 0, and core 1 has a
\* second message: cores 1, 2 and 1 again may get in while core 3 waits.
Crowd   == (0 :> {}) @@ (1 :> {0}) @@ (2 :> {0}) @@ (3 :> {0})
Crowded == (0 :> 0) @@ (1 :> 2) @@ (2 :> 1) @@ (3 :> 1)

\* Cores 1 and 2 contend for core 0.
Contend == (0 :> {}) @@ (1 :> {0}) @@ (2 :> {0})
\* Core 1 sends to two receivers and core 2 to one of them.
Fan == (0 :> {}) @@ (1 :> {0, 2}) @@ (2 :> {0})
\* Both send two messages.
TwoEach == (0 :> 0) @@ (1 :> 2) @@ (2 :> 2)
=============================================================================
