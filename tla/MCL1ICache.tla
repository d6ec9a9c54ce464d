------------------------------ MODULE MCL1ICache ------------------------------
(* Finite instances of L1ICache for TLC. *)
EXTENDS L1ICache

\* A program that runs through a whole cache and on into the next tag.
Wraps == {l \in Line : l.tag > 0 /\ After(l) \in Line}
\* One line in the last index of the cache and the line behind it.
Pair  == {[tag |-> 1, index |-> NI - 1], [tag |-> 2, index |-> 0]}
\* Every line but those of the last index.
Stays == {l \in Line : l.index # NI - 1}
=============================================================================
