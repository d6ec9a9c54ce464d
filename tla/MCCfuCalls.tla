----------------------------- MODULE MCCfuCalls -----------------------------
(* Finite instances of CfuCalls for TLC. *)
EXTENDS CfuCalls
CONSTANTS c1, c2, copy, other, data
MCData == {data, Zero}
MCRegistered == {<<0, copy>>, <<1, copy>>}
=============================================================================
