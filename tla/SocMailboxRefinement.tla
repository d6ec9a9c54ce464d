-------------------------- MODULE SocMailboxRefinement --------------------------
(***************************************************************************)
(* The mailbox of SocMailbox implements LockstepMemory, in direct mode and *)
(* as long as no direct operation is posted between the two stores that    *)
(* end a scan.                                                             *)
(***************************************************************************)
EXTENDS SocMailbox

\* The profiling loops keep slot SC open until they end; the result of one
\* operation has been fetched when its call returns.
Fetched(s) == s \notin open \/ (s = SC /\ dsp \in {"start", "stop"})

Round    == IF soc = "scan" THEN "serve" ELSE "collect"
Access(s) ==
  IF Fetched(s) THEN "none" ELSE IF served[s] = 0 THEN "asked" ELSE "done"
Accesses == [s \in Slot |-> Access(s)]

Mem == INSTANCE LockstepMemory WITH
         Client <- Slot, Lossy <- {SC}, phase <- Round, req <- Accesses

QuietSpec     == Init /\ [][Next /\ tainted' = 0]_vars
QuietFairSpec == QuietSpec /\ WF_vars(Iss) /\ WF_vars(Soc) /\ WF_vars(Pthread)

\* Every access of a round is executed once, while the round is closed, and
\* its thread goes on only when the round is open again; only the request of
\* slot SC can be answered without being executed.
ServesRounds == Mem!MemSpec

\* Every round that holds an access is closed, executed, opened and fetched.
ServesRoundsFairly == Mem!MemFairSpec
=============================================================================
