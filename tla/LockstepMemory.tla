---------------------------- MODULE LockstepMemory ----------------------------
(***************************************************************************)
(* What the memory system of the SoC promises the threads of one core: the *)
(* accesses of a core are collected, the round is closed, every access of  *)
(* the round is executed once, the round is opened again and the results   *)
(* are handed out.  The mailbox protocol of SocMailbox implements it.      *)
(***************************************************************************)
CONSTANTS
  Client,  \* those who access the memory
  Lossy    \* those of them whose access may be answered without being executed

VARIABLES
  phase,   \* "collect" or "serve"
  req      \* per client: "none", "asked", "done"

mvars == <<phase, req>>

MemInit == phase = "collect" /\ req = [c \in Client |-> "none"]

MemTypeOK ==
  /\ phase \in {"collect", "serve"}
  /\ req \in [Client -> {"none", "asked", "done"}]

Submit(c) ==
  /\ phase = "collect" /\ req[c] = "none"
  /\ req' = [req EXCEPT ![c] = "asked"]
  /\ UNCHANGED phase

\* A round is not closed over results that nobody has fetched.
Close ==
  /\ phase = "collect" /\ \A c \in Client : req[c] # "done"
  /\ phase' = "serve"
  /\ UNCHANGED req

Execute(c) ==
  /\ phase = "serve" /\ req[c] = "asked"
  /\ req' = [req EXCEPT ![c] = "done"]
  /\ UNCHANGED phase

Open ==
  /\ phase = "serve" /\ \A c \in Client \ Lossy : req[c] # "asked"
  /\ phase' = "collect"
  /\ UNCHANGED req

Return(c) ==
  /\ phase = "collect"
  /\ req[c] = "done" \/ (c \in Lossy /\ req[c] = "asked")
  /\ req' = [req EXCEPT ![c] = "none"]
  /\ UNCHANGED phase

MemNext ==
  \/ Close \/ Open
  \/ \E c \in Client : Submit(c) \/ Execute(c) \/ Return(c)

MemSpec == MemInit /\ [][MemNext]_mvars

\* A round with an access in it is closed, executed, opened and fetched.
CloseAsked == Close /\ \E c \in Client : req[c] = "asked"

MemFairSpec ==
  /\ MemSpec
  /\ WF_mvars(CloseAsked) /\ WF_mvars(Open)
  /\ \A c \in Client : WF_mvars(Execute(c)) /\ WF_mvars(Return(c))
=============================================================================
