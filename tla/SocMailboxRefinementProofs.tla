----------------------- MODULE SocMailboxRefinementProofs -----------------------
(* The mailbox implements LockstepMemory: the proof of its safety part.       *)
EXTENDS SocMailboxRefinement, SocMailboxProofs

USE DEF SC, IF_, Slot, Ex2, Barrier, IDLE, REQUEST, RESPONSE, RESPONSE_OK

-----------------------------------------------------------------------------
(* The steps of the memory *)

\* A step that leaves the round and its accesses is no step of the memory.
LEMMA MemStutter ==
  ASSUME Round' = Round, \A t \in Slot : Access(t)' = Access(t)
  PROVE  [Mem!MemNext]_(Mem!mvars)
  BY DEF Mem!mvars, Accesses

\* A slot whose access is new submits it while the round collects.
LEMMA MemSubmit ==
  ASSUME NEW s \in Slot, Round = "collect" /\ Round' = Round,
         Access(s) = "none", Access(s)' = "asked",
         \A t \in Slot \ {s} : Access(t)' = Access(t)
  PROVE  [Mem!MemNext]_(Mem!mvars)
  BY DEF Mem!MemNext, Mem!Submit, Accesses

\* A slot whose access the scan executes is executed while the round is closed.
LEMMA MemExecute ==
  ASSUME NEW s \in Slot, Round = "serve" /\ Round' = Round,
         Access(s) = "asked", Access(s)' = "done",
         \A t \in Slot \ {s} : Access(t)' = Access(t)
  PROVE  [Mem!MemNext]_(Mem!mvars)
  BY DEF Mem!MemNext, Mem!Execute, Accesses

\* A slot whose answer is fetched returns while the round collects.
LEMMA MemReturn ==
  ASSUME NEW s \in Slot, Round = "collect" /\ Round' = Round,
         Access(s) = "done" \/ (s = SC /\ Access(s) = "asked"),
         Access(s)' = "none",
         \A t \in Slot \ {s} : Access(t)' = Access(t)
  PROVE  [Mem!MemNext]_(Mem!mvars)
  BY DEF Mem!MemNext, Mem!Return, Accesses

\* The start of a scan closes the round.
LEMMA MemClose ==
  ASSUME Round = "collect" /\ Round' = "serve",
         \A t \in Slot : Access(t) # "done",
         \A t \in Slot : Access(t)' = Access(t)
  PROVE  [Mem!MemNext]_(Mem!mvars)
  BY DEF Mem!MemNext, Mem!Close, Accesses

\* The end of a scan opens the round.
LEMMA MemOpen ==
  ASSUME Round = "serve" /\ Round' = "collect",
         \A t \in Slot \ {SC} : Access(t) # "asked",
         \A t \in Slot : Access(t)' = Access(t)
  PROVE  [Mem!MemNext]_(Mem!mvars)
  BY DEF Mem!MemNext, Mem!Open, Accesses

-----------------------------------------------------------------------------
(* The steps of the mailbox *)

\* The empty mailbox is a memory that collects and has no access.
LEMMA QuietInit == Init => Mem!MemInit
  BY NAssumption
  DEF Init, Mem!MemInit, Round, Accesses, Access, Fetched

\* Every step of the two processes is a step of the memory or none.
LEMMA QuietStep ==
  ASSUME IInv, Handshake, ~ShareMode, [Next]_vars
  PROVE  [Mem!MemNext]_(Mem!mvars)
<1> DEFINE Goal == [Mem!MemNext]_(Mem!mvars)

<1> USE NAssumption DEF IInv, TypeOK, DspStates, Control, Ownership, Handshake,
        Progress, Waits, Answered, Round, Access, Fetched
<1> SUFFICES Goal
  BY DEF Goal
<1>1. ASSUME NEW m \in Ex2, Ex2Access(m) PROVE Goal
  <2>1. Round = "collect" /\ Round' = Round
    BY <1>1 DEF Ex2Access, Arrived, Post, Idle, socVars
  <2>2. Access(m) = "none"
    BY <1>1 DEF Ex2Access, Arrived, Post, Idle, socVars
  <2>3. Access(m)' = "asked"
    BY <1>1 DEF Ex2Access, Arrived, Post, Idle, socVars
  <2>4. \A t \in Slot \ {m} : Access(t)' = Access(t)
    BY <1>1 DEF Ex2Access, Arrived, Post, Idle, socVars
  <2>5. QED
    BY <2>1, <2>2, <2>3, <2>4, MemSubmit
<1>2. ASSUME NEW m \in Ex2, Ex2NoAccess(m) PROVE Goal
  BY <1>2, MemStutter DEF Ex2NoAccess, Arrived, socVars, histVars
<1>3. CASE FetchMiss
  <2>1. Round = "collect" /\ Round' = Round
    BY <1>3 DEF FetchMiss, FetchStarts, Arrived, Post, Idle, socVars
  <2>2. Access(IF_) = "none"
    BY <1>3 DEF FetchMiss, FetchStarts, Arrived, Post, Idle, socVars
  <2>3. Access(IF_)' = "asked"
    BY <1>3 DEF FetchMiss, FetchStarts, Arrived, Post, Idle, socVars
  <2>4. \A t \in Slot \ {IF_} : Access(t)' = Access(t)
    BY <1>3 DEF FetchMiss, FetchStarts, Arrived, Post, Idle, socVars
  <2>5. QED
    BY <2>1, <2>2, <2>3, <2>4, MemSubmit
<1>4. CASE FetchHit
  BY <1>4, MemStutter DEF FetchHit, FetchStarts, Arrived, Idle, socVars
<1>5. ASSUME NEW s \in Slot, Resume(s) PROVE Goal
  <2>1. CASE s \in open
    <3>1. Round = "collect" /\ Round' = Round
      BY <1>5, <2>1 DEF Resume, Retire, socVars
    <3>2. Access(s) = "done" \/ (s = SC /\ Access(s) = "asked")
      BY <1>5, <2>1 DEF Resume, Retire, socVars
    <3>3. Access(s)' = "none"
      BY <1>5, <2>1 DEF Resume, Retire, socVars
    <3>4. \A t \in Slot \ {s} : Access(t)' = Access(t)
      BY <1>5, <2>1 DEF Resume, Retire, socVars
    <3>5. QED
      BY <3>1, <3>2, <3>3, <3>4, MemReturn
  <2>2. CASE s \notin open
    BY <1>5, <2>2, MemStutter DEF Resume, Retire, socVars
  <2>3. QED
    BY <2>1, <2>2
<1>6. CASE MonitorRings
  BY <1>6, MemStutter DEF MonitorRings, socVars, histVars
<1>7. CASE MonitorReleases
  BY <1>7, MemStutter DEF MonitorReleases, socVars, histVars
<1>8. CASE DebugOp
  <2>1. Round = "collect" /\ Round' = Round
    BY <1>8 DEF DebugOp, DirectPost, Post, socVars
  <2>2. Access(SC) = "none"
    BY <1>8 DEF DebugOp, DirectPost, Post, socVars
  <2>3. Access(SC)' = "asked"
    BY <1>8 DEF DebugOp, DirectPost, Post, socVars
  <2>4. \A t \in Slot \ {SC} : Access(t)' = Access(t)
    BY <1>8 DEF DebugOp, DirectPost, Post, socVars
  <2>5. QED
    BY <2>1, <2>2, <2>3, <2>4, MemSubmit
<1>9. CASE ProfilingOp
  <2>1. Round = "collect" /\ Round' = Round
    BY <1>9 DEF ProfilingOp, DirectPost, Post, socVars
  <2>2. Access(SC) = "none"
    BY <1>9 DEF ProfilingOp, DirectPost, Post, socVars
  <2>3. Access(SC)' = "asked"
    BY <1>9 DEF ProfilingOp, DirectPost, Post, socVars
  <2>4. \A t \in Slot \ {SC} : Access(t)' = Access(t)
    BY <1>9 DEF ProfilingOp, DirectPost, Post, socVars
  <2>5. QED
    BY <2>1, <2>2, <2>3, <2>4, MemSubmit
<1>10. CASE DirectReturns
  <2>1. CASE back # "close"
    <3>1. Round = "collect" /\ Round' = Round
      BY <1>10, <2>1 DEF DirectReturns, socVars, histVars
    <3>2. Access(SC) = "done"
      BY <1>10, <2>1 DEF DirectReturns, socVars, histVars
    <3>3. Access(SC)' = "none"
      BY <1>10, <2>1 DEF DirectReturns, socVars, histVars
    <3>4. \A t \in Slot \ {SC} : Access(t)' = Access(t)
      BY <1>10, <2>1 DEF DirectReturns, socVars, histVars
    <3>5. QED
      BY <3>1, <3>2, <3>3, <3>4, MemReturn
  <2>2. CASE back = "close"
    BY <1>10, <2>2, MemStutter DEF DirectReturns, socVars, histVars
  <2>3. QED
    BY <2>1, <2>2
<1>11. CASE DebugCloses
  <2>1. CASE SC \in open
    <3>1. Round = "collect" /\ Round' = Round
      BY <1>11, <2>1 DEF DebugCloses, Retire, socVars
    <3>2. Access(SC) \in {"asked", "done"}
      BY <1>11, <2>1 DEF DebugCloses, Retire, socVars
    <3>3. Access(SC)' = "none"
      BY <1>11, <2>1 DEF DebugCloses, Retire, socVars
    <3>4. \A t \in Slot \ {SC} : Access(t)' = Access(t)
      BY <1>11, <2>1 DEF DebugCloses, Retire, socVars
    <3>5. QED
      BY <3>1, <3>2, <3>3, <3>4, MemReturn
  <2>2. CASE SC \notin open
    BY <1>11, <2>2, MemStutter DEF DebugCloses, Retire, socVars
  <2>3. QED
    BY <2>1, <2>2
<1>12. CASE BeginCycle
  BY <1>12, MemStutter DEF BeginCycle, socVars, histVars
<1>13. CASE RunCycle
  BY <1>13, MemStutter DEF RunCycle, Retire, socVars
<1>14. CASE CycleOver
  BY <1>14, MemStutter DEF CycleOver, StagesDone, socVars, histVars
<1>15. CASE EndCycle
  BY <1>15, MemStutter DEF EndCycle, Retire, socVars
<1>16. CASE BeginStep
  BY <1>16, MemStutter DEF BeginStep, BranchSlots, StepTo, socVars, histVars
<1>17. CASE StepFetches
  BY <1>17, MemStutter DEF StepFetches, StagesDone, StepTo, socVars, histVars
<1>18. CASE StepEx2Over
  BY <1>18, MemStutter DEF StepEx2Over, StagesDone, StepTo, socVars, histVars
<1>19. CASE StepOver
  BY <1>19, MemStutter DEF StepOver, StagesDone, socVars, histVars
<1>20. CASE SocStarts
  <2>1. /\ Round = "collect" /\ Round' = "serve"
        /\ \A t \in Slot : Access(t)' = Access(t)
    BY <1>20 DEF SocStarts, issVars, histVars
  <2>2. \A t \in Slot : Access(t) # "done"
    BY <1>20 DEF SocStarts, issVars, histVars
  <2>3. QED
    BY <2>1, <2>2, MemClose
<1>21. CASE SocSkips
  BY <1>21, MemStutter DEF SocSkips, issVars, histVars
<1>22. CASE SocServes
  <2>1. PICK i \in Slot : i = inst
    BY <1>22 DEF SocServes
  <2>2. Round = "serve" /\ Round' = Round
    BY <1>22 DEF SocServes, issVars
  <2>3. Access(i) = "asked"
    <3>1. i \in open /\ i \notin late
      BY <1>22, <2>1 DEF SocServes
    <3>2. mon = "spin" \/ dsp = "direct"
      BY <1>22 DEF SocServes
    <3>3. Waits(i)
      BY <3>1, <3>2
    <3>4. served[i] = 0
      BY <1>22, <2>1, <3>1, <3>3 DEF SocServes
    <3>5. QED
      BY <3>1, <3>2, <3>4
  <2>4. /\ open' = open /\ dsp' = dsp
        /\ served'[i] # 0
        /\ \A t \in Slot \ {i} : served'[t] = served[t]
    BY <1>22, <2>1 DEF SocServes, issVars
  <2>5. Access(i)' = "done"
    BY <2>3, <2>4
  <2>6. \A t \in Slot \ {i} : Access(t)' = Access(t)
    BY <2>4
  <2>7. QED
    BY <2>2, <2>3, <2>5, <2>6, MemExecute
<1>23. CASE SocReleases
  <2>1. /\ Round = "serve" /\ Round' = "collect"
        /\ \A t \in Slot : Access(t)' = Access(t)
    BY <1>23 DEF SocReleases, issVars, histVars
  <2>2. \A t \in Slot \ {SC} : Access(t) # "asked"
    BY <1>23 DEF SocReleases, issVars, histVars
  <2>3. QED
    BY <2>1, <2>2, MemOpen
<1>24. CASE SocResponds
  BY <1>24, MemStutter DEF SocResponds, issVars, histVars
<1>25. CASE PthreadLooks
  BY <1>25, MemStutter DEF PthreadLooks, issVars, socVars, histVars
<1>26. CASE PthreadMarks
  BY <1>26, MemStutter DEF PthreadMarks, issVars, socVars, histVars
<1>27. CASE PthreadWrites
  BY <1>27, MemStutter DEF PthreadWrites, issVars, socVars, histVars
<1>28. CASE UNCHANGED vars
  BY <1>28, MemStutter DEF vars, issVars, socVars, histVars
<1>29. QED
  BY <1>1, <1>2, <1>3, <1>4, <1>5, <1>6, <1>7, <1>8, <1>9, <1>10, <1>11,
     <1>12, <1>13, <1>14, <1>15, <1>16, <1>17, <1>18, <1>19, <1>20, <1>21,
     <1>22, <1>23, <1>24, <1>25, <1>26, <1>27, <1>28 DEF Next, Iss, Thread,
     Fetch, Monitor, Command, Dsp, Soc, Pthread

\* Without share mode, and while no direct operation meets a pending RESPONSE,
\* the two processes give the core a memory that executes the accesses of a
\* round once each between their posts and their answers.
THEOREM MailboxIsMemory ==
  ASSUME ~ShareMode
  PROVE  QuietSpec => ServesRounds
<1> DEFINE QInv == IInv /\ tainted = 0
<1>1. Init => QInv
  BY IInvInit DEF Init
<1>2. QInv /\ [Next /\ tainted' = 0]_vars => QInv'
  <2> SUFFICES ASSUME QInv, [Next /\ tainted' = 0]_vars PROVE QInv'
    OBVIOUS
  <2>1. IInv'
    BY IInvStep
  <2>2. tainted' = 0
    BY DEF vars, histVars
  <2>3. QED
    BY <2>1, <2>2
<1>3. QInv /\ [Next /\ tainted' = 0]_vars => [Mem!MemNext]_(Mem!mvars)
  BY QuietStep DEF IInv, Undisturbed
<1>4. QED
  BY <1>1, <1>2, <1>3, QuietInit, PTL DEF QuietSpec, ServesRounds, Mem!MemSpec
=============================================================================
