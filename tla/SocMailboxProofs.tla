--------------------------- MODULE SocMailboxProofs ---------------------------
(* Theorems about SocMailbox, for every number of EX2 threads, every mix of   *)
(* debugger operations, every core and both modes of the ini file.            *)
EXTENDS SocMailbox, FiniteSetTheorems, TLAPS

USE DEF SC, IF_, Slot, Ex2, Barrier, IDLE, REQUEST, RESPONSE, RESPONSE_OK

-----------------------------------------------------------------------------
(* Type correctness *)

\* The initial state of the shared words and of the threads is well typed.
LEMMA TypeInit == Init => TypeOK
  BY NAssumption, OpsAssumption, FifoAssumption DEF Init, TypeOK, DspStates

\* Every stretch of code of the ISS and of the SoC keeps the types.
LEMMA TypeStep == TypeOK /\ [Next]_vars => TypeOK'
<1> SUFFICES ASSUME TypeOK, [Next]_vars PROVE TypeOK'
  OBVIOUS
<1> USE NAssumption, OpsAssumption, FifoAssumption DEF TypeOK, DspStates
<1>1. ASSUME NEW m \in Ex2, Ex2Access(m) PROVE TypeOK'
  BY <1>1 DEF Ex2Access, Arrived, Post, Idle, socVars
<1>2. ASSUME NEW m \in Ex2, Ex2NoAccess(m) PROVE TypeOK'
  BY <1>2 DEF Ex2NoAccess, Arrived, socVars, histVars
<1>3. CASE FetchMiss
  BY <1>3 DEF FetchMiss, FetchStarts, Arrived, Post, Idle, socVars
<1>4. CASE FetchHit
  BY <1>4 DEF FetchHit, FetchStarts, Arrived, Idle, socVars
<1>5. ASSUME NEW s \in Slot, Resume(s) PROVE TypeOK'
  BY <1>5 DEF Resume, Retire, socVars
<1>6. CASE MonitorRings
  BY <1>6 DEF MonitorRings, socVars, histVars
<1>7. CASE MonitorReleases
  BY <1>7 DEF MonitorReleases, socVars, histVars
<1>8. CASE DebugOp
  BY <1>8 DEF DebugOp, DirectPost, Post, socVars
<1>9. CASE ProfilingOp
  BY <1>9 DEF ProfilingOp, DirectPost, Post, socVars
<1>10. CASE DirectReturns
  BY <1>10 DEF DirectReturns, socVars, histVars
<1>11. CASE DebugCloses
  BY <1>11 DEF DebugCloses, Retire, socVars
<1>12. CASE BeginCycle
  BY <1>12 DEF BeginCycle, socVars, histVars
<1>13. CASE RunCycle
  BY <1>13 DEF RunCycle, Retire, socVars
<1>14. CASE CycleOver
  BY <1>14 DEF CycleOver, StagesDone, socVars, histVars
<1>15. CASE EndCycle
  BY <1>15 DEF EndCycle, Retire, socVars
<1>16. CASE BeginStep
  BY <1>16 DEF BeginStep, BranchSlots, StepTo, socVars, histVars
<1>17. CASE StepFetches
  BY <1>17 DEF StepFetches, StagesDone, StepTo, socVars, histVars
<1>18. CASE StepEx2Over
  BY <1>18 DEF StepEx2Over, StagesDone, StepTo, socVars, histVars
<1>19. CASE StepOver
  BY <1>19 DEF StepOver, StagesDone, socVars, histVars
<1>20. CASE SocStarts
  BY <1>20 DEF SocStarts, issVars, histVars
<1>21. CASE SocSkips
  BY <1>21 DEF SocSkips, issVars, histVars
<1>22. CASE SocServes
  BY <1>22 DEF SocServes, issVars
<1>23. CASE SocReleases
  BY <1>23 DEF SocReleases, issVars, histVars
<1>24. CASE SocResponds
  BY <1>24 DEF SocResponds, issVars, histVars
<1>25. CASE PthreadLooks
  BY <1>25 DEF PthreadLooks, issVars, socVars, histVars
<1>26. CASE PthreadMarks
  BY <1>26 DEF PthreadMarks, issVars, socVars, histVars
<1>27. CASE PthreadWrites
  BY <1>27 DEF PthreadWrites, issVars, socVars, histVars
<1>28. CASE UNCHANGED vars
  BY <1>28 DEF vars, issVars, socVars, histVars
<1>29. QED
  BY <1>1, <1>2, <1>3, <1>4, <1>5, <1>6, <1>7, <1>8, <1>9, <1>10, <1>11,
     <1>12, <1>13, <1>14, <1>15, <1>16, <1>17, <1>18, <1>19, <1>20, <1>21,
     <1>22, <1>23, <1>24, <1>25, <1>26, <1>27, <1>28 DEF Next, Iss, Thread,
     Fetch, Monitor, Command, Dsp, Soc, Pthread

\* Flags, counters and program counters stay in range in every mode.
THEOREM TypeCorrect == Spec => []TypeOK
  BY TypeInit, TypeStep, PTL DEF Spec
-----------------------------------------------------------------------------
(* Counting the EX2 threads that have reached the barrier *)

\* There are N EX2 threads.
LEMMA Ex2Finite == IsFiniteSet(Ex2) /\ Cardinality(Ex2) = N
  BY NAssumption, FS_Interval

\* One more thread makes one more; before it arrived they were not complete.
LEMMA OneMore ==
  ASSUME NEW S \in SUBSET Ex2, NEW m \in Ex2, m \notin S
  PROVE  /\ Cardinality(S) \in Nat
         /\ Cardinality(S \cup {m}) = Cardinality(S) + 1
         /\ Cardinality(S) < N
<1>1. IsFiniteSet(S) /\ IsFiniteSet(S \cup {m})
  BY Ex2Finite, FS_Subset
<1>2. /\ Cardinality(S) \in Nat
      /\ Cardinality(S \cup {m}) = Cardinality(S) + 1
  BY <1>1, FS_AddElement, FS_CardinalityType
<1>3. Cardinality(S \cup {m}) <= N
  BY <1>1, Ex2Finite, FS_Subset
<1>4. QED
  BY <1>2, <1>3, NAssumption

-----------------------------------------------------------------------------
(* The threads of the ISS *)

\* At the start every thread is done and the barrier counter is reset.
LEMMA ControlInit == Init => Control
  BY NAssumption DEF Init, Control

\* No step takes a thread of the ISS out of the order of its phase.
LEMMA ControlStep == TypeOK /\ Control /\ [Next]_vars => Control'
<1> SUFFICES ASSUME TypeOK, Control, [Next]_vars PROVE Control'
  OBVIOUS
<1> USE NAssumption DEF TypeOK, DspStates, Control, Started
<1>1. ASSUME NEW m \in Ex2, Ex2Access(m) PROVE Control'
  <2>1. CASE dsp = "run"
    <3>1. /\ pc[IF_] = "ready" /\ mon = "sleep"
          /\ count = Cardinality(Started(Ex2))
      BY <1>1, <2>1 DEF Ex2Access, Idle
    <3>2. Started(Ex2) \in SUBSET Ex2 /\ m \notin Started(Ex2)
      BY <1>1 DEF Ex2Access, Idle
    <3>3. Started(Ex2)' = Started(Ex2) \cup {m}
      BY <1>1 DEF Ex2Access, Idle
    <3> HIDE DEF Started
    <3>4. /\ Cardinality(Started(Ex2)') = Cardinality(Started(Ex2)) + 1
          /\ Cardinality(Started(Ex2)) \in Nat
          /\ Cardinality(Started(Ex2)) < N
      BY <3>2, <3>3, OneMore
    <3>5. /\ count' = Cardinality(Started(Ex2)') /\ count' <= Barrier
          /\ mon' = "sleep" /\ dsp' = "run" /\ pc'[IF_] = "ready"
          /\ \A k \in Ex2 : pc'[k] # "resumed"
      BY <1>1, <2>1, <3>1, <3>4 DEF Ex2Access, Idle, Arrived
    <3>6. QED
      BY <3>4, <3>5
  <2>2. CASE dsp = "stepEx2"
    BY <1>1, <2>2 DEF Ex2Access, Idle, Arrived
  <2>3. QED
    BY <1>1, <2>1, <2>2 DEF Ex2Access, Idle
<1>2. ASSUME NEW m \in Ex2, Ex2NoAccess(m) PROVE Control'
  <2>1. CASE dsp = "run"
    <3>1. /\ pc[IF_] = "ready" /\ mon = "sleep"
          /\ count = Cardinality(Started(Ex2))
      BY <1>2, <2>1 DEF Ex2NoAccess
    <3>2. Started(Ex2) \in SUBSET Ex2 /\ m \notin Started(Ex2)
      BY <1>2 DEF Ex2NoAccess
    <3>3. Started(Ex2)' = Started(Ex2) \cup {m}
      BY <1>2 DEF Ex2NoAccess
    <3> HIDE DEF Started
    <3>4. /\ Cardinality(Started(Ex2)') = Cardinality(Started(Ex2)) + 1
          /\ Cardinality(Started(Ex2)) \in Nat
          /\ Cardinality(Started(Ex2)) < N
      BY <3>2, <3>3, OneMore
    <3>5. /\ count' = Cardinality(Started(Ex2)') /\ count' <= Barrier
          /\ mon' = "sleep" /\ dsp' = "run" /\ pc'[IF_] = "ready"
          /\ \A k \in Ex2 : pc'[k] # "resumed"
      BY <1>2, <2>1, <3>1, <3>4 DEF Ex2NoAccess, Arrived
    <3>6. QED
      BY <3>4, <3>5
  <2>2. CASE dsp = "stepEx2"
    BY <1>2, <2>2 DEF Ex2NoAccess, Arrived
  <2>3. QED
    BY <1>2, <2>1, <2>2 DEF Ex2NoAccess
<1>3. CASE FetchMiss
  <2>1. CASE dsp = "run"
    <3>1. Started(Ex2) = Ex2
      BY <1>3, <2>1 DEF FetchMiss, FetchStarts
    <3>2. count = N
      BY <1>3, <2>1, <3>1, Ex2Finite DEF FetchMiss, FetchStarts
    <3>3. QED
      BY <1>3, <2>1, <3>2 DEF FetchMiss, FetchStarts, Arrived, Idle
  <2>2. CASE dsp \in {"stepIf", "stepLast"}
    BY <1>3, <2>2 DEF FetchMiss, FetchStarts, Arrived, Idle
  <2>3. QED
    BY <1>3, <2>1, <2>2 DEF FetchMiss, FetchStarts
<1>4. CASE FetchHit
  <2>1. CASE dsp = "run"
    <3>1. Started(Ex2) = Ex2
      BY <1>4, <2>1 DEF FetchHit, FetchStarts
    <3>2. count = N
      BY <1>4, <2>1, <3>1, Ex2Finite DEF FetchHit, FetchStarts
    <3>3. QED
      BY <1>4, <2>1, <3>2 DEF FetchHit, FetchStarts, Arrived, Idle
  <2>2. CASE dsp \in {"stepIf", "stepLast"}
    BY <1>4, <2>2 DEF FetchHit, FetchStarts, Arrived, Idle
  <2>3. QED
    BY <1>4, <2>1, <2>2 DEF FetchHit, FetchStarts
<1>5. ASSUME NEW s \in Slot, Resume(s) PROVE Control'
  BY <1>5 DEF Resume, Retire, socVars
<1>6. CASE MonitorRings
  BY <1>6 DEF MonitorRings, socVars, histVars
<1>7. CASE MonitorReleases
  BY <1>7 DEF MonitorReleases, socVars, histVars
<1>8. CASE DebugOp
  BY <1>8 DEF DebugOp, DirectPost, Post, socVars
<1>9. CASE ProfilingOp
  BY <1>9 DEF ProfilingOp, DirectPost, Post, socVars
<1>10. CASE DirectReturns
  BY <1>10 DEF DirectReturns, socVars, histVars
<1>11. CASE DebugCloses
  BY <1>11 DEF DebugCloses, Retire, socVars
<1>12. CASE BeginCycle
  BY <1>12 DEF BeginCycle, socVars, histVars
<1>13. CASE RunCycle
  <2>1. Started(Ex2)' = {}
    BY <1>13 DEF RunCycle
  <2>2. count' = Cardinality(Started(Ex2)')
    BY <1>13, <2>1, FS_EmptySet DEF RunCycle
  <2>3. QED
    BY <1>13, <2>2 DEF RunCycle
<1>14. CASE CycleOver
  BY <1>14 DEF CycleOver, StagesDone, socVars, histVars
<1>15. CASE EndCycle
  BY <1>15 DEF EndCycle, Retire, socVars
<1>16. CASE BeginStep
  BY <1>16 DEF BeginStep, BranchSlots, StepTo, socVars, histVars
<1>17. CASE StepFetches
  <2>1. CASE left > 0
    BY <1>17, <2>1 DEF StepFetches, StagesDone, StepTo
  <2>2. CASE ~(left > 0)
    BY <1>17, <2>2 DEF StepFetches, StagesDone, StepTo
  <2>3. QED
    BY <2>1, <2>2
<1>18. CASE StepEx2Over
  BY <1>18 DEF StepEx2Over, StagesDone, StepTo, socVars, histVars
<1>19. CASE StepOver
  BY <1>19 DEF StepOver, StagesDone, socVars, histVars
<1>20. CASE SocStarts
  BY <1>20 DEF SocStarts, issVars, histVars
<1>21. CASE SocSkips
  BY <1>21 DEF SocSkips, issVars, histVars
<1>22. CASE SocServes
  BY <1>22 DEF SocServes, issVars
<1>23. CASE SocReleases
  BY <1>23 DEF SocReleases, issVars, histVars
<1>24. CASE SocResponds
  BY <1>24 DEF SocResponds, issVars, histVars
<1>25. CASE PthreadLooks
  BY <1>25 DEF PthreadLooks, issVars, socVars, histVars
<1>26. CASE PthreadMarks
  BY <1>26 DEF PthreadMarks, issVars, socVars, histVars
<1>27. CASE PthreadWrites
  BY <1>27 DEF PthreadWrites, issVars, socVars, histVars
<1>28. CASE UNCHANGED vars
  BY <1>28 DEF vars, issVars, socVars, histVars
<1>29. QED
  BY <1>1, <1>2, <1>3, <1>4, <1>5, <1>6, <1>7, <1>8, <1>9, <1>10, <1>11,
     <1>12, <1>13, <1>14, <1>15, <1>16, <1>17, <1>18, <1>19, <1>20, <1>21,
     <1>22, <1>23, <1>24, <1>25, <1>26, <1>27, <1>28 DEF Next, Iss, Thread,
     Fetch, Monitor, Command, Dsp, Soc, Pthread

-----------------------------------------------------------------------------
(* The slots of the mailbox *)

\* At the start no request is open.
LEMMA OwnershipInit == Init => Ownership
  BY NAssumption DEF Init, Ownership

\* A flag says REQUEST only while the sender of the request waits for it.
LEMMA OwnershipStep ==
  TypeOK /\ Control /\ Ownership /\ [Next]_vars => Ownership'
<1> SUFFICES ASSUME TypeOK, Control, Ownership, [Next]_vars PROVE Ownership'
  OBVIOUS
<1> USE NAssumption DEF TypeOK, DspStates, Ownership
<1>1. ASSUME NEW m \in Ex2, Ex2Access(m) PROVE Ownership'
  BY <1>1 DEF Ex2Access, Arrived, Post, Idle, socVars
<1>2. ASSUME NEW m \in Ex2, Ex2NoAccess(m) PROVE Ownership'
  BY <1>2 DEF Ex2NoAccess, Arrived, socVars, histVars
<1>3. CASE FetchMiss
  BY <1>3 DEF FetchMiss, FetchStarts, Arrived, Post, Idle, socVars
<1>4. CASE FetchHit
  BY <1>4 DEF FetchHit, FetchStarts, Arrived, Idle, socVars
<1>5. ASSUME NEW s \in Slot, Resume(s) PROVE Ownership'
  BY <1>5 DEF Resume, Retire, socVars
<1>6. CASE MonitorRings
  BY <1>6 DEF MonitorRings, socVars, histVars
<1>7. CASE MonitorReleases
  BY <1>7 DEF MonitorReleases, socVars, histVars
<1>8. CASE DebugOp
  BY <1>8 DEF DebugOp, DirectPost, Post, socVars
<1>9. CASE ProfilingOp
  BY <1>9 DEF ProfilingOp, DirectPost, Post, socVars
<1>10. CASE DirectReturns
  BY <1>10 DEF Control, DirectReturns, socVars, histVars
<1>11. CASE DebugCloses
  BY <1>11 DEF DebugCloses, Retire, socVars
<1>12. CASE BeginCycle
  BY <1>12 DEF BeginCycle, socVars, histVars
<1>13. CASE RunCycle
  BY <1>13 DEF Control, RunCycle, Retire, socVars
<1>14. CASE CycleOver
  BY <1>14 DEF CycleOver, StagesDone, socVars, histVars
<1>15. CASE EndCycle
  BY <1>15 DEF EndCycle, Retire, socVars
<1>16. CASE BeginStep
  BY <1>16 DEF Control, BeginStep, BranchSlots, StepTo, socVars, histVars
<1>17. CASE StepFetches
  <2>1. CASE left > 0
    BY <1>17, <2>1 DEF Control, StepFetches, StagesDone, StepTo, histVars
  <2>2. CASE ~(left > 0)
    BY <1>17, <2>2 DEF Control, StepFetches, StagesDone, StepTo, histVars
  <2>3. QED
    BY <2>1, <2>2
<1>18. CASE StepEx2Over
  BY <1>18 DEF Control, StepEx2Over, StagesDone, StepTo, socVars, histVars
<1>19. CASE StepOver
  BY <1>19 DEF StepOver, StagesDone, socVars, histVars
<1>20. CASE SocStarts
  BY <1>20 DEF SocStarts, issVars, histVars
<1>21. CASE SocSkips
  BY <1>21 DEF SocSkips, issVars, histVars
<1>22. CASE SocServes
  BY <1>22 DEF SocServes, issVars
<1>23. CASE SocReleases
  BY <1>23 DEF SocReleases, issVars, histVars
<1>24. CASE SocResponds
  BY <1>24 DEF SocResponds, issVars, histVars
<1>25. CASE PthreadLooks
  BY <1>25 DEF PthreadLooks, issVars, socVars, histVars
<1>26. CASE PthreadMarks
  BY <1>26 DEF PthreadMarks, issVars, socVars, histVars
<1>27. CASE PthreadWrites
  BY <1>27 DEF PthreadWrites, issVars, socVars, histVars
<1>28. CASE UNCHANGED vars
  BY <1>28 DEF vars, issVars, socVars, histVars
<1>29. QED
  BY <1>1, <1>2, <1>3, <1>4, <1>5, <1>6, <1>7, <1>8, <1>9, <1>10, <1>11,
     <1>12, <1>13, <1>14, <1>15, <1>16, <1>17, <1>18, <1>19, <1>20, <1>21,
     <1>22, <1>23, <1>24, <1>25, <1>26, <1>27, <1>28 DEF Next, Iss, Thread,
     Fetch, Monitor, Command, Dsp, Soc, Pthread

-----------------------------------------------------------------------------
(* The handshake of the two processes *)

\* At the start neither process waits for the other.
LEMMA HandshakeInit == Init => Handshake
  BY NAssumption DEF Init, Handshake, Progress, Waits, Answered

\* No step takes back that a direct operation met a pending RESPONSE.
LEMMA UndisturbedStep == TypeOK /\ [Next]_vars /\ Undisturbed' => Undisturbed
<1> SUFFICES ASSUME tainted \in {0, 1}, [Next]_vars, tainted' = 0
             PROVE  tainted = 0
  BY DEF Undisturbed, TypeOK
<1>1. ASSUME NEW s \in Slot, Thread(s) PROVE tainted = 0
  BY <1>1 DEF Thread, Resume, Ex2Access, Ex2NoAccess, histVars
<1>2. CASE Fetch
  BY <1>2 DEF Fetch, FetchMiss, FetchHit, FetchStarts
<1>3. CASE Monitor
  BY <1>3 DEF Monitor, MonitorRings, MonitorReleases, histVars
<1>4. CASE Dsp
  BY <1>4 DEF Dsp, ProfilingOp, DirectPost, DirectReturns, DebugCloses,
              RunCycle, CycleOver, EndCycle, StepFetches, StepEx2Over,
              StepOver, histVars
<1>5. CASE Command
  BY <1>5 DEF Command, DebugOp, DirectPost, BeginCycle, BeginStep, histVars
<1>6. CASE Soc
  BY <1>6 DEF Soc, SocStarts, SocSkips, SocServes, SocReleases, SocResponds,
              histVars
<1>7. CASE Pthread
  BY <1>7 DEF Pthread, PthreadLooks, PthreadMarks, PthreadWrites, histVars
<1>8. CASE UNCHANGED vars
  BY <1>8 DEF vars, histVars
<1>9. QED
  BY <1>1, <1>2, <1>3, <1>4, <1>5, <1>6, <1>7, <1>8 DEF Next, Iss

\* Unless a direct operation meets a pending RESPONSE the SoC executes each
\* request exactly once between its post and its answer.
LEMMA HandshakeStep ==
  /\ TypeOK /\ Control /\ Ownership /\ (Undisturbed => Handshake)
  /\ [Next]_vars
  => (Undisturbed' => Handshake')
<1> SUFFICES ASSUME TypeOK, Control, Ownership, Undisturbed => Handshake,
                    [Next]_vars, Undisturbed'
             PROVE  Handshake'
  OBVIOUS
<1>a. tainted = 0 /\ tainted' = 0 /\ ~ShareMode /\ Handshake
  BY UndisturbedStep DEF Undisturbed
<1> USE <1>a, NAssumption DEF TypeOK, DspStates, Control, Ownership, Handshake,
                              Progress, Waits, Answered
<1>1. ASSUME NEW m \in Ex2, Ex2Access(m) PROVE Handshake'
  BY <1>1 DEF Ex2Access, Arrived, Post, Idle, socVars
<1>2. ASSUME NEW m \in Ex2, Ex2NoAccess(m) PROVE Handshake'
  BY <1>2 DEF Ex2NoAccess, Arrived, socVars, histVars
<1>3. CASE FetchMiss
  BY <1>3 DEF FetchMiss, FetchStarts, Arrived, Post, Idle, socVars
<1>4. CASE FetchHit
  BY <1>4 DEF FetchHit, FetchStarts, Arrived, Idle, socVars
<1>5. ASSUME NEW s \in Slot, Resume(s) PROVE Handshake'
  BY <1>5 DEF Resume, Retire, socVars
<1>6. CASE MonitorRings
  BY <1>6 DEF MonitorRings, socVars, histVars
<1>7. CASE MonitorReleases
  BY <1>7 DEF MonitorReleases, socVars, histVars
<1>8. CASE DebugOp
  BY <1>8 DEF DebugOp, DirectPost, Post, socVars
<1>9. CASE ProfilingOp
  BY <1>9 DEF ProfilingOp, DirectPost, Post, socVars
<1>10. CASE DirectReturns
  BY <1>10 DEF DirectReturns, socVars, histVars
<1>11. CASE DebugCloses
  BY <1>11 DEF DebugCloses, Retire, socVars
<1>12. CASE BeginCycle
  BY <1>12 DEF BeginCycle, socVars, histVars
<1>13. CASE RunCycle
  BY <1>13 DEF RunCycle, Retire, socVars
<1>14. CASE CycleOver
  BY <1>14 DEF CycleOver, StagesDone, socVars, histVars
<1>15. CASE EndCycle
  BY <1>15 DEF EndCycle, Retire, socVars
<1>16. CASE BeginStep
  BY <1>16 DEF BeginStep, BranchSlots, StepTo, socVars, histVars
<1>17. CASE StepFetches
  BY <1>17 DEF StepFetches, StagesDone, StepTo, socVars, histVars
<1>18. CASE StepEx2Over
  BY <1>18 DEF StepEx2Over, StagesDone, StepTo, socVars, histVars
<1>19. CASE StepOver
  BY <1>19 DEF StepOver, StagesDone, socVars, histVars
<1>20. CASE SocStarts
  BY <1>20 DEF SocStarts, issVars, histVars
<1>21. CASE SocSkips
  BY <1>21 DEF SocSkips, issVars, histVars
<1>22. CASE SocServes
  BY <1>22 DEF SocServes, issVars
<1>23. CASE SocReleases
  BY <1>23 DEF SocReleases, issVars, histVars
<1>24. CASE SocResponds
  BY <1>24 DEF SocResponds, issVars, histVars
<1>25. CASE PthreadLooks
  BY <1>25 DEF PthreadLooks, issVars, socVars, histVars
<1>26. CASE PthreadMarks
  BY <1>26 DEF PthreadMarks, issVars, socVars, histVars
<1>27. CASE PthreadWrites
  BY <1>27 DEF PthreadWrites, issVars, socVars, histVars
<1>28. CASE UNCHANGED vars
  BY <1>28 DEF vars, issVars, socVars, histVars
<1>29. QED
  BY <1>1, <1>2, <1>3, <1>4, <1>5, <1>6, <1>7, <1>8, <1>9, <1>10, <1>11,
     <1>12, <1>13, <1>14, <1>15, <1>16, <1>17, <1>18, <1>19, <1>20, <1>21,
     <1>22, <1>23, <1>24, <1>25, <1>26, <1>27, <1>28 DEF Next, Iss, Thread,
     Fetch, Monitor, Command, Dsp, Soc, Pthread

-----------------------------------------------------------------------------
(* The inductive invariant and what follows from it *)

\* The strengthened invariant holds at the start ...
LEMMA IInvInit == Init => IInv
  BY TypeInit, ControlInit, OwnershipInit, HandshakeInit DEF IInv

\* ... every stretch of code of the two processes keeps it ...
LEMMA IInvStep == IInv /\ [Next]_vars => IInv'
  BY TypeStep, ControlStep, OwnershipStep, HandshakeStep DEF IInv

\* ... and it implies the safety properties of the mailbox.
LEMMA IInvSafe ==
  IInv => ScanExcludesIss /\ ServedOnce /\ NeverTwice /\ RingsWhenAllIn
<1> SUFFICES ASSUME IInv
             PROVE  ScanExcludesIss /\ ServedOnce /\ NeverTwice /\ RingsWhenAllIn
  OBVIOUS
<1> USE NAssumption DEF IInv, TypeOK, DspStates
<1>1. ScanExcludesIss
  BY DEF Handshake, ScanExcludesIss
<1>2. ServedOnce
  BY DEF Handshake, Progress, Answered, ServedOnce
<1>3. NeverTwice
  BY DEF Handshake, NeverTwice
<1>4. RingsWhenAllIn
  BY DEF Control, RingsWhenAllIn
<1>5. QED
  BY <1>1, <1>2, <1>3, <1>4

\* The strengthened invariant holds in every reachable state.
THEOREM Invariance == Spec => []IInv
  BY IInvInit, IInvStep, PTL DEF Spec

\* The SoC scans the slots of a core only while that core waits for it.
THEOREM Exclusion == Spec => []ScanExcludesIss
  BY Invariance, IInvSafe, PTL

\* An ISS thread goes on only after its own request was executed, once.
THEOREM ServedExactlyOnce == Spec => []ServedOnce
  BY Invariance, IInvSafe, PTL

\* No request is executed again by a later scan.
THEOREM NoSecondService == Spec => []NeverTwice
  BY Invariance, IInvSafe, PTL

\* No thread of a running cycle is still to post when the monitor rings.
THEOREM NoRequestMissed == Spec => []RingsWhenAllIn
  BY Invariance, IInvSafe, PTL

-----------------------------------------------------------------------------
(* No wake-up is lost *)

\* Share mode with a flush, or for another core than core 0, is left out: there
\* the reply thread takes the answer away or does not see it.
Answering == ~ShareMode \/ (CoreId = 0 /\ DirectOps \subseteq {"dbg"})

\* The answer of a direct operation is on its way, to where it is looked for.
DirectInv ==
  /\ ~ShareMode => pth = "look"
  /\ ShareMode /\ dsp = "direct" => op = "dbg"
  /\ dsp = "direct" => AnswerDue

\* No step of the two processes takes the answer out of the way.
LEMMA DirectStep ==
  ASSUME Answering, TypeOK, Control, DirectInv, [Next]_vars
  PROVE  DirectInv'
<1> USE NAssumption, FifoAssumption
    DEF Answering, TypeOK, DspStates, DirectInv, AnswerDue
<1>1. ASSUME NEW m \in Ex2, Ex2Access(m) PROVE DirectInv'
  BY <1>1 DEF Ex2Access
<1>2. ASSUME NEW m \in Ex2, Ex2NoAccess(m) PROVE DirectInv'
  BY <1>2 DEF Ex2NoAccess
<1>3. CASE Fetch
  BY <1>3 DEF Fetch, FetchMiss, FetchHit, FetchStarts
<1>4. ASSUME NEW s \in Slot, Resume(s) PROVE DirectInv'
  BY <1>4 DEF Resume, Control
<1>5. CASE Monitor
  BY <1>5 DEF Monitor, MonitorRings, MonitorReleases, Control, socVars
<1>6. CASE DebugOp
  BY <1>6 DEF DebugOp, DirectPost, socVars
<1>7. CASE ProfilingOp
  BY <1>7 DEF ProfilingOp, DirectPost, socVars
<1>8. CASE DirectReturns
  BY <1>8 DEF DirectReturns, Control
<1>9. CASE DebugCloses \/ RunCycle \/ CycleOver \/ EndCycle
  BY <1>9 DEF DebugCloses, RunCycle, CycleOver, EndCycle
<1>10. CASE StepFetches \/ StepEx2Over \/ StepOver
  BY <1>10 DEF StepFetches, StepEx2Over, StepOver, StepTo
<1>11. CASE BeginCycle \/ BeginStep
  BY <1>11 DEF BeginCycle, BeginStep, StepTo
<1>12. CASE Soc
  BY <1>12 DEF Soc, SocStarts, SocSkips, SocServes, SocReleases, SocResponds,
               issVars
<1>13. CASE PthreadLooks
  BY <1>13 DEF PthreadLooks, issVars, socVars
<1>14. CASE PthreadMarks
  BY <1>14 DEF PthreadMarks, issVars, socVars
<1>15. CASE PthreadWrites
  BY <1>15 DEF PthreadWrites, issVars, socVars
<1>16. CASE UNCHANGED vars
  BY <1>16 DEF vars, issVars, socVars
<1>17. QED
  BY <1>1, <1>2, <1>3, <1>4, <1>5, <1>6, <1>7, <1>8, <1>9, <1>10, <1>11,
     <1>12, <1>13, <1>14, <1>15, <1>16
  DEF Next, Iss, Thread, Command, Dsp, Pthread

\* idle() and the loops of memif that spin: whoever waits has somebody left to
\* wake it, in direct mode and for the operations share mode can answer.
THEOREM NoLostWakeUp ==
  ASSUME Answering
  PROVE  Spec => []NoWakeUpLost
<1>1. Init => DirectInv
  BY DEF Init, DirectInv
<1>2. IInv /\ DirectInv /\ [Next]_vars => DirectInv'
  BY DirectStep DEF IInv
<1>3. IInv => \A s \in Slot : pc[s] = "wait" =>
                mon # "sleep" \/ \E t \in Slot : pc[t] = "ready"
  <2> SUFFICES ASSUME IInv, NEW s \in Slot, pc[s] = "wait"
               PROVE  mon # "sleep" \/ pc[IF_] = "ready"
    BY NAssumption DEF Slot, IF_
  <2> USE NAssumption DEF IInv, TypeOK, DspStates, Control, Slot, Ex2, IF_
  <2>1. CASE s = IF_
    BY <2>1
  <2>2. CASE s \in Ex2
    BY <2>2
  <2>3. QED
    BY <2>1, <2>2
<1>4. IInv /\ DirectInv => NoWakeUpLost
  BY <1>3 DEF DirectInv, NoWakeUpLost
<1>5. QED
  BY <1>1, <1>2, <1>4, Invariance, PTL DEF Spec

-----------------------------------------------------------------------------
(* The steps of a command run out *)

\* pac_soc_run scans only while the bell stands that made it start.
Ringing == soc = "scan" => ls_flag = 4

\* Only the scan itself takes the bell back.
LEMMA RingingStep == Ringing /\ [Next]_vars => Ringing'
<1> SUFFICES ASSUME Ringing, [Next]_vars PROVE Ringing'
  OBVIOUS
<1> USE DEF Ringing
<1>1. ASSUME NEW s \in Slot, Thread(s) PROVE Ringing'
  BY <1>1 DEF Thread, Resume, Ex2Access, Ex2NoAccess, socVars
<1>2. CASE Fetch
  BY <1>2 DEF Fetch, FetchMiss, FetchHit, FetchStarts, socVars
<1>3. CASE Monitor
  BY <1>3 DEF Monitor, MonitorRings, MonitorReleases, socVars
<1>4. CASE Dsp
  BY <1>4 DEF Dsp, ProfilingOp, DirectPost, DirectReturns, DebugCloses,
              RunCycle, CycleOver, EndCycle, StepFetches, StepEx2Over,
              StepOver, socVars
<1>5. CASE Command
  BY <1>5 DEF Command, DebugOp, DirectPost, BeginCycle, BeginStep, socVars
<1>6. CASE Soc
  BY <1>6 DEF Soc, SocStarts, SocSkips, SocServes, SocReleases, SocResponds
<1>7. CASE Pthread
  BY <1>7 DEF Pthread, PthreadLooks, PthreadMarks, PthreadWrites, socVars
<1>8. CASE UNCHANGED vars
  BY <1>8 DEF vars, socVars
<1>9. QED
  BY <1>1, <1>2, <1>3, <1>4, <1>5, <1>6, <1>7, <1>8 DEF Next, Iss

\* Some thread moves on to its next wait, and none goes back.
Onward ==
  /\ \A s \in Slot : WaitsLeft(s)' <= WaitsLeft(s)
  /\ \E s \in Slot : WaitsLeft(s)' < WaitsLeft(s)

\* A thread that starts its stage or ends it is one wait further on.
LEMMA ThreadOnward ==
  ASSUME TypeOK, NEW t \in Slot,
         \/ pc[t] = "ready" /\ pc' = [pc EXCEPT ![t] = "wait"]
         \/ pc[t] \in {"ready", "resumed"} /\ pc' = [pc EXCEPT ![t] = "done"]
  PROVE  Onward
<1>1. /\ pc'[t] # pc[t] /\ pc'[t] \in {"wait", "done"}
      /\ pc[t] = "ready" \/ (pc[t] = "resumed" /\ pc'[t] = "done")
      /\ \A s \in Slot : s # t => pc'[s] = pc[s]
  BY DEF TypeOK
<1>2. \A s \in Slot : pc[s] \in {"ready", "wait", "resumed", "done"}
  BY DEF TypeOK
<1> HIDE DEF Slot
<1>3. WaitsLeft(t)' < WaitsLeft(t)
  BY <1>1 DEF WaitsLeft
<1>4. ASSUME NEW s \in Slot PROVE WaitsLeft(s)' <= WaitsLeft(s)
  <2>1. CASE s = t
    BY <1>1, <2>1 DEF WaitsLeft
  <2>2. CASE s # t
    BY <1>1, <1>2, <2>2 DEF WaitsLeft
  <2>3. QED
    BY <2>1, <2>2
<1>5. QED
  BY <1>3, <1>4 DEF Onward

\* The monitor never wakes up for nobody: its release moves a thread on.
LEMMA ReleaseOnward == ASSUME TypeOK, Control, MonitorReleases PROVE Onward
<1> USE NAssumption
<1>1. PICK t \in Slot : pc[t] = "wait"
  BY DEF MonitorReleases, Control, TypeOK, DspStates
<1>2. WaitsLeft(t)' < WaitsLeft(t)
  BY <1>1 DEF MonitorReleases, TypeOK, WaitsLeft
<1>3. ASSUME NEW s \in Slot PROVE WaitsLeft(s)' <= WaitsLeft(s)
  BY DEF MonitorReleases, TypeOK, WaitsLeft
<1>4. QED
  BY <1>2, <1>3 DEF Onward

\* The loop a command is in depends on pac_dsp alone.
LEMMA LoopKept == ASSUME UNCHANGED <<dsp, back, left>> PROVE SameLoop
  BY DEF SameLoop, Stretch, StretchesLeft, TurnsLeft

\* A step of the threads, of the monitor or of pac_dsp is a step forward.
LEMMA IssNearer == ASSUME TypeOK, Control, Iss PROVE Nearer
<1> USE NAssumption DEF Nearer
<1>1. ASSUME NEW s \in Slot, Thread(s) PROVE Nearer
  <2>1. \/ pc[s] = "ready" /\ pc' = [pc EXCEPT ![s] = "wait"]
        \/ pc[s] \in {"ready", "resumed"} /\ pc' = [pc EXCEPT ![s] = "done"]
    BY <1>1 DEF Thread, Resume, Ex2Access, Ex2NoAccess, Idle
  <2>2. SameLoop
    BY <1>1, LoopKept DEF Thread, Resume, Ex2Access, Ex2NoAccess
  <2> HIDE DEF Slot
  <2>3. QED
    BY <2>1, <2>2, ThreadOnward DEF Onward
<1>2. CASE Fetch
  <2>1. pc[IF_] = "ready" /\ pc' = [pc EXCEPT ![IF_] = "wait"]
    BY <1>2 DEF Fetch, FetchMiss, FetchHit, FetchStarts, Idle
  <2>2. SameLoop
    BY <1>2, LoopKept DEF Fetch, FetchMiss, FetchHit, FetchStarts
  <2>3. IF_ \in Slot
    OBVIOUS
  <2> HIDE DEF Slot, IF_
  <2>4. QED
    BY <2>1, <2>2, <2>3, ThreadOnward DEF Onward
<1>3. CASE MonitorRings
  BY <1>3, LoopKept DEF MonitorRings
<1>4. CASE MonitorReleases
  BY <1>4, ReleaseOnward, LoopKept DEF MonitorReleases, Onward
<1> USE DEF TypeOK, DspStates, Stretch, StretchesLeft, TurnsLeft
<1>5. CASE ProfilingOp
  BY <1>5 DEF ProfilingOp, DirectPost
<1>6. CASE DirectReturns
  BY <1>6 DEF DirectReturns, Control
<1>7. CASE DebugCloses \/ RunCycle \/ CycleOver \/ EndCycle
  BY <1>7 DEF DebugCloses, RunCycle, CycleOver, EndCycle
<1>8. CASE StepFetches \/ StepEx2Over \/ StepOver
  BY <1>8 DEF StepFetches, StepEx2Over, StepOver, StepTo
<1>9. QED
  BY <1>1, <1>2, <1>3, <1>4, <1>5, <1>6, <1>7, <1>8
  DEF Iss, Fetch, Monitor, Dsp

\* So is a step of pac_soc_run, the store that comes after the release included.
LEMMA SocNearer == ASSUME TypeOK, Ringing, Soc PROVE Nearer
<1>1. UNCHANGED <<dsp, back, left, pc, mon>>
  BY DEF Soc, SocStarts, SocSkips, SocServes, SocReleases, SocResponds, issVars
<1>2. SameLoop
  BY <1>1, LoopKept
<1> USE <1>1, <1>2, NAssumption DEF TypeOK, ScanLeft, Nearer
<1>3. CASE SocStarts
  BY <1>3 DEF SocStarts
<1>4. CASE SocSkips \/ SocServes
  BY <1>4 DEF SocSkips, SocServes, Ringing
<1>5. CASE SocReleases
  BY <1>5 DEF SocReleases, Ringing
<1>6. CASE SocResponds
  BY <1>6 DEF SocResponds
<1>7. QED
  BY <1>3, <1>4, <1>5, <1>6 DEF Soc

\* Neither the threads' waits and branch slots nor the scans and stores of the
\* SoC can go on for ever within one command, in either mode.
THEOREM StepsRunOut == Spec => EveryStepNearer
<1>1. Init => Ringing
  BY DEF Init, Ringing
<1>2. IInv /\ Ringing /\ [Next]_vars => [Iss \/ Soc => Nearer]_vars
  BY IssNearer, SocNearer DEF IInv
<1>3. QED
  BY <1>1, <1>2, RingingStep, Invariance, PTL DEF Spec, EveryStepNearer
=============================================================================
