------------------------------ MODULE SocMailbox ------------------------------
(***************************************************************************)
(* The shared-memory mailbox between one instruction-set simulator         *)
(* (process pac-iss-run) and its core bus in the SoC simulator (process    *)
(* pac-soc-run).                                                           *)
(*                                                                         *)
(* A core owns MAX_SOC_SHM_INST = N+1 slots: slot SC = 0 and slots 1..N-1  *)
(* belong to the EX2 (load/store) threads, slot IF = N to the fetch        *)
(* thread.  The ISS threads are SystemC threads: they run one at a time,   *)
(* from one wait() to the next, so one action is one such stretch, cut     *)
(* where the SoC process can observe or overwrite a shared word.  The EX2  *)
(* threads, the fetch thread, the monitor thread and the pac_dsp thread    *)
(* share the ISS process; a thread that spins on a shared word keeps all   *)
(* of them from running.  The SoC process and, in share mode, its reply    *)
(* thread run in parallel with the ISS.                                    *)
(***************************************************************************)
EXTENDS Integers, FiniteSets

CONSTANTS
  N,          \* number of EX2 threads (3 in the code)
  DirectOps,  \* kinds of debugger operation issued while the core is stopped:
              \* "flush" (l2_icache_write, dcache_flush) always spins,
              \* "dbg" (the others) reads the FIFO in share mode
  MaxProf,    \* bound: profiling queues that match in one cycle
  ShareMode,  \* ini option SHARE_MODE
  CoreId,     \* core this mailbox belongs to
  FifoMax     \* capacity of the FIFO (a full pipe blocks the writer)

ASSUME NAssumption == N \in Nat \ {0}
ASSUME OpsAssumption == DirectOps \subseteq {"flush", "dbg"}
ASSUME ProfAssumption == MaxProf \in Nat
ASSUME ModeAssumption == ShareMode \in BOOLEAN
ASSUME FifoAssumption == FifoMax \in Nat \ {0} /\ CoreId \in Nat

IDLE        == 0
REQUEST     == 1
RESPONSE    == 2
RESPONSE_OK == 3

SC      == 0
IF_     == N
Slot    == 0..N
Ex2     == 0..(N-1)
BarrierShort == N      \* mutant: the barrier leaves one thread out
Barrier == N + 1       \* the 4 of "memif_req_count == 4"
BranchSlots == 5       \* fetches a step makes past a branch

VARIABLES
  \* words shared by the two processes
  flag,     \* soc_shm_prot.flag of every slot
  ls_flag,  \* soc_shm_prot.ls_flag of slot 0
  fifo,     \* bytes in the iss-soc FIFO
  \* the ISS process
  count,    \* memif_req_count
  pc,       \* the EX2 threads and the fetch thread
  mon,      \* the monitor thread
  dsp,      \* the pac_dsp thread
  op,       \* kind of the direct operation it waits for
  back,     \* where it continues after that operation
  left,     \* operations left in the loop it is in
  \* the SoC process
  soc,      \* Core_Bus::pac_soc_run
  inst,     \* its inst_mode
  pth,      \* soc_pthread, share mode only
  \* history
  open,     \* the slots with a request whose sender has not resumed
  served,   \* how often the SoC executed that request (2: twice or more)
  late,     \* slot SC, if its request was posted before the RESPONSE of the
            \* scan before had landed
  tainted   \* 1 once a direct operation was posted so, 0 before

issVars  == <<count, pc, mon, dsp, op, back, left>>
socVars  == <<soc, inst>>
histVars == <<open, served, late, tainted>>
vars == <<flag, ls_flag, fifo, issVars, socVars, pth, histVars>>

Init ==
  /\ flag = [s \in Slot |-> IDLE]
  /\ ls_flag = 0
  /\ fifo = 0
  /\ count = 0
  /\ pc = [s \in Slot |-> "done"]
  /\ mon = "sleep"
  /\ dsp = "stopped" /\ op = "dbg" /\ back = "stopped" /\ left = 0
  /\ soc = "poll" /\ inst = 0
  /\ pth = "look"
  /\ open = {}
  /\ served = [s \in Slot |-> 0]
  /\ late = {} /\ tainted = 0

-----------------------------------------------------------------------------
(* Requests *)

\* A request is put in slot s: the previous answer no longer counts.
Post(s) ==
  /\ flag' = [flag EXCEPT ![s] = REQUEST]
  /\ open' = open \cup {s}
  /\ served' = [served EXCEPT ![s] = 0]
  /\ late' = IF s = SC /\ soc = "respond" THEN late \cup {s} ELSE late \ {s}

\* Mutant: the flag of the slot is not reset.
RetireKeepsFlag(s) ==
  /\ flag' = flag
  /\ open' = open \ {s}

\* The sender of the request in slot s takes the answer away.
Retire(s) ==
  /\ flag' = [flag EXCEPT ![s] = IDLE]
  /\ open' = open \ {s}

\* idle(): the thread that completes the barrier wakes the monitor; a
\* notification the monitor is not waiting for is lost.
Idle(s, n) ==
  /\ pc' = [pc EXCEPT ![s] = "wait"]
  /\ mon' = IF n = Barrier /\ mon = "sleep" THEN "ready" ELSE mon

-----------------------------------------------------------------------------
(* The EX2 and fetch threads *)

\* Mutant: a stepped thread only counts itself.
ArrivedAlwaysCounts == count + 1

\* A stepped thread sets the counter to its limit, a running one counts up.
Arrived == IF dsp = "run" THEN count + 1 ELSE Barrier

\* An EX2 thread starts its stage, with or without a memory access.
Ex2Access(m) ==
  /\ mon # "spin"
  /\ dsp \in {"run", "stepEx2"} /\ pc[m] = "ready"
  /\ count' = Arrived
  /\ Post(m)
  /\ Idle(m, Arrived)
  /\ UNCHANGED <<ls_flag, fifo, dsp, op, back, left, socVars, pth, tainted>>

Ex2NoAccess(m) ==
  /\ mon # "spin"
  /\ dsp \in {"run", "stepEx2"} /\ pc[m] = "ready"
  /\ count' = Arrived
  /\ pc' = [pc EXCEPT ![m] = "done"]
  /\ UNCHANGED <<flag, ls_flag, fifo, mon, dsp, op, back, left, socVars, pth,
                 histVars>>

\* In a running cycle the fetch thread starts two delta cycles after EX2.
FetchStarts ==
  /\ mon # "spin"
  /\ pc[IF_] = "ready"
  /\ \/ dsp = "run" /\ \A m \in Ex2 : pc[m] # "ready"
     \/ dsp \in {"stepIf", "stepLast"}
  /\ count' = Arrived
  /\ Idle(IF_, Arrived)
  /\ UNCHANGED <<ls_flag, fifo, dsp, op, back, left, socVars, pth, tainted>>

\* The fetch misses the instruction cache and asks for its lines.
FetchMiss == FetchStarts /\ Post(IF_)

\* A hit, a branch bubble and a trap bubble only take part in the barrier.
FetchHit == FetchStarts /\ UNCHANGED <<flag, open, served, late>>

\* A thread woken by monitor_resp_event takes its answer and ends its stage
\* (after a hit there is none and the flag of the slot is IDLE already).
Resume(s) ==
  /\ mon # "spin"
  /\ pc[s] = "resumed"
  /\ pc' = [pc EXCEPT ![s] = "done"]
  /\ Retire(s)
  /\ UNCHANGED <<ls_flag, fifo, count, mon, dsp, op, back, left, socVars, pth,
                 served, late, tainted>>

-----------------------------------------------------------------------------
(* The monitor thread *)

\* It runs after every thread of the batch that made it runnable.
MonitorRings ==
  /\ mon = "ready"
  /\ dsp = "stepEx2" => \A m \in Ex2 : pc[m] # "ready"
  /\ mon' = "spin"
  /\ ls_flag' = 4
  /\ UNCHANGED <<flag, fifo, count, pc, dsp, op, back, left, socVars, pth,
                 histVars>>

\* Mutants: the monitor does not wait; the barrier counter is not reset.
MonitorReleasesEarly ==
  /\ mon = "spin"
  /\ mon' = "sleep"
  /\ count' = 0
  /\ pc' = [s \in Slot |-> IF pc[s] = "wait" THEN "resumed" ELSE pc[s]]
  /\ UNCHANGED <<flag, ls_flag, fifo, dsp, op, back, left, socVars, pth,
                 histVars>>

MonitorReleasesKeepingCount ==
  /\ mon = "spin" /\ ls_flag = 0
  /\ mon' = "sleep"
  /\ pc' = [s \in Slot |-> IF pc[s] = "wait" THEN "resumed" ELSE pc[s]]
  /\ UNCHANGED <<flag, ls_flag, fifo, count, dsp, op, back, left, socVars, pth,
                 histVars>>

MonitorReleases ==
  /\ mon = "spin" /\ ls_flag = 0
  /\ mon' = "sleep"
  /\ count' = 0
  /\ pc' = [s \in Slot |-> IF pc[s] = "wait" THEN "resumed" ELSE pc[s]]
  /\ UNCHANGED <<flag, ls_flag, fifo, dsp, op, back, left, socVars, pth,
                 histVars>>

-----------------------------------------------------------------------------
(* The pac_dsp thread: direct operations *)

\* A direct operation rings the SoC itself and waits in the same call.
DirectPost(k, b) ==
  /\ Post(SC)
  /\ ls_flag' = 4
  /\ tainted' = IF soc = "respond" THEN 1 ELSE tainted
  /\ dsp' = "direct" /\ op' = k /\ back' = b
  /\ UNCHANGED <<fifo, count, pc, mon, socVars, pth>>

\* A command of the debugger while the core is stopped.
DebugOp ==
  /\ dsp = "stopped"
  /\ \E k \in DirectOps : DirectPost(k, "close")
  /\ UNCHANGED left

\* Mutant: the loop makes one turn too many.
ProfilingOpOnceMore ==
  /\ dsp \in {"start", "stop"} /\ left >= 0
  /\ DirectPost("dbg", dsp)
  /\ left' = left - 1

\* One matching entry of the profiling queue, before or after a cycle.
ProfilingOp ==
  /\ dsp \in {"start", "stop"} /\ left > 0
  /\ DirectPost("dbg", dsp)
  /\ left' = left - 1

\* The operation returns: on RESPONSE, or on a byte of the FIFO.
DirectReturns ==
  /\ dsp = "direct"
  /\ IF ShareMode /\ op = "dbg"
     THEN fifo > 0 /\ fifo' = fifo - 1
     ELSE flag[SC] = RESPONSE /\ UNCHANGED fifo
  /\ dsp' = back
  /\ UNCHANGED <<flag, ls_flag, count, pc, mon, op, back, left, socVars, pth,
                 histVars>>

\* Only a debugger operation releases the slot at once; the profiling loops
\* release it when they end.
DebugCloses ==
  /\ dsp = "close"
  /\ Retire(SC)
  /\ dsp' = "stopped"
  /\ UNCHANGED <<ls_flag, fifo, count, pc, mon, op, back, left, socVars, pth,
                 served, late, tainted>>

-----------------------------------------------------------------------------
(* The pac_dsp thread: cycles and steps *)

BeginCycle ==
  /\ dsp = "stopped"
  /\ dsp' = "start"
  /\ left' \in 0..MaxProf
  /\ UNCHANGED <<flag, ls_flag, fifo, count, pc, mon, op, back, socVars, pth,
                 histVars>>

\* dbg_start_profiling ends with flag = IDLE; dsp_pin starts all the stages.
RunCycle ==
  /\ dsp = "start" /\ left = 0
  /\ Retire(SC)
  /\ pc' = [s \in Slot |-> "ready"]
  /\ dsp' = "run"
  /\ UNCHANGED <<ls_flag, fifo, count, mon, op, back, left, socVars, pth,
                 served, late, tainted>>

StagesDone(S) == \A s \in S : pc[s] = "done"

\* mod_count reached 5: the cycle is over and its profiling data is fetched.
CycleOver ==
  /\ dsp = "run" /\ StagesDone(Slot)
  /\ dsp' = "stop"
  /\ left' \in 0..MaxProf
  /\ UNCHANGED <<flag, ls_flag, fifo, count, pc, mon, op, back, socVars, pth,
                 histVars>>

\* dbg_stop_profiling ends with flag = IDLE.
EndCycle ==
  /\ dsp = "stop" /\ left = 0
  /\ Retire(SC)
  /\ dsp' = "stopped"
  /\ UNCHANGED <<ls_flag, fifo, count, pc, mon, op, back, left, socVars, pth,
                 served, late, tainted>>

\* A step runs its stages one after the other; past a branch it fetches the
\* packets of the branch slots as well.
StepTo(d, S) ==
  /\ dsp' = d
  /\ pc' = [s \in Slot |-> IF s \in S THEN "ready" ELSE pc[s]]

BeginStep ==
  /\ dsp = "stopped"
  /\ left' \in {0, BranchSlots}
  /\ StepTo("stepIf", {IF_})
  /\ UNCHANGED <<flag, ls_flag, fifo, count, mon, op, back, socVars, pth,
                 histVars>>

StepFetches ==
  /\ dsp = "stepIf" /\ StagesDone({IF_})
  /\ IF left > 0
     THEN left' = left - 1 /\ StepTo("stepIf", {IF_})
     ELSE left' = left /\ StepTo("stepEx2", Ex2)
  /\ UNCHANGED <<flag, ls_flag, fifo, count, mon, op, back, socVars, pth,
                 histVars>>

\* A taken branch fetches the packet behind the stepped instruction again.
StepEx2Over ==
  /\ dsp = "stepEx2" /\ StagesDone(Ex2)
  /\ \/ StepTo("stepLast", {IF_}) /\ UNCHANGED count
     \/ StepTo("stopped", {}) /\ count' = 0
  /\ UNCHANGED <<flag, ls_flag, fifo, mon, op, back, left, socVars, pth,
                 histVars>>

StepOver ==
  /\ dsp = "stepLast" /\ StagesDone({IF_})
  /\ dsp' = "stopped"
  /\ count' = 0
  /\ UNCHANGED <<flag, ls_flag, fifo, pc, mon, op, back, left, socVars, pth,
                 histVars>>

-----------------------------------------------------------------------------
(* The SoC process: Core_Bus::pac_soc_run *)

\* Mutant: inst_mode is not reset before the scan.
SocStartsWithoutReset ==
  /\ soc = "poll" /\ ls_flag = 4
  /\ soc' = "scan"
  /\ UNCHANGED <<flag, ls_flag, fifo, issVars, inst, pth, histVars>>

SocStarts ==
  /\ soc = "poll" /\ ls_flag = 4
  /\ soc' = "scan" /\ inst' = 0
  /\ UNCHANGED <<flag, ls_flag, fifo, issVars, pth, histVars>>

SocSkips ==
  /\ soc = "scan" /\ inst \in Slot /\ flag[inst] # REQUEST
  /\ inst' = inst + 1
  /\ UNCHANGED <<flag, ls_flag, fifo, issVars, soc, pth, histVars>>

\* The command of the slot is executed; its flag stays REQUEST.
SocServes ==
  /\ soc = "scan" /\ inst \in Slot /\ flag[inst] = REQUEST
  /\ served' = [served EXCEPT ![inst] = IF @ = 0 THEN 1 ELSE 2]
  /\ inst' = inst + 1
  /\ UNCHANGED <<flag, ls_flag, fifo, issVars, soc, pth, open, late, tainted>>

\* Mutant: the scan ends with the first store.
SocReleasesOnly ==
  /\ soc = "scan" /\ inst = N + 1
  /\ ls_flag' = 0
  /\ soc' = "poll"
  /\ UNCHANGED <<flag, fifo, issVars, inst, pth, histVars>>

\* Mutant: the bell is not taken back.
SocReleasesKeepingBell ==
  /\ soc = "scan" /\ inst = N + 1
  /\ soc' = "respond"
  /\ UNCHANGED <<flag, ls_flag, fifo, issVars, inst, pth, histVars>>

\* The ISS is released by the first of two stores ...
SocReleases ==
  /\ soc = "scan" /\ inst = N + 1
  /\ ls_flag' = 0
  /\ soc' = "respond"
  /\ UNCHANGED <<flag, fifo, issVars, inst, pth, histVars>>

\* ... and slot SC is marked by the second, whatever it holds by then.
SocResponds ==
  /\ soc = "respond"
  /\ flag' = [flag EXCEPT ![SC] = RESPONSE]
  /\ soc' = "poll"
  /\ UNCHANGED <<ls_flag, fifo, issVars, inst, pth, histVars>>

-----------------------------------------------------------------------------
(* The SoC process: soc_pthread.  For i in 0..3 it looks at slot i of core  *)
(* 0 and answers on the FIFO of core i; of those slots only slot SC is ever  *)
(* marked RESPONSE, so it answers core 0 alone.                              *)

PthreadLooks ==
  /\ ShareMode /\ CoreId = 0
  /\ pth = "look" /\ flag[SC] = RESPONSE
  /\ pth' = "mark"
  /\ UNCHANGED <<flag, ls_flag, fifo, issVars, socVars, histVars>>

PthreadMarks ==
  /\ pth = "mark"
  /\ flag' = [flag EXCEPT ![SC] = RESPONSE_OK]
  /\ pth' = "write"
  /\ UNCHANGED <<ls_flag, fifo, issVars, socVars, histVars>>

PthreadWrites ==
  /\ pth = "write" /\ fifo < FifoMax
  /\ fifo' = fifo + 1
  /\ pth' = "look"
  /\ UNCHANGED <<flag, ls_flag, issVars, socVars, histVars>>

-----------------------------------------------------------------------------
Thread(s) == Resume(s) \/ (s \in Ex2 /\ (Ex2Access(s) \/ Ex2NoAccess(s)))
Fetch     == FetchMiss \/ FetchHit
Monitor   == MonitorRings \/ MonitorReleases
Command   == DebugOp \/ BeginCycle \/ BeginStep
Dsp       == \/ ProfilingOp \/ DirectReturns \/ DebugCloses
             \/ RunCycle \/ CycleOver \/ EndCycle
             \/ StepFetches \/ StepEx2Over \/ StepOver
Soc       == SocStarts \/ SocSkips \/ SocServes \/ SocReleases \/ SocResponds
Pthread   == PthreadLooks \/ PthreadMarks \/ PthreadWrites

Iss  == (\E s \in Slot : Thread(s)) \/ Fetch \/ Monitor \/ Dsp
Next == Iss \/ Command \/ Soc \/ Pthread

Spec == Init /\ [][Next]_vars

\* Both processes and the reply thread are scheduled; whether the core is
\* ever told to run, to step or to do a debugger operation is left open.
FairSpec == Spec /\ WF_vars(Iss) /\ WF_vars(Soc) /\ WF_vars(Pthread)
-----------------------------------------------------------------------------
(* Properties *)

DspStates == {"stopped", "start", "run", "stop", "direct", "close",
              "stepIf", "stepEx2", "stepLast"}

\* Every variable stays in the range its C declaration and its uses give it.
TypeOK ==
  /\ flag \in [Slot -> {IDLE, REQUEST, RESPONSE, RESPONSE_OK}]
  /\ ls_flag \in {0, 4}
  /\ fifo \in 0..FifoMax
  /\ count \in Nat
  /\ pc \in [Slot -> {"ready", "wait", "resumed", "done"}]
  /\ mon \in {"sleep", "ready", "spin"}
  /\ dsp \in DspStates
  /\ op \in {"flush", "dbg"}
  /\ back \in {"stopped", "start", "stop", "close"}
  /\ left \in Nat
  /\ soc \in {"poll", "scan", "respond"}
  /\ inst \in 0..(N + 1)
  /\ pth \in {"look", "mark", "write"}
  /\ open \subseteq Slot
  /\ served \in [Slot -> 0..2]
  /\ late \subseteq {SC} /\ tainted \in {0, 1}

\* The ISS goes on with the answer it believes slot s to hold.
Answered(s) ==
  /\ s \in open
  /\ \/ pc[s] = "resumed"
     \/ s = SC /\ dsp \in {"start", "stop", "close"}

\* Without share mode and as long as no direct operation was posted between
\* the two stores that end a scan (pac-core-bus.cpp 325 and 327):
Undisturbed == ~ShareMode /\ tainted = 0

\* The SoC reads and writes the slots only while the ISS waits for it, so the
\* slot buffers, which no lock guards, never have two users at once.
ScanExcludesIss ==
  Undisturbed /\ soc = "scan" => mon = "spin" \/ dsp = "direct"

\* A thread that goes on with an answer had its own request executed, exactly
\* once: a load never returns the data of an earlier access, a store reaches
\* memory and never reaches it twice.  Only a request of slot SC that was
\* posted before the RESPONSE of the scan before had landed is not covered.
ServedOnce ==
  Undisturbed => \A s \in Slot :
                   Answered(s) /\ s \notin late => served[s] = 1

\* No request is ever executed a second time because its flag is still
\* REQUEST when the next scan comes by.
NeverTwice == Undisturbed => \A s \in Slot : served[s] < 2

\* In a running cycle the monitor rings only when every thread of the cycle
\* has posted its request or has none: no request misses the scan.
RingsWhenAllIn ==
  dsp = "run" /\ mon # "sleep" => \A s \in Slot : pc[s] \in {"wait", "done"}

\* Where the answer of a direct operation is looked for: RESPONSE in its slot,
\* or, in share mode, what the reply thread makes of it for core 0.
AnswerDue ==
  \/ ls_flag = 4 \/ soc = "respond"
  \/ IF ShareMode /\ op = "dbg"
     THEN fifo > 0 \/ (CoreId = 0 /\ (pth # "look" \/ flag[SC] = RESPONSE))
     ELSE flag[SC] = RESPONSE

\* No notification is lost: a thread that waits for monitor_resp_event in idle()
\* has the monitor awake or a thread still to start, and a direct operation
\* that spins has its bell still to be heard or its answer on the way.
NoWakeUpLost ==
  /\ \A s \in Slot : pc[s] = "wait" =>
       mon # "sleep" \/ \E t \in Slot : pc[t] = "ready"
  /\ dsp = "direct" => AnswerDue

\* What is left of a command, from its outermost loop to its innermost: the
\* stretches of pac_dsp, ...
Stretch == IF dsp = "direct" THEN back ELSE dsp
StretchesLeft ==
  CASE Stretch \in {"start", "stepIf"} -> 3
    [] Stretch \in {"run", "stepEx2"} -> 2
    [] Stretch \in {"stop", "close", "stepLast"} -> 1
    [] OTHER -> 0
\* ... the turns of its loop over profiling entries or branch slots, ...
TurnsLeft == 2 * left + (IF dsp = "direct" THEN 1 ELSE 0)
\* ... the waits of a stage, ...
WaitsLeft(s) == CASE pc[s] = "ready" -> 3 [] pc[s] = "wait" -> 2
                  [] pc[s] = "resumed" -> 1 [] OTHER -> 0
\* ... and the scan, with the store of RESPONSE that a new bell may overtake.
ScanLeft ==
  LET bell == IF ls_flag = 4 THEN N + 4 ELSE 0
  IN  CASE soc = "poll" -> bell
        [] soc = "scan" -> bell - 1 - inst
        [] soc = "respond" -> bell + 1

SameLoop == StretchesLeft' = StretchesLeft /\ TurnsLeft' = TurnsLeft
Nearer ==
  \/ StretchesLeft' < StretchesLeft
  \/ StretchesLeft' = StretchesLeft /\ TurnsLeft' < TurnsLeft
  \/ /\ SameLoop
     /\ \A s \in Slot : WaitsLeft(s)' <= WaitsLeft(s)
     /\ \E s \in Slot : WaitsLeft(s)' < WaitsLeft(s)
  \/ SameLoop /\ pc' = pc /\ mon = "ready" /\ mon' = "spin"
  \/ SameLoop /\ pc' = pc /\ mon' = mon /\ 0 <= ScanLeft' /\ ScanLeft' < ScanLeft

\* The two processes cannot keep one another busy for good: whatever the
\* interleaving, every step of the ISS and of pac_soc_run brings the command
\* nearer to its end, the retries, loops and late RESPONSEs included.
EveryStepNearer == [][Iss \/ Soc => Nearer]_vars

\* Every cycle, step and debugger operation that begins comes to its end: no
\* thread waits forever for a notification or for a flag.
EveryCommandEnds == dsp # "stopped" ~> dsp = "stopped"

\* RESPONSE in slot SC means what pac-socshm-prot.h says, "2 response": when a
\* direct operation returns on it, the SoC has executed that operation.
ResponseMeansServed ==
  ~ShareMode /\ dsp \in {"start", "stop", "close"} /\ SC \in open =>
    served[SC] > 0
-----------------------------------------------------------------------------
(* The inductive invariant of the proofs *)

Started(S) == {m \in S : pc[m] # "ready"}

\* How the threads of the ISS stand to each other, in every phase of pac_dsp.
Control ==
  /\ dsp \in {"stopped", "start", "stop", "direct", "close"} =>
       /\ mon = "sleep" /\ count = 0
       /\ \A s \in Slot : pc[s] = "done"
  /\ dsp = "direct" => back \in {"start", "stop", "close"}
  /\ dsp = "run" =>
       /\ pc[IF_] = "ready" =>
            /\ mon = "sleep"
            /\ count = Cardinality(Started(Ex2))
            /\ \A m \in Ex2 : pc[m] # "resumed"
       /\ pc[IF_] # "ready" => \A m \in Ex2 : pc[m] # "ready"
       /\ pc[IF_] = "wait" <=> mon # "sleep"
       /\ pc[IF_] = "wait" => \A m \in Ex2 : pc[m] \in {"wait", "done"}
       /\ pc[IF_] \in {"resumed", "done"} =>
            /\ count = 0
            /\ \A m \in Ex2 : pc[m] \in {"resumed", "done"}
  /\ dsp \in {"stepIf", "stepLast"} =>
       /\ pc[IF_] = "wait" <=> mon # "sleep"
       /\ \A m \in Ex2 : pc[m] = "done"
  /\ dsp = "stepEx2" =>
       /\ pc[IF_] = "done"
       /\ mon # "sleep" <=> \E m \in Ex2 : pc[m] = "wait"
       /\ mon = "ready" => \A m \in Ex2 : pc[m] # "resumed"
       /\ mon = "spin" => \A m \in Ex2 : pc[m] \in {"wait", "done"}
       /\ \A m, k \in Ex2 : pc[m] = "resumed" => pc[k] # "ready"
  /\ count <= Barrier

\* A request is open from its post to the moment its sender takes the answer,
\* and outside slot SC its flag says so.
Ownership ==
  /\ \A s \in Slot \ {SC} : s \in open <=> flag[s] = REQUEST
  /\ flag[SC] = REQUEST => SC \in open
  /\ \A s \in Slot :
       s \in open =>
         \/ pc[s] \in {"wait", "resumed"}
         \/ s = SC /\ dsp \in {"direct", "start", "stop", "close"}

Waits(s) ==
  \/ pc[s] = "wait" /\ mon = "spin"
  \/ s = SC /\ dsp = "direct"

\* How far the SoC is with the request of slot s.
Progress(s) ==
  /\ pc[s] = "wait" /\ mon # "spin" => served[s] = 0
  /\ Waits(s) =>
       /\ soc = "scan" => served[s] = IF s < inst THEN 1 ELSE 0
       /\ soc # "scan" /\ ls_flag = 4 => served[s] = 0
       /\ ls_flag = 0 => served[s] = 1
  /\ Answered(s) => served[s] = 1

\* Who may be where while no direct operation has met a pending RESPONSE.
Handshake ==
  /\ pth = "look"
  /\ ls_flag = 4 => mon = "spin" \/ dsp = "direct"
  /\ soc = "scan" => ls_flag = 4
  /\ soc = "respond" /\ ls_flag = 4 => mon = "spin"
  /\ \A s \in Slot : served[s] <= 1
  /\ \A s \in Slot : s \in open /\ s \notin late => Progress(s)
  /\ dsp = "direct" =>
       /\ SC \in open /\ SC \notin late
       /\ flag[SC] = RESPONSE => ls_flag = 0
  /\ SC \in open /\ SC \notin late =>
       /\ served[SC] = 0 => flag[SC] = REQUEST
       /\ soc = "respond" => served[SC] = 1
  /\ SC \in open /\ SC \in late =>
       /\ served[SC] = 0
       /\ flag[SC] = REQUEST => soc = "respond"

\* The strengthening of the safety properties above that every step keeps.
IInv == TypeOK /\ Control /\ Ownership /\ (Undisturbed => Handshake)
=============================================================================
