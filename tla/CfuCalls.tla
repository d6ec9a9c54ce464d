------------------------------ MODULE CfuCalls ------------------------------
(***************************************************************************)
(* Function calls of the cores to the custom function unit: a process of   *)
(* its own (pac-cfu/pac-cfu-main.cpp) that shares one buffer per function  *)
(* unit, SR4 to SR7, with all cores (pac-iss/sc-pac-memif.cpp). A core     *)
(* writes the start word of a unit and spins until it is 0; the CFU polls  *)
(* the start words in turn. Nothing keeps two cores off the same unit.     *)
(*                                                                         *)
(* A unit's buffer is one word: the arguments, then the results. What a    *)
(* function computes is left open, and reads (cfu_resp) are left out.      *)
(* An unregistered function also stands for a start word without the       *)
(* CFU_FUNC_START bit: the CFU skips both.                                 *)
(***************************************************************************)
EXTENDS Integers, FiniteSets

CONSTANTS
    Core,        \* the cores, one process each
    CFU_NUM,     \* number of function units
    Func,        \* function numbers
    Registered,  \* pairs <<unit, function>> of register_cfu_functions
    Data,        \* contents of a buffer
    Zero,        \* an empty buffer, and a start word that starts nothing
    MaxStarts    \* bound: start words written by all cores

ASSUME UnitsAssumption == CFU_NUM \in Nat \ {0}
ASSUME RegisteredAssumption == Registered \subseteq (0 .. CFU_NUM - 1) \X Func
ASSUME ZeroAssumption == Zero \in Data /\ Zero \notin Func
ASSUME MaxStartsAssumption == MaxStarts \in Nat

Unit == 0 .. CFU_NUM - 1

VARIABLES
    start,      \* start word of each unit: Zero, or CFU_FUNC_START | func_id
    buffer,     \* the rest of each unit's shared memory
    pc,         \* core: "idle", "spin" in cfu_ctrl_cmd, or "dead"
    unit, func, \* the call a core is spinning on
    cfu,        \* main of pac-cfu: "down", "scan", "run" or "clear"
    i,          \* the unit it looks at
    func_start  \* the start word it has read
VARIABLES
    given,      \* history: the arguments when the call was started
    runs,       \* history: how often its function has run since
    used, made, \* history: the arguments and the results of the last of these
    crossed,    \* history: cores whose call was not alone in its unit
    starts      \* start words written so far
history == <<given, runs, used, made>>
vars == <<start, buffer, pc, unit, func, cfu, i, func_start, history, crossed,
          starts>>

TypeOK ==
    /\ start \in [Unit -> Func \cup {Zero}]
    /\ buffer \in [Unit -> Data]
    /\ pc \in [Core -> {"idle", "spin", "dead"}]
    /\ unit \in [Core -> Unit] /\ func \in [Core -> Func \cup {Zero}]
    /\ cfu \in {"down", "scan", "run", "clear"}
    /\ i \in Unit /\ func_start \in Func \cup {Zero}
    /\ given \in [Core -> Data] /\ used \in [Core -> Data]
    /\ made \in [Core -> Data] /\ runs \in [Core -> Nat]
    /\ crossed \subseteq Core /\ starts \in Nat

\* The shared memory may be one that an earlier session has left behind.
Init ==
    /\ start \in [Unit -> Func \cup {Zero}]
    /\ buffer = [u \in Unit |-> Zero]
    /\ pc = [c \in Core |-> "idle"]
    /\ unit = [c \in Core |-> 0] /\ func = [c \in Core |-> Zero]
    /\ cfu = "down" /\ i = 0 /\ func_start = Zero
    /\ given = [c \in Core |-> Zero] /\ used = [c \in Core |-> Zero]
    /\ made = [c \in Core |-> Zero] /\ runs = [c \in Core |-> 0]
    /\ crossed = {} /\ starts = 0

-----------------------------------------------------------------------------
(* A core: writes to the control registers CR4 to CR7.                     *)

Calling(u) == {c \in Core : pc[c] = "spin" /\ unit[c] = u}
Busy(u) == start[u] # Zero \/ (cfu \in {"run", "clear"} /\ i = u)

\* cfu_ctrl_cmd. The call crosses what is going on in the unit, if anything is.
Start(c, u, f) ==
    /\ pc[c] = "idle" /\ starts < MaxStarts
    /\ starts' = starts + 1
    /\ start' = [start EXCEPT ![u] = f]
    /\ pc' = [pc EXCEPT ![c] = "spin"]
    /\ unit' = [unit EXCEPT ![c] = u] /\ func' = [func EXCEPT ![c] = f]
    /\ given' = [given EXCEPT ![c] = buffer[u]]
    /\ crossed' = crossed \cup Calling(u)
                    \cup (IF Busy(u) \/ cfu = "down" THEN {c} ELSE {})
    /\ UNCHANGED <<buffer, cfu, i, func_start, runs, used, made>>

\* The history of the call is forgotten.
Return(c) ==
    /\ pc[c] = "spin" /\ start[unit[c]] = Zero
    /\ pc' = [pc EXCEPT ![c] = "idle"]
    /\ unit' = [unit EXCEPT ![c] = 0] /\ func' = [func EXCEPT ![c] = Zero]
    /\ given' = [given EXCEPT ![c] = Zero] /\ used' = [used EXCEPT ![c] = Zero]
    /\ made' = [made EXCEPT ![c] = Zero] /\ runs' = [runs EXCEPT ![c] = 0]
    /\ crossed' = crossed \ {c}
    /\ UNCHANGED <<start, buffer, cfu, i, func_start, starts>>

\* cfu_mem_access: a write to the buffer ...
MemWrite(c, u, d) ==
    /\ pc[c] = "idle"
    /\ buffer' = [buffer EXCEPT ![u] = d]
    /\ crossed' = crossed \cup Calling(u)
    /\ UNCHANGED <<start, pc, unit, func, cfu, i, func_start, history, starts>>

\* ... or to the start word: a call the core does not wait for.
MemStart(c, u, f) ==
    /\ pc[c] = "idle" /\ starts < MaxStarts
    /\ starts' = starts + 1
    /\ start' = [start EXCEPT ![u] = f]
    /\ crossed' = crossed \cup Calling(u)
    /\ UNCHANGED <<buffer, pc, unit, func, cfu, i, func_start, history>>

\* cfu_err_list_clear counts the wrong variable up and leaves the memory.
ErrListClear(c) ==
    /\ pc[c] = "idle"
    /\ pc' = [pc EXCEPT ![c] = "dead"]
    /\ UNCHANGED <<start, buffer, unit, func, cfu, i, func_start, history,
                   crossed, starts>>

-----------------------------------------------------------------------------
(* The CFU.                                                                *)

\* shm_create with O_TRUNC, then the loop. While the file is empty, a core that
\* reads its start word gets a SIGBUS.
CfuStart ==
    /\ cfu = "down"
    /\ \E killed \in SUBSET {c \in Core : pc[c] = "spin"} :
         pc' = [c \in Core |-> IF c \in killed THEN "dead" ELSE pc[c]]
    /\ start' = [u \in Unit |-> Zero] /\ buffer' = [u \in Unit |-> Zero]
    /\ cfu' = "scan"
    /\ UNCHANGED <<unit, func, i, func_start, history, crossed, starts>>

\* Mutant: the unit is not taken modulo the number of units.
NextUnitOnward == i' = i + 1

NextUnit == i' = (i + 1) % CFU_NUM

\* Mutant: the CFU stays with a unit whose function is not registered.
ScanWaits ==
    /\ cfu = "scan"
    /\ func_start' = start[i]
    /\ IF <<i, start[i]>> \in Registered THEN cfu' = "run" /\ UNCHANGED i
       ELSE (IF start[i] = Zero THEN NextUnit ELSE UNCHANGED i) /\ UNCHANGED cfu
    /\ UNCHANGED <<start, buffer, pc, unit, func, history, crossed, starts>>

\* Mutant: the start word is cleared before the function runs.
ScanClears ==
    /\ cfu = "scan"
    /\ func_start' = start[i]
    /\ IF <<i, start[i]>> \in Registered
       THEN cfu' = "run" /\ UNCHANGED i /\ start' = [start EXCEPT ![i] = Zero]
       ELSE NextUnit /\ UNCHANGED <<cfu, start>>
    /\ UNCHANGED <<buffer, pc, unit, func, history, crossed, starts>>

\* The start word is read once.
Scan ==
    /\ cfu = "scan"
    /\ func_start' = start[i]
    /\ IF <<i, start[i]>> \in Registered THEN cfu' = "run" /\ UNCHANGED i
       ELSE NextUnit /\ UNCHANGED cfu
    /\ UNCHANGED <<start, buffer, pc, unit, func, history, crossed, starts>>

\* The function takes its arguments from the buffer and leaves its results.
Run(d) ==
    /\ cfu = "run"
    /\ buffer' = [buffer EXCEPT ![i] = d]
    /\ cfu' = "clear"
    /\ runs' = [c \in Core |-> IF c \in Calling(i) /\ func[c] = func_start
                               THEN runs[c] + 1 ELSE runs[c]]
    /\ used' = [c \in Core |-> IF c \in Calling(i) THEN buffer[i] ELSE used[c]]
    /\ made' = [c \in Core |-> IF c \in Calling(i) THEN d ELSE made[c]]
    /\ UNCHANGED <<start, pc, unit, func, i, func_start, given, crossed, starts>>

Clear ==
    /\ cfu = "clear"
    /\ start' = [start EXCEPT ![i] = Zero]
    /\ NextUnit /\ cfu' = "scan"
    /\ UNCHANGED <<buffer, pc, unit, func, func_start, history, crossed, starts>>

Cfu == CfuStart \/ Scan \/ (\E d \in Data : Run(d)) \/ Clear

Next ==
    \/ Cfu
    \/ \E c \in Core : Return(c) \/ ErrListClear(c)
    \/ \E c \in Core, u \in Unit, f \in Func : Start(c, u, f)
    \/ \E c \in Core, u \in Unit, d \in Data : MemWrite(c, u, d)
    \/ \E c \in Core, u \in Unit, f \in Func \cup {Zero} : MemStart(c, u, f)

Spec == Init /\ [][Next]_vars

\* Both processes keep running.
FairSpec == Spec /\ WF_vars(Cfu) /\ \A c \in Core : WF_vars(Return(c))

-----------------------------------------------------------------------------
(* Properties.                                                             *)

\* A call that was alone in its unit returns after its function has run once,
\* on the arguments that stood in the buffer when the core started it, and with
\* the results still there.
ReturnsServed ==
    [][\A c \in Core : Return(c) /\ c \notin crossed =>
          runs[c] = 1 /\ used[c] = given[c] /\ buffer[unit[c]] = made[c]]_vars

\* A call ends, whatever crosses it, unless the unit is given a function that
\* is not registered; a unit that is stuck like that holds up no other unit.
Stuck(u) == start[u] # Zero /\ <<u, start[u]>> \notin Registered
CallEnds ==
    \A c \in Core : pc[c] = "spin" ~> pc[c] # "spin" \/ Stuck(unit[c])
=============================================================================
