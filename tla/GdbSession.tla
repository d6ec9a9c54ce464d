----------------------------- MODULE GdbSession -----------------------------
(***************************************************************************)
(* One debugger session: the client's thread in the debugger server        *)
(* (pac-fe/interface.cpp) and the command loops of the cores               *)
(* (pac-iss/pac-dsp.cpp, pac-iss-debug.cpp). The server stops a core with  *)
(* the flag in its shared memory, sends it one byte on the command FIFO    *)
(* and takes the next byte of the reply FIFO for the answer. A core that   *)
(* stops by itself reports on the same FIFO, with the same byte.           *)
(*                                                                         *)
(* Left out: the arguments and results of commands, the TCP stream (the    *)
(* server answers the client when it becomes idle) and other clients.      *)
(***************************************************************************)
EXTENDS Integers, Sequences, FiniteSets

CONSTANTS
    DSPNUM,      \* number of cores
    SEMIHOST,    \* the ini file's SEMIHOST: host calls go to the debugger
    Commands,    \* commands the client uses, besides its first INIT
    MaxCommands  \* bound: commands of the client, interrupts included

ASSUME CoresAssumption == DSPNUM \in Nat \ {0}
ASSUME SemihostAssumption == SEMIHOST \in BOOLEAN
ASSUME CommandsAssumption ==
    Commands \subseteq {"init", "data", "run", "step", "stop", "reason"}
ASSUME MaxCommandsAssumption == MaxCommands \in Nat

Core == 0 .. DSPNUM - 1

VARIABLES
    flag,       \* iss_shm_prot: "run", or "stop" for everything else
    cmdq,       \* command FIFO of each core
    rspq,       \* reply FIFO; the server cannot tell "reply" from "report"
    iss,        \* where the loop of pac_iss_run is
    eStopFlag, be_stoped, active_core_stop, step_num, sim_end,
    pre_breakpc \* the host call last stopped at: was the debugger told?
iss_vars == <<flag, cmdq, rspq, iss, eStopFlag, be_stoped, active_core_stop,
              step_num, sim_end, pre_breakpc>>

VARIABLES
    srv,        \* where the server thread is
    cmd,        \* the command it is executing
    core_mask,  \* the cores of the session, named by its INIT
    mask,       \* the cores the current command is for
    todo,       \* those of the current loop still to be asked
    asked,      \* the core it last wrote to
    core_id,    \* the core whose report ended the run
    gone        \* 1: the client hung up while its run was going on
srv_vars == <<srv, cmd, core_mask, mask, todo, asked, core_id, gone>>

VARIABLES
    have_reported, \* cores whose exit the client has been shown
    sent,          \* commands of the client so far
    astray,        \* history: cores with a byte, or a run, nobody waits for
    lost           \* history: cores that overwrote a stop request
vars == <<iss_vars, srv_vars, have_reported, sent, astray, lost>>

Kind == {"init", "data", "run", "step", "stop", "reason", "other"}
Byte == {"reply", "report", "semi"}

TypeOK ==
    /\ flag \in [Core -> {"run", "stop"}]
    /\ cmdq \in [Core -> Seq(Kind)]
    /\ rspq \in [Core -> Seq(Byte)]
    /\ iss \in [Core -> {"poll", "command", "resume", "cycle"}]
    /\ eStopFlag \in [Core -> {"trap", "int", "exit", "semi"}]
    /\ be_stoped \in [Core -> {0, 1}]
    /\ active_core_stop \in [Core -> {0, 1}]
    /\ step_num \in [Core -> {0, 1}]
    /\ sim_end \in [Core -> {0, 1}]
    /\ pre_breakpc \in [Core -> {"none", "told", "untold"}]
    /\ srv \in {"new", "idle", "post", "await", "select", "pending"}
    /\ cmd \in Kind
    /\ core_mask \subseteq Core /\ mask \subseteq Core /\ todo \subseteq Core
    /\ asked \in Core /\ core_id \in Core /\ gone \in {0, 1}
    /\ have_reported \subseteq Core
    /\ sent \in Nat
    /\ astray \subseteq Core /\ lost \subseteq Core

(***************************************************************************)
(* pac_iss_init and the start of pac_iss_run, with a debugger server.      *)
(* active_core_stop is not initialised.                                    *)
(***************************************************************************)
Init ==
    /\ flag = [c \in Core |-> "stop"]
    /\ cmdq = [c \in Core |-> <<>>] /\ rspq = [c \in Core |-> <<>>]
    /\ iss = [c \in Core |-> "poll"]
    /\ eStopFlag = [c \in Core |-> "trap"]
    /\ be_stoped = [c \in Core |-> 0]
    /\ active_core_stop \in [Core -> {0, 1}]
    /\ step_num = [c \in Core |-> 0] /\ sim_end = [c \in Core |-> 0]
    /\ pre_breakpc = [c \in Core |-> "none"]
    /\ srv = "new" /\ cmd = "init"
    /\ core_mask = {} /\ mask = {} /\ todo = {}
    /\ asked = 0 /\ core_id = 0 /\ gone = 0
    /\ have_reported = {} /\ sent = 0 /\ astray = {} /\ lost = {}

-----------------------------------------------------------------------------
(* A core.                                                                 *)

ToServer(c, bytes) == rspq' = [rspq EXCEPT ![c] = @ \o bytes]

\* A command that is on its way when the core reports leaves one byte more
\* than the server reads; only STOP_OTHER_CORE is followed by a second read.
Crosses(c) == cmdq[c] # <<>> /\ cmdq[c][1] # "other"
Report(c, byte) ==
    /\ ToServer(c, <<byte>>)
    /\ active_core_stop' = [active_core_stop EXCEPT ![c] = 1]
    /\ astray' = IF Crosses(c) THEN astray \cup {c} ELSE astray

\* pac_iss_wait: go on if the flag says so, else block in the command FIFO.
Poll(c) ==
    /\ iss[c] = "poll"
    /\ iss' = [iss EXCEPT ![c] = IF flag[c] = "run" THEN "cycle" ELSE "command"]
    /\ UNCHANGED <<flag, cmdq, rspq, eStopFlag, be_stoped, active_core_stop,
                   step_num, sim_end, pre_breakpc, srv_vars, have_reported,
                   sent, astray, lost>>

Takes(c, k) ==
    /\ iss[c] = "command" /\ cmdq[c] # <<>> /\ cmdq[c][1] = k
    /\ cmdq' = [cmdq EXCEPT ![c] = Tail(@)]
    /\ UNCHANGED <<srv_vars, have_reported, sent, astray, lost>>

\* Memory, register, breakpoint and similar commands, and EXIT: one reply.
CmdData(c) ==
    /\ \E k \in {"data", "reason"} : Takes(c, k)
    /\ ToServer(c, <<"reply">>)
    /\ UNCHANGED <<flag, iss, eStopFlag, be_stoped, active_core_stop, step_num,
                   sim_end, pre_breakpc>>

\* INIT and RESET.
CmdInit(c) ==
    /\ Takes(c, "init")
    /\ be_stoped' = [be_stoped EXCEPT ![c] = 0]
    /\ active_core_stop' = [active_core_stop EXCEPT ![c] = 0]
    /\ step_num' = [step_num EXCEPT ![c] = 0]
    /\ eStopFlag' = [eStopFlag EXCEPT ![c] = "trap"]
    /\ sim_end' = [sim_end EXCEPT ![c] = 0]
    /\ pre_breakpc' = [pre_breakpc EXCEPT ![c] = "none"]
    /\ ToServer(c, <<"reply">>)
    /\ UNCHANGED <<flag, iss>>

CmdStop(c) ==
    /\ Takes(c, "stop")
    /\ flag' = [flag EXCEPT ![c] = "stop"]
    /\ eStopFlag' = [eStopFlag EXCEPT ![c] = "int"]
    /\ ToServer(c, <<"reply">>)
    /\ UNCHANGED <<iss, be_stoped, active_core_stop, step_num, sim_end, pre_breakpc>>

\* Mutant: the reports are counted.
CmdRunExitedCounting(c) ==
    /\ Takes(c, "run") /\ eStopFlag[c] = "exit"
    /\ active_core_stop' = [active_core_stop EXCEPT ![c] = @ + 1]
    /\ be_stoped' = [be_stoped EXCEPT ![c] = 0]
    /\ ToServer(c, <<"reply", "report">>)
    /\ UNCHANGED <<flag, iss, eStopFlag, step_num, sim_end, pre_breakpc>>

\* A core whose program has ended answers and reports at once.
CmdRunExited(c) ==
    /\ Takes(c, "run") /\ eStopFlag[c] = "exit"
    /\ active_core_stop' = [active_core_stop EXCEPT ![c] = 1]
    /\ be_stoped' = [be_stoped EXCEPT ![c] = 0]
    /\ ToServer(c, <<"reply", "report">>)
    /\ UNCHANGED <<flag, iss, eStopFlag, step_num, sim_end, pre_breakpc>>

\* "resume" is the point behind the reply and before SET_ISS_RUN.
CmdRun(c) ==
    /\ Takes(c, "run") /\ eStopFlag[c] # "exit"
    /\ active_core_stop' = [active_core_stop EXCEPT ![c] = 0]
    /\ step_num' = [step_num EXCEPT ![c] = 0]
    /\ be_stoped' = [be_stoped EXCEPT ![c] = 0]
    /\ eStopFlag' = [eStopFlag EXCEPT ![c] = "trap"]
    /\ iss' = [iss EXCEPT ![c] = "resume"]
    /\ ToServer(c, <<"reply">>)
    /\ UNCHANGED <<flag, sim_end, pre_breakpc>>

\* STEP is answered by the step itself.
CmdStep(c) ==
    /\ Takes(c, "step")
    /\ step_num' = [step_num EXCEPT ![c] = 1]
    /\ active_core_stop' = [active_core_stop EXCEPT ![c] = 0]
    /\ be_stoped' = [be_stoped EXCEPT ![c] = 0]
    /\ eStopFlag' = [eStopFlag EXCEPT ![c] = "trap"]
    /\ iss' = [iss EXCEPT ![c] = "resume"]
    /\ UNCHANGED <<flag, rspq, sim_end, pre_breakpc>>

\* Mutant: be_stoped is not set.
CmdStopOtherOnlyAnswers(c) ==
    /\ Takes(c, "other")
    /\ be_stoped' = [be_stoped EXCEPT ![c] = 0]
    /\ active_core_stop' = [active_core_stop EXCEPT ![c] = 0]
    /\ iss' = [iss EXCEPT ![c] = "resume"]
    /\ ToServer(c, <<"reply">>)
    /\ UNCHANGED <<flag, eStopFlag, step_num, sim_end, pre_breakpc>>

CmdStopOther(c) ==
    /\ Takes(c, "other")
    /\ be_stoped' = [be_stoped EXCEPT ![c] = 1]
    /\ active_core_stop' = [active_core_stop EXCEPT ![c] = 0]
    /\ iss' = [iss EXCEPT ![c] = "resume"]
    /\ ToServer(c, <<"reply">>)
    /\ UNCHANGED <<flag, eStopFlag, step_num, sim_end, pre_breakpc>>

Resume(c) ==
    /\ iss[c] = "resume"
    /\ flag' = [flag EXCEPT ![c] = "run"]
    /\ iss' = [iss EXCEPT ![c] = "cycle"]
    /\ lost' = IF cmdq[c] # <<>> THEN lost \cup {c} ELSE lost
    /\ UNCHANGED <<cmdq, rspq, eStopFlag, be_stoped, active_core_stop, step_num,
                   sim_end, pre_breakpc, srv_vars, have_reported, sent, astray>>

\* What the rest of the loop does in one turn. SET_ISS_STOP and the write that
\* follows it are one action: the server acts on the byte only.
Turn(c) ==
    /\ iss[c] = "cycle"
    /\ iss' = [iss EXCEPT ![c] = "poll"]
    /\ UNCHANGED <<cmdq, srv_vars, have_reported, sent, lost>>

Alive(c) == eStopFlag[c] # "exit"
Free(c) == Alive(c) /\ step_num[c] = 0 /\ be_stoped[c] = 0

\* A step, of a program that may end with it.
StepDone(c) ==
    /\ Turn(c) /\ Alive(c) /\ step_num[c] = 1
    /\ step_num' = [step_num EXCEPT ![c] = 0]
    /\ active_core_stop' = [active_core_stop EXCEPT ![c] = 1]
    /\ \E ends \in {0, 1} :
         /\ eStopFlag' = [eStopFlag EXCEPT ![c] = IF ends = 1 THEN "exit" ELSE "trap"]
         /\ sim_end' = [sim_end EXCEPT ![c] = IF ends = 1 THEN 1 ELSE @]
    /\ flag' = [flag EXCEPT ![c] = "stop"]
    /\ ToServer(c, <<"reply">>)
    /\ UNCHANGED <<be_stoped, pre_breakpc, astray>>

\* Mutant: the core reports although the server has stopped it.
StopsAloud(c) ==
    /\ Turn(c) /\ Alive(c) /\ step_num[c] = 0 /\ be_stoped[c] = 1
    /\ \/ UNCHANGED <<eStopFlag, pre_breakpc>>
       \/ /\ SEMIHOST /\ pre_breakpc[c] = "none"
          /\ eStopFlag' = [eStopFlag EXCEPT ![c] = "semi"]
          /\ pre_breakpc' = [pre_breakpc EXCEPT ![c] = "untold"]
    /\ be_stoped' = [be_stoped EXCEPT ![c] = 0]
    /\ flag' = [flag EXCEPT ![c] = "stop"]
    /\ ToServer(c, <<"report">>)
    /\ UNCHANGED <<active_core_stop, step_num, sim_end, astray>>

\* The core has been told to stop: it does so without a report, even if it
\* finds itself at a host call (is_int_occur has noted it by then).
StopsSilently(c) ==
    /\ Turn(c) /\ Alive(c) /\ step_num[c] = 0 /\ be_stoped[c] = 1
    /\ \/ UNCHANGED <<eStopFlag, pre_breakpc>>
       \/ /\ SEMIHOST /\ pre_breakpc[c] = "none"
          /\ eStopFlag' = [eStopFlag EXCEPT ![c] = "semi"]
          /\ pre_breakpc' = [pre_breakpc EXCEPT ![c] = "untold"]
    /\ be_stoped' = [be_stoped EXCEPT ![c] = 0]
    /\ flag' = [flag EXCEPT ![c] = "stop"]
    /\ UNCHANGED <<rspq, active_core_stop, step_num, sim_end, astray>>

\* A breakpoint or a watchpoint ("trap" stands for STOP_TRAP and STOP_WB).
Breaks(c) ==
    /\ Turn(c) /\ Free(c)
    /\ eStopFlag' = [eStopFlag EXCEPT ![c] = "trap"]
    /\ flag' = [flag EXCEPT ![c] = "stop"]
    /\ Report(c, "report")
    /\ UNCHANGED <<be_stoped, step_num, sim_end, pre_breakpc>>

CallsHost(c) ==
    /\ Turn(c) /\ Free(c) /\ SEMIHOST /\ pre_breakpc[c] = "none"
    /\ eStopFlag' = [eStopFlag EXCEPT ![c] = "semi"]
    /\ pre_breakpc' = [pre_breakpc EXCEPT ![c] = "told"]
    /\ flag' = [flag EXCEPT ![c] = "stop"]
    /\ Report(c, "semi")
    /\ UNCHANGED <<be_stoped, step_num, sim_end>>

\* The program ends: a report, but the flag stays at ISS_RUN.
Exits(c) ==
    /\ Turn(c) /\ Free(c) /\ eStopFlag[c] # "int"
    /\ eStopFlag' = [eStopFlag EXCEPT ![c] = "exit"]
    /\ sim_end' = [sim_end EXCEPT ![c] = 1]
    /\ Report(c, "report")
    /\ UNCHANGED <<flag, be_stoped, step_num, pre_breakpc>>

\* A cycle of the program. It may take it past the host call it had stopped at.
RunsOn(c) ==
    /\ Turn(c) /\ Free(c) /\ eStopFlag[c] # "int" /\ sim_end[c] = 0
    /\ \/ UNCHANGED pre_breakpc
       \/ pre_breakpc' = [pre_breakpc EXCEPT ![c] = "none"]
    /\ UNCHANGED <<flag, rspq, eStopFlag, be_stoped, active_core_stop, step_num,
                   sim_end, astray>>

Spins(c) ==
    /\ Turn(c) /\ ~Alive(c)
    /\ UNCHANGED <<flag, rspq, eStopFlag, be_stoped, active_core_stop, step_num,
                   sim_end, pre_breakpc, astray>>

Iss(c) ==
    \/ Poll(c) \/ Resume(c)
    \/ CmdData(c) \/ CmdInit(c) \/ CmdStop(c) \/ CmdRunExited(c) \/ CmdRun(c)
    \/ CmdStep(c) \/ CmdStopOther(c)
    \/ StepDone(c) \/ StopsSilently(c) \/ Breaks(c) \/ CallsHost(c)
    \/ Exits(c) \/ RunsOn(c) \/ Spins(c)

-----------------------------------------------------------------------------
(* The server thread and its client.                                       *)

Unchanged_iss == UNCHANGED <<iss, eStopFlag, be_stoped, active_core_stop,
                             step_num, sim_end, pre_breakpc>>

\* The client names cores; it leaves out those whose exit it has been shown,
\* unless it starts them again. A session begins with INIT.
Accept(k, m) ==
    /\ \/ srv = "new" /\ k = "init"
       \/ srv = "idle" /\ k \in Commands /\ (k = "init" \/ m \subseteq core_mask)
    /\ sent < MaxCommands /\ m # {}
    /\ sent' = sent + 1
    /\ cmd' = k
    /\ core_mask' = IF k = "init" THEN m ELSE core_mask
    /\ mask' = IF k \in {"run", "step", "stop"} THEN m \ have_reported ELSE m
    /\ todo' = mask'
    /\ srv' = IF mask' = {} THEN "idle" ELSE "post"
    /\ have_reported' = IF srv = "new" THEN {}
                        ELSE IF k = "init" THEN have_reported \ m
                        ELSE have_reported
    /\ UNCHANGED <<flag, cmdq, rspq, asked, core_id, gone, astray, lost>>
    /\ Unchanged_iss

\* Mutant: the core is not told to look at the command FIFO.
PostKeepsFlag(c) ==
    /\ srv = "post" /\ c \in todo /\ \A d \in todo : c <= d
    /\ cmdq' = [cmdq EXCEPT ![c] = Append(@, cmd)]
    /\ asked' = c
    /\ todo' = todo \ {c}
    /\ srv' = "await"
    /\ astray' = IF rspq[c] # <<>> /\ cmd # "other" THEN astray \cup {c} ELSE astray
    /\ UNCHANGED <<flag, rspq, cmd, core_mask, mask, core_id, gone, have_reported,
                   sent, lost>>
    /\ Unchanged_iss

\* First half of iss_cmd_request, for the next core of the loop.
Post(c) ==
    /\ srv = "post" /\ c \in todo /\ \A d \in todo : c <= d
    /\ flag' = [flag EXCEPT ![c] = "stop"]
    /\ cmdq' = [cmdq EXCEPT ![c] = Append(@, cmd)]
    /\ asked' = c
    /\ todo' = todo \ {c}
    /\ srv' = "await"
    /\ astray' = IF rspq[c] # <<>> /\ cmd # "other" THEN astray \cup {c} ELSE astray
    /\ UNCHANGED <<rspq, cmd, core_mask, mask, core_id, gone, have_reported, sent,
                   lost>>
    /\ Unchanged_iss

\* gdb_ice_stop_reason shows one core: the first that was interrupted or that
\* has ended and was not shown before.
Shown == {c \in mask : /\ active_core_stop[c] = 1
                       /\ \/ eStopFlag[c] = "int"
                          \/ eStopFlag[c] = "exit" /\ c \notin have_reported}
\* Mutant: every core that stopped by itself counts as ended.
NewlyReportedAny == {c \in mask : active_core_stop[c] = 1}

NewlyReported == {c \in Shown : eStopFlag[c] = "exit" /\ \A d \in Shown : c <= d}

\* Second half: any byte will do.
TakeReply ==
    /\ srv = "await" /\ rspq[asked] # <<>>
    /\ rspq' = [rspq EXCEPT ![asked] = Tail(@)]
    /\ srv' = IF todo # {} THEN "post"
              ELSE CASE cmd = "run"   -> "select"
                     [] cmd = "other" -> "pending"
                     [] OTHER         -> "idle"
    /\ have_reported' = IF todo = {} /\ cmd = "reason"
                        THEN have_reported \cup NewlyReported ELSE have_reported
    /\ UNCHANGED <<flag, cmdq, cmd, core_mask, mask, todo, asked, core_id, gone,
                   sent, astray, lost>>
    /\ Unchanged_iss

Reported == {c \in mask : rspq[c] # <<>>}
TakeFrom(R) == rspq' = [c \in Core |-> IF c \in R THEN Tail(rspq[c]) ELSE rspq[c]]

\* Mutant: the core that has reported is stopped as well.
StopAll(last) ==
    /\ core_id' = last
    /\ todo' = mask
    /\ cmd' = "other"
    /\ TakeFrom(Reported)

\* pac_soc_run_cmd, between the starts and the stops: a byte from every core
\* that has one, then STOP_OTHER_CORE to all but the last of these.
StopOthers(last) ==
    /\ core_id' = last
    /\ todo' = mask \ {last}
    /\ cmd' = "other"
    /\ TakeFrom(Reported)

\* Mutant: the server waits for the reports of all cores.
CollectWhenAllReport ==
    /\ srv = "select" /\ Reported = mask
    /\ \E last \in Reported : (\A c \in Reported : c <= last) /\ StopOthers(last)
    /\ srv' = IF todo' = {} THEN "idle" ELSE "post"
    /\ UNCHANGED <<flag, cmdq, core_mask, mask, asked, gone, have_reported, sent,
                   astray, lost>>
    /\ Unchanged_iss

Collect ==
    /\ srv = "select" /\ Reported # {}
    /\ \E last \in Reported : (\A c \in Reported : c <= last) /\ StopOthers(last)
    /\ srv' = IF todo' = {} THEN "idle" ELSE "post"
    /\ UNCHANGED <<flag, cmdq, core_mask, mask, asked, gone, have_reported, sent,
                   astray, lost>>
    /\ Unchanged_iss

\* The client's STOP comes first; the run is given up without an answer.
Interrupt ==
    /\ srv = "select" /\ "stop" \in Commands /\ sent < MaxCommands
    /\ sent' = sent + 1
    /\ cmd' = "stop" /\ todo' = mask
    /\ srv' = "post"
    /\ UNCHANGED <<flag, cmdq, rspq, core_mask, mask, asked, core_id, gone,
                   have_reported, astray, lost>>
    /\ Unchanged_iss

\* The client closes its socket during the run: the server goes on as if core 0
\* had reported, unless some core has.
HangUp ==
    /\ srv = "select"
    /\ \/ /\ Reported # {} /\ UNCHANGED astray
          /\ \E last \in Reported : (\A c \in Reported : c <= last) /\ StopOthers(last)
       \/ /\ Reported = {} /\ StopOthers(0)
          /\ astray' = astray \cup (mask \cap {0})
    /\ srv' = IF todo' = {} THEN "new" ELSE "post"
    /\ gone' = IF todo' = {} THEN 0 ELSE 1
    /\ UNCHANGED <<flag, cmdq, core_mask, mask, asked, have_reported, sent, lost>>
    /\ Unchanged_iss

Leave ==
    /\ srv = "idle" /\ srv' = "new"
    /\ UNCHANGED <<iss_vars, cmd, core_mask, mask, todo, asked, core_id, gone,
                   have_reported, sent, astray, lost>>

\* Mutant: the pending responses stay where they are.
PendingReadSkipped ==
    /\ srv = "pending"
    /\ UNCHANGED rspq
    /\ astray' = astray \cup {c \in mask \ {core_id} : cmdq[c] # <<>>}
    /\ srv' = IF gone = 1 THEN "new" ELSE "idle"
    /\ gone' = 0
    /\ UNCHANGED <<flag, cmdq, cmd, core_mask, mask, todo, asked, core_id,
                   have_reported, sent, lost>>
    /\ Unchanged_iss

\* "read pending response": one byte from each of the others that has one when
\* select returns, which it does for the first byte or after 1 ms.
PendingRead ==
    /\ srv = "pending"
    /\ TakeFrom(Reported \ {core_id})
    /\ astray' = astray \cup {c \in mask \ {core_id} : cmdq[c] # <<>>}
    /\ srv' = IF gone = 1 THEN "new" ELSE "idle"
    /\ gone' = 0
    /\ UNCHANGED <<flag, cmdq, cmd, core_mask, mask, todo, asked, core_id,
                   have_reported, sent, lost>>
    /\ Unchanged_iss

Server == Collect \/ TakeReply \/ PendingRead \/ \E c \in Core : Post(c)

Next ==
    \/ Server
    \/ Interrupt \/ HangUp \/ Leave
    \/ \E k \in Kind \ {"other"}, m \in SUBSET Core : Accept(k, m)
    \/ \E c \in Core : Iss(c)

Spec == Init /\ [][Next]_vars

\* Both processes keep running: the server's thread is never held up for good,
\* and neither is the loop of a core. Programs need not stop.
FairSpec == Spec /\ WF_vars(Server) /\ \A c \in Core : WF_vars(Iss(c))

-----------------------------------------------------------------------------

(***************************************************************************)
(* Properties. A core is astray when a command and a report have crossed   *)
(* on its FIFOs and the server has read only one of the two bytes: a STOP  *)
(* of the client that meets a report, or a pending response that comes     *)
(* after the 1 ms; and core 0, when a client hangs up on a run. That any   *)
(* other order of events keeps the channel in step is what these say.      *)
(***************************************************************************)

\* The byte that iss_cmd_request takes for the answer of a core is its answer:
\* the core has taken the command and executed it. (STOP_OTHER_CORE is answered
\* by two bytes if the core has stopped by itself; pac_soc_run_cmd knows.)
AnsweredMeansDone ==
    \A c \in Core \ astray :
        srv = "await" /\ asked = c /\ cmd # "other" /\ rspq[c] # <<>>
            => cmdq[c] = <<>>

\* The same for memory and register accesses, whatever happened before.
DataAnswered ==
    srv = "await" /\ cmd = "data" /\ rspq[asked] # <<>> => cmdq[asked] = <<>>

\* Between two commands of the client both FIFOs of a core are empty, however
\* many cores reported at the end of a run and whenever they did.
NothingLeft ==
    srv \in {"new", "idle"} =>
        \A c \in Core \ astray : cmdq[c] = <<>> /\ rspq[c] = <<>>

\* Between two commands of the client no core runs: what ends a run of several
\* cores for one of them ends it for all (pac_soc_run_cmd, be_stoped).
Running(c) ==
    /\ Alive(c) /\ be_stoped[c] = 0
    /\ \/ iss[c] \in {"resume", "cycle"}
       \/ iss[c] = "poll" /\ flag[c] = "run"
HaltTogether ==
    srv \in {"new", "idle"} => \A c \in Core \ astray : ~Running(c)

\* When a run is answered, the core that ended it still says that it is the one
\* (active_core_stop), for the client's STOP_REASON: STOP_OTHER_CORE, which
\* takes the mark away, went to the others only.
CulpritKnown ==
    srv = "pending" /\ gone = 0 /\ core_id \notin astray =>
        active_core_stop[core_id] = 1 /\ ~Running(core_id)

\* The program of a core that the client leaves out of its runs has ended
\* (have_reported of the client against eStopFlag of the core).
ShownHasExited ==
    \A c \in have_reported \ astray : ~Alive(c)

\* The read of iss_cmd_request waits for a core that is on its way to the command
\* FIFO, because the stop flag is still up (iss_shm_prot against the FIFO), or
\* that is in the step it answers with.
NeverWaitsInVain ==
    srv = "await" /\ rspq[asked] = <<>> /\ asked \notin astray \cup lost =>
        \/ cmdq[asked] # <<>> /\ flag[asked] = "stop"
        \/ /\ step_num[asked] = 1 /\ Alive(asked)
           /\ iss[asked] \in {"resume", "cycle"}

\* A command is answered, unless a core has overwritten a stop request
\* (SET_ISS_RUN at the end of pac_iss_wait).
CommandEnds ==
    srv \in {"post", "await", "pending"}
        ~> srv \in {"new", "idle", "select"} \/ lost # {}

\* A run is answered once a core has reported, with the same exception.
RunEnds ==
    srv = "select" /\ Reported # {} ~> srv \in {"new", "idle"} \/ lost # {}
=============================================================================
