--------------------------- MODULE GdbSessionProofs ---------------------------
(* Theorems about GdbSession, for any number of cores and commands.          *)
EXTENDS GdbSession, TLAPS

-----------------------------------------------------------------------------
(* FIFOs                                                                     *)

LEMMA PutOne ==
  ASSUME NEW S, NEW s \in Seq(S), NEW b \in S
  PROVE  s \o <<b>> \in Seq(S) /\ Len(s \o <<b>>) = Len(s) + 1
OBVIOUS

LEMMA PutTwo ==
  ASSUME NEW S, NEW s \in Seq(S), NEW a \in S, NEW b \in S
  PROVE  s \o <<a, b>> \in Seq(S) /\ Len(s \o <<a, b>>) = Len(s) + 2
OBVIOUS

LEMMA Taken ==
  ASSUME NEW S, NEW s \in Seq(S), s # <<>>
  PROVE  /\ Tail(s) \in Seq(S) /\ Len(Tail(s)) = Len(s) - 1
         /\ s[1] \in S
OBVIOUS

LEMMA Lengths ==
  ASSUME NEW S, NEW s \in Seq(S)
  PROVE  Len(s) \in Nat /\ (Len(s) = 0 <=> s = <<>>)
OBVIOUS

LEMMA Single ==
  ASSUME NEW k
  PROVE  /\ Append(<<>>, k) = <<k>> /\ <<k>> # <<>>
         /\ Tail(<<k>>) = <<>> /\ <<k>>[1] = k
OBVIOUS

-----------------------------------------------------------------------------
(* Types                                                                     *)

\* A step of a core keeps the types.
LEMMA IssType ==
  ASSUME TypeOK, NEW c \in Core, Iss(c)
  PROVE  TypeOK'
<1>1. cmdq[c] \in Seq(Kind) /\ rspq[c] \in Seq(Byte)
  BY DEF TypeOK
<1>2. cmdq[c] # <<>> => Tail(cmdq[c]) \in Seq(Kind)
  BY <1>1, Taken
<1>3. /\ \A b \in Byte : rspq[c] \o <<b>> \in Seq(Byte)
      /\ \A a, b \in Byte : rspq[c] \o <<a, b>> \in Seq(Byte)
  BY <1>1, PutOne, PutTwo
<1>4. "reply" \in Byte /\ "report" \in Byte /\ "semi" \in Byte
  BY DEF Byte
<1>5. CASE Poll(c)
  BY <1>5, <1>1, <1>2, <1>3, <1>4 DEF Poll, srv_vars, TypeOK
<1>6. CASE Resume(c)
  BY <1>6, <1>1, <1>2, <1>3, <1>4 DEF Resume, srv_vars, TypeOK
<1>7. CASE CmdData(c)
  BY <1>7, <1>1, <1>2, <1>3, <1>4 DEF CmdData, Takes, ToServer, srv_vars, TypeOK
<1>8. CASE CmdInit(c)
  BY <1>8, <1>1, <1>2, <1>3, <1>4 DEF CmdInit, Takes, ToServer, srv_vars, TypeOK
<1>9. CASE CmdStop(c)
  BY <1>9, <1>1, <1>2, <1>3, <1>4 DEF CmdStop, Takes, ToServer, srv_vars, TypeOK
<1>10. CASE CmdRunExited(c)
  BY <1>10, <1>1, <1>2, <1>3, <1>4 DEF CmdRunExited, Takes, ToServer, srv_vars, TypeOK
<1>11. CASE CmdRun(c)
  BY <1>11, <1>1, <1>2, <1>3, <1>4 DEF CmdRun, Takes, ToServer, srv_vars, TypeOK
<1>12. CASE CmdStep(c)
  BY <1>12, <1>1, <1>2, <1>3, <1>4 DEF CmdStep, Takes, srv_vars, TypeOK
<1>13. CASE CmdStopOther(c)
  BY <1>13, <1>1, <1>2, <1>3, <1>4 DEF CmdStopOther, Takes, ToServer, srv_vars, TypeOK
<1>14. CASE StepDone(c)
  BY <1>14, <1>1, <1>2, <1>3, <1>4 DEF StepDone, Turn, ToServer, srv_vars, TypeOK
<1>15. CASE StopsSilently(c)
  BY <1>15, <1>1, <1>2, <1>3, <1>4 DEF StopsSilently, Turn, srv_vars, TypeOK
<1>16. CASE Breaks(c)
  BY <1>16, <1>1, <1>2, <1>3, <1>4 DEF Breaks, Turn, Report, ToServer, srv_vars, TypeOK
<1>17. CASE CallsHost(c)
  BY <1>17, <1>1, <1>2, <1>3, <1>4 DEF CallsHost, Turn, Report, ToServer, srv_vars, TypeOK
<1>18. CASE Exits(c)
  BY <1>18, <1>1, <1>2, <1>3, <1>4 DEF Exits, Turn, Report, ToServer, srv_vars, TypeOK
<1>19. CASE RunsOn(c)
  BY <1>19, <1>1, <1>2, <1>3, <1>4 DEF RunsOn, Turn, srv_vars, TypeOK
<1>20. CASE Spins(c)
  BY <1>20, <1>1, <1>2, <1>3, <1>4 DEF Spins, Turn, srv_vars, TypeOK
<1>21. QED
  BY <1>5, <1>6, <1>7, <1>8, <1>9, <1>10, <1>11, <1>12, <1>13, <1>14, <1>15, <1>16, <1>17, <1>18, <1>19, <1>20 DEF Iss

LEMMA CoreType == 0 \in Core
BY CoresAssumption DEF Core

\* What the server takes off the FIFOs.
LEMMA TakeFromType ==
  ASSUME TypeOK, NEW R \in SUBSET Core, TakeFrom(R), \A c \in R : rspq[c] # <<>>
  PROVE  rspq' \in [Core -> Seq(Byte)]
<1>1. \A c \in R : Tail(rspq[c]) \in Seq(Byte)
  BY Taken DEF TypeOK
<1>2. QED
  BY <1>1 DEF TakeFrom, TypeOK

\* So does a step of the server or the client.
LEMMA ServerType ==
  ASSUME TypeOK, NEW c \in Core, NEW k \in Kind \ {"other"}, NEW m \in SUBSET Core,
         \/ Accept(k, m) \/ Post(c) \/ TakeReply \/ Collect \/ Interrupt \/ HangUp
         \/ Leave \/ PendingRead
  PROVE  TypeOK'
<1> USE CoreType DEF Unchanged_iss
<1>1. Reported \in SUBSET Core /\ Reported \ {core_id} \in SUBSET Core
  BY DEF TypeOK, Reported
<1>2. \A d \in Reported : rspq[d] # <<>>
  BY DEF Reported
<1>3. TakeFrom(Reported) => rspq' \in [Core -> Seq(Byte)]
  BY <1>1, <1>2, TakeFromType
<1>4. TakeFrom(Reported \ {core_id}) => rspq' \in [Core -> Seq(Byte)]
  BY <1>1, <1>2, TakeFromType
<1>5. cmd \in Kind => Append(cmdq[c], cmd) \in Seq(Kind)
  BY DEF TypeOK
<1>6. "init" \in Kind /\ "run" \in Kind /\ "stop" \in Kind /\ "other" \in Kind
  BY DEF Kind
<1>7. CASE Accept(k, m)
  BY <1>7 DEF Accept, TypeOK
<1>8. CASE Post(c)
  BY <1>8, <1>5 DEF Post, TypeOK
<1>9. CASE TakeReply
  <2>1. asked \in Core /\ Tail(rspq[asked]) \in Seq(Byte)
    BY <1>9, Taken DEF TakeReply, TypeOK
  <2>2. NewlyReported \subseteq Core
    BY DEF NewlyReported, Shown, TypeOK
  <2>3. srv' \in {"post", "select", "pending", "idle"}
    BY <1>9 DEF TakeReply
  <2>4. rspq' \in [Core -> Seq(Byte)]
    BY <1>9, <2>1 DEF TakeReply, TypeOK
  <2>5. have_reported' \subseteq Core
    BY <1>9, <2>2 DEF TakeReply, TypeOK
  <2>6. QED
    BY <1>9, <2>3, <2>4, <2>5 DEF TakeReply, TypeOK
<1>10. CASE Collect
  <2>1. PICK last \in Reported : StopOthers(last)
    BY <1>10 DEF Collect
  <2>2. last \in Core /\ TakeFrom(Reported) /\ todo' \subseteq Core /\ cmd' \in Kind
        /\ core_id' = last
    BY <1>1, <1>6, <2>1 DEF StopOthers, TypeOK
  <2>3. QED
    BY <1>10, <2>2, <1>3 DEF Collect, TypeOK
<1>11. CASE Interrupt
  BY <1>11, <1>6 DEF Interrupt, TypeOK
<1>12. CASE HangUp
  <2>1. PICK last \in Core : StopOthers(last)
    BY <1>12, <1>1 DEF HangUp
  <2>2. last \in Core /\ TakeFrom(Reported) /\ todo' \subseteq Core /\ cmd' \in Kind
        /\ core_id' = last
    BY <1>1, <1>6, <2>1 DEF StopOthers, TypeOK
  <2>3. astray' \subseteq Core /\ srv' \in {"new", "post"} /\ gone' \in {0, 1}
    BY <1>12 DEF HangUp, TypeOK
  <2>4. QED
    BY <1>12, <2>2, <2>3, <1>3 DEF HangUp, TypeOK
<1>13. CASE Leave
  BY <1>13 DEF Leave, iss_vars, TypeOK
<1>14. CASE PendingRead
  BY <1>14, <1>4 DEF PendingRead, TypeOK
<1>15. QED
  BY <1>7, <1>8, <1>9, <1>10, <1>11, <1>12, <1>13, <1>14

\* Every variable has its type; no state of the code is outside of the model.
THEOREM TypeCorrect == Spec => []TypeOK
<1>1. Init => TypeOK
  BY CoreType DEF Init, TypeOK, Kind
<1>2. TypeOK /\ [Next]_vars => TypeOK'
  <2> SUFFICES ASSUME TypeOK, [Next]_vars PROVE TypeOK'
    OBVIOUS
  <2>1. CASE UNCHANGED vars
    BY <2>1 DEF vars, iss_vars, srv_vars, TypeOK
  <2>2. CASE Next
    <3>1. "init" \in Kind \ {"other"} /\ {} \in SUBSET Core
      BY DEF Kind
    <3>2. ASSUME NEW c \in Core, Iss(c) PROVE TypeOK'
      BY <3>2, IssType
    <3>3. ASSUME NEW k \in Kind \ {"other"}, NEW m \in SUBSET Core, Accept(k, m)
          PROVE  TypeOK'
      BY <3>3, CoreType, ServerType
    <3>4. CASE Server
      <4>1. ASSUME NEW c \in Core, Post(c) PROVE TypeOK'
        BY <4>1, <3>1, ServerType
      <4>2. QED
        BY <3>4, <4>1, <3>1, CoreType, ServerType DEF Server
    <3>5. CASE Interrupt \/ HangUp \/ Leave
      BY <3>5, <3>1, CoreType, ServerType
    <3>6. QED
      BY <2>2, <3>2, <3>3, <3>4, <3>5 DEF Next
  <2>3. QED
    BY <2>1, <2>2
<1>3. QED
  BY <1>1, <1>2, PTL DEF Spec

-----------------------------------------------------------------------------
(* The channel of a core                                                     *)

\* What a command of the server makes of a core: it waits for its answer; it
\* has told it to stop, because another core has ended the run; it leaves it
\* running, or may do so. Otherwise the core is at rest.
InCommand == srv \in {"post", "await", "pending"}
Asked(c) == srv = "await" /\ asked = c
Swept(c) ==
  /\ cmd = "other" /\ InCommand /\ c \in mask \ todo /\ c # core_id /\ ~Asked(c)
Loose(c) ==
  /\ c \in mask /\ ~Asked(c)
  /\ \/ cmd = "run" /\ srv = "select"
     \/ cmd = "run" /\ srv \in {"post", "await"} /\ c \notin todo
     \/ cmd \in {"stop", "other"} /\ srv \in {"post", "await"} /\ c \in todo

Replies(c) == Len(rspq[c])

\* The command is still on its way ...
OnItsWay(c) ==
  /\ cmdq[c] = <<cmd>> /\ step_num[c] = 0
  /\ \/ Replies(c) = 0 /\ (Running(c) => cmd \in {"stop", "other"})
     \/ Replies(c) = 1 /\ cmd = "other" /\ ~Running(c)
\* ... or the core has taken it.
Executed(c) ==
  /\ cmdq[c] = <<>>
  /\ \/ cmd = "run" /\ step_num[c] = 0 /\ Replies(c) = 1
     \/ cmd = "run" /\ step_num[c] = 0 /\ Replies(c) = 2 /\ ~Running(c)
          /\ active_core_stop[c] = 1
     \/ cmd = "step" /\ step_num[c] = 1 /\ Replies(c) = 0
     \/ cmd = "other" /\ step_num[c] = 0 /\ Replies(c) \in {1, 2} /\ ~Running(c)
     \/ cmd \notin {"run", "other"} /\ step_num[c] = 0 /\ Replies(c) = 1 /\ ~Running(c)
IsSwept(c) ==
  /\ step_num[c] = 0 /\ ~Running(c)
  /\ \/ cmdq[c] = <<"other">> /\ Replies(c) = 0
     \/ cmdq[c] = <<>> /\ Replies(c) \in {0, 1}
IsLoose(c) ==
  /\ step_num[c] = 0 /\ cmdq[c] = <<>>
  /\ \/ Replies(c) = 0
     \/ Replies(c) = 1 /\ ~Running(c) /\ active_core_stop[c] = 1
AtRest(c) ==
  /\ step_num[c] = 0 /\ cmdq[c] = <<>> /\ Replies(c) = 0 /\ ~Running(c)

Channel(c) ==
  /\ Asked(c) => (OnItsWay(c) \/ Executed(c))
  /\ Swept(c) => IsSwept(c)
  /\ Loose(c) => IsLoose(c)
  /\ Asked(c) \/ Swept(c) \/ Loose(c) \/ AtRest(c)

\* The core that has ended a run says so until the run is answered.
Culprit ==
  cmd = "other" /\ InCommand /\ gone = 0 /\ core_id \notin astray =>
     active_core_stop[core_id] = 1

\* How the server gets through a command.
Progress ==
  /\ todo \subseteq mask
  /\ srv = "await" => asked \in mask \ todo
  /\ srv \in {"new", "idle", "select", "pending"} => todo = {}
  /\ srv = "select" => cmd = "run"
  /\ srv = "pending" => cmd = "other"
  /\ cmd = "other" /\ InCommand => core_id \notin todo /\ ~Asked(core_id)
  /\ srv \in {"post", "await", "select", "pending"}
        /\ cmd \notin {"data", "reason"} => mask \cap have_reported = {}

IInv ==
  /\ Progress
  /\ \A c \in Core \ astray : Channel(c)
  /\ Culprit
  /\ ShownHasExited

-----------------------------------------------------------------------------
(* What a step of a core does to its channel                                 *)

\* Nothing, and it does not start to run.
Keeps(c) ==
  /\ cmdq'[c] = cmdq[c] /\ Replies(c)' = Replies(c)
  /\ step_num'[c] = step_num[c] /\ active_core_stop'[c] = active_core_stop[c]
  /\ Running(c)' => Running(c)
\* It stops by itself and says so.
Reports(c) ==
  /\ Running(c) /\ step_num[c] = 0
  /\ cmdq'[c] = cmdq[c] /\ Replies(c)' = Replies(c) + 1
  /\ step_num'[c] = 0 /\ active_core_stop'[c] = 1 /\ ~Running(c)'
  /\ Crosses(c) => c \in astray'
EndsStep(c) ==
  /\ step_num[c] = 1 /\ step_num'[c] = 0
  /\ cmdq'[c] = cmdq[c] /\ Replies(c)' = Replies(c) + 1 /\ ~Running(c)'
\* It executes a command.
Executes(c) ==
  /\ cmdq[c] # <<>> /\ cmdq'[c] = Tail(cmdq[c]) /\ ~Running(c)
  /\ \/ /\ cmdq[c][1] = "run" /\ Replies(c)' = Replies(c) + 1 /\ step_num'[c] = 0
     \/ /\ cmdq[c][1] = "run" /\ Replies(c)' = Replies(c) + 2
        /\ ~Running(c)' /\ active_core_stop'[c] = 1 /\ step_num'[c] = step_num[c]
     \/ /\ cmdq[c][1] = "step" /\ Replies(c)' = Replies(c) /\ step_num'[c] = 1
     \/ /\ cmdq[c][1] \notin {"run", "step"} /\ Replies(c)' = Replies(c) + 1
        /\ ~Running(c)' /\ step_num'[c] \in {0, step_num[c]}

LEMMA IssDoes ==
  ASSUME TypeOK, NEW c \in Core, Iss(c)
  PROVE  Keeps(c) \/ Reports(c) \/ EndsStep(c) \/ Executes(c)
<1>1. cmdq[c] \in Seq(Kind) /\ rspq[c] \in Seq(Byte)
  BY DEF TypeOK
<1>2. \A b \in Byte : Len(rspq[c] \o <<b>>) = Len(rspq[c]) + 1
  BY <1>1, PutOne
<1>3. Len(rspq[c] \o <<"reply", "report">>) = Len(rspq[c]) + 2
  BY <1>1, PutTwo DEF Byte
<1>4. "reply" \in Byte /\ "report" \in Byte /\ "semi" \in Byte
  BY DEF Byte
<1>5. Poll(c) => Keeps(c)
  BY <1>2, <1>3, <1>4 DEF Poll, Keeps, Replies, Running, Alive, TypeOK
<1>6. Resume(c) => Keeps(c)
  BY <1>2, <1>3, <1>4 DEF Resume, Keeps, Replies, Running, Alive, TypeOK
<1>7. CmdData(c) => Executes(c)
  BY <1>2, <1>3, <1>4 DEF CmdData, Takes, ToServer, Executes, Replies, Running, Alive, TypeOK
<1>8. CmdInit(c) => Executes(c)
  BY <1>2, <1>3, <1>4 DEF CmdInit, Takes, ToServer, Executes, Replies, Running, Alive, TypeOK
<1>9. CmdStop(c) => Executes(c)
  BY <1>2, <1>3, <1>4 DEF CmdStop, Takes, ToServer, Executes, Replies, Running, Alive, TypeOK
<1>10. CmdRunExited(c) => Executes(c)
  BY <1>2, <1>3, <1>4 DEF CmdRunExited, Takes, ToServer, Executes, Replies, Running, Alive, TypeOK
<1>11. CmdRun(c) => Executes(c)
  BY <1>2, <1>3, <1>4 DEF CmdRun, Takes, ToServer, Executes, Replies, Running, Alive, TypeOK
<1>12. CmdStep(c) => Executes(c)
  BY <1>2, <1>3, <1>4 DEF CmdStep, Takes, Executes, Replies, Running, Alive, TypeOK
<1>13. CmdStopOther(c) => Executes(c)
  BY <1>2, <1>3, <1>4 DEF CmdStopOther, Takes, ToServer, Executes, Replies, Running, Alive, TypeOK
<1>14. StepDone(c) => EndsStep(c)
  BY <1>2, <1>3, <1>4 DEF StepDone, Turn, ToServer, EndsStep, Replies, Running, Alive, TypeOK
<1>15. StopsSilently(c) => Keeps(c)
  BY <1>2, <1>3, <1>4 DEF StopsSilently, Turn, Keeps, Replies, Running, Alive, TypeOK
<1>16. Breaks(c) => Reports(c)
  BY <1>2, <1>3, <1>4 DEF Breaks, Turn, Report, ToServer, Crosses, Free, Reports, Replies, Running, Alive, TypeOK
<1>17. CallsHost(c) => Reports(c)
  BY <1>2, <1>3, <1>4 DEF CallsHost, Turn, Report, ToServer, Crosses, Free, Reports, Replies, Running, Alive, TypeOK
<1>18. Exits(c) => Reports(c)
  BY <1>2, <1>3, <1>4 DEF Exits, Turn, Report, ToServer, Crosses, Free, Reports, Replies, Running, Alive, TypeOK
<1>19. RunsOn(c) => Keeps(c)
  BY <1>2, <1>3, <1>4 DEF RunsOn, Turn, Free, Keeps, Replies, Running, Alive, TypeOK
<1>20. Spins(c) => Keeps(c)
  BY <1>2, <1>3, <1>4 DEF Spins, Turn, Keeps, Replies, Running, Alive, TypeOK
<1>21. QED
  BY <1>5, <1>6, <1>7, <1>8, <1>9, <1>10, <1>11, <1>12, <1>13, <1>14, <1>15, <1>16, <1>17, <1>18, <1>19, <1>20 DEF Iss

\* What it leaves alone.
LEMMA IssKeeps ==
  ASSUME TypeOK, NEW c \in Core, Iss(c)
  PROVE  /\ UNCHANGED <<srv, cmd, mask, todo, asked, core_id, gone, have_reported>>
         /\ astray \subseteq astray'
         /\ \A d \in Core \ {c} :
              /\ cmdq'[d] = cmdq[d] /\ rspq'[d] = rspq[d]
              /\ step_num'[d] = step_num[d]
              /\ active_core_stop'[d] = active_core_stop[d]
              /\ iss'[d] = iss[d] /\ flag'[d] = flag[d]
              /\ eStopFlag'[d] = eStopFlag[d] /\ be_stoped'[d] = be_stoped[d]
<1>1. CASE Poll(c)
  BY <1>1 DEF Poll, srv_vars, TypeOK
<1>2. CASE Resume(c)
  BY <1>2 DEF Resume, srv_vars, TypeOK
<1>3. CASE CmdData(c)
  BY <1>3 DEF CmdData, Takes, ToServer, srv_vars, TypeOK
<1>4. CASE CmdInit(c)
  BY <1>4 DEF CmdInit, Takes, ToServer, srv_vars, TypeOK
<1>5. CASE CmdStop(c)
  BY <1>5 DEF CmdStop, Takes, ToServer, srv_vars, TypeOK
<1>6. CASE CmdRunExited(c)
  BY <1>6 DEF CmdRunExited, Takes, ToServer, srv_vars, TypeOK
<1>7. CASE CmdRun(c)
  BY <1>7 DEF CmdRun, Takes, ToServer, srv_vars, TypeOK
<1>8. CASE CmdStep(c)
  BY <1>8 DEF CmdStep, Takes, srv_vars, TypeOK
<1>9. CASE CmdStopOther(c)
  BY <1>9 DEF CmdStopOther, Takes, ToServer, srv_vars, TypeOK
<1>10. CASE StepDone(c)
  BY <1>10 DEF StepDone, Turn, ToServer, srv_vars, TypeOK
<1>11. CASE StopsSilently(c)
  BY <1>11 DEF StopsSilently, Turn, srv_vars, TypeOK
<1>12. CASE Breaks(c)
  BY <1>12 DEF Breaks, Turn, Report, ToServer, srv_vars, TypeOK
<1>13. CASE CallsHost(c)
  BY <1>13 DEF CallsHost, Turn, Report, ToServer, srv_vars, TypeOK
<1>14. CASE Exits(c)
  BY <1>14 DEF Exits, Turn, Report, ToServer, srv_vars, TypeOK
<1>15. CASE RunsOn(c)
  BY <1>15 DEF RunsOn, Turn, srv_vars, TypeOK
<1>16. CASE Spins(c)
  BY <1>16 DEF Spins, Turn, srv_vars, TypeOK
<1>17. QED
  BY <1>1, <1>2, <1>3, <1>4, <1>5, <1>6, <1>7, <1>8, <1>9, <1>10, <1>11, <1>12, <1>13, <1>14, <1>15, <1>16 DEF Iss

\* The channel of the core that takes the step stays in step with the server.
LEMMA IssChannel ==
  ASSUME TypeOK, NEW c \in Core, Iss(c), Channel(c), c \notin astray'
  PROVE  Channel(c)'
<1>1. UNCHANGED <<srv, cmd, mask, todo, asked, core_id>>
  BY IssKeeps
<1>2. /\ Asked(c)' <=> Asked(c)
      /\ Swept(c)' <=> Swept(c)
      /\ Loose(c)' <=> Loose(c)
  BY <1>1 DEF Asked, Swept, Loose, InCommand
<1>3. Replies(c) \in Nat /\ cmdq[c] \in Seq(Kind) /\ cmd \in Kind
  BY Lengths DEF TypeOK, Replies
<1>4. Keeps(c) \/ Reports(c) \/ EndsStep(c) \/ Executes(c)
  BY IssDoes
<1>5. ASSUME OnItsWay(c) PROVE OnItsWay(c)' \/ Executed(c)'
  <2>1. <<cmd>> # <<>> /\ Tail(<<cmd>>) = <<>> /\ <<cmd>>[1] = cmd
    BY Single
  <2>2. CASE Keeps(c)
    BY <1>1, <1>5, <2>2 DEF OnItsWay, Keeps
  <2>3. CASE Reports(c)
    <3>1. cmd = "other" /\ Replies(c) = 0
      BY <1>5, <2>1, <2>3 DEF OnItsWay, Reports, Crosses
    <3>2. QED
      BY <1>1, <1>5, <2>3, <3>1 DEF OnItsWay, Reports
  <2>4. ~EndsStep(c)
    BY <1>5 DEF OnItsWay, EndsStep
  <2>5. CASE Executes(c)
    <3>1. cmdq'[c] = <<>> /\ cmdq[c][1] = cmd
      BY <1>5, <2>1, <2>5 DEF OnItsWay, Executes
    <3>2. CASE cmd = "other"
      BY <1>1, <1>5, <2>5, <3>1, <3>2 DEF OnItsWay, Executes, Executed
    <3>3. CASE cmd # "other"
      BY <1>1, <1>5, <2>5, <3>1, <3>3 DEF OnItsWay, Executes, Executed
    <3>4. QED
      BY <3>2, <3>3
  <2>6. QED
    BY <1>4, <2>2, <2>3, <2>4, <2>5
<1>6. ASSUME Executed(c) PROVE Executed(c)'
  <2>1. ~Executes(c)
    BY <1>6 DEF Executed, Executes
  <2>2. CASE Keeps(c)
    BY <1>1, <1>6, <2>2 DEF Executed, Keeps
  <2>3. CASE Reports(c)
    BY <1>1, <1>6, <2>3 DEF Executed, Reports
  <2>4. CASE EndsStep(c)
    BY <1>1, <1>6, <2>4 DEF Executed, EndsStep
  <2>5. QED
    BY <1>4, <2>1, <2>2, <2>3, <2>4
<1>7. ASSUME IsSwept(c) PROVE IsSwept(c)'
  <2>1. ~Reports(c) /\ ~EndsStep(c)
    BY <1>7 DEF IsSwept, Reports, EndsStep
  <2>2. CASE Keeps(c)
    BY <1>7, <2>2 DEF IsSwept, Keeps
  <2>3. CASE Executes(c)
    <3>1. cmdq[c] = <<"other">> /\ cmdq'[c] = <<>> /\ cmdq[c][1] = "other"
      BY <1>7, <2>3, Single DEF IsSwept, Executes
    <3>2. QED
      BY <1>7, <2>3, <3>1 DEF IsSwept, Executes
  <2>4. QED
    BY <1>4, <2>1, <2>2, <2>3
<1>8. ASSUME IsLoose(c) PROVE IsLoose(c)'
  <2>1. ~Executes(c) /\ ~EndsStep(c)
    BY <1>8 DEF IsLoose, Executes, EndsStep
  <2>2. CASE Keeps(c)
    BY <1>8, <2>2 DEF IsLoose, Keeps
  <2>3. CASE Reports(c)
    BY <1>8, <2>3 DEF IsLoose, Reports
  <2>4. QED
    BY <1>4, <2>1, <2>2, <2>3
<1>9. ASSUME AtRest(c) PROVE AtRest(c)'
  <2>1. ~Executes(c) /\ ~EndsStep(c) /\ ~Reports(c)
    BY <1>9 DEF AtRest, Executes, EndsStep, Reports
  <2>2. QED
    BY <1>4, <1>9, <2>1 DEF AtRest, Keeps
<1>10. QED
  BY <1>2, <1>5, <1>6, <1>7, <1>8, <1>9 DEF Channel

\* The state of a core's channel, as far as another process leaves it alone.
LEMMA Stays ==
  ASSUME NEW c,
         cmdq'[c] = cmdq[c], rspq'[c] = rspq[c], step_num'[c] = step_num[c],
         active_core_stop'[c] = active_core_stop[c], iss'[c] = iss[c],
         flag'[c] = flag[c], eStopFlag'[c] = eStopFlag[c],
         be_stoped'[c] = be_stoped[c]
  PROVE  /\ Running(c)' <=> Running(c)
         /\ cmd' = cmd => (OnItsWay(c) => OnItsWay(c)')
         /\ cmd' = cmd => (Executed(c) => Executed(c)')
         /\ IsSwept(c) => IsSwept(c)'
         /\ IsLoose(c) => IsLoose(c)'
         /\ AtRest(c) => AtRest(c)'
<1>1. Running(c)' <=> Running(c)
  BY DEF Running, Alive
<1>2. Replies(c)' = Replies(c)
  BY DEF Replies
<1>3. QED
  BY <1>1, <1>2 DEF OnItsWay, Executed, IsSwept, IsLoose, AtRest

-----------------------------------------------------------------------------
(* Steps of a core                                                           *)

\* A program that has ended starts again only at a command.
LEMMA Revived ==
  ASSUME TypeOK, NEW c \in Core, Iss(c), ~Alive(c), Alive(c)'
  PROVE  cmdq[c] # <<>> /\ cmdq[c][1] \in {"init", "stop", "step"}
<1>1. CASE Poll(c)
  BY <1>1 DEF Poll, Alive, TypeOK
<1>2. CASE Resume(c)
  BY <1>2 DEF Resume, Alive, TypeOK
<1>3. CASE CmdData(c)
  BY <1>3 DEF CmdData, Takes, Alive, TypeOK
<1>4. CASE CmdInit(c)
  BY <1>4 DEF CmdInit, Takes, Alive, TypeOK
<1>5. CASE CmdStop(c)
  BY <1>5 DEF CmdStop, Takes, Alive, TypeOK
<1>6. CASE CmdRunExited(c)
  BY <1>6 DEF CmdRunExited, Takes, Alive, TypeOK
<1>7. CASE CmdRun(c)
  BY <1>7 DEF CmdRun, Takes, Alive, TypeOK
<1>8. CASE CmdStep(c)
  BY <1>8 DEF CmdStep, Takes, Alive, TypeOK
<1>9. CASE CmdStopOther(c)
  BY <1>9 DEF CmdStopOther, Takes, Alive, TypeOK
<1>10. CASE StepDone(c)
  BY <1>10 DEF StepDone, Alive, TypeOK
<1>11. CASE StopsSilently(c)
  BY <1>11 DEF StopsSilently, Alive, TypeOK
<1>12. CASE Breaks(c)
  BY <1>12 DEF Breaks, Free, Alive, TypeOK
<1>13. CASE CallsHost(c)
  BY <1>13 DEF CallsHost, Free, Alive, TypeOK
<1>14. CASE Exits(c)
  BY <1>14 DEF Exits, Free, Alive, TypeOK
<1>15. CASE RunsOn(c)
  BY <1>15 DEF RunsOn, Free, Alive, TypeOK
<1>16. CASE Spins(c)
  BY <1>16 DEF Spins, Alive, TypeOK
<1>17. QED
  BY <1>1, <1>2, <1>3, <1>4, <1>5, <1>6, <1>7, <1>8, <1>9, <1>10, <1>11, <1>12, <1>13, <1>14, <1>15, <1>16 DEF Iss

LEMMA IssStep ==
  ASSUME TypeOK, IInv, NEW c \in Core, Iss(c)
  PROVE  IInv'
<1>1. UNCHANGED <<srv, cmd, mask, todo, asked, core_id, gone, have_reported>>
  BY IssKeeps
<1>2. astray \subseteq astray'
  BY IssKeeps
<1>3. Progress'
  BY <1>1 DEF IInv, Progress, InCommand, Asked
<1>4. ASSUME NEW d \in Core, d \notin astray' PROVE Channel(d)'
  <2>1. d \notin astray /\ Channel(d)
    BY <1>2, <1>4 DEF IInv
  <2>2. CASE d = c
    BY <1>4, <2>1, <2>2, IssChannel
  <2>3. CASE d # c
    <3>1. /\ Asked(d)' <=> Asked(d)
          /\ Swept(d)' <=> Swept(d)
          /\ Loose(d)' <=> Loose(d)
      BY <1>1 DEF Asked, Swept, Loose, InCommand
    <3>2. /\ cmdq'[d] = cmdq[d] /\ rspq'[d] = rspq[d] /\ step_num'[d] = step_num[d]
          /\ active_core_stop'[d] = active_core_stop[d] /\ iss'[d] = iss[d]
          /\ flag'[d] = flag[d] /\ eStopFlag'[d] = eStopFlag[d]
          /\ be_stoped'[d] = be_stoped[d]
      BY <2>3, IssKeeps
    <3>3. /\ OnItsWay(d) => OnItsWay(d)'
          /\ Executed(d) => Executed(d)'
          /\ IsSwept(d) => IsSwept(d)'
          /\ IsLoose(d) => IsLoose(d)'
          /\ AtRest(d) => AtRest(d)'
      BY <1>1, <3>2, Stays
    <3>4. QED
      BY <2>1, <3>1, <3>3 DEF Channel
  <2>4. QED
    BY <2>2, <2>3
<1>5. Culprit'
  <2> SUFFICES ASSUME cmd = "other", InCommand, gone = 0, core_id \notin astray'
               PROVE  active_core_stop'[core_id] = 1
    BY <1>1 DEF Culprit, InCommand
  <2>1. active_core_stop[core_id] = 1
    BY <1>2 DEF IInv, Culprit
  <2>2. CASE core_id # c
    BY <2>1, <2>2, IssKeeps DEF TypeOK
  <2>3. CASE core_id = c
    <3>1. Channel(c) /\ ~Asked(c) /\ c \notin todo
      BY <1>2, <2>3 DEF IInv, Progress
    <3>2. ~Swept(c) /\ ~Loose(c)
      BY <2>3, <3>1 DEF Swept, Loose
    <3>3. AtRest(c)
      BY <3>1, <3>2 DEF Channel
    <3>4. Keeps(c)
      BY <3>3, IssDoes DEF AtRest, Executes, EndsStep, Reports
    <3>5. QED
      BY <2>1, <2>3, <3>4 DEF Keeps
  <2>4. QED
    BY <2>2, <2>3
<1>6. ShownHasExited'
  <2> SUFFICES ASSUME NEW d \in have_reported, d \notin astray', Alive(d)' PROVE FALSE
    BY <1>1 DEF ShownHasExited
  <2>1. d \in Core /\ d \notin astray /\ ~Alive(d)
    BY <1>2 DEF TypeOK, IInv, ShownHasExited
  <2>2. d = c
    BY <2>1, IssKeeps DEF Alive
  <2>3. cmdq[d] # <<>> /\ cmdq[d][1] \in {"init", "stop", "step"}
    BY <2>1, <2>2, Revived
  <2>4. Channel(d)
    BY <2>1 DEF IInv
  <2>5. ~IsSwept(d) /\ ~IsLoose(d) /\ ~AtRest(d) /\ ~Executed(d)
    BY <2>3, Single DEF IsSwept, IsLoose, AtRest, Executed
  <2>6. Asked(d) /\ OnItsWay(d)
    BY <2>4, <2>5 DEF Channel
  <2>7. cmd \in {"init", "stop", "step"} /\ srv = "await" /\ d = asked
    BY <2>3, <2>6, Single DEF Asked, OnItsWay
  <2>8. d \in mask /\ mask \cap have_reported = {}
    BY <2>7 DEF IInv, Progress
  <2>9. QED
    BY <2>8
<1>7. QED
  BY <1>3, <1>4, <1>5, <1>6 DEF IInv

-----------------------------------------------------------------------------
(* Steps of the server and the client                                        *)

\* A core that no command is about is at rest, and stays so.
LEMMA RestStep ==
  ASSUME NEW c, AtRest(c), UNCHANGED <<flag, cmdq>>, Unchanged_iss,
         rspq'[c] = rspq[c]
  PROVE  AtRest(c)'
BY Stays DEF Unchanged_iss

LEMMA LooseStep ==
  ASSUME NEW c, IsLoose(c), UNCHANGED <<flag, cmdq>>, Unchanged_iss,
         rspq'[c] = rspq[c]
  PROVE  IsLoose(c)'
BY Stays DEF Unchanged_iss

\* What its phase says of a channel.
LEMMA Phases ==
  ASSUME NEW c, Channel(c)
  PROVE  /\ Loose(c) => IsLoose(c)
         /\ Swept(c) => IsSwept(c)
         /\ Asked(c) => OnItsWay(c) \/ Executed(c)
         /\ ~Loose(c) /\ ~Swept(c) /\ ~Asked(c) => AtRest(c)
BY DEF Channel

LEMMA Idle ==
  ASSUME TypeOK, IInv, NEW c \in Core, c \notin astray, srv \in {"new", "idle"}
  PROVE  AtRest(c)
<1>1. ~Asked(c) /\ ~Swept(c) /\ ~Loose(c)
  BY DEF Asked, Swept, Loose, InCommand
<1>2. QED
  BY <1>1, Phases DEF IInv

\* A core at rest may be let loose: it has nothing to say.
LEMMA RestIsLoose ==
  ASSUME NEW c, AtRest(c)
  PROVE  IsLoose(c)
BY DEF AtRest, IsLoose

LEMMA AcceptStep ==
  ASSUME TypeOK, IInv, NEW k \in Kind \ {"other"}, NEW m \in SUBSET Core,
         Accept(k, m)
  PROVE  IInv'
<1>1. srv \in {"new", "idle"} /\ srv' \in {"idle", "post"} /\ cmd' = k
  BY DEF Accept
<1>2. UNCHANGED <<flag, cmdq, rspq, asked, core_id, gone, astray>> /\ Unchanged_iss
  BY DEF Accept
<1>3. todo' = mask' /\ (srv' = "idle" => mask' = {})
  BY DEF Accept
<1>4. k \notin {"data", "reason"} => mask' \cap have_reported' = {}
  <2>1. CASE k \in {"run", "step", "stop"}
    BY <2>1 DEF Accept
  <2>2. CASE k = "init"
    BY <2>2 DEF Accept
  <2>3. QED
    BY <2>1, <2>2 DEF Kind
<1>5. Progress'
  BY <1>1, <1>3, <1>4 DEF Progress, InCommand, Asked
<1>6. ASSUME NEW c \in Core, c \notin astray PROVE Channel(c)'
  <2>1. AtRest(c)'
    BY <1>1, <1>2, <1>6, Idle, RestStep
  <2>2. IsLoose(c)'
    BY <1>1, <1>2, <1>6, Idle, RestIsLoose, LooseStep
  <2>3. ~Asked(c)' /\ ~Swept(c)'
    BY <1>1 DEF Asked, Swept
  <2>4. QED
    BY <2>1, <2>2, <2>3 DEF Channel
<1>7. Culprit'
  BY <1>1 DEF Culprit
<1>8. ShownHasExited'
  <2>1. have_reported' \subseteq have_reported
    BY DEF Accept
  <2>2. QED
    BY <1>2, <2>1 DEF IInv, ShownHasExited, Alive, Unchanged_iss
<1>9. QED
  BY <1>2, <1>5, <1>6, <1>7, <1>8 DEF IInv

LEMMA LeaveStep ==
  ASSUME TypeOK, IInv, Leave
  PROVE  IInv'
<1>1. srv = "idle" /\ srv' = "new" /\ Unchanged_iss
      /\ UNCHANGED <<flag, cmdq, rspq, cmd, mask, todo, asked, core_id, gone,
                     have_reported, astray>>
  BY DEF Leave, iss_vars, Unchanged_iss
<1>2. Progress'
  BY <1>1 DEF IInv, Progress, InCommand
<1>3. ASSUME NEW c \in Core, c \notin astray PROVE Channel(c)'
  <2>1. AtRest(c)'
    BY <1>1, <1>3, Idle, RestStep
  <2>2. ~Asked(c)' /\ ~Swept(c)' /\ ~Loose(c)'
    BY <1>1 DEF Asked, Swept, Loose, InCommand
  <2>3. QED
    BY <2>1, <2>2 DEF Channel
<1>4. Culprit'
  BY <1>1 DEF Culprit, InCommand
<1>5. ShownHasExited'
  BY <1>1 DEF IInv, ShownHasExited, Alive, Unchanged_iss
<1>6. QED
  BY <1>1, <1>2, <1>3, <1>4, <1>5 DEF IInv

LEMMA InterruptStep ==
  ASSUME TypeOK, IInv, Interrupt
  PROVE  IInv'
<1>1. srv = "select" /\ srv' = "post" /\ cmd' = "stop" /\ todo' = mask /\ Unchanged_iss
      /\ UNCHANGED <<flag, cmdq, rspq, mask, asked, core_id, gone, have_reported,
                     astray>>
  BY DEF Interrupt
<1>2. cmd = "run" /\ todo = {}
  BY <1>1 DEF IInv, Progress
<1>3. Progress'
  BY <1>1, <1>2 DEF IInv, Progress, InCommand, Asked
<1>4. ASSUME NEW c \in Core, c \notin astray PROVE Channel(c)'
  <2>1. ~Asked(c) /\ ~Swept(c) /\ (Loose(c) <=> c \in mask)
    BY <1>1, <1>2 DEF Asked, Swept, Loose
  <2>2. ~Asked(c)' /\ ~Swept(c)' /\ (Loose(c)' <=> c \in mask)
    BY <1>1 DEF Asked, Swept, Loose
  <2>3. Channel(c)
    BY <1>4 DEF IInv
  <2>4. CASE c \in mask
    BY <1>1, <2>1, <2>2, <2>3, <2>4, LooseStep, Phases DEF Channel
  <2>5. CASE c \notin mask
    BY <1>1, <2>1, <2>2, <2>3, <2>5, RestStep, Phases DEF Channel
  <2>6. QED
    BY <2>4, <2>5
<1>5. Culprit'
  BY <1>1 DEF Culprit
<1>6. ShownHasExited'
  BY <1>1 DEF IInv, ShownHasExited, Alive, Unchanged_iss
<1>7. QED
  BY <1>1, <1>3, <1>4, <1>5, <1>6 DEF IInv

LEMMA PostStep ==
  ASSUME TypeOK, IInv, NEW c \in Core, Post(c)
  PROVE  IInv'
<1>1. srv = "post" /\ srv' = "await" /\ asked' = c /\ todo' = todo \ {c} /\ c \in todo
      /\ UNCHANGED <<rspq, cmd, mask, core_id, gone, have_reported>> /\ Unchanged_iss
  BY DEF Post
<1>2. astray \subseteq astray'
      /\ (c \notin astray' => rspq[c] = <<>> \/ cmd = "other")
  BY DEF Post
<1>3. \A d \in Core \ {c} : cmdq'[d] = cmdq[d] /\ flag'[d] = flag[d]
  BY DEF Post, TypeOK
<1>4. flag'[c] = "stop" /\ cmdq'[c] = Append(cmdq[c], cmd)
  BY DEF Post, TypeOK
<1>5. c \in mask
  BY <1>1 DEF IInv, Progress
<1>6. Progress'
  BY <1>1, <1>5 DEF IInv, Progress, InCommand, Asked
<1>7. ASSUME NEW d \in Core, d \notin astray' PROVE Channel(d)'
  <2>1. d \notin astray /\ Channel(d)
    BY <1>2, <1>7 DEF IInv
  <2>2. CASE d = c
    <3>1. ~Asked(c) /\ ~Swept(c) /\ (Loose(c) <=> cmd \in {"stop", "other"})
      BY <1>1, <1>5 DEF Asked, Swept, Loose
    <3>2. Asked(c)' /\ ~Swept(c)' /\ ~Loose(c)'
      BY <1>1 DEF Asked, Swept, Loose
    <3>3. Running(c)' => Running(c)
      BY <1>1, <1>4 DEF Running, Alive, Unchanged_iss
    <3>4. Replies(c)' = Replies(c) /\ Replies(c) \in Nat
          /\ (Replies(c) = 0 <=> rspq[c] = <<>>)
      BY <1>1, Lengths DEF Replies, TypeOK
    <3>5. cmdq[c] = <<>> /\ step_num[c] = 0
      BY <2>1, <2>2, <3>1, Phases DEF IsLoose, AtRest
    <3>6. cmdq'[c] = <<cmd>> /\ step_num'[c] = 0
      BY <1>1, <1>4, <3>5, Single DEF Unchanged_iss
    <3>7. CASE cmd \in {"stop", "other"}
      <4>1. IsLoose(c)
        BY <2>1, <2>2, <3>1, <3>7, Phases
      <4>2. ASSUME Replies(c) = 0 PROVE OnItsWay(c)'
        BY <1>1, <3>4, <3>6, <3>7, <4>2 DEF OnItsWay
      <4>3. ASSUME Replies(c) # 0 PROVE OnItsWay(c)'
        <5>1. cmd = "other"
          BY <1>2, <1>7, <2>2, <3>4, <4>3
        <5>2. QED
          BY <1>1, <3>3, <3>4, <3>6, <4>1, <4>3, <5>1 DEF OnItsWay, IsLoose
      <4>4. QED
        BY <2>2, <3>2, <4>2, <4>3 DEF Channel
    <3>8. CASE cmd \notin {"stop", "other"}
      <4>1. AtRest(c)
        BY <2>1, <2>2, <3>1, <3>8, Phases
      <4>2. OnItsWay(c)'
        BY <1>1, <3>3, <3>4, <3>6, <4>1 DEF OnItsWay, AtRest
      <4>3. QED
        BY <2>2, <3>2, <4>2 DEF Channel
    <3>9. QED
      BY <3>7, <3>8
  <2>3. CASE d # c
    <3>1. ~Asked(d) /\ ~Asked(d)' /\ (Swept(d)' <=> Swept(d)) /\ (Loose(d)' <=> Loose(d))
      BY <1>1, <2>3 DEF Asked, Swept, Loose, InCommand
    <3>2. /\ IsSwept(d) => IsSwept(d)'
          /\ IsLoose(d) => IsLoose(d)'
          /\ AtRest(d) => AtRest(d)'
      BY <1>1, <1>3, <2>3, Stays DEF Unchanged_iss
    <3>3. QED
      BY <2>1, <3>1, <3>2 DEF Channel
  <2>4. QED
    BY <2>2, <2>3
<1>8. Culprit'
  BY <1>1, <1>2 DEF IInv, Culprit, InCommand, Unchanged_iss
<1>9. ShownHasExited'
  BY <1>1, <1>2 DEF IInv, ShownHasExited, Alive, Unchanged_iss
<1>10. QED
  BY <1>6, <1>7, <1>8, <1>9 DEF IInv

LEMMA TakeReplyStep ==
  ASSUME TypeOK, IInv, TakeReply
  PROVE  IInv'
<1>0. PICK c \in Core : c = asked
  BY DEF TypeOK
<1>1. srv = "await" /\ rspq[c] # <<>>
      /\ UNCHANGED <<flag, cmdq, cmd, mask, todo, asked, core_id, gone, astray>>
      /\ Unchanged_iss
  BY <1>0 DEF TakeReply
<1>2. c \in Core /\ c \in mask /\ c \notin todo /\ todo \subseteq mask
      /\ (cmd = "other" => core_id \notin todo /\ core_id # c)
  BY <1>0, <1>1 DEF IInv, Progress, Asked, InCommand
<1>3. srv' = IF todo # {} THEN "post"
             ELSE CASE cmd = "run"   -> "select"
                    [] cmd = "other" -> "pending"
                    [] OTHER         -> "idle"
  BY DEF TakeReply
<1>4. /\ srv' \in {"post", "select", "pending", "idle"}
      /\ srv' = "post" <=> todo # {}
      /\ srv' = "select" <=> todo = {} /\ cmd = "run"
      /\ srv' = "pending" <=> todo = {} /\ cmd = "other"
  BY <1>3
<1>5. have_reported' = IF todo = {} /\ cmd = "reason"
                       THEN have_reported \cup NewlyReported ELSE have_reported
  BY DEF TakeReply
<1>6. Progress'
  BY <1>1, <1>2, <1>4, <1>5 DEF IInv, Progress, InCommand, Asked
<1>7. ASSUME NEW d \in Core, d \notin astray PROVE Channel(d)'
  <2>1. Channel(d)
    BY <1>7 DEF IInv
  <2>2. ~Asked(d)'
    BY <1>4 DEF Asked
  <2>3. CASE d = c
    <3>1. Asked(c) /\ (OnItsWay(c) \/ Executed(c))
      BY <1>0, <1>1, <2>1, <2>3, Phases DEF Asked
    <3>2. Replies(c) \in Nat /\ Replies(c) # 0 /\ Replies(c)' = Replies(c) - 1
      <4>1. rspq[c] \in Seq(Byte) /\ rspq'[c] = Tail(rspq[c])
        BY <1>0, <1>2 DEF TakeReply, TypeOK
      <4>2. QED
        BY <1>1, <4>1, Lengths, Taken DEF Replies
    <3>3. (Running(c)' <=> Running(c)) /\ cmdq'[c] = cmdq[c]
          /\ step_num'[c] = step_num[c] /\ active_core_stop'[c] = active_core_stop[c]
      BY <1>1 DEF Running, Alive, Unchanged_iss
    <3>4. CASE cmd = "run"
      <4>1. ~Swept(c)' /\ Loose(c)'
        BY <1>1, <1>2, <1>4, <2>2, <2>3, <3>4 DEF Swept, Loose
      <4>2. IsLoose(c)'
        BY <3>1, <3>2, <3>3, <3>4 DEF OnItsWay, Executed, IsLoose
      <4>3. QED
        BY <2>2, <2>3, <4>1, <4>2 DEF Channel
    <3>5. CASE cmd = "other"
      <4>1. Swept(c)' /\ ~Loose(c)'
        BY <1>1, <1>2, <1>4, <2>2, <2>3, <3>5 DEF Swept, Loose, InCommand
      <4>2. IsSwept(c)'
        BY <3>1, <3>2, <3>3, <3>5 DEF OnItsWay, Executed, IsSwept
      <4>3. QED
        BY <2>2, <2>3, <4>1, <4>2 DEF Channel
    <3>6. CASE cmd \notin {"run", "other"}
      <4>1. ~Swept(c)' /\ ~Loose(c)'
        BY <1>1, <1>2, <3>6 DEF Swept, Loose
      <4>2. AtRest(c)'
        BY <3>1, <3>2, <3>3, <3>6 DEF OnItsWay, Executed, AtRest
      <4>3. QED
        BY <2>2, <2>3, <4>1, <4>2 DEF Channel
    <3>7. QED
      BY <3>4, <3>5, <3>6
  <2>4. CASE d # c
    <3>1. ~Asked(d)
      BY <1>0, <2>4 DEF Asked
    <3>2. (Swept(d)' <=> Swept(d)) /\ (Loose(d)' <=> Loose(d))
      BY <1>1, <1>4, <2>2, <3>1 DEF Swept, Loose, InCommand
    <3>3. rspq'[d] = rspq[d]
      BY <1>0, <2>4 DEF TakeReply, TypeOK
    <3>4. /\ IsSwept(d) => IsSwept(d)'
          /\ IsLoose(d) => IsLoose(d)'
          /\ AtRest(d) => AtRest(d)'
      BY <1>1, <3>3, Stays DEF Unchanged_iss
    <3>5. QED
      BY <2>1, <2>2, <3>1, <3>2, <3>4 DEF Channel
  <2>5. QED
    BY <2>3, <2>4
<1>8. Culprit'
  BY <1>1 DEF IInv, Culprit, InCommand, Unchanged_iss
<1>9. ShownHasExited'
  <2>1. \A d \in NewlyReported : ~Alive(d)
    BY DEF NewlyReported, Alive
  <2>2. \A d : Alive(d)' <=> Alive(d)
    BY <1>1 DEF Alive, Unchanged_iss
  <2>3. QED
    BY <1>1, <1>5, <2>1, <2>2 DEF IInv, ShownHasExited
<1>10. QED
  BY <1>1, <1>6, <1>7, <1>8, <1>9 DEF IInv

\* What TakeFrom leaves of a core's replies.
LEMMA RepliesLeft ==
  ASSUME TypeOK, NEW R, TakeFrom(R), NEW c \in Core, c \in R => rspq[c] # <<>>
  PROVE  /\ Replies(c) \in Nat /\ (Replies(c) = 0 <=> rspq[c] = <<>>)
         /\ c \in R => Replies(c)' = Replies(c) - 1
         /\ c \notin R => rspq'[c] = rspq[c]
<1>1. rspq[c] \in Seq(Byte)
  BY DEF TypeOK
<1>2. rspq'[c] = IF c \in R THEN Tail(rspq[c]) ELSE rspq[c]
  BY DEF TakeFrom
<1>3. QED
  BY <1>1, <1>2, Lengths, Taken DEF Replies

\* The end of a run, for the report of core last or because the client has gone.
LEMMA StopOthersStep ==
  ASSUME TypeOK, IInv, NEW last \in Core, srv = "select", StopOthers(last),
         Unchanged_iss, UNCHANGED <<flag, cmdq, mask, asked, have_reported>>,
         srv' \in {"new", "idle", "post"}, srv' = "post" <=> todo' # {},
         astray \subseteq astray',
         \/ last \in Reported
         \/ Reported = {} /\ (last \in mask => last \in astray')
              /\ (gone' = 1 \/ todo' = {})
  PROVE  IInv'
<1>1. cmd = "run" /\ todo = {} /\ mask \cap have_reported = {}
  BY DEF IInv, Progress
<1>2. core_id' = last /\ todo' = mask \ {last} /\ cmd' = "other" /\ TakeFrom(Reported)
  BY DEF StopOthers
<1>3. Progress'
  BY <1>1, <1>2 DEF IInv, Progress, InCommand, Asked
<1>4. ASSUME NEW c \in Core, c \notin astray
      PROVE  /\ c \in mask => IsLoose(c)
             /\ c \notin mask => AtRest(c)
  <2>1. ~Asked(c) /\ ~Swept(c) /\ (Loose(c) <=> c \in mask)
    BY <1>1 DEF Asked, Swept, Loose, InCommand
  <2>2. QED
    BY <1>4, <2>1, Phases DEF IInv
<1>5. ASSUME NEW c \in Core
      PROVE  /\ Replies(c) \in Nat
             /\ c \in Reported => c \in mask /\ Replies(c) # 0 /\ Replies(c)' = Replies(c) - 1
             /\ c \notin Reported => rspq'[c] = rspq[c]
             /\ c \in mask /\ c \notin Reported => Replies(c) = 0
             /\ Running(c)' <=> Running(c)
             /\ cmdq'[c] = cmdq[c] /\ step_num'[c] = step_num[c]
             /\ active_core_stop'[c] = active_core_stop[c]
  <2>1. c \in Reported <=> c \in mask /\ rspq[c] # <<>>
    BY DEF Reported
  <2>2. Running(c)' <=> Running(c)
    BY DEF Running, Alive, Unchanged_iss
  <2>3. QED
    BY <1>2, <2>1, <2>2, RepliesLeft DEF Unchanged_iss
<1>6. ASSUME NEW c \in Core, c \notin astray' PROVE Channel(c)'
  <2>1. ~Asked(c)' /\ ~Swept(c)'
    BY <1>2 DEF Asked, Swept
  <2>2. Loose(c)' <=> c \in mask \ {last}
    BY <1>2, <2>1 DEF Loose
  <2>3. CASE c \notin mask
    <3>1. AtRest(c)'
      BY <1>4, <1>5, <1>6, <2>3, RestStep
    <3>2. QED
      BY <2>1, <2>2, <2>3, <3>1 DEF Channel
  <2>4. CASE c \in mask
    <3>1. IsLoose(c)
      BY <1>4, <1>6, <2>4
    <3>2. CASE c \in Reported
      <4>1. IsLoose(c)' /\ AtRest(c)'
        BY <1>5, <3>1, <3>2 DEF IsLoose, AtRest
      <4>2. QED
        BY <2>1, <4>1 DEF Channel
    <3>3. CASE c \notin Reported
      <4>1. IsLoose(c)'
        BY <1>5, <3>1, <3>3, LooseStep
      <4>2. c # last
        BY <1>6, <2>4, <3>3
      <4>3. QED
        BY <2>1, <2>2, <2>4, <4>1, <4>2 DEF Channel
    <3>4. QED
      BY <3>2, <3>3
  <2>5. QED
    BY <2>3, <2>4
<1>7. Culprit'
  <2> SUFFICES ASSUME todo' # {}, gone' = 0, last \notin astray'
               PROVE  active_core_stop'[last] = 1
    BY <1>2 DEF Culprit, InCommand
  <2>1. last \in Reported
    OBVIOUS
  <2>2. IsLoose(last) /\ Replies(last) # 0
    BY <1>4, <1>5, <2>1
  <2>3. QED
    BY <1>5, <2>2 DEF IsLoose
<1>8. ShownHasExited'
  BY DEF IInv, ShownHasExited, Alive, Unchanged_iss
<1>9. QED
  BY <1>3, <1>6, <1>7, <1>8 DEF IInv

LEMMA RunEndStep ==
  ASSUME TypeOK, IInv, Collect \/ HangUp
  PROVE  IInv'
<1>1. Reported \subseteq Core /\ 0 \in Core
  BY CoreType DEF Reported, TypeOK
<1>2. srv = "select" /\ Unchanged_iss
      /\ UNCHANGED <<flag, cmdq, mask, asked, have_reported>>
  BY DEF Collect, HangUp
<1>3. CASE Collect
  <2>1. PICK last \in Reported : StopOthers(last)
    BY <1>3 DEF Collect
  <2>2. srv' \in {"idle", "post"} /\ (srv' = "post" <=> todo' # {})
        /\ UNCHANGED <<gone, astray>>
    BY <1>3 DEF Collect
  <2>3. QED
    BY <1>1, <1>2, <2>1, <2>2, StopOthersStep
<1>4. CASE HangUp
  <2>1. srv' \in {"new", "post"} /\ (srv' = "post" <=> todo' # {})
        /\ (gone' = 1 \/ todo' = {})
    BY <1>4 DEF HangUp
  <2>2. CASE Reported # {}
    <3>1. PICK last \in Reported : StopOthers(last)
      BY <1>4, <2>2 DEF HangUp
    <3>2. astray' = astray
      BY <1>4, <2>2 DEF HangUp
    <3>3. QED
      BY <1>1, <1>2, <2>1, <3>1, <3>2, StopOthersStep
  <2>3. CASE Reported = {}
    <3>1. StopOthers(0) /\ astray' = astray \cup (mask \cap {0})
      BY <1>4, <2>3 DEF HangUp
    <3>2. QED
      BY <1>1, <1>2, <2>1, <2>3, <3>1, StopOthersStep
  <2>4. QED
    BY <2>2, <2>3
<1>5. QED
  BY <1>3, <1>4

LEMMA PendingReadStep ==
  ASSUME TypeOK, IInv, PendingRead
  PROVE  IInv'
<1>1. srv = "pending" /\ srv' \in {"new", "idle"} /\ TakeFrom(Reported \ {core_id})
      /\ UNCHANGED <<flag, cmdq, cmd, mask, todo, asked, core_id, have_reported>>
      /\ Unchanged_iss
      /\ astray' = astray \cup {c \in mask \ {core_id} : cmdq[c] # <<>>}
  BY DEF PendingRead
<1>2. cmd = "other" /\ todo = {}
  BY <1>1 DEF IInv, Progress
<1>3. Progress'
  BY <1>1, <1>2 DEF IInv, Progress, InCommand
<1>4. ASSUME NEW c \in Core, c \notin astray' PROVE Channel(c)'
  <2>1. Channel(c) /\ ~Asked(c) /\ ~Loose(c)
    BY <1>1, <1>2, <1>4 DEF IInv, Asked, Loose
  <2>2. Swept(c) <=> c \in mask \ {core_id}
    BY <1>1, <1>2, <2>1 DEF Swept, InCommand
  <2>3. /\ Replies(c) \in Nat /\ (Replies(c) = 0 <=> rspq[c] = <<>>)
        /\ c \in Reported \ {core_id} => Replies(c)' = Replies(c) - 1
        /\ c \notin Reported \ {core_id} => rspq'[c] = rspq[c]
    <3>1. c \in Reported \ {core_id} => rspq[c] # <<>>
      BY DEF Reported
    <3>2. QED
      BY <1>1, <3>1, RepliesLeft
  <2>4. c \in Reported \ {core_id} <=> c \in mask \ {core_id} /\ Replies(c) # 0
    BY <2>3 DEF Reported
  <2>5. AtRest(c)'
    <3>1. CASE c \in mask \ {core_id}
      <4>1. cmdq[c] = <<>> /\ IsSwept(c)
        BY <1>1, <1>4, <2>1, <2>2, <3>1, Phases
      <4>2. Replies(c)' = 0
        <5>1. Replies(c) \in {0, 1}
          BY <4>1, Single DEF IsSwept
        <5>2. CASE Replies(c) = 0
          <6>1. rspq'[c] = rspq[c]
            BY <2>3, <2>4, <5>2
          <6>2. QED
            BY <5>2, <6>1 DEF Replies
        <5>3. CASE Replies(c) = 1
          BY <2>3, <2>4, <3>1, <5>3
        <5>4. QED
          BY <5>1, <5>2, <5>3
      <4>3. Running(c)' <=> Running(c)
        BY <1>1 DEF Running, Alive, Unchanged_iss
      <4>4. QED
        BY <1>1, <4>1, <4>2, <4>3 DEF AtRest, IsSwept, Unchanged_iss
    <3>2. CASE c \notin mask \ {core_id}
      BY <1>1, <2>1, <2>2, <2>3, <2>4, <3>2, Phases, RestStep
    <3>3. QED
      BY <3>1, <3>2
  <2>6. ~Asked(c)' /\ ~Swept(c)' /\ ~Loose(c)'
    BY <1>1 DEF Asked, Swept, Loose, InCommand
  <2>7. QED
    BY <2>5, <2>6 DEF Channel
<1>5. Culprit'
  BY <1>1 DEF Culprit, InCommand
<1>6. ShownHasExited'
  BY <1>1 DEF IInv, ShownHasExited, Alive, Unchanged_iss
<1>7. QED
  BY <1>3, <1>4, <1>5, <1>6 DEF IInv

-----------------------------------------------------------------------------
(* The theorems                                                              *)

LEMMA Start ==
  ASSUME Init
  PROVE  IInv
<1>1. srv = "new" /\ todo = {} /\ mask = {} /\ have_reported = {} /\ cmd = "init"
  BY DEF Init
<1>2. Progress
  BY <1>1 DEF Progress
<1>3. \A c \in Core : AtRest(c)
  BY DEF Init, AtRest, Replies, Running
<1>4. \A c \in Core : ~Asked(c) /\ ~Swept(c) /\ ~Loose(c)
  BY <1>1 DEF Asked, Swept, Loose
<1>5. QED
  BY <1>1, <1>2, <1>3, <1>4 DEF IInv, Channel, Culprit, ShownHasExited

LEMMA Inductive == Spec => [](TypeOK /\ IInv)
<1>1. TypeOK /\ IInv /\ [Next]_vars => IInv'
  <2> SUFFICES ASSUME TypeOK, IInv, [Next]_vars PROVE IInv'
    OBVIOUS
  <2>1. CASE UNCHANGED vars
    <3>1. \A c : /\ Running(c)' <=> Running(c)
                 /\ Asked(c)' <=> Asked(c)
                 /\ Swept(c)' <=> Swept(c)
                 /\ Loose(c)' <=> Loose(c)
                 /\ Replies(c)' = Replies(c)
      BY <2>1 DEF vars, iss_vars, srv_vars, Running, Alive, Asked, Swept, Loose,
                  InCommand, Replies
    <3>2. \A c \in Core \ astray : Channel(c)'
      BY <2>1, <3>1 DEF vars, iss_vars, srv_vars, IInv, Channel, OnItsWay, Executed,
                        IsSwept, IsLoose, AtRest
    <3>3. Progress'
      BY <2>1, <3>1 DEF vars, srv_vars, IInv, Progress, InCommand
    <3>4. Culprit' /\ ShownHasExited'
      BY <2>1 DEF vars, iss_vars, srv_vars, IInv, Culprit, ShownHasExited, InCommand,
                  Alive
    <3>5. QED
      BY <2>1, <3>2, <3>3, <3>4 DEF vars, IInv
  <2>2. CASE Server
    BY <2>2, RunEndStep, TakeReplyStep, PendingReadStep, PostStep DEF Server
  <2>3. CASE Interrupt \/ HangUp \/ Leave
    BY <2>3, InterruptStep, RunEndStep, LeaveStep
  <2>4. ASSUME NEW k \in Kind \ {"other"}, NEW m \in SUBSET Core, Accept(k, m)
        PROVE  IInv'
    BY <2>4, AcceptStep
  <2>5. ASSUME NEW c \in Core, Iss(c) PROVE IInv'
    BY <2>5, IssStep
  <2>6. QED
    BY <2>1, <2>2, <2>3, <2>4, <2>5 DEF Next
<1>2. QED
  BY <1>1, Start, TypeCorrect, PTL DEF Spec

\* The byte that the server takes for the answer of a command is its answer.
THEOREM AnswersMatch == Spec => []AnsweredMeansDone
<1>1. TypeOK /\ IInv => AnsweredMeansDone
  <2> SUFFICES ASSUME TypeOK, IInv, NEW c \in Core \ astray, srv = "await", asked = c,
                      cmd # "other", rspq[c] # <<>>
               PROVE  cmdq[c] = <<>>
    BY DEF AnsweredMeansDone
  <2>1. OnItsWay(c) \/ Executed(c)
    BY Phases DEF IInv, Asked
  <2>2. Replies(c) # 0
    BY Lengths DEF Replies, TypeOK
  <2>3. QED
    BY <2>1, <2>2 DEF OnItsWay, Executed
<1>2. QED
  BY <1>1, Inductive, PTL

\* Between two commands nothing is left on the FIFOs.
THEOREM FifosEmpty == Spec => []NothingLeft
<1>1. TypeOK /\ IInv => NothingLeft
  <2> SUFFICES ASSUME TypeOK, IInv, NEW c \in Core \ astray, srv \in {"new", "idle"}
               PROVE  cmdq[c] = <<>> /\ rspq[c] = <<>>
    BY DEF NothingLeft
  <2>1. AtRest(c)
    BY Idle
  <2>2. rspq[c] \in Seq(Byte)
    BY DEF TypeOK
  <2>3. QED
    BY <2>1, <2>2, Lengths DEF AtRest, Replies
<1>2. QED
  BY <1>1, Inductive, PTL

\* Between two commands no core runs.
THEOREM CoresHalt == Spec => []HaltTogether
<1>1. TypeOK /\ IInv => HaltTogether
  BY Idle DEF HaltTogether, AtRest
<1>2. QED
  BY <1>1, Inductive, PTL

\* A run is answered with the mark still on the core that has ended it.
THEOREM CulpritMarked == Spec => []CulpritKnown
<1>1. TypeOK /\ IInv => CulpritKnown
  <2> SUFFICES ASSUME TypeOK, IInv, srv = "pending", gone = 0, core_id \notin astray
               PROVE  active_core_stop[core_id] = 1 /\ ~Running(core_id)
    BY DEF CulpritKnown
  <2>1. cmd = "other" /\ todo = {} /\ InCommand /\ core_id \in Core
    BY DEF IInv, Progress, InCommand, TypeOK
  <2>2. active_core_stop[core_id] = 1
    BY <2>1 DEF IInv, Culprit
  <2>3. ~Asked(core_id) /\ ~Swept(core_id) /\ ~Loose(core_id)
    BY <2>1 DEF Asked, Swept, Loose
  <2>4. AtRest(core_id)
    BY <2>1, <2>3, Phases DEF IInv
  <2>5. QED
    BY <2>2, <2>4 DEF AtRest
<1>2. QED
  BY <1>1, Inductive, PTL

\* The client leaves out of its runs only cores whose program has ended.
THEOREM ShownExited == Spec => []ShownHasExited
BY Inductive, PTL DEF IInv

-----------------------------------------------------------------------------
(* The server does not wait in vain                                          *)

\* The stop flag of a core is up while a command is in its FIFO, unless the core
\* has overwritten it; a step goes on to its end.
Heeds(c) ==
  /\ cmdq[c] # <<>> => flag[c] = "stop" \/ c \in lost
  /\ step_num[c] = 1 => Alive(c) /\ iss[c] \in {"resume", "cycle"}

\* A step of the core keeps this ...
LEMMA IssHeeds ==
  ASSUME TypeOK, NEW c \in Core, Iss(c), Heeds(c)
  PROVE  Heeds(c)' /\ lost \subseteq lost'
<1> USE DEF Heeds, Alive, TypeOK
<1>1. CASE Poll(c)
  BY <1>1 DEF Poll, srv_vars
<1>2. CASE Resume(c)
  BY <1>2 DEF Resume, srv_vars
<1>3. CASE CmdData(c)
  BY <1>3 DEF CmdData, Takes
<1>4. CASE CmdInit(c)
  BY <1>4 DEF CmdInit, Takes
<1>5. CASE CmdStop(c)
  BY <1>5 DEF CmdStop, Takes
<1>6. CASE CmdRunExited(c)
  BY <1>6 DEF CmdRunExited, Takes
<1>7. CASE CmdRun(c)
  BY <1>7 DEF CmdRun, Takes
<1>8. CASE CmdStep(c)
  BY <1>8 DEF CmdStep, Takes
<1>9. CASE CmdStopOther(c)
  BY <1>9 DEF CmdStopOther, Takes
<1>10. CASE StepDone(c)
  BY <1>10 DEF StepDone, Turn
<1>11. CASE StopsSilently(c)
  BY <1>11 DEF StopsSilently, Turn
<1>12. CASE Breaks(c)
  BY <1>12 DEF Breaks, Turn, Report, Free
<1>13. CASE CallsHost(c)
  BY <1>13 DEF CallsHost, Turn, Report, Free
<1>14. CASE Exits(c)
  BY <1>14 DEF Exits, Turn, Report, Free
<1>15. CASE RunsOn(c)
  BY <1>15 DEF RunsOn, Turn, Free
<1>16. CASE Spins(c)
  BY <1>16 DEF Spins, Turn
<1>17. QED
  BY <1>1, <1>2, <1>3, <1>4, <1>5, <1>6, <1>7, <1>8, <1>9, <1>10, <1>11, <1>12, <1>13, <1>14, <1>15, <1>16 DEF Iss

\* ... and so does every other step.
LEMMA HeedsStep ==
  ASSUME TypeOK, \A c \in Core : Heeds(c), [Next]_vars
  PROVE  \A c \in Core : Heeds(c)'
<1>1. ASSUME NEW d \in Core, Iss(d) PROVE \A c \in Core : Heeds(c)'
  <2>1. Heeds(d)' /\ lost \subseteq lost'
    BY <1>1, IssHeeds
  <2>2. ASSUME NEW c \in Core \ {d} PROVE Heeds(c)'
    BY <1>1, <2>1, <2>2, IssKeeps DEF Heeds, Alive
  <2>3. QED
    BY <2>1, <2>2
<1>2. ASSUME NEW d \in Core, Post(d) PROVE \A c \in Core : Heeds(c)'
  BY <1>2 DEF Post, Unchanged_iss, Heeds, Alive, TypeOK
<1>3. ASSUME UNCHANGED <<flag, cmdq, iss, eStopFlag, step_num, lost>>
      PROVE  \A c \in Core : Heeds(c)'
  BY <1>3 DEF Heeds, Alive
<1>4. ASSUME NEW k \in Kind \ {"other"}, NEW m \in SUBSET Core, Accept(k, m)
      PROVE  \A c \in Core : Heeds(c)'
  BY <1>3, <1>4 DEF Accept, Unchanged_iss
<1>5. CASE TakeReply \/ Collect \/ PendingRead
  BY <1>3, <1>5 DEF TakeReply, Collect, PendingRead, Unchanged_iss
<1>6. CASE Interrupt \/ HangUp \/ Leave
  BY <1>3, <1>6 DEF Interrupt, HangUp, Leave, Unchanged_iss, iss_vars
<1>7. CASE UNCHANGED vars
  BY <1>3, <1>7 DEF vars, iss_vars
<1>8. QED
  BY <1>1, <1>2, <1>4, <1>5, <1>6, <1>7 DEF Next, Server

\* While iss_cmd_request waits for its byte, the core has the command in front
\* of it and the stop flag up, or is in the step that answers: unless it has
\* overwritten a stop request, or command and report have crossed before.
THEOREM AnswerComes == Spec => []NeverWaitsInVain
<1>1. Init => \A c \in Core : Heeds(c)
  BY DEF Init, Heeds
<1>2. TypeOK /\ (\A c \in Core : Heeds(c)) /\ [Next]_vars
        => (\A c \in Core : Heeds(c))'
  BY HeedsStep
<1>3. TypeOK /\ IInv /\ (\A c \in Core : Heeds(c)) => NeverWaitsInVain
  <2> SUFFICES ASSUME TypeOK, IInv, \A c \in Core : Heeds(c), srv = "await",
                      rspq[asked] = <<>>, asked \notin astray \cup lost
               PROVE  \/ cmdq[asked] # <<>> /\ flag[asked] = "stop"
                      \/ /\ step_num[asked] = 1 /\ Alive(asked)
                         /\ iss[asked] \in {"resume", "cycle"}
    BY DEF NeverWaitsInVain
  <2>1. asked \in Core /\ Asked(asked)
    BY DEF TypeOK, Asked
  <2>2. OnItsWay(asked) \/ Executed(asked)
    BY <2>1 DEF IInv, Channel
  <2>3. Replies(asked) = 0
    BY <2>1 DEF Replies
  <2>4. cmdq[asked] # <<>> \/ step_num[asked] = 1
    <3>1. CASE OnItsWay(asked)
      <4>1. cmdq[asked] = <<cmd>> /\ <<cmd>> # <<>>
        BY <3>1, Single DEF OnItsWay
      <4>2. QED
        BY <4>1
    <3>2. CASE Executed(asked)
      BY <2>3, <3>2 DEF Executed
    <3>3. QED
      BY <2>2, <3>1, <3>2
  <2>5. QED
    BY <2>1, <2>4 DEF Heeds
<1>4. QED
  BY <1>1, <1>2, <1>3, Inductive, PTL DEF Spec
=============================================================================
