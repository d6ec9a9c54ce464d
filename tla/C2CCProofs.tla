------------------------------ MODULE C2CCProofs ------------------------------
(* Theorems about C2CC, for every number of cores, every choice of senders   *)
(* and receivers and every use of timeouts and cancellation.                 *)
EXTENDS C2CC, TLAPS

-----------------------------------------------------------------------------
(* Type correctness *)

\* The wraps and the programs start well typed.
LEMMA TypeInit == Init => TypeOK
  BY NumAssumption
  DEF Init, TypeOK, WrapType, BusType, ProgramType, Core, NoTx, NoRx, TxType,
      RxType, Places

\* Every clock edge and every register access keeps the types.
LEMMA TypeStep == TypeOK /\ [Next]_vars => TypeOK'
<1> SUFFICES ASSUME TypeOK, [Next]_vars PROVE TypeOK'
  OBVIOUS
<1> USE NumAssumption DEF TypeOK
<1>1. CASE Edge
  <2>1. (turn \subseteq Core /\ used \subseteq Core)'
    BY <1>1 DEF Edge, wraps, sender, program
  <2>2. WrapType'
    BY <1>1 DEF Edge, wraps, sender, program, WrapType
  <2>3. BusType'
    BY <1>1 DEF Edge, wraps, sender, program, BusType
  <2>4. ProgramType'
    BY <1>1 DEF Edge, wraps, sender, program, ProgramType
  <2>5. (spoilt \subseteq Core \X Nat)'
    BY <1>1 DEF Edge, wraps, sender, program
  <2>6. QED
    BY <2>1, <2>2, <2>3, <2>4, <2>5
<1>2. ASSUME NEW c \in Core, TxIdle(c) PROVE TypeOK'
  <2>1. (turn \subseteq Core /\ used \subseteq Core)'
    BY <1>2 DEF TxIdle, Turn, wraps, sender, program
  <2>2. WrapType'
    BY <1>2 DEF TxIdle, Turn, wraps, sender, program, WrapType
  <2>3. BusType'
    BY <1>2 DEF TxIdle, Turn, wraps, sender, program, BusType
  <2>4. ProgramType'
    BY <1>2 DEF TxIdle, Turn, wraps, sender, program, ProgramType
  <2>5. (spoilt \subseteq Core \X Nat)'
    BY <1>2 DEF TxIdle, Turn, wraps, sender, program
  <2>6. QED
    BY <2>1, <2>2, <2>3, <2>4, <2>5
<1>3. ASSUME NEW c \in Core, TxCountsDown(c) PROVE TypeOK'
  <2>1. (turn \subseteq Core /\ used \subseteq Core)'
    BY <1>3 DEF TxCountsDown, Turn, program
  <2>2. WrapType'
    BY <1>3 DEF TxCountsDown, Turn, program, WrapType
  <2>3. BusType'
    BY <1>3 DEF TxCountsDown, Turn, program, BusType
  <2>4. ProgramType'
    BY <1>3 DEF TxCountsDown, Turn, program, ProgramType
  <2>5. (spoilt \subseteq Core \X Nat)'
    BY <1>3 DEF TxCountsDown, Turn, program
  <2>6. QED
    BY <2>1, <2>2, <2>3, <2>4, <2>5
<1>4. ASSUME NEW c \in Core, TxTimesOut(c) PROVE TypeOK'
  <2>1. (turn \subseteq Core /\ used \subseteq Core)'
    BY <1>4 DEF TxTimesOut, Turn, program
  <2>2. WrapType'
    BY <1>4 DEF TxTimesOut, Turn, program, WrapType
  <2>3. BusType'
    BY <1>4 DEF TxTimesOut, Turn, program, BusType
  <2>4. ProgramType'
    BY <1>4 DEF TxTimesOut, Turn, program, ProgramType
  <2>5. (spoilt \subseteq Core \X Nat)'
    BY <1>4 DEF TxTimesOut, Turn, program, WrapType, TxType
  <2>6. QED
    BY <2>1, <2>2, <2>3, <2>4, <2>5
<1>5. ASSUME NEW c \in Core, TxStandsBack(c) PROVE TypeOK'
  <2>1. (turn \subseteq Core /\ used \subseteq Core)'
    BY <1>5 DEF TxStandsBack, Sends, Turn, sender, program
  <2>2. WrapType'
    BY <1>5 DEF TxStandsBack, Sends, Turn, sender, program, WrapType
  <2>3. BusType'
    BY <1>5 DEF TxStandsBack, Sends, Turn, sender, program, BusType
  <2>4. ProgramType'
    BY <1>5 DEF TxStandsBack, Sends, Turn, sender, program, ProgramType
  <2>5. (spoilt \subseteq Core \X Nat)'
    BY <1>5 DEF TxStandsBack, Sends, Turn, sender, program
  <2>6. QED
    BY <2>1, <2>2, <2>3, <2>4, <2>5
<1>6. ASSUME NEW c \in Core, TxFindsBusy(c) PROVE TypeOK'
  <2>1. (turn \subseteq Core /\ used \subseteq Core)'
    BY <1>6 DEF TxFindsBusy, Sends, Turn, program
  <2>2. WrapType'
    BY <1>6 DEF TxFindsBusy, Sends, Turn, program, WrapType
  <2>3. BusType'
    BY <1>6 DEF TxFindsBusy, Sends, Turn, program, BusType
  <2>4. ProgramType'
    BY <1>6 DEF TxFindsBusy, Sends, Turn, program, ProgramType
  <2>5. (spoilt \subseteq Core \X Nat)'
    BY <1>6 DEF TxFindsBusy, Sends, Turn, program
  <2>6. QED
    BY <2>1, <2>2, <2>3, <2>4, <2>5
<1>7. ASSUME NEW c \in Core, TxDelivers(c) PROVE TypeOK'
  <2>1. (turn \subseteq Core /\ used \subseteq Core)'
    BY <1>7 DEF TxDelivers, Sends, Turn, program
  <2>2. WrapType'
    BY <1>7 DEF TxDelivers, Sends, Turn, program, WrapType
  <2>3. BusType'
    BY <1>7 DEF TxDelivers, Sends, Turn, program, BusType, RxType, WrapType,
        TxType
  <2>4. ProgramType'
    BY <1>7 DEF TxDelivers, Sends, Turn, program, ProgramType
  <2>5. (spoilt \subseteq Core \X Nat)'
    BY <1>7 DEF TxDelivers, Sends, Turn, program
  <2>6. QED
    BY <2>1, <2>2, <2>3, <2>4, <2>5
<1>8. ASSUME NEW c \in Core, SendBegins(c) PROVE TypeOK'
  <2>1. (turn \subseteq Core /\ used \subseteq Core)'
    BY <1>8 DEF SendBegins, Goto, wraps, sender
  <2>2. WrapType'
    BY <1>8 DEF SendBegins, Goto, wraps, sender, WrapType
  <2>3. BusType'
    BY <1>8 DEF SendBegins, Goto, wraps, sender, BusType
  <2>4. ProgramType'
    BY <1>8, DestAssumption DEF SendBegins, Goto, wraps, sender, ProgramType,
        Places
  <2>5. (spoilt \subseteq Core \X Nat)'
    BY <1>8 DEF SendBegins, Goto, wraps, sender
  <2>6. QED
    BY <2>1, <2>2, <2>3, <2>4, <2>5
<1>9. ASSUME NEW c \in Core, SendReady(c) PROVE TypeOK'
  <2>1. (turn \subseteq Core /\ used \subseteq Core)'
    BY <1>9 DEF SendReady, Access, Goto, wraps, sender
  <2>2. WrapType'
    BY <1>9 DEF SendReady, Access, Goto, wraps, sender, WrapType
  <2>3. BusType'
    BY <1>9 DEF SendReady, Access, Goto, wraps, sender, BusType
  <2>4. ProgramType'
    BY <1>9 DEF SendReady, Access, Goto, wraps, sender, ProgramType, Places
  <2>5. (spoilt \subseteq Core \X Nat)'
    BY <1>9 DEF SendReady, Access, Goto, wraps, sender
  <2>6. QED
    BY <2>1, <2>2, <2>3, <2>4, <2>5
<1>10. ASSUME NEW c \in Core, SendFirst(c) PROVE TypeOK'
  <2>1. (turn \subseteq Core /\ used \subseteq Core)'
    BY <1>10 DEF SendFirst, Write, Spoils, Access, Goto
  <2>2. WrapType'
    BY <1>10 DEF SendFirst, Write, Spoils, Access, Goto, WrapType, TxType,
        ProgramType
  <2>3. BusType'
    BY <1>10 DEF SendFirst, Write, Spoils, Access, Goto, BusType
  <2>4. ProgramType'
    BY <1>10 DEF SendFirst, Write, Spoils, Access, Goto, ProgramType, Places
  <2>5. (spoilt \subseteq Core \X Nat)'
    BY <1>10 DEF SendFirst, Write, Spoils, Access, Goto, WrapType, TxType
  <2>6. QED
    BY <2>1, <2>2, <2>3, <2>4, <2>5
<1>11. ASSUME NEW c \in Core, SendSecond(c) PROVE TypeOK'
  <2>1. (turn \subseteq Core /\ used \subseteq Core)'
    BY <1>11 DEF SendSecond, Write, Spoils, Access, Goto
  <2>2. WrapType'
    BY <1>11 DEF SendSecond, Write, Spoils, Access, Goto, WrapType, TxType,
        ProgramType
  <2>3. BusType'
    BY <1>11 DEF SendSecond, Write, Spoils, Access, Goto, BusType
  <2>4. ProgramType'
    BY <1>11 DEF SendSecond, Write, Spoils, Access, Goto, ProgramType, Places
  <2>5. (spoilt \subseteq Core \X Nat)'
    BY <1>11 DEF SendSecond, Write, Spoils, Access, Goto, WrapType, TxType
  <2>6. QED
    BY <2>1, <2>2, <2>3, <2>4, <2>5
<1>12. ASSUME NEW c \in Core, SendCtrl(c) PROVE TypeOK'
  <2>1. (turn \subseteq Core /\ used \subseteq Core)'
    BY <1>12 DEF SendCtrl, Write, Spoils, Access, Goto
  <2>2. WrapType'
    BY <1>12 DEF SendCtrl, Write, Spoils, Access, Goto, WrapType, TxType,
        ProgramType
  <2>3. BusType'
    BY <1>12 DEF SendCtrl, Write, Spoils, Access, Goto, BusType
  <2>4. ProgramType'
    BY <1>12 DEF SendCtrl, Write, Spoils, Access, Goto, ProgramType, Places
  <2>5. (spoilt \subseteq Core \X Nat)'
    BY <1>12 DEF SendCtrl, Write, Spoils, Access, Goto, WrapType, TxType
  <2>6. QED
    BY <2>1, <2>2, <2>3, <2>4, <2>5
<1>13. ASSUME NEW c \in Core, SendTrig(c) PROVE TypeOK'
  <2>1. (turn \subseteq Core /\ used \subseteq Core)'
    BY <1>13 DEF SendTrig, Write, Access, Goto, GivenUp
  <2>2. WrapType'
    BY <1>13 DEF SendTrig, Write, Access, Goto, GivenUp, WrapType, TxType,
        ProgramType
  <2>3. BusType'
    BY <1>13 DEF SendTrig, Write, Access, Goto, GivenUp, BusType
  <2>4. ProgramType'
    BY <1>13 DEF SendTrig, Write, Access, Goto, GivenUp, ProgramType, Places
  <2>5. (spoilt \subseteq Core \X Nat)'
    BY <1>13 DEF SendTrig, Write, Access, Goto, GivenUp, WrapType, TxType,
        ProgramType
  <2>6. QED
    BY <2>1, <2>2, <2>3, <2>4, <2>5
<1>14. ASSUME NEW c \in Core, ReceiveBegins(c) PROVE TypeOK'
  <2>1. (turn \subseteq Core /\ used \subseteq Core)'
    BY <1>14 DEF ReceiveBegins, Goto, wraps, sender
  <2>2. WrapType'
    BY <1>14 DEF ReceiveBegins, Goto, wraps, sender, WrapType
  <2>3. BusType'
    BY <1>14 DEF ReceiveBegins, Goto, wraps, sender, BusType
  <2>4. ProgramType'
    BY <1>14 DEF ReceiveBegins, Goto, wraps, sender, ProgramType, Places
  <2>5. (spoilt \subseteq Core \X Nat)'
    BY <1>14 DEF ReceiveBegins, Goto, wraps, sender
  <2>6. QED
    BY <2>1, <2>2, <2>3, <2>4, <2>5
<1>15. ASSUME NEW c \in Core, ReceiveReady(c) PROVE TypeOK'
  <2>1. (turn \subseteq Core /\ used \subseteq Core)'
    BY <1>15 DEF ReceiveReady, Access, Goto, wraps, sender
  <2>2. WrapType'
    BY <1>15 DEF ReceiveReady, Access, Goto, wraps, sender, WrapType
  <2>3. BusType'
    BY <1>15 DEF ReceiveReady, Access, Goto, wraps, sender, BusType
  <2>4. ProgramType'
    BY <1>15 DEF ReceiveReady, Access, Goto, wraps, sender, ProgramType,
        Places
  <2>5. (spoilt \subseteq Core \X Nat)'
    BY <1>15 DEF ReceiveReady, Access, Goto, wraps, sender
  <2>6. QED
    BY <2>1, <2>2, <2>3, <2>4, <2>5
<1>16. ASSUME NEW c \in Core, ReceiveFirst(c) PROVE TypeOK'
  <2>1. (turn \subseteq Core /\ used \subseteq Core)'
    BY <1>16 DEF ReceiveFirst, Access, Goto, wraps, sender
  <2>2. WrapType'
    BY <1>16 DEF ReceiveFirst, Access, Goto, wraps, sender, WrapType
  <2>3. BusType'
    BY <1>16 DEF ReceiveFirst, Access, Goto, wraps, sender, BusType
  <2>4. ProgramType'
    BY <1>16 DEF ReceiveFirst, Access, Goto, wraps, sender, ProgramType,
        Places, BusType, RxType
  <2>5. (spoilt \subseteq Core \X Nat)'
    BY <1>16 DEF ReceiveFirst, Access, Goto, wraps, sender
  <2>6. QED
    BY <2>1, <2>2, <2>3, <2>4, <2>5
<1>17. ASSUME NEW c \in Core, ReceiveSecond(c) PROVE TypeOK'
  <2>1. (turn \subseteq Core /\ used \subseteq Core)'
    BY <1>17 DEF ReceiveSecond, Access, Goto, wraps, sender
  <2>2. WrapType'
    BY <1>17 DEF ReceiveSecond, Access, Goto, wraps, sender, WrapType
  <2>3. BusType'
    BY <1>17 DEF ReceiveSecond, Access, Goto, wraps, sender, BusType
  <2>4. ProgramType'
    BY <1>17 DEF ReceiveSecond, Access, Goto, wraps, sender, ProgramType,
        Places, BusType, RxType, Message
  <2>5. (spoilt \subseteq Core \X Nat)'
    BY <1>17 DEF ReceiveSecond, Access, Goto, wraps, sender
  <2>6. QED
    BY <2>1, <2>2, <2>3, <2>4, <2>5
<1>18. ASSUME NEW c \in Core, ReceiveAccept(c) PROVE TypeOK'
  <2>1. (turn \subseteq Core /\ used \subseteq Core)'
    BY <1>18 DEF ReceiveAccept, Write, Access, Goto
  <2>2. WrapType'
    BY <1>18 DEF ReceiveAccept, Write, Access, Goto, WrapType
  <2>3. BusType'
    BY <1>18 DEF ReceiveAccept, Write, Access, Goto, BusType, RxType
  <2>4. ProgramType'
    BY <1>18 DEF ReceiveAccept, Write, Access, Goto, ProgramType, Places
  <2>5. (spoilt \subseteq Core \X Nat)'
    BY <1>18 DEF ReceiveAccept, Write, Access, Goto
  <2>6. QED
    BY <2>1, <2>2, <2>3, <2>4, <2>5
<1>19. ASSUME NEW c \in Core, SetTimeout(c) PROVE TypeOK'
  <2>1. (turn \subseteq Core /\ used \subseteq Core)'
    BY <1>19 DEF SetTimeout, Write, Access, program
  <2>2. WrapType'
    BY <1>19, TimeoutAssumption DEF SetTimeout, Write, Access, program,
        WrapType
  <2>3. BusType'
    BY <1>19 DEF SetTimeout, Write, Access, program, BusType
  <2>4. ProgramType'
    BY <1>19 DEF SetTimeout, Write, Access, program, ProgramType
  <2>5. (spoilt \subseteq Core \X Nat)'
    BY <1>19 DEF SetTimeout, Write, Access, program
  <2>6. QED
    BY <2>1, <2>2, <2>3, <2>4, <2>5
<1>20. ASSUME NEW c \in Core, Cancel(c) PROVE TypeOK'
  <2>1. (turn \subseteq Core /\ used \subseteq Core)'
    BY <1>20 DEF Cancel, Write, Spoils, Access, program
  <2>2. WrapType'
    BY <1>20 DEF Cancel, Write, Spoils, Access, program, WrapType
  <2>3. BusType'
    BY <1>20 DEF Cancel, Write, Spoils, Access, program, BusType
  <2>4. ProgramType'
    BY <1>20 DEF Cancel, Write, Spoils, Access, program, ProgramType
  <2>5. (spoilt \subseteq Core \X Nat)'
    BY <1>20 DEF Cancel, Write, Spoils, Access, program, WrapType, TxType
  <2>6. QED
    BY <2>1, <2>2, <2>3, <2>4, <2>5
<1>21. CASE UNCHANGED vars
  <2>1. (turn \subseteq Core /\ used \subseteq Core)'
    BY <1>21 DEF vars, wraps, sender, program
  <2>2. WrapType'
    BY <1>21 DEF vars, wraps, sender, program, WrapType
  <2>3. BusType'
    BY <1>21 DEF vars, wraps, sender, program, BusType
  <2>4. ProgramType'
    BY <1>21 DEF vars, wraps, sender, program, ProgramType
  <2>5. (spoilt \subseteq Core \X Nat)'
    BY <1>21 DEF vars, wraps, sender, program
  <2>6. QED
    BY <2>1, <2>2, <2>3, <2>4, <2>5
<1>22. QED
  BY <1>1, <1>2, <1>3, <1>4, <1>5, <1>6, <1>7, <1>8, <1>9, <1>10, <1>11,
      <1>12, <1>13, <1>14, <1>15, <1>16, <1>17, <1>18, <1>19, <1>20, <1>21 DEF
      Next, Tx, Send, Receive

-----------------------------------------------------------------------------
(* What a step does to a sender and to a receiver *)

\* The step triggers no message of core b; one that waited may have ended.
Kept(b) ==
  /\ out'[b].id = out[b].id /\ (trig'[b] = trig[b] \/ trig'[b] = 0)
  /\ msg'[b] = msg[b] /\ (Sending(b)' <=> Sending(b))
  /\ trig[b] = 1 /\ trig'[b] = 0 =>
       \/ <<b, out[b].id>> \in spoilt'
       \/ \E r \in Core : /\ InHand(r)'
                         /\ rx'[r].source = b /\ rx'[r].id = out[b].id

\* The program of core b begins the next message.
Readied(b) ==
  /\ out'[b] = out[b] /\ trig'[b] = trig[b]
  /\ msg'[b] = msg[b] + 1 /\ ~ Sending(b) /\ Sending(b)'

\* The program of core b triggers its message.
Triggered(b) ==
  /\ out'[b].id = msg[b] /\ msg'[b] = msg[b]
  /\ Sending(b) /\ ~ Sending(b)'
  /\ trig[b] = 1 => <<b, out[b].id>> \in spoilt'
  /\ trig'[b] = 1 \/ <<b, msg[b]>> \in spoilt'

SenderStep(b) == Kept(b) \/ Readied(b) \/ Triggered(b)

\* These are all the steps a sender sees.
LEMMA SenderSteps ==
  ASSUME TypeOK, Order, CancelIdle, [Next]_vars, NEW b \in Core
  PROVE  SenderStep(b)
<1> USE DEF TypeOK
<1>1. CASE Edge
  BY <1>1 DEF Edge, wraps, sender, program, SenderStep, Kept, Sending
<1>2. ASSUME NEW c \in Core, TxIdle(c) PROVE SenderStep(b)
  BY <1>2 DEF TxIdle, Turn, wraps, sender, program, SenderStep, Kept, Sending
<1>3. ASSUME NEW c \in Core, TxCountsDown(c) PROVE SenderStep(b)
  BY <1>3 DEF TxCountsDown, Turn, program, SenderStep, Kept, Sending
<1>4. ASSUME NEW c \in Core, TxTimesOut(c) PROVE SenderStep(b)
  BY <1>4 DEF TxTimesOut, Turn, program, SenderStep, Kept, WrapType, Sending
<1>5. ASSUME NEW c \in Core, TxStandsBack(c) PROVE SenderStep(b)
  BY <1>5 DEF TxStandsBack, Sends, Turn, sender, program, SenderStep, Kept,
      Sending
<1>6. ASSUME NEW c \in Core, TxFindsBusy(c) PROVE SenderStep(b)
  BY <1>6 DEF TxFindsBusy, Sends, Turn, program, SenderStep, Kept, Sending
<1>7. ASSUME NEW c \in Core, TxDelivers(c) PROVE SenderStep(b)
  BY <1>7 DEF TxDelivers, Sends, Turn, program, SenderStep, Kept, WrapType,
      InHand, BusType, ReadsFull, Reading, Order, TxType, Sending
<1>8. ASSUME NEW c \in Core, SendBegins(c) PROVE SenderStep(b)
  BY <1>8 DEF SendBegins, Goto, wraps, sender, SenderStep, Kept, Sending,
      ProgramType
<1>9. ASSUME NEW c \in Core, SendReady(c) PROVE SenderStep(b)
  BY <1>9 DEF SendReady, Goto, wraps, sender, SenderStep, Kept, Sending,
      ProgramType, Readied
<1>10. ASSUME NEW c \in Core, SendFirst(c) PROVE SenderStep(b)
  <2>1. CASE b = c
    BY <1>10, <2>1 DEF SendFirst, Write, Spoils, Goto, SenderStep, Kept,
        Sending, ProgramType, WrapType, TxType
  <2>2. CASE b # c
    BY <1>10, <2>2 DEF SendFirst, Write, Spoils, Goto, SenderStep, Kept,
        Sending, ProgramType, WrapType, TxType
  <2>3. QED
    BY <2>1, <2>2
<1>11. ASSUME NEW c \in Core, SendSecond(c) PROVE SenderStep(b)
  <2>1. CASE b = c
    BY <1>11, <2>1 DEF SendSecond, Write, Spoils, Goto, SenderStep, Kept,
        Sending, ProgramType, WrapType, TxType
  <2>2. CASE b # c
    BY <1>11, <2>2 DEF SendSecond, Write, Spoils, Goto, SenderStep, Kept,
        Sending, ProgramType, WrapType, TxType
  <2>3. QED
    BY <2>1, <2>2
<1>12. ASSUME NEW c \in Core, SendCtrl(c) PROVE SenderStep(b)
  <2>1. CASE b = c
    BY <1>12, <2>1 DEF SendCtrl, Write, Spoils, Goto, SenderStep, Kept,
        Sending, ProgramType, WrapType, TxType
  <2>2. CASE b # c
    BY <1>12, <2>2 DEF SendCtrl, Write, Spoils, Goto, SenderStep, Kept,
        Sending, ProgramType, WrapType, TxType
  <2>3. QED
    BY <2>1, <2>2
<1>13. ASSUME NEW c \in Core, SendTrig(c) PROVE SenderStep(b)
  <2>1. CASE b = c
    BY <1>13, <2>1 DEF SendTrig, Write, Goto, GivenUp, SenderStep, Kept,
        Sending, ProgramType, Triggered, WrapType, TxType
  <2>2. CASE b # c
    BY <1>13, <2>2 DEF SendTrig, Write, Goto, SenderStep, Kept, Sending,
        ProgramType, WrapType, TxType
  <2>3. QED
    BY <2>1, <2>2
<1>14. ASSUME NEW c \in Core, ReceiveBegins(c) PROVE SenderStep(b)
  BY <1>14 DEF ReceiveBegins, Goto, wraps, sender, SenderStep, Kept, Sending,
      ProgramType
<1>15. ASSUME NEW c \in Core, ReceiveReady(c) PROVE SenderStep(b)
  BY <1>15 DEF ReceiveReady, Goto, wraps, sender, SenderStep, Kept, Sending,
      ProgramType
<1>16. ASSUME NEW c \in Core, ReceiveFirst(c) PROVE SenderStep(b)
  BY <1>16 DEF ReceiveFirst, Goto, wraps, sender, SenderStep, Kept, Sending,
      ProgramType
<1>17. ASSUME NEW c \in Core, ReceiveSecond(c) PROVE SenderStep(b)
  BY <1>17 DEF ReceiveSecond, Goto, wraps, sender, SenderStep, Kept, Sending,
      ProgramType
<1>18. ASSUME NEW c \in Core, ReceiveAccept(c) PROVE SenderStep(b)
  BY <1>18 DEF ReceiveAccept, Write, Goto, SenderStep, Kept, Sending,
      ProgramType, WrapType, CancelIdle
<1>19. ASSUME NEW c \in Core, SetTimeout(c) PROVE SenderStep(b)
  BY <1>19 DEF SetTimeout, Write, program, SenderStep, Kept, WrapType,
      CancelIdle, Sending
<1>20. ASSUME NEW c \in Core, Cancel(c) PROVE SenderStep(b)
  BY <1>20 DEF Cancel, Write, Spoils, program, SenderStep, Kept, WrapType,
      Sending
<1>21. CASE UNCHANGED vars
  BY <1>21 DEF vars, wraps, sender, program, SenderStep, Kept, Sending
<1>22. QED
  BY <1>1, <1>2, <1>3, <1>4, <1>5, <1>6, <1>7, <1>8, <1>9, <1>10, <1>11,
      <1>12, <1>13, <1>14, <1>15, <1>16, <1>17, <1>18, <1>19, <1>20, <1>21 DEF
      Next, Tx, Send, Receive

\* The step leaves the registers of receiver r and what it has read.
Rests(r) ==
  /\ rx'[r] = rx[r] /\ got'[r] = got[r]
  /\ Reading(r)' => Reading(r) \/ rx[r].status = 2
  /\ InHand(r)' <=> InHand(r)

\* A wrap delivers its message to receiver r.
Fills(r) ==
  /\ rx[r].status = 0 /\ got'[r] = got[r]
  /\ \E c \in Core :
       /\ trig[c] = 1 /\ trig'[c] = 0 /\ out' = out
       /\ rx'[r] = [status |-> 2, source |-> c, w0 |-> out[c].w0,
                    w1 |-> out[c].w1, id |-> out[c].id]

\* The program of r completes the reading of a message.
Reads(r) ==
  /\ rx'[r] = rx[r] /\ Reading(r) /\ pc[r] = "rxSecond" /\ ~ InHand(r)'
  /\ got'[r] = Append(got[r], [source |-> rx[r].source, id |-> rx[r].id,
                              w0 |-> buf[r], w1 |-> rx[r].w1])

\* The program of r frees its registers.
Accepts(r) ==
  /\ rx'[r].status = 0 /\ got'[r] = got[r] /\ ~ Reading(r)' /\ ~ InHand(r)

ReceiverStep(r) == Rests(r) \/ Fills(r) \/ Reads(r) \/ Accepts(r)

\* These are all the steps a receiver sees.
LEMMA ReceiverSteps ==
  ASSUME TypeOK, [Next]_vars, NEW r \in Core
  PROVE  ReceiverStep(r)
<1> USE DEF TypeOK
<1>1. CASE Edge
  BY <1>1 DEF Edge, wraps, program, ReceiverStep, Reading, InHand, Rests
<1>2. ASSUME NEW c \in Core, TxIdle(c) PROVE ReceiverStep(r)
  BY <1>2 DEF TxIdle, Turn, wraps, program, ReceiverStep, Reading, InHand,
      Rests
<1>3. ASSUME NEW c \in Core, TxCountsDown(c) PROVE ReceiverStep(r)
  BY <1>3 DEF TxCountsDown, Turn, program, ReceiverStep, Reading, InHand,
      Rests
<1>4. ASSUME NEW c \in Core, TxTimesOut(c) PROVE ReceiverStep(r)
  BY <1>4 DEF TxTimesOut, Turn, program, ReceiverStep, Reading, InHand, Rests
<1>5. ASSUME NEW c \in Core, TxStandsBack(c) PROVE ReceiverStep(r)
  BY <1>5 DEF TxStandsBack, Sends, Turn, program, ReceiverStep, Reading,
      InHand, Rests
<1>6. ASSUME NEW c \in Core, TxFindsBusy(c) PROVE ReceiverStep(r)
  BY <1>6 DEF TxFindsBusy, Sends, Turn, program, ReceiverStep, Reading,
      InHand, Rests
<1>7. ASSUME NEW c \in Core, TxDelivers(c) PROVE ReceiverStep(r)
  BY <1>7 DEF TxDelivers, Sends, Turn, program, ReceiverStep, Reading, InHand,
      Fills, BusType, WrapType, TxType, Rests
<1>8. ASSUME NEW c \in Core, SendBegins(c) PROVE ReceiverStep(r)
  BY <1>8 DEF SendBegins, Goto, wraps, ReceiverStep, Reading, InHand,
      ProgramType, Rests
<1>9. ASSUME NEW c \in Core, SendReady(c) PROVE ReceiverStep(r)
  BY <1>9 DEF SendReady, Goto, wraps, ReceiverStep, Reading, InHand,
      ProgramType, Rests
<1>10. ASSUME NEW c \in Core, SendFirst(c) PROVE ReceiverStep(r)
  BY <1>10 DEF SendFirst, Write, Goto, ReceiverStep, Reading, InHand,
      ProgramType, Rests
<1>11. ASSUME NEW c \in Core, SendSecond(c) PROVE ReceiverStep(r)
  BY <1>11 DEF SendSecond, Write, Goto, ReceiverStep, Reading, InHand,
      ProgramType, Rests
<1>12. ASSUME NEW c \in Core, SendCtrl(c) PROVE ReceiverStep(r)
  BY <1>12 DEF SendCtrl, Write, Goto, ReceiverStep, Reading, InHand,
      ProgramType, Rests
<1>13. ASSUME NEW c \in Core, SendTrig(c) PROVE ReceiverStep(r)
  BY <1>13 DEF SendTrig, Write, Goto, ReceiverStep, Reading, InHand,
      ProgramType, Rests
<1>14. ASSUME NEW c \in Core, ReceiveBegins(c) PROVE ReceiverStep(r)
  BY <1>14 DEF ReceiveBegins, Goto, wraps, ReceiverStep, Reading, InHand,
      ProgramType, Rests
<1>15. ASSUME NEW c \in Core, ReceiveReady(c) PROVE ReceiverStep(r)
  BY <1>15 DEF ReceiveReady, Goto, wraps, ReceiverStep, Reading, InHand,
      ProgramType, Rests
<1>16. ASSUME NEW c \in Core, ReceiveFirst(c) PROVE ReceiverStep(r)
  BY <1>16 DEF ReceiveFirst, Goto, wraps, ReceiverStep, Reading, InHand,
      ProgramType, Rests
<1>17. ASSUME NEW c \in Core, ReceiveSecond(c) PROVE ReceiverStep(r)
  BY <1>17 DEF ReceiveSecond, Goto, wraps, ReceiverStep, Reading, InHand,
      ProgramType, Reads, RxType, BusType, Rests
<1>18. ASSUME NEW c \in Core, ReceiveAccept(c) PROVE ReceiverStep(r)
  BY <1>18 DEF ReceiveAccept, Write, Goto, ReceiverStep, Reading, InHand,
      ProgramType, Accepts, RxType, BusType, Rests
<1>19. ASSUME NEW c \in Core, SetTimeout(c) PROVE ReceiverStep(r)
  BY <1>19 DEF SetTimeout, Write, program, ReceiverStep, Reading, InHand,
      Rests
<1>20. ASSUME NEW c \in Core, Cancel(c) PROVE ReceiverStep(r)
  BY <1>20 DEF Cancel, Write, program, ReceiverStep, Reading, InHand, Rests
<1>21. CASE UNCHANGED vars
  BY <1>21 DEF vars, wraps, program, ReceiverStep, Reading, InHand, Rests
<1>22. QED
  BY <1>1, <1>2, <1>3, <1>4, <1>5, <1>6, <1>7, <1>8, <1>9, <1>10, <1>11,
      <1>12, <1>13, <1>14, <1>15, <1>16, <1>17, <1>18, <1>19, <1>20, <1>21 DEF
      Next, Tx, Send, Receive

-----------------------------------------------------------------------------
(* Order *)

\* A message that has left its sender never waits there again.
LEMMA LeftStable ==
  ASSUME TypeOK, Order, CancelIdle, [Next]_vars,
         NEW b \in Core, NEW n \in Nat, Left(b, n)
  PROVE  Left(b, n)'
<1>1. SenderStep(b)
  BY SenderSteps
<1>2. out[b].id \in Nat /\ msg[b] \in Nat
  BY DEF TypeOK, WrapType, ProgramType, TxType
<1>3. CASE Kept(b)
  BY <1>3 DEF Kept, Left
<1>4. CASE Readied(b)
  BY <1>4 DEF Readied, Left
<1>5. CASE Triggered(b)
  BY <1>2, <1>5 DEF Triggered, Left, Order, Numbered
<1>6. QED
  BY <1>1, <1>3, <1>4, <1>5 DEF SenderStep

\* Every step keeps the numbering of messages behind the order.
LEMMA OrderStep == TypeOK /\ Order /\ CancelIdle /\ [Next]_vars => Order'
<1> SUFFICES ASSUME TypeOK, Order, CancelIdle, [Next]_vars PROVE Order'
  OBVIOUS
<1> USE DEF Order
<1>1. ASSUME NEW r \in Core PROVE ReceiverStep(r)
  BY ReceiverSteps
<1>2. ASSUME NEW r \in Core
      PROVE  /\ rx[r].source \in Core /\ rx[r].id \in Nat
             /\ got[r] \in Seq(Message)
  BY DEF TypeOK, BusType, RxType, ProgramType
<1>3. Numbered'
  BY SenderSteps DEF SenderStep, Kept, Readied, Triggered, Numbered
<1>4. ReadsFull'
  <2> SUFFICES ASSUME NEW r \in Core, Reading(r)' PROVE rx'[r].status = 2
    BY DEF ReadsFull
  <2>1. CASE Rests(r) \/ Reads(r)
    BY <2>1 DEF Rests, Reads, ReadsFull
  <2>2. CASE Fills(r)
    BY <2>2 DEF Fills
  <2>3. QED
    BY <1>1, <2>1, <2>2 DEF ReceiverStep, Accepts
<1>5. ASSUME NEW r \in Core, rx'[r].status = 2
      PROVE  Left(rx[r].source, rx[r].id)'
  <2>1. CASE Rests(r) \/ Reads(r)
    BY <1>2, <1>5, <2>1, LeftStable DEF Rests, Reads, HeldLeft
  <2>2. CASE Fills(r)
    BY <2>2 DEF Fills, Left
  <2>3. CASE Accepts(r)
    BY <1>5, <2>3 DEF Accepts
  <2>4. QED
    BY <1>1, <2>1, <2>2, <2>3 DEF ReceiverStep
<1>6. ASSUME NEW r \in Core, NEW i \in 1..Len(got'[r])
      PROVE  Left(got[r][i].source, got[r][i].id)'
  <2>1. ASSUME NEW j \in 1..Len(got[r])
        PROVE  Left(got[r][j].source, got[r][j].id)
               /\ got[r][j].source \in Core /\ got[r][j].id \in Nat
    <3>1. got[r][j] \in Message
      BY <1>2
    <3>2. QED
      BY <3>1 DEF GotLeft, Message
  <2>2. CASE got'[r] = got[r]
    BY <2>1, <2>2, LeftStable
  <2>3. CASE Reads(r)
    <3>1. CASE i \in 1..Len(got[r])
      BY <1>2, <2>1, <2>3, <3>1, LeftStable DEF Reads
    <3>2. CASE i = Len(got[r]) + 1
      <4>1. got'[r][i].source = rx[r].source /\ got'[r][i].id = rx[r].id
        BY <1>2, <2>3, <3>2 DEF Reads
      <4>2. Left(rx[r].source, rx[r].id)
        BY <2>3 DEF Reads, ReadsFull, HeldLeft
      <4>3. QED
        BY <1>2, <4>1, <4>2, LeftStable
    <3>3. QED
      BY <1>2, <2>3, <3>1, <3>2 DEF Reads
  <2>4. QED
    BY <1>1, <2>2, <2>3 DEF ReceiverStep, Rests, Fills, Accepts
<1>7. QED
  BY <1>3, <1>4, <1>5, <1>6 DEF HeldLeft, GotLeft

\* Every step keeps the order in which a receiver gets messages.
LEMMA InOrderStep ==
  TypeOK /\ Order /\ InOrderOnce /\ [Next]_vars => InOrderOnce'
<1> SUFFICES ASSUME TypeOK, Order, InOrderOnce, [Next]_vars,
                    NEW r \in Core, NEW i \in 1..Len(got'[r])
             PROVE  /\ \A j \in 1..(i - 1) :
                         got'[r][j].source = got'[r][i].source
                           => got'[r][j].id < got'[r][i].id
                    /\ InHand(r)' /\ rx'[r].source = got'[r][i].source
                         => got'[r][i].id < rx'[r].id
  BY DEF InOrderOnce
<1>1. ReceiverStep(r)
  BY ReceiverSteps
<1>2. got[r] \in Seq(Message) /\ rx[r].id \in Nat
  BY DEF TypeOK, BusType, RxType, ProgramType
<1>3. CASE Rests(r)
  BY <1>3 DEF Rests, InOrderOnce
<1>4. CASE Fills(r)
  <2>1. PICK c \in Core :
             /\ trig[c] = 1
             /\ rx'[r] = [status |-> 2, source |-> c, w0 |-> out[c].w0,
                          w1 |-> out[c].w1, id |-> out[c].id]
    BY <1>4 DEF Fills
  <2>2. got'[r] = got[r]
    BY <1>4 DEF Fills
  <2>3. got[r][i].source = c => got[r][i].id < out[c].id
    BY <2>1, <2>2 DEF Order, GotLeft, Left
  <2>4. \A j \in 1..(i - 1) :
          got[r][j].source = got[r][i].source => got[r][j].id < got[r][i].id
    BY <2>2 DEF InOrderOnce
  <2>5. rx'[r].source = c /\ rx'[r].id = out[c].id
    BY <2>1
  <2>6. QED
    BY <2>2, <2>3, <2>4, <2>5
<1>5. CASE Reads(r)
  <2>1. InHand(r)
    BY <1>5 DEF Reads, Order, ReadsFull, InHand
  <2>2. CASE i \in 1..Len(got[r])
    <3>1. \A j \in 1..i : got'[r][j] = got[r][j]
      BY <1>2, <1>5, <2>2 DEF Reads
    <3>2. QED
      BY <1>5, <2>2, <3>1 DEF Reads, InOrderOnce
  <2>3. CASE i = Len(got[r]) + 1
    <3>1. /\ \A j \in 1..(i - 1) : got'[r][j] = got[r][j]
          /\ got'[r][i].source = rx[r].source /\ got'[r][i].id = rx[r].id
      BY <1>2, <1>5, <2>3 DEF Reads
    <3>2. \A j \in 1..(i - 1) : j \in 1..Len(got[r])
      BY <1>2, <2>3
    <3>3. \A j \in 1..(i - 1) :
            got[r][j].source = rx[r].source => got[r][j].id < rx[r].id
      BY <2>1, <3>2 DEF InOrderOnce
    <3>4. \A j \in 1..(i - 1) :
            got'[r][j].source = got'[r][i].source
              => got'[r][j].id < got'[r][i].id
      BY <3>1, <3>3
    <3>5. ~ InHand(r)'
      BY <1>5 DEF Reads
    <3>6. QED
      BY <3>4, <3>5
  <2>4. i \in 1..Len(got[r]) \/ i = Len(got[r]) + 1
    BY <1>2, <1>5 DEF Reads
  <2>5. QED
    BY <2>2, <2>3, <2>4
<1>6. CASE Accepts(r)
  BY <1>6 DEF Accepts, InHand, InOrderOnce
<1>7. QED
  BY <1>1, <1>3, <1>4, <1>5, <1>6 DEF ReceiverStep

-----------------------------------------------------------------------------
(* Contents and losses *)

\* A spoilt message stays spoilt.
LEMMA SpoiltStays == [Next]_vars => spoilt \subseteq spoilt'
<1> SUFFICES ASSUME [Next]_vars PROVE spoilt \subseteq spoilt'
  OBVIOUS
<1>1. CASE Edge
  BY <1>1 DEF Edge, wraps, sender, program
<1>2. ASSUME NEW c \in Core, TxIdle(c) PROVE spoilt \subseteq spoilt'
  BY <1>2 DEF TxIdle, Turn, wraps, sender, program
<1>3. ASSUME NEW c \in Core, TxCountsDown(c) PROVE spoilt \subseteq spoilt'
  BY <1>3 DEF TxCountsDown, Turn, program
<1>4. ASSUME NEW c \in Core, TxTimesOut(c) PROVE spoilt \subseteq spoilt'
  BY <1>4 DEF TxTimesOut, Turn, program
<1>5. ASSUME NEW c \in Core, TxStandsBack(c) PROVE spoilt \subseteq spoilt'
  BY <1>5 DEF TxStandsBack, Sends, Turn, sender, program
<1>6. ASSUME NEW c \in Core, TxFindsBusy(c) PROVE spoilt \subseteq spoilt'
  BY <1>6 DEF TxFindsBusy, Sends, Turn, program
<1>7. ASSUME NEW c \in Core, TxDelivers(c) PROVE spoilt \subseteq spoilt'
  BY <1>7 DEF TxDelivers, Sends, Turn, program
<1>8. ASSUME NEW c \in Core, SendBegins(c) PROVE spoilt \subseteq spoilt'
  BY <1>8 DEF SendBegins, wraps, sender
<1>9. ASSUME NEW c \in Core, SendReady(c) PROVE spoilt \subseteq spoilt'
  BY <1>9 DEF SendReady, wraps, sender
<1>10. ASSUME NEW c \in Core, SendFirst(c) PROVE spoilt \subseteq spoilt'
  BY <1>10 DEF SendFirst, Spoils
<1>11. ASSUME NEW c \in Core, SendSecond(c) PROVE spoilt \subseteq spoilt'
  BY <1>11 DEF SendSecond, Spoils
<1>12. ASSUME NEW c \in Core, SendCtrl(c) PROVE spoilt \subseteq spoilt'
  BY <1>12 DEF SendCtrl, Spoils
<1>13. ASSUME NEW c \in Core, SendTrig(c) PROVE spoilt \subseteq spoilt'
  BY <1>13 DEF SendTrig, GivenUp
<1>14. ASSUME NEW c \in Core, ReceiveBegins(c) PROVE spoilt \subseteq spoilt'
  BY <1>14 DEF ReceiveBegins, wraps, sender
<1>15. ASSUME NEW c \in Core, ReceiveReady(c) PROVE spoilt \subseteq spoilt'
  BY <1>15 DEF ReceiveReady, wraps, sender
<1>16. ASSUME NEW c \in Core, ReceiveFirst(c) PROVE spoilt \subseteq spoilt'
  BY <1>16 DEF ReceiveFirst, wraps, sender
<1>17. ASSUME NEW c \in Core, ReceiveSecond(c) PROVE spoilt \subseteq spoilt'
  BY <1>17 DEF ReceiveSecond, wraps, sender
<1>18. ASSUME NEW c \in Core, ReceiveAccept(c) PROVE spoilt \subseteq spoilt'
  BY <1>18 DEF ReceiveAccept
<1>19. ASSUME NEW c \in Core, SetTimeout(c) PROVE spoilt \subseteq spoilt'
  BY <1>19 DEF SetTimeout, program
<1>20. ASSUME NEW c \in Core, Cancel(c) PROVE spoilt \subseteq spoilt'
  BY <1>20 DEF Cancel, Spoils, program
<1>21. CASE UNCHANGED vars
  BY <1>21 DEF vars, wraps, sender, program
<1>22. QED
  BY <1>1, <1>2, <1>3, <1>4, <1>5, <1>6, <1>7, <1>8, <1>9, <1>10, <1>11,
      <1>12, <1>13, <1>14, <1>15, <1>16, <1>17, <1>18, <1>19, <1>20, <1>21 DEF
      Next, Tx, Send, Receive

\* TX_CANCEL is only left set when a timeout has ended the send.
LEMMA CancelStep == TypeOK /\ CancelIdle /\ [Next]_vars => CancelIdle'
<1> SUFFICES ASSUME TypeOK, CancelIdle, [Next]_vars PROVE CancelIdle'
  OBVIOUS
<1> USE DEF TypeOK
<1>1. CASE Edge
  BY <1>1 DEF Edge, wraps, sender, program, CancelIdle
<1>2. ASSUME NEW c \in Core, TxIdle(c) PROVE CancelIdle'
  BY <1>2 DEF TxIdle, Turn, wraps, sender, program, CancelIdle
<1>3. ASSUME NEW c \in Core, TxCountsDown(c) PROVE CancelIdle'
  BY <1>3 DEF TxCountsDown, Turn, program, CancelIdle
<1>4. ASSUME NEW c \in Core, TxTimesOut(c) PROVE CancelIdle'
  BY <1>4 DEF TxTimesOut, Turn, program, CancelIdle, WrapType
<1>5. ASSUME NEW c \in Core, TxStandsBack(c) PROVE CancelIdle'
  BY <1>5 DEF TxStandsBack, Sends, Turn, sender, program, CancelIdle
<1>6. ASSUME NEW c \in Core, TxFindsBusy(c) PROVE CancelIdle'
  BY <1>6 DEF TxFindsBusy, Sends, Turn, program, CancelIdle
<1>7. ASSUME NEW c \in Core, TxDelivers(c) PROVE CancelIdle'
  BY <1>7 DEF TxDelivers, Sends, Turn, program, CancelIdle, WrapType
<1>8. ASSUME NEW c \in Core, SendBegins(c) PROVE CancelIdle'
  BY <1>8 DEF SendBegins, wraps, sender, CancelIdle
<1>9. ASSUME NEW c \in Core, SendReady(c) PROVE CancelIdle'
  BY <1>9 DEF SendReady, wraps, sender, CancelIdle
<1>10. ASSUME NEW c \in Core, SendFirst(c) PROVE CancelIdle'
  BY <1>10 DEF SendFirst, Write, CancelIdle, WrapType
<1>11. ASSUME NEW c \in Core, SendSecond(c) PROVE CancelIdle'
  BY <1>11 DEF SendSecond, Write, CancelIdle, WrapType
<1>12. ASSUME NEW c \in Core, SendCtrl(c) PROVE CancelIdle'
  BY <1>12 DEF SendCtrl, Write, CancelIdle, WrapType
<1>13. ASSUME NEW c \in Core, SendTrig(c) PROVE CancelIdle'
  BY <1>13 DEF SendTrig, Write, CancelIdle, WrapType
<1>14. ASSUME NEW c \in Core, ReceiveBegins(c) PROVE CancelIdle'
  BY <1>14 DEF ReceiveBegins, wraps, sender, CancelIdle
<1>15. ASSUME NEW c \in Core, ReceiveReady(c) PROVE CancelIdle'
  BY <1>15 DEF ReceiveReady, wraps, sender, CancelIdle
<1>16. ASSUME NEW c \in Core, ReceiveFirst(c) PROVE CancelIdle'
  BY <1>16 DEF ReceiveFirst, wraps, sender, CancelIdle
<1>17. ASSUME NEW c \in Core, ReceiveSecond(c) PROVE CancelIdle'
  BY <1>17 DEF ReceiveSecond, wraps, sender, CancelIdle
<1>18. ASSUME NEW c \in Core, ReceiveAccept(c) PROVE CancelIdle'
  BY <1>18 DEF ReceiveAccept, Write, CancelIdle, WrapType
<1>19. ASSUME NEW c \in Core, SetTimeout(c) PROVE CancelIdle'
  BY <1>19 DEF SetTimeout, Write, program, CancelIdle, WrapType
<1>20. ASSUME NEW c \in Core, Cancel(c) PROVE CancelIdle'
  BY <1>20 DEF Cancel, Write, program, CancelIdle, WrapType
<1>21. CASE UNCHANGED vars
  BY <1>21 DEF vars, wraps, sender, program, CancelIdle
<1>22. QED
  BY <1>1, <1>2, <1>3, <1>4, <1>5, <1>6, <1>7, <1>8, <1>9, <1>10, <1>11,
      <1>12, <1>13, <1>14, <1>15, <1>16, <1>17, <1>18, <1>19, <1>20, <1>21 DEF
      Next, Tx, Send, Receive

\* Every step keeps the words of a waiting message, or spoils it.
LEMMA SenderWordsStep == TypeOK /\ SenderWords /\ [Next]_vars => SenderWords'
<1> SUFFICES ASSUME TypeOK, SenderWords, [Next]_vars, NEW b \in Core
             PROVE  WordsOf(b)'
  BY DEF SenderWords
<1> USE DEF TypeOK
<1>1. CASE Edge
  BY <1>1 DEF Edge, wraps, sender, program, SenderWords, WordsOf
<1>2. ASSUME NEW c \in Core, TxIdle(c) PROVE WordsOf(b)'
  BY <1>2 DEF TxIdle, Turn, wraps, sender, program, SenderWords, WordsOf
<1>3. ASSUME NEW c \in Core, TxCountsDown(c) PROVE WordsOf(b)'
  BY <1>3 DEF TxCountsDown, Turn, program, SenderWords, WordsOf
<1>4. ASSUME NEW c \in Core, TxTimesOut(c) PROVE WordsOf(b)'
  BY <1>4 DEF TxTimesOut, Turn, program, SenderWords, WordsOf, WrapType
<1>5. ASSUME NEW c \in Core, TxStandsBack(c) PROVE WordsOf(b)'
  BY <1>5 DEF TxStandsBack, Sends, Turn, sender, program, SenderWords, WordsOf
<1>6. ASSUME NEW c \in Core, TxFindsBusy(c) PROVE WordsOf(b)'
  BY <1>6 DEF TxFindsBusy, Sends, Turn, program, SenderWords, WordsOf
<1>7. ASSUME NEW c \in Core, TxDelivers(c) PROVE WordsOf(b)'
  BY <1>7 DEF TxDelivers, Sends, Turn, program, SenderWords, WordsOf, WrapType
<1>8. ASSUME NEW c \in Core, SendBegins(c) PROVE WordsOf(b)'
  BY <1>8 DEF SendBegins, Goto, wraps, sender, SenderWords, WordsOf,
      ProgramType
<1>9. ASSUME NEW c \in Core, SendReady(c) PROVE WordsOf(b)'
  BY <1>9 DEF SendReady, Goto, wraps, sender, SenderWords, WordsOf,
      ProgramType
<1>10. ASSUME NEW c \in Core, SendFirst(c) PROVE WordsOf(b)'
  <2>1. CASE b = c
    BY <1>10, <2>1 DEF SendFirst, Write, Spoils, Goto, SenderWords, WordsOf,
        WrapType, TxType, ProgramType
  <2>2. CASE b # c
    BY <1>10, <2>2 DEF SendFirst, Write, Spoils, Goto, SenderWords, WordsOf,
        WrapType, TxType, ProgramType
  <2>3. QED
    BY <2>1, <2>2
<1>11. ASSUME NEW c \in Core, SendSecond(c) PROVE WordsOf(b)'
  <2>1. CASE b = c
    BY <1>11, <2>1 DEF SendSecond, Write, Spoils, Goto, SenderWords, WordsOf,
        WrapType, TxType, ProgramType
  <2>2. CASE b # c
    BY <1>11, <2>2 DEF SendSecond, Write, Spoils, Goto, SenderWords, WordsOf,
        WrapType, TxType, ProgramType
  <2>3. QED
    BY <2>1, <2>2
<1>12. ASSUME NEW c \in Core, SendCtrl(c) PROVE WordsOf(b)'
  <2>1. CASE b = c
    BY <1>12, <2>1 DEF SendCtrl, Write, Spoils, Goto, SenderWords, WordsOf,
        WrapType, TxType, ProgramType
  <2>2. CASE b # c
    BY <1>12, <2>2 DEF SendCtrl, Write, Spoils, Goto, SenderWords, WordsOf,
        WrapType, TxType, ProgramType
  <2>3. QED
    BY <2>1, <2>2
<1>13. ASSUME NEW c \in Core, SendTrig(c) PROVE WordsOf(b)'
  <2>1. CASE b = c
    <3>1. out[c].w0 = msg[c] /\ out[c].w1 = msg[c]
      BY <1>13 DEF SendTrig, SenderWords, WordsOf
    <3>2. out'[c] = [out[c] EXCEPT !.id = msg[c]]
      BY <1>13 DEF SendTrig, WrapType
    <3>3. pc'[c] = "idle"
      BY <1>13 DEF SendTrig, Goto, ProgramType
    <3>4. QED
      BY <2>1, <3>1, <3>2, <3>3 DEF WordsOf, WrapType, TxType
  <2>2. CASE b # c
    BY <1>13, <2>2 DEF SendTrig, Write, Goto, SenderWords, WordsOf, WrapType,
        TxType, ProgramType
  <2>3. QED
    BY <2>1, <2>2
<1>14. ASSUME NEW c \in Core, ReceiveBegins(c) PROVE WordsOf(b)'
  BY <1>14 DEF ReceiveBegins, Goto, wraps, sender, SenderWords, WordsOf,
      ProgramType
<1>15. ASSUME NEW c \in Core, ReceiveReady(c) PROVE WordsOf(b)'
  BY <1>15 DEF ReceiveReady, Goto, wraps, sender, SenderWords, WordsOf,
      ProgramType
<1>16. ASSUME NEW c \in Core, ReceiveFirst(c) PROVE WordsOf(b)'
  BY <1>16 DEF ReceiveFirst, Goto, wraps, sender, SenderWords, WordsOf,
      ProgramType
<1>17. ASSUME NEW c \in Core, ReceiveSecond(c) PROVE WordsOf(b)'
  BY <1>17 DEF ReceiveSecond, Goto, wraps, sender, SenderWords, WordsOf,
      ProgramType
<1>18. ASSUME NEW c \in Core, ReceiveAccept(c) PROVE WordsOf(b)'
  BY <1>18 DEF ReceiveAccept, Write, Goto, SenderWords, WordsOf, ProgramType,
      WrapType
<1>19. ASSUME NEW c \in Core, SetTimeout(c) PROVE WordsOf(b)'
  BY <1>19 DEF SetTimeout, Write, program, SenderWords, WordsOf, WrapType
<1>20. ASSUME NEW c \in Core, Cancel(c) PROVE WordsOf(b)'
  BY <1>20 DEF Cancel, Write, Spoils, program, SenderWords, WordsOf, WrapType
<1>21. CASE UNCHANGED vars
  BY <1>21 DEF vars, wraps, sender, program, SenderWords, WordsOf
<1>22. QED
  BY <1>1, <1>2, <1>3, <1>4, <1>5, <1>6, <1>7, <1>8, <1>9, <1>10, <1>11,
      <1>12, <1>13, <1>14, <1>15, <1>16, <1>17, <1>18, <1>19, <1>20, <1>21 DEF
      Next, Tx, Send, Receive

\* No delivery comes between the two reads of a receiver.
LEMMA ReaderWordsStep ==
  TypeOK /\ Order /\ ReaderWords /\ [Next]_vars => ReaderWords'
<1> SUFFICES ASSUME TypeOK, Order, ReaderWords, [Next]_vars PROVE ReaderWords'
  OBVIOUS
<1> USE DEF TypeOK
<1>1. CASE Edge
  BY <1>1 DEF Edge, wraps, sender, program, ReaderWords
<1>2. ASSUME NEW c \in Core, TxIdle(c) PROVE ReaderWords'
  BY <1>2 DEF TxIdle, Turn, wraps, sender, program, ReaderWords
<1>3. ASSUME NEW c \in Core, TxCountsDown(c) PROVE ReaderWords'
  BY <1>3 DEF TxCountsDown, Turn, program, ReaderWords
<1>4. ASSUME NEW c \in Core, TxTimesOut(c) PROVE ReaderWords'
  BY <1>4 DEF TxTimesOut, Turn, program, ReaderWords
<1>5. ASSUME NEW c \in Core, TxStandsBack(c) PROVE ReaderWords'
  BY <1>5 DEF TxStandsBack, Sends, Turn, sender, program, ReaderWords
<1>6. ASSUME NEW c \in Core, TxFindsBusy(c) PROVE ReaderWords'
  BY <1>6 DEF TxFindsBusy, Sends, Turn, program, ReaderWords
<1>7. ASSUME NEW c \in Core, TxDelivers(c) PROVE ReaderWords'
  BY <1>7 DEF TxDelivers, Sends, Turn, program, ReaderWords, Order, ReadsFull,
      Reading, BusType
<1>8. ASSUME NEW c \in Core, SendBegins(c) PROVE ReaderWords'
  BY <1>8 DEF SendBegins, Goto, wraps, sender, ReaderWords, ProgramType
<1>9. ASSUME NEW c \in Core, SendReady(c) PROVE ReaderWords'
  BY <1>9 DEF SendReady, Goto, wraps, sender, ReaderWords, ProgramType
<1>10. ASSUME NEW c \in Core, SendFirst(c) PROVE ReaderWords'
  BY <1>10 DEF SendFirst, Write, Goto, ReaderWords, ProgramType
<1>11. ASSUME NEW c \in Core, SendSecond(c) PROVE ReaderWords'
  BY <1>11 DEF SendSecond, Write, Goto, ReaderWords, ProgramType
<1>12. ASSUME NEW c \in Core, SendCtrl(c) PROVE ReaderWords'
  BY <1>12 DEF SendCtrl, Write, Goto, ReaderWords, ProgramType
<1>13. ASSUME NEW c \in Core, SendTrig(c) PROVE ReaderWords'
  BY <1>13 DEF SendTrig, Write, Goto, ReaderWords, ProgramType
<1>14. ASSUME NEW c \in Core, ReceiveBegins(c) PROVE ReaderWords'
  BY <1>14 DEF ReceiveBegins, Goto, wraps, sender, ReaderWords, ProgramType
<1>15. ASSUME NEW c \in Core, ReceiveReady(c) PROVE ReaderWords'
  BY <1>15 DEF ReceiveReady, Goto, wraps, sender, ReaderWords, ProgramType
<1>16. ASSUME NEW c \in Core, ReceiveFirst(c) PROVE ReaderWords'
  BY <1>16 DEF ReceiveFirst, Goto, wraps, sender, ReaderWords, ProgramType
<1>17. ASSUME NEW c \in Core, ReceiveSecond(c) PROVE ReaderWords'
  BY <1>17 DEF ReceiveSecond, Goto, wraps, sender, ReaderWords, ProgramType
<1>18. ASSUME NEW c \in Core, ReceiveAccept(c) PROVE ReaderWords'
  BY <1>18 DEF ReceiveAccept, Write, Goto, ReaderWords, ProgramType, BusType
<1>19. ASSUME NEW c \in Core, SetTimeout(c) PROVE ReaderWords'
  BY <1>19 DEF SetTimeout, Write, program, ReaderWords
<1>20. ASSUME NEW c \in Core, Cancel(c) PROVE ReaderWords'
  BY <1>20 DEF Cancel, Write, program, ReaderWords
<1>21. CASE UNCHANGED vars
  BY <1>21 DEF vars, wraps, sender, program, ReaderWords
<1>22. QED
  BY <1>1, <1>2, <1>3, <1>4, <1>5, <1>6, <1>7, <1>8, <1>9, <1>10, <1>11,
      <1>12, <1>13, <1>14, <1>15, <1>16, <1>17, <1>18, <1>19, <1>20, <1>21 DEF
      Next, Tx, Send, Receive

\* What a receiver holds is the message that was triggered.
LEMMA HeldWordsStep ==
  TypeOK /\ SenderWords /\ HeldWords /\ [Next]_vars => HeldWords'
<1> SUFFICES ASSUME TypeOK, SenderWords, HeldWords, [Next]_vars,
                    NEW r \in Core, rx'[r].status = 2
             PROVE  \/ <<rx'[r].source, rx'[r].id>> \in spoilt'
                    \/ rx'[r].w0 = rx'[r].id /\ rx'[r].w1 = rx'[r].id
  BY DEF HeldWords
<1>1. ReceiverStep(r) /\ spoilt \subseteq spoilt'
  BY ReceiverSteps, SpoiltStays
<1>2. CASE Rests(r) \/ Reads(r)
  BY <1>1, <1>2 DEF Rests, Reads, HeldWords
<1>3. CASE Fills(r)
  BY <1>1, <1>3 DEF Fills, SenderWords, WordsOf
<1>4. QED
  BY <1>1, <1>2, <1>3 DEF ReceiverStep, Accepts

\* What a receiver has read is the message that was triggered.
LEMMA WholeStep ==
  TypeOK /\ Order /\ Words /\ WholeUnlessSpoilt /\ [Next]_vars
    => WholeUnlessSpoilt'
<1> DEFINE Whole(m) == <<m.source, m.id>> \in spoilt
                       \/ (m.w0 = m.id /\ m.w1 = m.id)
<1> SUFFICES ASSUME TypeOK, Order, Words, WholeUnlessSpoilt, [Next]_vars,
                    NEW r \in Core, NEW i \in 1..Len(got'[r])
             PROVE  Whole(got[r][i])'
  BY DEF WholeUnlessSpoilt
<1>1. ReceiverStep(r) /\ spoilt \subseteq spoilt'
  BY ReceiverSteps, SpoiltStays
<1>2. got[r] \in Seq(Message)
  BY DEF TypeOK, ProgramType
<1>3. \A j \in 1..Len(got[r]) : Whole(got[r][j])
  BY DEF WholeUnlessSpoilt
<1>4. CASE got'[r] = got[r]
  BY <1>1, <1>3, <1>4
<1>5. CASE Reads(r)
  <2>1. CASE i \in 1..Len(got[r])
    <3>1. got'[r][i] = got[r][i]
      BY <1>2, <1>5, <2>1 DEF Reads
    <3>2. QED
      BY <1>1, <1>3, <2>1, <3>1
  <2>2. CASE i = Len(got[r]) + 1
    <3>1. got'[r][i] = [source |-> rx[r].source, id |-> rx[r].id,
                        w0 |-> rx[r].w0, w1 |-> rx[r].w1]
      BY <1>2, <1>5, <2>2 DEF Reads, Words, ReaderWords
    <3>2. \/ <<rx[r].source, rx[r].id>> \in spoilt
          \/ rx[r].w0 = rx[r].id /\ rx[r].w1 = rx[r].id
      BY <1>5 DEF Reads, Order, ReadsFull, Words, HeldWords
    <3>3. QED
      BY <1>1, <3>1, <3>2
  <2>3. QED
    BY <1>2, <1>5, <2>1, <2>2 DEF Reads
<1>6. QED
  BY <1>1, <1>4, <1>5 DEF ReceiverStep, Rests, Fills, Accepts

\* A message that has arrived stays with its receiver.
LEMMA ArrivedStays ==
  ASSUME TypeOK, [Next]_vars, NEW c \in Core, NEW n \in Nat, Arrived(c, n)
  PROVE  Arrived(c, n)'
<1>1. ASSUME NEW r \in Core
      PROVE  got[r] \in Seq(Message) /\ ReceiverStep(r)
  BY ReceiverSteps DEF TypeOK, ProgramType
<1>2. ASSUME NEW r \in Core, NEW i \in 1..Len(got[r])
      PROVE  i \in 1..Len(got'[r]) /\ got'[r][i] = got[r][i]
  <2>1. CASE Reads(r)
    BY <1>1, <2>1 DEF Reads
  <2>2. QED
    BY <1>1, <2>1 DEF ReceiverStep, Rests, Fills, Accepts
<1>3. ASSUME NEW r \in Core, InHand(r), rx[r].source = c, rx[r].id = n
      PROVE  Arrived(c, n)'
  <2>1. CASE Rests(r)
    BY <1>3, <2>1 DEF Rests, Arrived
  <2>2. CASE Reads(r)
    <3>1. /\ Len(got[r]) + 1 \in 1..Len(got'[r])
          /\ got'[r][Len(got[r]) + 1].source = c
          /\ got'[r][Len(got[r]) + 1].id = n
      BY <1>1, <1>3, <2>2 DEF Reads
    <3>2. QED
      BY <3>1 DEF Arrived
  <2>3. QED
    BY <1>1, <1>3, <2>1, <2>2 DEF ReceiverStep, Fills, Accepts, InHand
<1>4. QED
  BY <1>2, <1>3 DEF Arrived

\* Every step keeps account of every triggered message.
LEMMA NoneLostStep ==
  TypeOK /\ Order /\ CancelIdle /\ NoneLost /\ [Next]_vars => NoneLost'
<1> DEFINE Found(c, n) ==
      <<c, n>> \in spoilt \/ (trig[c] = 1 /\ out[c].id = n) \/ Arrived(c, n)
<1> SUFFICES ASSUME TypeOK, Order, CancelIdle, NoneLost, [Next]_vars,
                    NEW c \in Core, NEW n \in 1..out'[c].id
             PROVE  Found(c, n)'
  BY DEF NoneLost
<1>1. SenderStep(c) /\ spoilt \subseteq spoilt'
  BY SenderSteps, SpoiltStays
<1>2. out[c].id \in Nat /\ msg[c] \in Nat
  BY DEF TypeOK, WrapType, TxType, ProgramType
<1>3. ASSUME <<c, n>> \in spoilt \/ Arrived(c, n)
      PROVE  Found(c, n)'
  BY <1>1, <1>2, <1>3, ArrivedStays
<1>4. CASE Kept(c)
  <2>1. Found(c, n)
    BY <1>4 DEF Kept, NoneLost
  <2>2. CASE trig[c] = 1 /\ out[c].id = n
    BY <1>4, <2>2 DEF Kept, Arrived
  <2>3. QED
    BY <1>3, <2>1, <2>2
<1>5. CASE Readied(c)
  BY <1>3, <1>5 DEF Readied, NoneLost
<1>6. CASE Triggered(c)
  <2>1. CASE n = msg[c]
    BY <1>6, <2>1 DEF Triggered
  <2>2. CASE n \in 1..out[c].id
    BY <1>3, <1>6, <2>2 DEF Triggered, NoneLost
  <2>3. QED
    BY <1>2, <1>6, <2>1, <2>2 DEF Triggered, Order, Numbered
<1>7. QED
  BY <1>1, <1>4, <1>5, <1>6 DEF SenderStep

\* c2cc_wrap_tx_thread, sc_send_msg: what waits is addressed to the receiver of
\* its program, whatever the program writes meanwhile.
LEMMA AddressedStep ==
  ASSUME TypeOK, Order, Addressed, [Next]_vars
  PROVE  Addressed'
<1> USE DestAssumption DEF TypeOK
<1>1. CASE Edge
  BY <1>1 DEF Edge, wraps, sender, program, WrapType, TxType, ProgramType, Addressed, Sending
<1>2. ASSUME NEW c \in Core, TxIdle(c) PROVE Addressed'
  BY <1>2 DEF TxIdle, Turn, wraps, sender, program, WrapType, TxType, ProgramType, Addressed, Sending
<1>3. ASSUME NEW c \in Core, TxCountsDown(c) PROVE Addressed'
  BY <1>3 DEF TxCountsDown, Turn, program, WrapType, TxType, ProgramType, Addressed, Sending
<1>4. ASSUME NEW c \in Core, TxTimesOut(c) PROVE Addressed'
  BY <1>4 DEF TxTimesOut, Turn, program, WrapType, TxType, ProgramType, Addressed, Sending
<1>5. ASSUME NEW c \in Core, TxStandsBack(c) PROVE Addressed'
  BY <1>5 DEF TxStandsBack, Sends, Turn, sender, program, WrapType, TxType, ProgramType, Addressed, Sending
<1>6. ASSUME NEW c \in Core, TxFindsBusy(c) PROVE Addressed'
  BY <1>6 DEF TxFindsBusy, Sends, Turn, program, WrapType, TxType, ProgramType, Addressed, Sending
<1>7. ASSUME NEW c \in Core, TxDelivers(c) PROVE Addressed'
  BY <1>7 DEF TxDelivers, Sends, Turn, program, WrapType, TxType, ProgramType, Addressed, Sending
<1>8. ASSUME NEW c \in Core, SendBegins(c) PROVE Addressed'
  BY <1>8 DEF SendBegins, Goto, wraps, sender, WrapType, TxType, ProgramType, Addressed, Sending
<1>9. ASSUME NEW c \in Core, SendReady(c) PROVE Addressed'
  BY <1>9 DEF SendReady, Access, Goto, wraps, sender, WrapType, TxType, ProgramType, Addressed, Sending
<1>10. ASSUME NEW c \in Core, SendFirst(c) PROVE Addressed'
  BY <1>10 DEF SendFirst, Write, Spoils, Access, Goto, WrapType, TxType, ProgramType, Addressed, Sending
<1>11. ASSUME NEW c \in Core, SendSecond(c) PROVE Addressed'
  BY <1>11 DEF SendSecond, Write, Spoils, Access, Goto, WrapType, TxType, ProgramType, Addressed, Sending
<1>12. ASSUME NEW c \in Core, SendCtrl(c) PROVE Addressed'
  BY <1>12 DEF SendCtrl, Write, Spoils, Access, Goto, WrapType, TxType, ProgramType, Addressed, Sending
<1>13. ASSUME NEW c \in Core, SendTrig(c) PROVE Addressed'
  BY <1>13 DEF SendTrig, Write, Access, Goto, WrapType, TxType, ProgramType, Addressed, Sending, Order, Numbered
<1>14. ASSUME NEW c \in Core, ReceiveBegins(c) PROVE Addressed'
  BY <1>14 DEF ReceiveBegins, Goto, wraps, sender, WrapType, TxType, ProgramType, Addressed, Sending
<1>15. ASSUME NEW c \in Core, ReceiveReady(c) PROVE Addressed'
  BY <1>15 DEF ReceiveReady, Access, Goto, wraps, sender, WrapType, TxType, ProgramType, Addressed, Sending
<1>16. ASSUME NEW c \in Core, ReceiveFirst(c) PROVE Addressed'
  BY <1>16 DEF ReceiveFirst, Access, Goto, wraps, sender, WrapType, TxType, ProgramType, Addressed, Sending
<1>17. ASSUME NEW c \in Core, ReceiveSecond(c) PROVE Addressed'
  BY <1>17 DEF ReceiveSecond, Access, Goto, wraps, sender, WrapType, TxType, ProgramType, Addressed, Sending
<1>18. ASSUME NEW c \in Core, ReceiveAccept(c) PROVE Addressed'
  BY <1>18 DEF ReceiveAccept, Write, Access, Goto, WrapType, TxType, ProgramType, Addressed, Sending
<1>19. ASSUME NEW c \in Core, SetTimeout(c) PROVE Addressed'
  BY <1>19 DEF SetTimeout, Write, Access, program, WrapType, TxType, ProgramType, Addressed, Sending
<1>20. ASSUME NEW c \in Core, Cancel(c) PROVE Addressed'
  BY <1>20 DEF Cancel, Write, Spoils, Access, program, WrapType, TxType, ProgramType, Addressed, Sending
<1>21. CASE UNCHANGED vars
  BY <1>21 DEF vars, wraps, sender, program, WrapType, TxType, ProgramType, Addressed, Sending
<1>22. QED
  BY <1>1, <1>2, <1>3, <1>4, <1>5, <1>6, <1>7, <1>8, <1>9, <1>10, <1>11, <1>12, <1>13, <1>14, <1>15, <1>16, <1>17, <1>18, <1>19, <1>20, <1>21
  DEF Next, Tx, Send, Receive

-----------------------------------------------------------------------------
(* The theorems *)

\* The inductive invariant holds initially and every step keeps it.
LEMMA Invariance == Spec => []IInv
<1>1. Init => IInv
  <2>1. Init => TypeOK
    BY TypeInit
  <2>2. Init => Order /\ Addressed /\ CancelIdle /\ Words
    BY DEF Init, Addressed, Order, Numbered, ReadsFull, HeldLeft, GotLeft, CancelIdle,
           Words, SenderWords, WordsOf, ReaderWords, HeldWords, Sending,
           Reading, NoTx, NoRx
  <2>3. Init => InOrderOnce /\ NoneLost /\ WholeUnlessSpoilt
    BY DEF Init, InOrderOnce, NoneLost, WholeUnlessSpoilt, NoTx
  <2>4. QED
    BY <2>1, <2>2, <2>3 DEF IInv
<1>2. IInv /\ [Next]_vars => IInv'
  BY TypeStep, OrderStep, AddressedStep, CancelStep, SenderWordsStep, ReaderWordsStep,
     HeldWordsStep, InOrderStep, WholeStep, NoneLostStep DEF IInv, Words
<1>3. QED
  BY <1>1, <1>2, PTL DEF Spec

\* Registers, arbiter and programs stay in range.
THEOREM TypeCorrect == Spec => []TypeOK
  BY Invariance, PTL DEF IInv

\* A receiver gets the messages of a sender in order, none twice.
THEOREM ReceivedInOrder == Spec => []InOrderOnce
  BY Invariance, PTL DEF IInv

\* No message is lost to a busy receiver or to the next message.
THEOREM NoMessageLost == Spec => []NoneLost
  BY Invariance, PTL DEF IInv

\* No program reads a mixture of two messages.
THEOREM MessagesWhole == Spec => []WholeUnlessSpoilt
  BY Invariance, PTL DEF IInv

-----------------------------------------------------------------------------
(* What a busy TX_STATUS means *)

\* What has arrived has left its sender.
LEMMA ArrivedLeft ==
  ASSUME TypeOK, Order, NEW c \in Core, NEW n \in Nat, Arrived(c, n)
  PROVE  Left(c, n)
  BY DEF Order, HeldLeft, GotLeft, Arrived, InHand

\* Only the step that ends its send makes a message arrive.
LEMMA ArrivesOnce ==
  ASSUME TypeOK, Order, [Next]_vars, NEW c \in Core, NEW n \in Nat, Arrived(c, n)'
  PROVE  Arrived(c, n) \/ (trig[c] = 1 /\ trig'[c] = 0)
<1>1. ASSUME NEW r \in Core
      PROVE  got[r] \in Seq(Message) /\ ReceiverStep(r)
  BY ReceiverSteps DEF TypeOK, ProgramType
<1>2. ASSUME NEW r \in Core, InHand(r)', rx'[r].source = c, rx'[r].id = n
      PROVE  Arrived(c, n) \/ (trig[c] = 1 /\ trig'[c] = 0)
  <2>1. CASE Rests(r)
    BY <1>2, <2>1 DEF Rests, Arrived
  <2>2. CASE Fills(r)
    BY <1>2, <2>2 DEF Fills
  <2>3. CASE Reads(r)
    BY <1>2, <2>3 DEF Reads
  <2>4. CASE Accepts(r)
    BY <1>2, <2>4 DEF Accepts, InHand
  <2>5. QED
    BY <1>1, <2>1, <2>2, <2>3, <2>4 DEF ReceiverStep
<1>3. ASSUME NEW r \in Core, NEW i \in 1..Len(got'[r]),
             got'[r][i].source = c, got'[r][i].id = n
      PROVE  Arrived(c, n)
  <2>1. CASE got'[r] = got[r]
    BY <1>3, <2>1 DEF Arrived
  <2>2. CASE Reads(r)
    <3>1. CASE i \in 1..Len(got[r])
      BY <1>1, <1>3, <2>2, <3>1 DEF Reads, Arrived
    <3>2. CASE i = Len(got[r]) + 1
      <4>1. rx[r].source = c /\ rx[r].id = n
        BY <1>1, <1>3, <2>2, <3>2 DEF Reads
      <4>2. InHand(r)
        BY <2>2 DEF Reads, Order, ReadsFull, InHand
      <4>3. QED
        BY <4>1, <4>2 DEF Arrived
    <3>3. QED
      BY <1>1, <1>3, <2>2, <3>1, <3>2 DEF Reads
  <2>3. QED
    BY <1>1, <2>1, <2>2 DEF ReceiverStep, Rests, Fills, Accepts
<1>4. QED
  BY <1>2, <1>3 DEF Arrived

\* The send of core b goes on, is given up by its timer, or was given up before.
StillBusy(b) ==
  \/ trig'[b] = 1
  \/ TxTimesOut(b)
  \/ /\ trig[b] = 0 /\ status[b] # 0 /\ cancel'[b] = 1
     /\ out'[b].id = out[b].id

\* c2cc_wrap_tx_thread and tx_nb_transport_fw leave TX_STATUS busy in these ways.
LEMMA BusySteps ==
  ASSUME TypeOK, BusyMeansUnsent, [Next]_vars, NEW b \in Core, status'[b] # 0
  PROVE  StillBusy(b)
<1> USE DEF TypeOK, WrapType, BusyMeansUnsent, StillBusy
<1>1. CASE Edge
  BY <1>1 DEF Edge, wraps, sender
<1>2. ASSUME NEW c \in Core, TxIdle(c) PROVE StillBusy(b)
  BY <1>2 DEF TxIdle, Turn, wraps, sender, program
<1>3. ASSUME NEW c \in Core, TxCountsDown(c) PROVE StillBusy(b)
  BY <1>3 DEF TxCountsDown, Turn
<1>4. ASSUME NEW c \in Core, TxTimesOut(c) PROVE StillBusy(b)
  BY <1>4 DEF TxTimesOut, Turn
<1>5. ASSUME NEW c \in Core, TxStandsBack(c) PROVE StillBusy(b)
  BY <1>5 DEF TxStandsBack, Sends, Turn, sender
<1>6. ASSUME NEW c \in Core, TxFindsBusy(c) PROVE StillBusy(b)
  BY <1>6 DEF TxFindsBusy, Sends, Turn
<1>7. ASSUME NEW c \in Core, TxDelivers(c) PROVE StillBusy(b)
  BY <1>7 DEF TxDelivers, Sends, Turn
<1>8. ASSUME NEW c \in Core, SendBegins(c) PROVE StillBusy(b)
  BY <1>8 DEF SendBegins, Goto, wraps, sender
<1>9. ASSUME NEW c \in Core, SendReady(c) PROVE StillBusy(b)
  BY <1>9 DEF SendReady, Access, Goto, wraps, sender
<1>10. ASSUME NEW c \in Core, SendFirst(c) PROVE StillBusy(b)
  BY <1>10 DEF SendFirst, Write, Access, TxType
<1>11. ASSUME NEW c \in Core, SendSecond(c) PROVE StillBusy(b)
  BY <1>11 DEF SendSecond, Write, Access, TxType
<1>12. ASSUME NEW c \in Core, SendCtrl(c) PROVE StillBusy(b)
  BY <1>12 DEF SendCtrl, Write, Access, TxType
<1>13. ASSUME NEW c \in Core, SendTrig(c) PROVE StillBusy(b)
  BY <1>13 DEF SendTrig, Write, Access, TxType
<1>14. ASSUME NEW c \in Core, ReceiveBegins(c) PROVE StillBusy(b)
  BY <1>14 DEF ReceiveBegins, Goto, wraps, sender
<1>15. ASSUME NEW c \in Core, ReceiveReady(c) PROVE StillBusy(b)
  BY <1>15 DEF ReceiveReady, Access, Goto, wraps, sender
<1>16. ASSUME NEW c \in Core, ReceiveFirst(c) PROVE StillBusy(b)
  BY <1>16 DEF ReceiveFirst, Access, Goto, wraps, sender
<1>17. ASSUME NEW c \in Core, ReceiveSecond(c) PROVE StillBusy(b)
  BY <1>17 DEF ReceiveSecond, Access, Goto, wraps, sender
<1>18. ASSUME NEW c \in Core, ReceiveAccept(c) PROVE StillBusy(b)
  BY <1>18 DEF ReceiveAccept, Write, Access
<1>19. ASSUME NEW c \in Core, SetTimeout(c) PROVE StillBusy(b)
  BY <1>19 DEF SetTimeout, Write, Access
<1>20. ASSUME NEW c \in Core, Cancel(c) PROVE StillBusy(b)
  BY <1>20 DEF Cancel, Write, Access
<1>21. CASE UNCHANGED vars
  BY <1>21 DEF vars, wraps, sender
<1>22. QED
  BY <1>1, <1>2, <1>3, <1>4, <1>5, <1>6, <1>7, <1>8, <1>9, <1>10, <1>11,
      <1>12, <1>13, <1>14, <1>15, <1>16, <1>17, <1>18, <1>19, <1>20, <1>21
  DEF Next, Tx, Send, Receive

\* Every step keeps a busy TX_STATUS true to its message.
LEMMA BusyStep == IInv /\ BusyMeansUnsent /\ [Next]_vars => BusyMeansUnsent'
<1> SUFFICES ASSUME IInv, BusyMeansUnsent, [Next]_vars,
                    NEW c \in Core, status'[c] # 0
             PROVE  /\ trig'[c] = 1 \/ cancel'[c] = 1
                    /\ ~ Arrived(c, out[c].id)'
  BY DEF BusyMeansUnsent
<1>1. TypeOK /\ Order /\ CancelIdle /\ TypeOK' /\ Order'
  BY TypeStep, OrderStep DEF IInv
<1>2. out[c].id \in Nat /\ out'[c].id \in Nat
  BY <1>1 DEF TypeOK, WrapType, TxType
<1>3. CASE trig'[c] = 1
  <2>1. Arrived(c, out[c].id)' => Left(c, out[c].id)'
    <3>1. ASSUME NEW r \in Core, InHand(r)', rx'[r].source = c,
                 rx'[r].id = out'[c].id
          PROVE  Left(c, out[c].id)'
      BY <1>1, <3>1 DEF Order, HeldLeft, InHand
    <3>2. ASSUME NEW r \in Core, NEW i \in 1..Len(got'[r]),
                 got'[r][i].source = c, got'[r][i].id = out'[c].id
          PROVE  Left(c, out[c].id)'
      BY <1>1, <3>2 DEF Order, GotLeft
    <3>3. QED
      BY <3>1, <3>2 DEF Arrived
  <2>2. QED
    BY <1>2, <1>3, <2>1 DEF Left
<1>4. CASE TxTimesOut(c)
  <2>1. /\ cancel'[c] = 1 /\ out' = out /\ rx' = rx /\ got' = got /\ pc' = pc
        /\ trig[c] = 1
    BY <1>1, <1>4 DEF TxTimesOut, Turn, program, TypeOK, WrapType
  <2>2. ~ Arrived(c, out[c].id)
    BY <1>1, <1>2, <2>1, ArrivedLeft DEF Left
  <2>3. QED
    BY <2>1, <2>2 DEF Arrived, InHand
<1>5. CASE /\ trig[c] = 0 /\ status[c] # 0 /\ cancel'[c] = 1
           /\ out'[c].id = out[c].id
  <2>1. ~ Arrived(c, out[c].id)
    BY <1>5 DEF BusyMeansUnsent
  <2>2. ~ Arrived(c, out[c].id)'
    <3>1. PICK n \in Nat : n = out[c].id
      BY <1>2
    <3>2. out'[c].id = n /\ ~ Arrived(c, n)
      BY <1>5, <2>1, <3>1
    <3>3. ~ Arrived(c, n)'
      BY <1>1, <1>5, <3>2, ArrivesOnce
    <3>4. QED
      BY <3>2, <3>3 DEF Arrived
  <2>3. QED
    BY <1>5, <2>2
<1>6. QED
  BY <1>1, <1>3, <1>4, <1>5, BusySteps DEF StillBusy

\* sc_send_msg: the loop on TX_STATUS never waits for a message that has arrived,
\* been cancelled or been overwritten; it waits for the wrap, or in vain for one
\* that its timer gave up.
THEOREM BusyIsTrue == Spec => []BusyMeansUnsent
<1>1. Init => BusyMeansUnsent
  BY DEF Init, BusyMeansUnsent
<1>2. QED
  BY <1>1, BusyStep, Invariance, PTL DEF Spec

-----------------------------------------------------------------------------
(* Turns under contention *)

\* c2cc_wrap_tx_thread: without a timer and TX_CANCEL a busy send goes on.
LEMMA UntimedStep ==
  ASSUME Timeouts = {}, TypeOK, Untimed, [Next]_vars
  PROVE  Untimed'
<1> USE DEF TypeOK
<1>1. CASE Edge
  BY <1>1 DEF Edge, wraps, sender, program, WrapType, Untimed
<1>2. ASSUME NEW c \in Core, TxIdle(c) PROVE Untimed'
  BY <1>2 DEF TxIdle, Turn, wraps, sender, program, WrapType, Untimed
<1>3. ASSUME NEW c \in Core, TxCountsDown(c) PROVE Untimed'
  BY <1>3 DEF TxCountsDown, Turn, program, WrapType, Untimed
<1>4. ASSUME NEW c \in Core, TxTimesOut(c) PROVE Untimed'
  BY <1>4 DEF TxTimesOut, Turn, program, WrapType, Untimed
<1>5. ASSUME NEW c \in Core, TxStandsBack(c) PROVE Untimed'
  BY <1>5 DEF TxStandsBack, Sends, Turn, sender, program, WrapType, Untimed
<1>6. ASSUME NEW c \in Core, TxFindsBusy(c) PROVE Untimed'
  BY <1>6 DEF TxFindsBusy, Sends, Turn, program, WrapType, Untimed
<1>7. ASSUME NEW c \in Core, TxDelivers(c) PROVE Untimed'
  BY <1>7 DEF TxDelivers, Sends, Turn, program, WrapType, Untimed
<1>8. ASSUME NEW c \in Core, SendBegins(c) PROVE Untimed'
  BY <1>8 DEF SendBegins, Goto, wraps, sender, WrapType, Untimed
<1>9. ASSUME NEW c \in Core, SendReady(c) PROVE Untimed'
  BY <1>9 DEF SendReady, Access, Goto, wraps, sender, WrapType, Untimed
<1>10. ASSUME NEW c \in Core, SendFirst(c) PROVE Untimed'
  BY <1>10 DEF SendFirst, Write, Spoils, Access, Goto, WrapType, Untimed
<1>11. ASSUME NEW c \in Core, SendSecond(c) PROVE Untimed'
  BY <1>11 DEF SendSecond, Write, Spoils, Access, Goto, WrapType, Untimed
<1>12. ASSUME NEW c \in Core, SendCtrl(c) PROVE Untimed'
  BY <1>12 DEF SendCtrl, Write, Spoils, Access, Goto, WrapType, Untimed
<1>13. ASSUME NEW c \in Core, SendTrig(c) PROVE Untimed'
  BY <1>13 DEF SendTrig, Write, Access, Goto, WrapType, Untimed
<1>14. ASSUME NEW c \in Core, ReceiveBegins(c) PROVE Untimed'
  BY <1>14 DEF ReceiveBegins, Goto, wraps, sender, WrapType, Untimed
<1>15. ASSUME NEW c \in Core, ReceiveReady(c) PROVE Untimed'
  BY <1>15 DEF ReceiveReady, Access, Goto, wraps, sender, WrapType, Untimed
<1>16. ASSUME NEW c \in Core, ReceiveFirst(c) PROVE Untimed'
  BY <1>16 DEF ReceiveFirst, Access, Goto, wraps, sender, WrapType, Untimed
<1>17. ASSUME NEW c \in Core, ReceiveSecond(c) PROVE Untimed'
  BY <1>17 DEF ReceiveSecond, Access, Goto, wraps, sender, WrapType, Untimed
<1>18. ASSUME NEW c \in Core, ReceiveAccept(c) PROVE Untimed'
  BY <1>18 DEF ReceiveAccept, Write, Access, Goto, WrapType, Untimed
<1>19. ASSUME NEW c \in Core, SetTimeout(c) PROVE Untimed'
  BY <1>19 DEF SetTimeout, Write, Access, program, WrapType, Untimed
<1>20. ASSUME NEW c \in Core, Cancel(c) PROVE Untimed'
  BY <1>20 DEF Cancel, Write, Spoils, Access, program, WrapType, Untimed
<1>21. CASE UNCHANGED vars
  BY <1>21 DEF vars, wraps, sender, program, WrapType, Untimed
<1>22. QED
  BY <1>1, <1>2, <1>3, <1>4, <1>5, <1>6, <1>7, <1>8, <1>9, <1>10, <1>11, <1>12, <1>13, <1>14, <1>15, <1>16, <1>17, <1>18, <1>19, <1>20, <1>21
  DEF Next, Tx, Send, Receive

\* tx_nb_transport_fw: c2cc_tx_from and SOURCE_ID name the same core.
LEMMA BlamedStep ==
  ASSUME TypeOK, Addressed, Blamed, [Next]_vars
  PROVE  Blamed'
<1> USE DEF TypeOK
<1>1. CASE Edge
  BY <1>1 DEF Edge, wraps, sender, program, BusType, RxType, Blamed
<1>2. ASSUME NEW c \in Core, TxIdle(c) PROVE Blamed'
  BY <1>2 DEF TxIdle, Turn, wraps, sender, program, BusType, RxType, Blamed
<1>3. ASSUME NEW c \in Core, TxCountsDown(c) PROVE Blamed'
  BY <1>3 DEF TxCountsDown, Turn, program, BusType, RxType, Blamed
<1>4. ASSUME NEW c \in Core, TxTimesOut(c) PROVE Blamed'
  BY <1>4 DEF TxTimesOut, Turn, program, BusType, RxType, Blamed
<1>5. ASSUME NEW c \in Core, TxStandsBack(c) PROVE Blamed'
  BY <1>5 DEF TxStandsBack, Sends, Turn, sender, program, BusType, RxType, Blamed
<1>6. ASSUME NEW c \in Core, TxFindsBusy(c) PROVE Blamed'
  BY <1>6 DEF TxFindsBusy, Sends, Turn, program, BusType, RxType, Blamed
<1>7. ASSUME NEW c \in Core, TxDelivers(c) PROVE Blamed'
  BY <1>7 DEF TxDelivers, Sends, Turn, program, BusType, RxType, Blamed, Addressed, WrapType, TxType
<1>8. ASSUME NEW c \in Core, SendBegins(c) PROVE Blamed'
  BY <1>8 DEF SendBegins, Goto, wraps, sender, BusType, RxType, Blamed
<1>9. ASSUME NEW c \in Core, SendReady(c) PROVE Blamed'
  BY <1>9 DEF SendReady, Access, Goto, wraps, sender, BusType, RxType, Blamed
<1>10. ASSUME NEW c \in Core, SendFirst(c) PROVE Blamed'
  BY <1>10 DEF SendFirst, Write, Spoils, Access, Goto, BusType, RxType, Blamed
<1>11. ASSUME NEW c \in Core, SendSecond(c) PROVE Blamed'
  BY <1>11 DEF SendSecond, Write, Spoils, Access, Goto, BusType, RxType, Blamed
<1>12. ASSUME NEW c \in Core, SendCtrl(c) PROVE Blamed'
  BY <1>12 DEF SendCtrl, Write, Spoils, Access, Goto, BusType, RxType, Blamed
<1>13. ASSUME NEW c \in Core, SendTrig(c) PROVE Blamed'
  BY <1>13 DEF SendTrig, Write, Access, Goto, BusType, RxType, Blamed
<1>14. ASSUME NEW c \in Core, ReceiveBegins(c) PROVE Blamed'
  BY <1>14 DEF ReceiveBegins, Goto, wraps, sender, BusType, RxType, Blamed
<1>15. ASSUME NEW c \in Core, ReceiveReady(c) PROVE Blamed'
  BY <1>15 DEF ReceiveReady, Access, Goto, wraps, sender, BusType, RxType, Blamed
<1>16. ASSUME NEW c \in Core, ReceiveFirst(c) PROVE Blamed'
  BY <1>16 DEF ReceiveFirst, Access, Goto, wraps, sender, BusType, RxType, Blamed
<1>17. ASSUME NEW c \in Core, ReceiveSecond(c) PROVE Blamed'
  BY <1>17 DEF ReceiveSecond, Access, Goto, wraps, sender, BusType, RxType, Blamed
<1>18. ASSUME NEW c \in Core, ReceiveAccept(c) PROVE Blamed'
  BY <1>18 DEF ReceiveAccept, Write, Access, Goto, BusType, RxType, Blamed
<1>19. ASSUME NEW c \in Core, SetTimeout(c) PROVE Blamed'
  BY <1>19 DEF SetTimeout, Write, Access, program, BusType, RxType, Blamed
<1>20. ASSUME NEW c \in Core, Cancel(c) PROVE Blamed'
  BY <1>20 DEF Cancel, Write, Spoils, Access, program, BusType, RxType, Blamed
<1>21. CASE UNCHANGED vars
  BY <1>21 DEF vars, wraps, sender, program, BusType, RxType, Blamed
<1>22. QED
  BY <1>1, <1>2, <1>3, <1>4, <1>5, <1>6, <1>7, <1>8, <1>9, <1>10, <1>11, <1>12, <1>13, <1>14, <1>15, <1>16, <1>17, <1>18, <1>19, <1>20, <1>21
  DEF Next, Tx, Send, Receive

\* The step leaves clock, backoffs and receivers alone, and nobody waits anew.
Steady ==
  /\ turn' = turn /\ count' = count /\ rx' = rx
  /\ \A b \in Core : status'[b] = 3 =>
       status[b] = 3 /\ out'[b].to = out[b].to

TurnStep ==
  \/ Edge \/ Steady
  \/ \E c \in Core : TxIdle(c) \/ TxStandsBack(c) \/ TxFindsBusy(c)
                     \/ TxDelivers(c) \/ ReceiveAccept(c)

\* Register accesses other than RX_ACCEPT do not take part in the arbitration:
\* a program that writes TX_CTRL again while it waits names the same receiver.
LEMMA TurnSteps ==
  ASSUME OneReceiverEach, Timeouts = {}, TypeOK, Addressed, Untimed,
         [Next]_vars
  PROVE  TurnStep
<1> USE DEF TypeOK, TurnStep
<1>1. ASSUME NEW c \in Core, Tx(c) PROVE TurnStep
  BY <1>1 DEF Tx, TxCountsDown, TxTimesOut, Untimed
<1>2. ASSUME NEW c \in Core, SendBegins(c) PROVE Steady
  BY <1>2 DEF SendBegins, wraps, sender, Steady
<1>3. ASSUME NEW c \in Core, SendReady(c) PROVE Steady
  BY <1>3 DEF SendReady, Access, wraps, sender, Steady
<1>4. ASSUME NEW c \in Core, SendFirst(c) PROVE Steady
  BY <1>4 DEF SendFirst, Write, Access, Untimed, WrapType, TxType, Steady
<1>5. ASSUME NEW c \in Core, SendSecond(c) PROVE Steady
  BY <1>5 DEF SendSecond, Write, Access, Untimed, WrapType, TxType, Steady
<1>6. ASSUME NEW c \in Core, SendCtrl(c) PROVE Steady
  <2>1. status' = status /\ count' = count /\ rx' = rx /\ turn' = turn
    BY <1>6 DEF SendCtrl, Write, Access, Untimed, WrapType
  <2>2. ASSUME NEW b \in Core, status[b] = 3 PROVE out'[b].to = out[b].to
    <3>1. CASE b = c
      <4>1. out[c].to \in Dest[c] /\ target[c] \in Dest[c]
        BY <1>6, <2>2, <3>1 DEF SendCtrl, Addressed, Untimed, Sending
      <4>2. out'[c].to = target[c]
        BY <1>6 DEF SendCtrl, WrapType, TxType
      <4>3. QED
        BY <3>1, <4>1, <4>2 DEF OneReceiverEach
    <3>2. CASE b # c
      BY <1>6, <3>2 DEF SendCtrl, WrapType
    <3>3. QED
      BY <3>1, <3>2
  <2>3. QED
    BY <2>1, <2>2 DEF Steady
<1>7. ASSUME NEW c \in Core, SendTrig(c) PROVE Steady
  BY <1>7 DEF SendTrig, Write, Access, Untimed, WrapType, TxType, Steady
<1>8. ASSUME NEW c \in Core,
             \/ ReceiveBegins(c) \/ ReceiveReady(c) \/ ReceiveFirst(c)
             \/ ReceiveSecond(c)
      PROVE  Steady
  BY <1>8 DEF ReceiveBegins, ReceiveReady, ReceiveFirst, ReceiveSecond, Access,
              wraps, sender, Steady
<1>9. ASSUME NEW c \in Core, Cancel(c) PROVE Steady
  BY <1>9 DEF Cancel, Write, Access, Untimed, WrapType, Steady
<1>10. CASE UNCHANGED vars
  BY <1>10 DEF vars, wraps, sender, Steady
<1>11. ASSUME NEW c \in Core PROVE ~ SetTimeout(c)
  BY DEF SetTimeout
<1>12. QED
  BY <1>1, <1>2, <1>3, <1>4, <1>5, <1>6, <1>7, <1>8, <1>9, <1>10, <1>11
  DEF Next, Send, Receive

\* The backoff of a waiting core is fresh only in the clock of its RX_ACCEPT.
LEMMA FreshStep ==
  ASSUME OneReceiverEach, Timeouts = {}, TypeOK, Order, Addressed, Untimed,
         Blamed,
         FreshBackoff, [Next]_vars
  PROVE  FreshBackoff'
<1> SUFFICES ASSUME NEW b \in Core, status'[b] = 3, count'[b] = DSPNUM
             PROVE  b \in turn' \/ (turn' = {} /\ rx'[out'[b].to].source = b)
  BY DEF FreshBackoff
<1> USE NumAssumption DEF TypeOK
<1>1. TurnStep
  BY TurnSteps
<1>2. CASE Edge
  BY <1>2 DEF Edge
<1>3. CASE Steady
  BY <1>3 DEF Steady, FreshBackoff
<1>4. ASSUME NEW c \in Core, TxIdle(c)
      PROVE  b \in turn' \/ (turn' = {} /\ rx'[out'[b].to].source = b)
  BY <1>4 DEF TxIdle, Turn, wraps, sender, Untimed, FreshBackoff
<1>5. ASSUME NEW c \in Core, TxStandsBack(c)
      PROVE  b \in turn' \/ (turn' = {} /\ rx'[out'[b].to].source = b)
  BY <1>5 DEF TxStandsBack, Sends, Turn, sender, BusType, FreshBackoff
<1>6. ASSUME NEW c \in Core, TxFindsBusy(c)
      PROVE  b \in turn' \/ (turn' = {} /\ rx'[out'[b].to].source = b)
  BY <1>6 DEF TxFindsBusy, Sends, Turn, BusType, WrapType, FreshBackoff
<1>7. ASSUME NEW c \in Core, TxDelivers(c)
      PROVE  b \in turn' \/ (turn' = {} /\ rx'[out'[b].to].source = b)
  BY <1>7 DEF TxDelivers, Sends, Turn, BusType, WrapType, FreshBackoff
<1>8. ASSUME NEW r \in Core, ReceiveAccept(r)
      PROVE  b \in turn' \/ (turn' = {} /\ rx'[out'[b].to].source = b)
  <2>1. /\ turn = {} /\ turn' = {} /\ status[b] = 3 /\ out' = out
        /\ \A q \in Core : rx'[q].source = rx[q].source
    BY <1>8 DEF ReceiveAccept, Write, Access, Untimed, WrapType, BusType,
                RxType
  <2>2. CASE from[r] = b
    <3>1. rx[r].source = b /\ r \in Dest[b]
      BY <1>8, <2>2 DEF ReceiveAccept, Order, ReadsFull, Reading, Blamed
    <3>2. out[b].to \in Dest[b]
      BY <2>1 DEF Addressed, Untimed
    <3>3. out[b].to = r
      BY <3>1, <3>2 DEF OneReceiverEach
    <3>4. QED
      BY <2>1, <3>1, <3>3
  <2>3. CASE from[r] # b
    <3>1. count[b] = DSPNUM
      BY <1>8, <2>3 DEF ReceiveAccept, BusType
    <3>2. out[b].to \in Core
      BY DEF WrapType, TxType
    <3>3. QED
      BY <2>1, <3>1, <3>2 DEF FreshBackoff
  <2>4. QED
    BY <2>2, <2>3
<1>9. QED
  BY <1>1, <1>2, <1>3, <1>4, <1>5, <1>6, <1>7, <1>8 DEF TurnStep

\* Who waits for receiver r, when another core than c was served there last.
Contends(c, b, r) ==
  /\ rx[r].status = 0 /\ rx[r].id > 0 /\ rx[r].source = c /\ c # b
  /\ status[b] = 3 /\ out[b].to = r
Sooner(c, b) == count[b] - Ahead(b) < count[c] - Ahead(c)

\* The backoffs of waiting cores and of the core served last run down together.
LEMMA WaitersStep ==
  ASSUME OneReceiverEach, Timeouts = {}, TypeOK, Order, Addressed, Untimed,
         Blamed,
         FreshBackoff, WaitersFirst, [Next]_vars
  PROVE  WaitersFirst'
<1> SUFFICES ASSUME NEW r \in Core, NEW b \in Core, NEW c \in Core,
                    Contends(c, b, r)'
             PROVE  Sooner(c, b)'
  BY TypeStep DEF WaitersFirst, Contends, Sooner, TypeOK, BusType, RxType
<1> USE NumAssumption DEF TypeOK
<1>1. TurnStep
  BY TurnSteps
<1>2. Contends(c, b, r) => Sooner(c, b)
  BY DEF WaitersFirst, Contends, Sooner
<1>3. count[b] \in 0..DSPNUM /\ count[c] \in 0..DSPNUM
  BY DEF BusType
<1>4. CASE Edge
  BY <1>2, <1>3, <1>4
  DEF Edge, wraps, sender, Contends, Sooner, Ahead
<1>5. CASE Steady
  BY <1>2, <1>5 DEF Steady, Contends, Sooner, Ahead
<1>6. ASSUME NEW d \in Core, TxIdle(d) PROVE Sooner(c, b)'
  <2>1. d # b
    BY <1>6 DEF TxIdle, wraps, sender, Contends, Untimed
  <2>2. Contends(c, b, r)
    BY <1>6 DEF TxIdle, wraps, sender, Contends
  <2>3. QED
    BY <1>2, <1>3, <1>6, <2>1, <2>2 DEF TxIdle, Turn, wraps, Sooner, Ahead
<1>7. ASSUME NEW d \in Core, TxStandsBack(d) PROVE Sooner(c, b)'
  <2>1. Contends(c, b, r) /\ b # c
    BY <1>7 DEF TxStandsBack, sender, Contends
  <2>2. \A x \in Core : count'[x] - Ahead(x)' = count[x] - Ahead(x)
    BY <1>7 DEF TxStandsBack, Sends, Turn, BusType, Ahead
  <2>3. QED
    BY <1>2, <2>1, <2>2 DEF Sooner
<1>8. ASSUME NEW d \in Core, TxFindsBusy(d) PROVE Sooner(c, b)'
  <2>1. d # b
    BY <1>8 DEF TxFindsBusy, Contends
  <2>2. Contends(c, b, r)
    BY <1>8, <2>1 DEF TxFindsBusy, Contends, WrapType
  <2>3. QED
    BY <1>2, <1>3, <1>8, <2>1, <2>2
    DEF TxFindsBusy, Sends, Turn, Sooner, Ahead
<1>9. ASSUME NEW d \in Core, TxDelivers(d) PROVE Sooner(c, b)'
  <2>1. d # b
    BY <1>9 DEF TxDelivers, Contends, WrapType
  <2>2. out[d].to # r
    BY <1>9 DEF TxDelivers, Contends, BusType
  <2>3. Contends(c, b, r)
    BY <1>9, <2>1, <2>2 DEF TxDelivers, Contends, WrapType, BusType
  <2>4. QED
    BY <1>2, <1>3, <1>9, <2>1, <2>3
    DEF TxDelivers, Sends, Turn, Sooner, Ahead
<1>10. ASSUME NEW q \in Core, ReceiveAccept(q) PROVE Sooner(c, b)'
  <2>1. /\ turn = {} /\ turn' = {} /\ status[b] = 3 /\ out[b].to = r
        /\ rx[r].source = c /\ rx[r].id > 0 /\ c # b
    BY <1>10 DEF ReceiveAccept, Write, Access, Contends, Untimed, WrapType,
                 BusType, RxType
  <2>2. from[r] = c /\ r \in Dest[c] /\ r \in Dest[b]
    BY <2>1 DEF Blamed, Addressed, Untimed
  <2>3. from[q] = rx[q].source /\ q \in Dest[from[q]]
    BY <1>10 DEF ReceiveAccept, Order, ReadsFull, Reading, Blamed
  <2>4. CASE q = r
    <3>1. count'[c] = DSPNUM /\ count'[b] = count[b]
      BY <1>10, <2>1, <2>2, <2>4 DEF ReceiveAccept, BusType
    <3>2. count[b] # DSPNUM
      BY <2>1 DEF FreshBackoff
    <3>3. QED
      BY <1>3, <2>1, <3>1, <3>2 DEF Sooner, Ahead
  <2>5. CASE q # r
    <3>1. from[q] # c /\ from[q] # b
      BY <2>2, <2>3, <2>5 DEF OneReceiverEach
    <3>2. count'[c] = count[c] /\ count'[b] = count[b]
      BY <1>10, <3>1 DEF ReceiveAccept, BusType
    <3>3. Contends(c, b, r)
      BY <1>10, <2>1, <2>5 DEF ReceiveAccept, Contends, BusType
    <3>4. QED
      BY <1>2, <2>1, <3>2, <3>3 DEF Sooner, Ahead
  <2>6. QED
    BY <2>4, <2>5
<1>11. QED
  BY <1>1, <1>4, <1>5, <1>6, <1>7, <1>8, <1>9, <1>10 DEF TurnStep

\* c2cc_bus_nb_transport_fw, TX_ACCEPT: among programs that send to one receiver
\* each and load no timer, however many of them contend for it, no core gets a
\* second message into a receiver while another one is known to wait for it.
THEOREM TurnsTaken ==
  ASSUME OneReceiverEach, Timeouts = {}
  PROVE  Spec => TakesTurns
<1>1. Init => TurnInv
  BY NumAssumption
  DEF Init, TurnInv, Untimed, Blamed, FreshBackoff, WaitersFirst, Sending,
      NoRx
<1>2. IInv /\ TurnInv /\ [Next]_vars => TurnInv'
  BY UntimedStep, BlamedStep, FreshStep, WaitersStep DEF IInv, TurnInv
<1>3. ASSUME TypeOK, Addressed, TurnInv, [Next]_vars,
             NEW r \in Core, NEW c \in Core, NEW b \in Core \ {c},
             rx[r].status = 0, rx'[r].status = 2, rx[r].id > 0,
             rx[r].source = c, rx'[r].source = c
      PROVE  ~(status[b] = 3 /\ out[b].to = r)
  <2> USE <1>3 DEF TypeOK, TurnInv
  <2>1. TurnStep
    BY TurnSteps
  <2>2. PICK d \in Core : TxDelivers(d)
    BY <2>1 DEF TurnStep, Edge, Steady, TxIdle, TxStandsBack, TxFindsBusy,
                ReceiveAccept, wraps, BusType, RxType
  <2>3. d = c
    BY <2>2 DEF TxDelivers, BusType
  <2>4. c \in turn /\ count[c] = 0
    BY <2>2, <2>3 DEF TxDelivers, Sends, Turn
  <2>5. ~ Sooner(c, b)
    BY <2>4, NumAssumption DEF Sooner, Ahead, BusType
  <2>6. QED
    BY <2>5 DEF WaitersFirst, Sooner
<1>4. IInv /\ TurnInv /\ [Next]_vars =>
        [\A r, c \in Core :
           rx[r].status = 0 /\ rx'[r].status = 2 /\ rx[r].id > 0
             /\ rx[r].source = c /\ rx'[r].source = c
           => \A b \in Core \ {c} : ~(status[b] = 3 /\ out[b].to = r)]_vars
  BY <1>3 DEF IInv
<1>5. QED
  BY <1>1, <1>2, <1>4, Invariance, PTL DEF Spec, TakesTurns

-----------------------------------------------------------------------------
(* C2CC implements MessageChannel: the steps of the channel *)

ChannelStep == [Channel!ChannelNext]_(Channel!cvars)

\* The senders other than b, the receivers other than s, look as before.
OthersSend(b) == \A c \in Core \ {b} :
                   out'[c].id = out[c].id /\ WaitsFor(c)' = WaitsFor(c)
InboxesStay == \A r \in Core : InboxOf(r)' = InboxOf(r)
Ended(b, n) == spoilt' = spoilt \cup {<<b, n>>}

\* A step that changes no message is no step of the channel.
LEMMA ChanStutter ==
  ASSUME \A c \in Core : out'[c].id = out[c].id /\ WaitsFor(c)' = WaitsFor(c),
         InboxesStay, got' = got, spoilt' = spoilt
  PROVE  ChannelStep
  BY DEF ChannelStep, Channel!cvars, InboxesStay

\* The write of TX_SEND_TRIG triggers the next message of core b.
LEMMA ChanTrigger ==
  ASSUME NEW b \in Core, NEW d \in Dest[b],
         out'[b].id = out[b].id + 1, WaitsFor(b)' = {d},
         IF WaitsFor(b) = {} THEN spoilt' = spoilt ELSE Ended(b, out[b].id),
         OthersSend(b), InboxesStay, got' = got
  PROVE  ChannelStep
<1>1. Channel!Trigger(b, d)
  BY DEF Channel!Trigger, Channel!Current, OthersSend, InboxesStay, Ended
<1>2. QED
  BY <1>1 DEF ChannelStep, Channel!ChannelNext

\* With TX_CANCEL still set it gives the message up at once.
LEMMA ChanTriggerInVain ==
  ASSUME NEW b \in Core,
         out'[b].id = out[b].id + 1, WaitsFor(b)' = {}, WaitsFor(b) = {},
         Ended(b, out[b].id + 1), OthersSend(b), InboxesStay, got' = got
  PROVE  ChannelStep
<1>1. Channel!TriggerInVain(b)
  BY DEF Channel!TriggerInVain, Channel!Current, OthersSend, InboxesStay, Ended
<1>2. QED
  BY <1>1 DEF ChannelStep, Channel!ChannelNext

\* A write to a message register overwrites a message that waits.
LEMMA ChanOverwrite ==
  ASSUME NEW b \in Core, NEW d \in Dest[b],
         out'[b].id = out[b].id, WaitsFor(b) # {}, WaitsFor(b)' = {d},
         Ended(b, out[b].id), OthersSend(b), InboxesStay, got' = got
  PROVE  ChannelStep
<1>1. Channel!Overwrite(b, d)
  BY DEF Channel!Overwrite, Channel!Current, OthersSend, InboxesStay, Ended
<1>2. QED
  BY <1>1 DEF ChannelStep, Channel!ChannelNext

\* A timeout or TX_CANCEL gives a message up.
LEMMA ChanGiveUp ==
  ASSUME NEW b \in Core,
         out'[b].id = out[b].id, WaitsFor(b) # {}, WaitsFor(b)' = {},
         Ended(b, out[b].id), OthersSend(b), InboxesStay, got' = got
  PROVE  ChannelStep
<1>1. Channel!GiveUp(b)
  BY DEF Channel!GiveUp, Channel!Current, OthersSend, InboxesStay, Ended
<1>2. QED
  BY <1>1 DEF ChannelStep, Channel!ChannelNext

\* The copy into the registers of receiver r delivers the message.
LEMMA ChanDeliver ==
  ASSUME NEW b \in Core, NEW r \in Core, NEW m,
         out'[b].id = out[b].id, WaitsFor(b) = {r}, WaitsFor(b)' = {},
         InboxOf(r) = {}, InboxOf(r)' = {m},
         m.source = b /\ m.id = out[b].id,
         <<b, out[b].id>> \in spoilt \/ (m.w0 = m.id /\ m.w1 = m.id),
         \A q \in Core \ {r} : InboxOf(q)' = InboxOf(q),
         OthersSend(b), got' = got, spoilt' = spoilt
  PROVE  ChannelStep
<1>1. Channel!Carries(b, m)
  BY DEF Channel!Carries, Channel!Current
<1>2. Channel!Deliver(b, r)
  BY <1>1 DEF Channel!Deliver, OthersSend
<1>3. QED
  BY <1>2 DEF ChannelStep, Channel!ChannelNext

\* The last read of sc_receive_word takes the message.
LEMMA ChanTake ==
  ASSUME NEW r \in Core, NEW m,
         \A c \in Core : out'[c].id = out[c].id /\ WaitsFor(c)' = WaitsFor(c),
         InboxOf(r) = {m}, InboxOf(r)' = {},
         \A q \in Core \ {r} : InboxOf(q)' = InboxOf(q),
         got' = [got EXCEPT ![r] = Append(@, m)], spoilt' = spoilt
  PROVE  ChannelStep
<1>1. Channel!Take(r)
  BY DEF Channel!Take
<1>2. QED
  BY <1>1 DEF ChannelStep, Channel!ChannelNext

\* A write to a message register or to TX_CTRL while nothing waits is no step
\* of the channel; while a message waits it overwrites a part of it.
LEMMA WriteSteps ==
  ASSUME TypeOK, CancelIdle, NEW c \in Core, NEW d \in Core,
         trig[c] = 1 => d \in Dest[c],
         out'[c].id = out[c].id, out'[c].to = d,
         \A b \in Core \ {c} : out'[b] = out[b],
         Write(c, trig[c], cancel[c]), Spoils(c),
         InboxesStay, got' = got
  PROVE  ChannelStep
<1> USE DEF TypeOK, WrapType
<1>1. trig' = trig
  BY DEF Write, CancelIdle
<1>2. OthersSend(c)
  BY <1>1 DEF OthersSend, WaitsFor
<1>3. CASE trig[c] = 1
  <2>1. WaitsFor(c) # {} /\ WaitsFor(c)' = {d} /\ Ended(c, out[c].id)
    BY <1>1, <1>3 DEF WaitsFor, Ended, Spoils
  <2>2. QED
    BY <1>2, <1>3, <2>1, ChanOverwrite
<1>4. CASE trig[c] = 0
  <2>1. WaitsFor(c)' = WaitsFor(c) /\ spoilt' = spoilt
    BY <1>1, <1>4 DEF WaitsFor, Spoils
  <2>2. QED
    BY <1>2, <2>1, ChanStutter DEF OthersSend
<1>5. QED
  BY <1>3, <1>4

\* Every step of the cores is a step of the channel or none.
LEMMA ChannelSteps ==
  ASSUME IInv, [Next]_vars
  PROVE  ChannelStep
<1> USE DEF IInv, TypeOK
<1>1. CASE Edge
  BY <1>1, ChanStutter
  DEF Edge, wraps, sender, program, WaitsFor, InboxesStay, InboxOf, InHand
<1>2. ASSUME NEW c \in Core, TxIdle(c) PROVE ChannelStep
  BY <1>2, ChanStutter DEF TxIdle, Turn, wraps, sender, program, WaitsFor,
      InboxesStay, InboxOf, InHand
<1>3. ASSUME NEW c \in Core, TxCountsDown(c) PROVE ChannelStep
  BY <1>3, ChanStutter DEF TxCountsDown, Turn, program, WaitsFor,
      InboxesStay, InboxOf, InHand
<1>4. ASSUME NEW c \in Core, TxTimesOut(c) PROVE ChannelStep
  <2>1. out'[c].id = out[c].id /\ WaitsFor(c) # {} /\ WaitsFor(c)' = {}
    BY <1>4 DEF TxTimesOut, WaitsFor, WrapType
  <2>2. OthersSend(c)
    BY <1>4 DEF TxTimesOut, OthersSend, WaitsFor, WrapType
  <2>3. Ended(c, out[c].id) /\ InboxesStay /\ got' = got
    BY <1>4 DEF TxTimesOut, Turn, program, Ended, InboxesStay, InboxOf, InHand
  <2>4. QED
    BY <2>1, <2>2, <2>3, ChanGiveUp
<1>5. ASSUME NEW c \in Core, TxStandsBack(c) PROVE ChannelStep
  BY <1>5, ChanStutter DEF TxStandsBack, Sends, Turn, sender, program,
      WaitsFor, InboxesStay, InboxOf, InHand
<1>6. ASSUME NEW c \in Core, TxFindsBusy(c) PROVE ChannelStep
  BY <1>6, ChanStutter DEF TxFindsBusy, Sends, Turn, program, WaitsFor,
      InboxesStay, InboxOf, InHand
<1>7. ASSUME NEW c \in Core, TxDelivers(c) PROVE ChannelStep
  <2>0. PICK r \in Core : r = out[c].to
    BY DEF WrapType, TxType
  <2> DEFINE m == [source |-> c, id |-> out[c].id,
                   w0 |-> out[c].w0, w1 |-> out[c].w1]
  <2>1. trig[c] = 1 /\ rx[r].status = 0
    BY <1>7, <2>0 DEF TxDelivers, Sends
  <2>2. out'[c].id = out[c].id /\ WaitsFor(c) = {r} /\ WaitsFor(c)' = {}
    BY <1>7, <2>0, <2>1 DEF TxDelivers, WaitsFor, WrapType
  <2>3. OthersSend(c)
    BY <1>7 DEF TxDelivers, OthersSend, WaitsFor, WrapType
  <2>4. pc' = pc /\ got' = got /\ spoilt' = spoilt
    BY <1>7 DEF TxDelivers, Sends, Turn, program
  <2>5. InboxOf(r) = {}
    BY <2>1 DEF InboxOf, InHand
  <2>6. pc[r] # "rxAccept"
    BY <2>1 DEF Order, ReadsFull, Reading
  <2>7. rx'[r] = [status |-> 2, source |-> c, w0 |-> out[c].w0,
                  w1 |-> out[c].w1, id |-> out[c].id]
    BY <1>7, <2>0 DEF TxDelivers, BusType
  <2>8. InboxOf(r)' = {m}
    <3>1. InHand(r)' /\ rx'[r].source = c /\ rx'[r].id = out[c].id
      BY <2>4, <2>6, <2>7 DEF InHand
    <3>2. rx'[r].w0 = out[c].w0 /\ rx'[r].w1 = out[c].w1
      BY <2>7
    <3>3. QED
      BY <3>1, <3>2 DEF InboxOf
  <2>9. \A q \in Core \ {r} : InboxOf(q)' = InboxOf(q)
    BY <1>7, <2>0, <2>4 DEF TxDelivers, InboxOf, InHand, BusType
  <2>10. <<c, out[c].id>> \in spoilt \/ (m.w0 = m.id /\ m.w1 = m.id)
    BY <2>1 DEF Words, SenderWords, WordsOf
  <2>11. m.source = c /\ m.id = out[c].id
    OBVIOUS
  <2> HIDE DEF m
  <2>12. QED
    BY <2>1, <2>2, <2>3, <2>4, <2>5, <2>8, <2>9, <2>10, <2>11, ChanDeliver
<1>8. ASSUME NEW c \in Core, SendBegins(c) PROVE ChannelStep
  BY <1>8, ChanStutter DEF SendBegins, Goto, wraps, sender, WaitsFor,
      InboxesStay, InboxOf, InHand, ProgramType
<1>9. ASSUME NEW c \in Core, SendReady(c) PROVE ChannelStep
  BY <1>9, ChanStutter DEF SendReady, Goto, wraps, sender, WaitsFor,
      InboxesStay, InboxOf, InHand, ProgramType
<1>10. ASSUME NEW c \in Core, SendFirst(c) PROVE ChannelStep
  <2>1. InboxesStay /\ got' = got
    BY <1>10 DEF SendFirst, Goto, InboxesStay, InboxOf, InHand, ProgramType
  <2>2. /\ out'[c].id = out[c].id /\ out'[c].to = out[c].to
        /\ \A b \in Core \ {c} : out'[b] = out[b]
    BY <1>10 DEF SendFirst, WrapType, TxType
  <2>3. out[c].to \in Core /\ (trig[c] = 1 => out[c].to \in Dest[c])
    BY DEF WrapType, TxType, Addressed
  <2>4. Write(c, trig[c], cancel[c]) /\ Spoils(c)
    BY <1>10 DEF SendFirst
  <2>5. QED
    BY <2>1, <2>2, <2>3, <2>4, WriteSteps
<1>11. ASSUME NEW c \in Core, SendSecond(c) PROVE ChannelStep
  <2>1. InboxesStay /\ got' = got
    BY <1>11 DEF SendSecond, Goto, InboxesStay, InboxOf, InHand, ProgramType
  <2>2. /\ out'[c].id = out[c].id /\ out'[c].to = out[c].to
        /\ \A b \in Core \ {c} : out'[b] = out[b]
    BY <1>11 DEF SendSecond, WrapType, TxType
  <2>3. out[c].to \in Core /\ (trig[c] = 1 => out[c].to \in Dest[c])
    BY DEF WrapType, TxType, Addressed
  <2>4. Write(c, trig[c], cancel[c]) /\ Spoils(c)
    BY <1>11 DEF SendSecond
  <2>5. QED
    BY <2>1, <2>2, <2>3, <2>4, WriteSteps
<1>12. ASSUME NEW c \in Core, SendCtrl(c) PROVE ChannelStep
  <2>1. InboxesStay /\ got' = got
    BY <1>12 DEF SendCtrl, Goto, InboxesStay, InboxOf, InHand, ProgramType
  <2>2. /\ out'[c].id = out[c].id /\ out'[c].to = target[c]
        /\ \A b \in Core \ {c} : out'[b] = out[b]
    BY <1>12 DEF SendCtrl, WrapType, TxType
  <2>3. target[c] \in Core /\ target[c] \in Dest[c]
    BY <1>12 DEF SendCtrl, ProgramType, Addressed, Sending
  <2>4. Write(c, trig[c], cancel[c]) /\ Spoils(c)
    BY <1>12 DEF SendCtrl
  <2>5. QED
    BY <2>1, <2>2, <2>3, <2>4, WriteSteps
<1>13. ASSUME NEW c \in Core, SendTrig(c) PROVE ChannelStep
  <2>1. InboxesStay /\ got' = got
    BY <1>13 DEF SendTrig, Goto, InboxesStay, InboxOf, InHand, ProgramType
  <2>2. msg[c] = out[c].id + 1
    BY <1>13 DEF SendTrig, Order, Numbered, Sending
  <2>3. /\ out'[c].id = out[c].id + 1 /\ out'[c].to = out[c].to
        /\ \A b \in Core \ {c} : out'[b] = out[b]
    BY <1>13, <2>2 DEF SendTrig, WrapType, TxType
  <2>4. OthersSend(c)
    BY <1>13, <2>3 DEF SendTrig, Write, OthersSend, WaitsFor, WrapType
  <2>5. out[c].to \in Dest[c]
    BY <1>13 DEF SendTrig, Addressed
  <2>6. CASE cancel[c] = 1
    <3>1. trig[c] = 0 /\ trig'[c] = 0
      BY <1>13, <2>6 DEF SendTrig, Write, CancelIdle, WrapType
    <3>2. GivenUp(c) = {out[c].id + 1}
      BY <2>2, <2>6, <3>1 DEF GivenUp
    <3>3. Ended(c, out[c].id + 1)
      BY <1>13, <3>2 DEF SendTrig, Ended
    <3>4. QED
      BY <2>1, <2>3, <2>4, <3>1, <3>3, ChanTriggerInVain DEF WaitsFor
  <2>7. CASE cancel[c] = 0
    <3>1. WaitsFor(c)' = {out[c].to}
      BY <1>13, <2>3, <2>7 DEF SendTrig, Write, WaitsFor, WrapType
    <3>2. GivenUp(c) = IF trig[c] = 1 THEN {out[c].id} ELSE {}
      BY <2>7 DEF GivenUp
    <3>3. IF WaitsFor(c) = {} THEN spoilt' = spoilt ELSE Ended(c, out[c].id)
      BY <1>13, <3>2 DEF SendTrig, Ended, WaitsFor
    <3>4. QED
      BY <2>1, <2>3, <2>4, <2>5, <3>1, <3>3, ChanTrigger
  <2>8. QED
    BY <2>6, <2>7 DEF WrapType
<1>14. ASSUME NEW c \in Core, ReceiveBegins(c) PROVE ChannelStep
  BY <1>14, ChanStutter DEF ReceiveBegins, Goto, wraps, sender, WaitsFor,
      InboxesStay, InboxOf, InHand, ProgramType
<1>15. ASSUME NEW c \in Core, ReceiveReady(c) PROVE ChannelStep
  BY <1>15, ChanStutter DEF ReceiveReady, Goto, wraps, sender, WaitsFor,
      InboxesStay, InboxOf, InHand, ProgramType
<1>16. ASSUME NEW c \in Core, ReceiveFirst(c) PROVE ChannelStep
  BY <1>16, ChanStutter DEF ReceiveFirst, Goto, wraps, sender, WaitsFor,
      InboxesStay, InboxOf, InHand, ProgramType
<1>17. ASSUME NEW c \in Core, ReceiveSecond(c) PROVE ChannelStep
  <2> DEFINE m == [source |-> rx[c].source, id |-> rx[c].id,
                   w0 |-> buf[c], w1 |-> rx[c].w1]
  <2>1. /\ rx' = rx /\ out' = out /\ trig' = trig /\ spoilt' = spoilt
        /\ pc[c] = "rxSecond" /\ pc'[c] = "rxAccept"
        /\ \A q \in Core \ {c} : pc'[q] = pc[q]
    BY <1>17 DEF ReceiveSecond, Goto, wraps, sender, ProgramType
  <2>2. got' = [got EXCEPT ![c] = Append(@, m)]
    BY <1>17 DEF ReceiveSecond
  <2>3. rx[c].status = 2 /\ buf[c] = rx[c].w0
    BY <2>1 DEF Order, ReadsFull, Reading, Words, ReaderWords
  <2>4. InboxOf(c) = {m}
    BY <2>1, <2>3 DEF InboxOf, InHand
  <2>5. InboxOf(c)' = {}
    BY <2>1 DEF InboxOf, InHand
  <2>6. \A q \in Core \ {c} : InboxOf(q)' = InboxOf(q)
    BY <2>1 DEF InboxOf, InHand
  <2>7. \A b \in Core : out'[b].id = out[b].id /\ WaitsFor(b)' = WaitsFor(b)
    BY <2>1 DEF WaitsFor
  <2> HIDE DEF m
  <2>8. QED
    BY <2>1, <2>2, <2>4, <2>5, <2>6, <2>7, ChanTake
<1>18. ASSUME NEW c \in Core, ReceiveAccept(c) PROVE ChannelStep
  <2>1. trig' = trig /\ out' = out /\ got' = got /\ spoilt' = spoilt
    BY <1>18 DEF ReceiveAccept, Write, CancelIdle, WrapType
  <2>2. InboxOf(c) = {} /\ InboxOf(c)' = {}
    BY <1>18 DEF ReceiveAccept, InboxOf, InHand, BusType, RxType
  <2>3. \A r \in Core \ {c} : InboxOf(r)' = InboxOf(r)
    BY <1>18 DEF ReceiveAccept, Goto, InboxOf, InHand, BusType, ProgramType
  <2>4. InboxesStay
    BY <2>2, <2>3 DEF InboxesStay
  <2>5. QED
    BY <2>1, <2>4, ChanStutter DEF WaitsFor
<1>19. ASSUME NEW c \in Core, SetTimeout(c) PROVE ChannelStep
  <2>1. trig' = trig
    BY <1>19 DEF SetTimeout, Write, CancelIdle, WrapType
  <2>2. QED
    BY <1>19, <2>1, ChanStutter
    DEF SetTimeout, program, WaitsFor, InboxesStay, InboxOf, InHand
<1>20. ASSUME NEW c \in Core, Cancel(c) PROVE ChannelStep
  <2>1. out'[c].id = out[c].id /\ WaitsFor(c) # {} /\ WaitsFor(c)' = {}
    BY <1>20 DEF Cancel, Write, WaitsFor, WrapType
  <2>2. OthersSend(c)
    BY <1>20 DEF Cancel, Write, OthersSend, WaitsFor, WrapType
  <2>3. Ended(c, out[c].id) /\ InboxesStay /\ got' = got
    BY <1>20 DEF Cancel, Spoils, program, Ended, InboxesStay, InboxOf, InHand
  <2>4. QED
    BY <2>1, <2>2, <2>3, ChanGiveUp
<1>21. CASE UNCHANGED vars
  BY <1>21, ChanStutter DEF vars, wraps, sender, program, WaitsFor,
      InboxesStay, InboxOf, InHand
<1>22. QED
  BY <1>1, <1>2, <1>3, <1>4, <1>5, <1>6, <1>7, <1>8, <1>9, <1>10, <1>11,
      <1>12, <1>13, <1>14, <1>15, <1>16, <1>17, <1>18, <1>19, <1>20, <1>21
  DEF Next, Tx, Send, Receive

\* C2CC_Wrap, C2CC_Bus and the message library: for any number of cores, any
\* programs and any use of timers and TX_CANCEL, the cores see a channel that
\* hands each message over whole and once, to the core it was sent to, and
\* loses only what its sender gave up or overwrote.
THEOREM CoresShareAChannel == Spec => ImplementsChannel
<1>1. Init => Channel!ChannelInit
  BY DEF Init, Channel!ChannelInit, WaitsFor, InboxOf, InHand, NoTx, NoRx
<1>2. IInv /\ [Next]_vars => [Channel!ChannelNext]_(Channel!cvars)
  BY ChannelSteps DEF ChannelStep
<1>3. QED
  BY <1>1, <1>2, Invariance, PTL
  DEF Spec, ImplementsChannel, Channel!ChannelSpec
=============================================================================
