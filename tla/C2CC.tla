--------------------------------- MODULE C2CC ---------------------------------
(***************************************************************************)
(* Core-to-core communication: one C2CC_Wrap per core, the C2CC_Bus that   *)
(* joins them, and the message library of the DSP programs (sc_send_msg,   *)
(* sc_receive_word) that drives them through their registers.              *)
(*                                                                         *)
(* c2cc_wrap_tx_thread of every wrap runs at every clock edge, in an order *)
(* SystemC leaves open.  Register accesses arrive through the core bus,    *)
(* which starts one round per edge, and reach the wrap in a later delta    *)
(* cycle, when all the threads of the edge have run.                       *)
(***************************************************************************)
EXTENDS Integers, Sequences

CONSTANTS
  DSPNUM,    \* number of cores
  Dest,      \* for each core, the cores its program sends to
  Receiver,  \* the cores whose program calls sc_receive
  Timeouts,  \* timer values a program may load, in clocks
  MayCancel, \* whether a program may write TX_CANCEL
  MaxMsg     \* bound: for each core, the messages it sends

Core == 0..(DSPNUM - 1)

ASSUME NumAssumption == DSPNUM \in Nat \ {0}
ASSUME DestAssumption == Dest \in [Core -> SUBSET Core]
ASSUME TimeoutAssumption == Timeouts \subseteq Nat \ {0}
ASSUME MsgAssumption == MaxMsg \in [Core -> Nat]

VARIABLES
  turn,   \* wraps whose thread has still to run at this clock edge
  used,   \* cores that have accessed a register since this clock edge
  trig,   \* TX_SEND_TRIG of each wrap
  status, \* TX_STATUS
  cancel, \* TX_CANCEL
  timer,  \* the clocks left that TX_TIMEOUT asked for
  out,    \* TX_CTRL and the TX_MESSAGE registers
  rx,     \* RX_STATUS, SOURCE_ID and the RX_MESSAGE registers
  count,  \* c2cc_arbit[].c2cc_tx_count
  from,   \* c2cc_arbit[].c2cc_tx_from
  pc,     \* where the program of each core is in the message library
  target, \* address argument of its sc_send_msg
  msg,    \* number of the message it sends (history: sent so far)
  buf,    \* first word it has read in sc_receive_word
  got,    \* history: the messages it has received
  spoilt  \* history: triggered messages that a program overwrote, that timed
          \* out or that TX_CANCEL ended

sender  == <<trig, status, cancel, timer, out>>
wraps   == <<sender, rx, count, from>>
program == <<pc, target, msg, buf, got>>
vars    == <<turn, used, wraps, program, spoilt>>

\* A message has four words, of which the model keeps two; the words of the
\* message number n of a core are n.  id is the number of the message that was
\* triggered (history).
NoTx == [to |-> 0, w0 |-> 0, w1 |-> 0, id |-> 0]
NoRx == [status |-> 0, source |-> 0, w0 |-> 0, w1 |-> 0, id |-> 0]

Init ==
  /\ turn = {} /\ used = {}
  /\ trig = [c \in Core |-> 0] /\ status = [c \in Core |-> 0]
  /\ cancel = [c \in Core |-> 0] /\ timer = [c \in Core |-> 0]
  /\ out = [c \in Core |-> NoTx]
  /\ rx = [c \in Core |-> NoRx]
  /\ count = [c \in Core |-> 0]
  /\ from = [c \in Core |-> 0]
  /\ pc = [c \in Core |-> "idle"]
  /\ target = [c \in Core |-> 0]
  /\ msg = [c \in Core |-> 0]
  /\ buf = [c \in Core |-> 0]
  /\ got = [c \in Core |-> <<>>]
  /\ spoilt = {}

-----------------------------------------------------------------------------
(* A clock edge: c2cc_wrap_tx_thread of every wrap *)

Edge ==
  /\ turn = {}
  /\ turn' = Core /\ used' = {}
  /\ UNCHANGED <<wraps, program, spoilt>>

Turn(c) == c \in turn /\ turn' = turn \ {c} /\ UNCHANGED <<used, program>>

TxIdle(c) ==
  /\ Turn(c) /\ trig[c] = 0
  /\ UNCHANGED <<wraps, spoilt>>

\* The timer runs before anything is sent; at its end the send is given up.
TxCountsDown(c) ==
  /\ Turn(c) /\ trig[c] = 1 /\ timer[c] > 1
  /\ timer' = [timer EXCEPT ![c] = @ - 1]
  /\ UNCHANGED <<trig, status, cancel, out, rx, count, from, spoilt>>

TxTimesOut(c) ==
  /\ Turn(c) /\ trig[c] = 1 /\ timer[c] = 1
  /\ timer' = [timer EXCEPT ![c] = 0]
  /\ trig' = [trig EXCEPT ![c] = 0]
  /\ cancel' = [cancel EXCEPT ![c] = 1]
  /\ status' = [status EXCEPT ![c] = IF @ = 0 THEN 1 ELSE @]
  /\ spoilt' = spoilt \cup {<<c, out[c].id>>}
  /\ UNCHANGED <<out, rx, count, from>>

Sends(c) == Turn(c) /\ trig[c] = 1 /\ timer[c] = 0

\* Mutants: the wrap stands back without a reason, or for good.
TxStandsBackAlways(c) ==
  /\ Sends(c)
  /\ count' = [count EXCEPT ![c] = @ - 1]
  /\ UNCHANGED <<sender, rx, from, spoilt>>

TxStandsBackForever(c) ==
  /\ Sends(c) /\ count[c] > 0
  /\ UNCHANGED <<sender, rx, count, from, spoilt>>

\* A sender whose last message was accepted stands back for DSPNUM clocks.
TxStandsBack(c) ==
  /\ Sends(c) /\ count[c] > 0
  /\ count' = [count EXCEPT ![c] = @ - 1]
  /\ UNCHANGED <<sender, rx, from, spoilt>>

\* TARG_BUSY: the receiver has not accepted the message before.
TxFindsBusy(c) ==
  /\ Sends(c) /\ count[c] = 0 /\ rx[out[c].to].status = 2
  /\ status' = [status EXCEPT ![c] = 3]
  /\ UNCHANGED <<trig, cancel, timer, out, rx, count, from, spoilt>>

\* Mutants: TX_SEND_TRIG or TX_STATUS is not reset; the busy flag is not looked
\* at.
TxDeliversStillBusy(c) ==
  /\ Sends(c) /\ count[c] = 0 /\ rx[out[c].to].status = 0
  /\ rx' = [rx EXCEPT ![out[c].to] =
              [status |-> 2, source |-> c,
               w0 |-> out[c].w0, w1 |-> out[c].w1, id |-> out[c].id]]
  /\ from' = [from EXCEPT ![out[c].to] = c]
  /\ trig' = [trig EXCEPT ![c] = 0]
  /\ UNCHANGED <<status, cancel, timer, out, count, spoilt>>

TxDeliversAgain(c) ==
  /\ Sends(c) /\ count[c] = 0 /\ rx[out[c].to].status = 0
  /\ rx' = [rx EXCEPT ![out[c].to] =
              [status |-> 2, source |-> c,
               w0 |-> out[c].w0, w1 |-> out[c].w1, id |-> out[c].id]]
  /\ from' = [from EXCEPT ![out[c].to] = c]
  /\ status' = [status EXCEPT ![c] = 0]
  /\ UNCHANGED <<trig, cancel, timer, out, count, spoilt>>

TxDeliversWhenBusy(c) ==
  /\ Sends(c) /\ count[c] = 0
  /\ rx' = [rx EXCEPT ![out[c].to] =
              [status |-> 2, source |-> c,
               w0 |-> out[c].w0, w1 |-> out[c].w1, id |-> out[c].id]]
  /\ from' = [from EXCEPT ![out[c].to] = c]
  /\ trig' = [trig EXCEPT ![c] = 0]
  /\ status' = [status EXCEPT ![c] = 0]
  /\ UNCHANGED <<cancel, timer, out, count, spoilt>>

\* COMPLETED: the message is copied into the registers of the receiver.
TxDelivers(c) ==
  /\ Sends(c) /\ count[c] = 0 /\ rx[out[c].to].status = 0
  /\ rx' = [rx EXCEPT ![out[c].to] =
              [status |-> 2, source |-> c,
               w0 |-> out[c].w0, w1 |-> out[c].w1, id |-> out[c].id]]
  /\ from' = [from EXCEPT ![out[c].to] = c]
  /\ trig' = [trig EXCEPT ![c] = 0]
  /\ status' = [status EXCEPT ![c] = 0]
  /\ UNCHANGED <<cancel, timer, out, count, spoilt>>

-----------------------------------------------------------------------------
(* Register accesses: tx_nb_transport_fw *)

Access(c) == turn = {} /\ c \notin used /\ used' = used \cup {c} /\ UNCHANGED turn

\* A register is written; t is what TX_SEND_TRIG would hold then and x what
\* TX_CANCEL would.  Whatever register it is, a set TX_CANCEL ends the send.
Write(c, t, x) ==
  /\ Access(c)
  /\ trig' = [trig EXCEPT ![c] = IF x = 1 THEN 0 ELSE t]
  /\ status' = [status EXCEPT ![c] = IF x = 1 THEN 0 ELSE @]
  /\ cancel' = [cancel EXCEPT ![c] = 0]

\* A message that still waits to be sent is spoilt by the write.
Spoils(c) ==
  spoilt' = IF trig[c] = 1 THEN spoilt \cup {<<c, out[c].id>>} ELSE spoilt

Goto(c, l) == pc' = [pc EXCEPT ![c] = l]

-----------------------------------------------------------------------------
(* sc_send_msg *)

SendBegins(c) ==
  /\ pc[c] = "idle" /\ msg[c] < MaxMsg[c]
  /\ \E d \in Dest[c] : target' = [target EXCEPT ![c] = d]
  /\ Goto(c, "txPoll")
  /\ UNCHANGED <<turn, used, wraps, msg, buf, got, spoilt>>

\* The loop ends when TX_STATUS reads 0.
SendReady(c) ==
  /\ pc[c] = "txPoll" /\ status[c] = 0
  /\ Access(c)
  /\ msg' = [msg EXCEPT ![c] = @ + 1]
  /\ Goto(c, "txFirst")
  /\ UNCHANGED <<wraps, target, buf, got, spoilt>>

SendFirst(c) ==
  /\ pc[c] = "txFirst"
  /\ out' = [out EXCEPT ![c].w0 = msg[c]]
  /\ Write(c, trig[c], cancel[c]) /\ Spoils(c)
  /\ Goto(c, "txSecond")
  /\ UNCHANGED <<timer, rx, count, from, target, msg, buf, got>>

SendSecond(c) ==
  /\ pc[c] = "txSecond"
  /\ out' = [out EXCEPT ![c].w1 = msg[c]]
  /\ Write(c, trig[c], cancel[c]) /\ Spoils(c)
  /\ Goto(c, "txCtrl")
  /\ UNCHANGED <<timer, rx, count, from, target, msg, buf, got>>

SendCtrl(c) ==
  /\ pc[c] = "txCtrl"
  /\ out' = [out EXCEPT ![c].to = target[c]]
  /\ Write(c, trig[c], cancel[c]) /\ Spoils(c)
  /\ Goto(c, "txTrig")
  /\ UNCHANGED <<timer, rx, count, from, target, msg, buf, got>>

\* Messages that end with the write of TX_SEND_TRIG: one that still waited, and
\* the new one when a timeout has just set TX_CANCEL.
GivenUp(c) == {n \in {out[c].id, msg[c]} :
               \/ n = out[c].id /\ trig[c] = 1
               \/ n = msg[c] /\ cancel[c] = 1}

SendTrig(c) ==
  /\ pc[c] = "txTrig"
  /\ out' = [out EXCEPT ![c].id = msg[c]]
  /\ Write(c, 1, cancel[c])
  /\ spoilt' = spoilt \cup {<<c, n>> : n \in GivenUp(c)}
  /\ Goto(c, "idle")
  /\ UNCHANGED <<timer, rx, count, from, target, msg, buf, got>>

-----------------------------------------------------------------------------
(* sc_receive_word *)

ReceiveBegins(c) ==
  /\ pc[c] = "idle" /\ c \in Receiver
  /\ Goto(c, "rxPoll")
  /\ UNCHANGED <<turn, used, wraps, target, msg, buf, got, spoilt>>

\* The loop ends when RX_STATUS reads 2.
ReceiveReady(c) ==
  /\ pc[c] = "rxPoll" /\ rx[c].status = 2
  /\ Access(c)
  /\ Goto(c, "rxFirst")
  /\ UNCHANGED <<wraps, target, msg, buf, got, spoilt>>

\* Mutant: the registers are freed before all of them are read.
ReceiveFirstAccepts(c) ==
  /\ pc[c] = "rxFirst"
  /\ Access(c)
  /\ buf' = [buf EXCEPT ![c] = rx[c].w0]
  /\ rx' = [rx EXCEPT ![c].status = 0]
  /\ Goto(c, "rxSecond")
  /\ UNCHANGED <<sender, count, from, target, msg, got, spoilt>>

ReceiveFirst(c) ==
  /\ pc[c] = "rxFirst"
  /\ Access(c)
  /\ buf' = [buf EXCEPT ![c] = rx[c].w0]
  /\ Goto(c, "rxSecond")
  /\ UNCHANGED <<wraps, target, msg, got, spoilt>>

ReceiveSecond(c) ==
  /\ pc[c] = "rxSecond"
  /\ Access(c)
  /\ got' = [got EXCEPT ![c] = Append(@,
               [source |-> rx[c].source, id |-> rx[c].id,
                w0 |-> buf[c], w1 |-> rx[c].w1])]
  /\ Goto(c, "rxAccept")
  /\ UNCHANGED <<wraps, target, msg, buf, spoilt>>

\* Mutant: the receiver stands back instead of the sender.
ReceiveAcceptPunishesSelf(c) ==
  /\ pc[c] = "rxAccept"
  /\ Write(c, trig[c], cancel[c])
  /\ rx' = [rx EXCEPT ![c].status = 0]
  /\ count' = [count EXCEPT ![c] = DSPNUM]
  /\ Goto(c, "idle")
  /\ UNCHANGED <<timer, out, from, target, msg, buf, got, spoilt>>

\* RX_ACCEPT frees the registers and makes the sender stand back.
ReceiveAccept(c) ==
  /\ pc[c] = "rxAccept"
  /\ Write(c, trig[c], cancel[c])
  /\ rx' = [rx EXCEPT ![c].status = 0]
  /\ count' = [count EXCEPT ![from[c]] = DSPNUM]
  /\ Goto(c, "idle")
  /\ UNCHANGED <<timer, out, from, target, msg, buf, got, spoilt>>

-----------------------------------------------------------------------------
(* Registers the library does not use, as the test patterns write them *)

SetTimeout(c) ==
  /\ pc[c] = "idle" /\ msg[c] < MaxMsg[c]
  /\ \E v \in Timeouts : timer' = [timer EXCEPT ![c] = v]
  /\ Write(c, trig[c], cancel[c])
  /\ UNCHANGED <<out, rx, count, from, program, spoilt>>

Cancel(c) ==
  /\ MayCancel /\ pc[c] = "idle" /\ trig[c] = 1
  /\ Write(c, trig[c], 1) /\ Spoils(c)
  /\ UNCHANGED <<timer, out, rx, count, from, program>>

-----------------------------------------------------------------------------
Tx(c) == \/ TxIdle(c) \/ TxCountsDown(c) \/ TxTimesOut(c) \/ TxStandsBack(c)
         \/ TxFindsBusy(c) \/ TxDelivers(c)
Send(c) == \/ SendReady(c) \/ SendFirst(c) \/ SendSecond(c) \/ SendCtrl(c)
           \/ SendTrig(c)
Receive(c) == \/ ReceiveBegins(c) \/ ReceiveReady(c) \/ ReceiveFirst(c)
              \/ ReceiveSecond(c) \/ ReceiveAccept(c)

Next ==
  \/ Edge
  \/ \E c \in Core : \/ Tx(c) \/ SendBegins(c) \/ Send(c) \/ Receive(c)
                     \/ SetTimeout(c) \/ Cancel(c)

Spec == Init /\ [][Next]_vars

Sender == {c \in Core : Dest[c] # {}}

\* The clock never stops (an edge waits for the threads of all the wraps), a
\* core goes on with the library call it has begun, and a receiving program
\* calls sc_receive again and again.  An access waits in the mailbox of the
\* core until an edge serves it: clock edges alone do not keep it out (strong
\* fairness).
FairSpec ==
  /\ Spec
  /\ WF_vars(Edge \/ \E c \in Core : Tx(c))
  /\ \A c \in Sender : SF_vars(Send(c))
  /\ \A c \in Receiver : SF_vars(Receive(c))
-----------------------------------------------------------------------------
(* Properties *)

TxType == [to : Core, w0 : Nat, w1 : Nat, id : Nat]
RxType == [status : {0, 2}, source : Core, w0 : Nat, w1 : Nat, id : Nat]
Message == [source : Core, id : Nat, w0 : Nat, w1 : Nat]
Places == {"idle", "txPoll", "txFirst", "txSecond", "txCtrl", "txTrig",
           "rxPoll", "rxFirst", "rxSecond", "rxAccept"}

WrapType ==
  /\ trig \in [Core -> {0, 1}] /\ status \in [Core -> {0, 1, 3}]
  /\ cancel \in [Core -> {0, 1}] /\ timer \in [Core -> Nat]
  /\ out \in [Core -> TxType]

BusType ==
  /\ rx \in [Core -> RxType]
  /\ count \in [Core -> 0..DSPNUM] /\ from \in [Core -> Core]

ProgramType ==
  /\ pc \in [Core -> Places] /\ target \in [Core -> Core]
  /\ msg \in [Core -> Nat] /\ buf \in [Core -> Nat]
  /\ got \in [Core -> Seq(Message)]

\* Registers, arbiter and programs stay in the ranges of their C types.
TypeOK ==
  /\ turn \subseteq Core /\ used \subseteq Core
  /\ WrapType /\ BusType /\ ProgramType
  /\ spoilt \subseteq Core \X Nat

\* A message is in the hands of receiver r and not yet in got[r].
InHand(r) == rx[r].status = 2 /\ pc[r] # "rxAccept"

\* However often a send is retried against a busy receiver, a receiver gets
\* the messages of a sender in the order they were triggered, none twice.
InOrderOnce ==
  \A r \in Core : \A i \in 1..Len(got[r]) :
    /\ \A j \in 1..(i - 1) :
         got[r][j].source = got[r][i].source => got[r][j].id < got[r][i].id
    /\ InHand(r) /\ rx[r].source = got[r][i].source => got[r][i].id < rx[r].id

Arrived(c, n) ==
  \/ \E r \in Core : InHand(r) /\ rx[r].source = c /\ rx[r].id = n
  \/ \E r \in Core : \E i \in 1..Len(got[r]) :
       got[r][i].source = c /\ got[r][i].id = n

\* A triggered message waits to be sent or has arrived, unless its own program
\* overwrote it, it timed out or TX_CANCEL ended it: a busy receiver drops none
\* and a message that was not accepted yet is not overwritten by the next.
NoneLost ==
  \A c \in Core : \A n \in 1..out[c].id :
    <<c, n>> \in spoilt \/ (trig[c] = 1 /\ out[c].id = n) \/ Arrived(c, n)

\* The words a program reads one by one are those of one message, although the
\* wraps of all the cores run between two of its reads.
WholeUnlessSpoilt ==
  \A r \in Core : \A i \in 1..Len(got[r]) :
    LET m == got[r][i]
    IN  <<m.source, m.id>> \in spoilt \/ (m.w0 = m.id /\ m.w1 = m.id)

\* The backoff of DSPNUM clocks after RX_ACCEPT lets the others in first: a core
\* does not get a second message into a receiver while another core is known to
\* wait for it.  Of three cores that send to one receiver, two may still take
\* turns with one another while the third waits.
TakesTurns ==
  [][\A r, c \in Core :
       rx[r].status = 0 /\ rx'[r].status = 2 /\ rx[r].id > 0
         /\ rx[r].source = c /\ rx'[r].source = c
       => \A b \in Core \ {c} : ~(status[b] = 3 /\ out[b].to = r)]_vars

\* Some message waits in its sender for receiver r.
Awaited(r) == \E c \in Core : trig[c] = 1 /\ out[c].to = r

\* The backoffs of the senders (c2cc_tx_count) never shut a receiver that is
\* free: as long as messages wait for it, one of them gets in.  Which one is
\* not said: among three or more senders, a given one may be passed over as long
\* as two others go on sending in turns.
SomeoneGetsIn ==
  \A r \in Receiver :
    rx[r].status = 0 /\ Awaited(r) ~> rx[r].status = 2 \/ ~Awaited(r)

\* TX_STATUS, on which sc_send_msg loops, is busy only for a message that has not
\* arrived: the wrap is still trying to send it, or its timer gave it up and
\* no register was written since (TX_CANCEL is set).  In the second case nothing
\* but a write resets TX_STATUS, and the loop, which only reads, never ends.
BusyMeansUnsent ==
  \A c \in Core : status[c] # 0 =>
    /\ trig[c] = 1 \/ cancel[c] = 1
    /\ ~Arrived(c, out[c].id)

\* The channel that wraps, bus and library make together.
InboxOf(r) ==
  IF InHand(r) THEN {[source |-> rx[r].source, id |-> rx[r].id,
                      w0 |-> rx[r].w0, w1 |-> rx[r].w1]}
  ELSE {}
WaitsFor(c) == IF trig[c] = 1 THEN {out[c].to} ELSE {}

Channel == INSTANCE MessageChannel WITH
             Node <- Core, Peers <- Dest,
             last <- [c \in Core |-> out[c].id],
             waiting <- [c \in Core |-> WaitsFor(c)],
             inbox <- [r \in Core |-> InboxOf(r)]

\* Although both ends are written and read word by word through registers, and
\* sends are retried, overwritten, timed out and cancelled, the cores see a
\* channel that hands a message over whole, once, to the core it was for, and
\* that loses only what its own sender gave up or overwrote.
ImplementsChannel == Channel!ChannelSpec

-----------------------------------------------------------------------------
(* The inductive invariant *)

Sending(c) == pc[c] \in {"txFirst", "txSecond", "txCtrl", "txTrig"}
Reading(c) == pc[c] \in {"rxFirst", "rxSecond", "rxAccept"}

\* Message n of core c has left its sender.
Left(c, n) == n < out[c].id \/ (n = out[c].id /\ trig[c] = 0)

\* Messages are numbered as they are triggered.
Numbered ==
  \A c \in Core : msg[c] = IF Sending(c) THEN out[c].id + 1 ELSE out[c].id
\* A program reads only registers that are full.
ReadsFull == \A r \in Core : Reading(r) => rx[r].status = 2
\* A message that a receiver holds or has read has left its sender.
HeldLeft == \A r \in Core : rx[r].status = 2 => Left(rx[r].source, rx[r].id)
GotLeft == \A r \in Core : \A i \in 1..Len(got[r]) :
             Left(got[r][i].source, got[r][i].id)

Order == Numbered /\ ReadsFull /\ HeldLeft /\ GotLeft

\* A wrap that waits has a numbered message for a receiver of its program.
Addressed ==
  \A c \in Core :
    /\ trig[c] = 1 => out[c].to \in Dest[c] /\ out[c].id > 0
    /\ pc[c] = "txPoll" \/ Sending(c) => target[c] \in Dest[c]
    /\ pc[c] = "txTrig" => out[c].to \in Dest[c]

\* A set TX_CANCEL belongs to a send that has ended.
CancelIdle == \A c \in Core : cancel[c] = 1 => trig[c] = 0

\* The words in the registers of a sender are those of its message.
WordsOf(c) ==
  /\ trig[c] = 1 => \/ <<c, out[c].id>> \in spoilt
                    \/ out[c].w0 = out[c].id /\ out[c].w1 = out[c].id
  /\ pc[c] \in {"txSecond", "txCtrl", "txTrig"} => out[c].w0 = msg[c]
  /\ pc[c] \in {"txCtrl", "txTrig"} => out[c].w1 = msg[c]
SenderWords == \A c \in Core : WordsOf(c)
\* A receiver reads both words from the same message.
ReaderWords == \A r \in Core : pc[r] = "rxSecond" => buf[r] = rx[r].w0
HeldWords ==
  \A r \in Core : rx[r].status = 2 =>
    \/ <<rx[r].source, rx[r].id>> \in spoilt
    \/ rx[r].w0 = rx[r].id /\ rx[r].w1 = rx[r].id

Words == SenderWords /\ ReaderWords /\ HeldWords

IInv == /\ TypeOK /\ Order /\ Addressed /\ CancelIdle /\ Words
        /\ InOrderOnce /\ NoneLost /\ WholeUnlessSpoilt

-----------------------------------------------------------------------------
(* The inductive invariant behind TakesTurns, for programs that send to one  *)
(* receiver each and load no timer, as those that use the library alone      *)

OneReceiverEach == \A c \in Core : \A d, e \in Dest[c] : d = e

\* No send is ended by its program, so that a wrap that waits goes on trying.
Untimed ==
  \A c \in Core : /\ timer[c] = 0 /\ cancel[c] = 0
                  /\ status[c] = 3 => trig[c] = 1

\* The sender that RX_ACCEPT makes stand back is the one in SOURCE_ID.
Blamed ==
  \A r \in Core :
    /\ rx[r].status = 2 => rx[r].id > 0
    /\ rx[r].id > 0 => from[r] = rx[r].source /\ r \in Dest[from[r]]

\* A core that waits has the whole backoff before it only in the clock of its
\* own RX_ACCEPT.
FreshBackoff ==
  \A b \in Core : status[b] = 3 /\ count[b] = DSPNUM =>
    b \in turn \/ (turn = {} /\ rx[out[b].to].source = b)

\* The clock of this edge is still before core c.
Ahead(c) == IF c \in turn THEN 1 ELSE 0

\* Whoever waits for a receiver has less of a backoff left than the core that
\* was served there last.
WaitersFirst ==
  \A r, b \in Core :
    LET c == rx[r].source
    IN  /\ rx[r].status = 0 /\ rx[r].id > 0 /\ c # b
        /\ status[b] = 3 /\ out[b].to = r
        => count[b] - Ahead(b) < count[c] - Ahead(c)

TurnInv == Untimed /\ Blamed /\ FreshBackoff /\ WaitersFirst
=============================================================================
