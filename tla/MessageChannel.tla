---------------------------- MODULE MessageChannel ----------------------------
(***************************************************************************)
(* What core-to-core communication promises the programs of the cores: a   *)
(* sender has one message on its way at a time, a receiver keeps one, and  *)
(* both hand a whole message over in one step.  A message is lost only to  *)
(* its own sender, which may overwrite it or give it up while it waits.    *)
(* The wraps, the bus and the library of C2CC implement it.                *)
(***************************************************************************)
EXTENDS Naturals, Sequences

CONSTANTS
  Node,   \* those who send and receive
  Peers   \* for each of them, those it sends to

VARIABLES
  last,     \* number of the last message of each sender
  waiting,  \* the receiver its last message waits for, {} once it has left
  inbox,    \* the message a receiver has got and not yet taken, or none
  got,      \* the messages each receiver has taken
  spoilt    \* messages their sender has overwritten or given up

cvars == <<last, waiting, inbox, got, spoilt>>

ChannelInit ==
  /\ last = [c \in Node |-> 0] /\ waiting = [c \in Node |-> {}]
  /\ inbox = [r \in Node |-> {}] /\ got = [r \in Node |-> <<>>]
  /\ spoilt = {}

Current(c) == <<c, last[c]>>

\* A sender triggers its next message.  One that still waits is overwritten.
Trigger(c, d) ==
  /\ last' = [last EXCEPT ![c] = @ + 1]
  /\ waiting' = [waiting EXCEPT ![c] = {d}]
  /\ spoilt' = spoilt \cup (IF waiting[c] = {} THEN {} ELSE {Current(c)})
  /\ UNCHANGED <<inbox, got>>

\* TX_CANCEL was still set: the message is given up as it is triggered.
TriggerInVain(c) ==
  /\ last' = [last EXCEPT ![c] = @ + 1]
  /\ waiting' = [waiting EXCEPT ![c] = {}]
  /\ spoilt' = spoilt \cup {<<c, last[c] + 1>>}
                 \cup (IF waiting[c] = {} THEN {} ELSE {Current(c)})
  /\ UNCHANGED <<inbox, got>>

\* A sender overwrites a part of its message while it waits.
Overwrite(c, d) ==
  /\ waiting[c] # {}
  /\ waiting' = [waiting EXCEPT ![c] = {d}]
  /\ spoilt' = spoilt \cup {Current(c)}
  /\ UNCHANGED <<last, inbox, got>>

GiveUp(c) ==
  /\ waiting[c] # {}
  /\ waiting' = [waiting EXCEPT ![c] = {}]
  /\ spoilt' = spoilt \cup {Current(c)}
  /\ UNCHANGED <<last, inbox, got>>

\* A message arrives whole, unless its sender has overwritten it.
Carries(c, m) ==
  /\ m.source = c /\ m.id = last[c]
  /\ Current(c) \in spoilt \/ (m.w0 = m.id /\ m.w1 = m.id)

Deliver(c, r) ==
  /\ waiting[c] = {r} /\ inbox[r] = {}
  /\ waiting' = [waiting EXCEPT ![c] = {}]
  /\ \E m \in inbox'[r] : Carries(c, m) /\ inbox' = [inbox EXCEPT ![r] = {m}]
  /\ UNCHANGED <<last, got, spoilt>>

Take(r) ==
  /\ \E m \in inbox[r] : got' = [got EXCEPT ![r] = Append(@, m)]
  /\ inbox' = [inbox EXCEPT ![r] = {}]
  /\ UNCHANGED <<last, waiting, spoilt>>

ChannelNext ==
  \/ \E c \in Node : \/ \E d \in Peers[c] : Trigger(c, d) \/ Overwrite(c, d)
                     \/ TriggerInVain(c) \/ GiveUp(c) \/ Take(c)
  \/ \E c, r \in Node : Deliver(c, r)

ChannelSpec == ChannelInit /\ [][ChannelNext]_cvars
=============================================================================
