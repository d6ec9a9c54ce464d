------------------------------ MODULE D2Cache ------------------------------
(***************************************************************************)
(* The data cache in front of the data memories, D2_Bus                    *)
(* (pac-soc/pac-d2-bus.h, the build without profiling), with the DMA that  *)
(* reads and writes the memories behind its back and flushes the cache     *)
(* when a transfer starts (pac-dma-bus.h, pac-m1-bus.h, pac-m2-bus.h).     *)
(*                                                                         *)
(* The memories M1, M2 and DDR are one memory of lines: they differ in how *)
(* many delta cycles an access takes, and the model takes any number. A    *)
(* request is one byte: the loop over the bytes of a longer one goes       *)
(* through the same steps for each. A DMA transfer is one line long, and   *)
(* the program waits for its end before it starts another.                 *)
(***************************************************************************)
EXTENDS Integers, Sequences

CONSTANTS
    Core,
    Tag, Index,  \* the two parts of a line's address; 0 is one of each
    Offset,      \* a byte's place in its line
    Data, Zero,  \* contents of a byte
    LastLine,    \* lines that end where their memory ends
    MaxAccesses  \* bound: accesses of all cores and of the debugger

Line == Tag \X Index

ASSUME LineAssumption == 0 \in Tag /\ 0 \in Index
ASSUME ZeroAssumption == Zero \in Data
ASSUME OffsetAssumption == Offset # {}
ASSUME LastLineAssumption == LastLine \subseteq Line
ASSUME MaxAccessesAssumption == MaxAccesses \in Nat

VARIABLES
    writeback, \* d2_cache_type: write-back (1) or write-through (0)
    mem,       \* the data memories
    cache,     \* d2_dcache_mem: one entry per index
    queue,     \* d2_bus_RequestPEQ; the head is being served
    pc,        \* what D2_Bus_Request_Thread waits for, "idle" if for nothing
    opline,    \* the line of the memory access it waits for
    posted,    \* the memory has not served that access yet
    ret,       \* the byte read last
    dma        \* the transfer: its state, its source and its destination
VARIABLES
    latest,    \* history: the last byte written to each address
    crossed,   \* history: lines whose cached copy a flush or a DMA has crossed
    since,     \* history: lines written since the transfer started
    accesses   \* accesses so far
history == <<latest, crossed, since, accesses>>
vars == <<writeback, mem, cache, queue, pc, opline, posted, ret, dma, history>>

ZeroLine == [o \in Offset |-> Zero]
Flushed == [invalid |-> TRUE, dirty |-> FALSE, tag |-> 0, insn |-> ZeroLine]
NoLine == <<0, 0>>
AnOffset == CHOOSE o \in Offset : TRUE
NoTransfer == [state |-> "idle", src |-> NoLine, dst |-> NoLine]

Bytes == [Offset -> Data]
Entry == [invalid : BOOLEAN, dirty : BOOLEAN, tag : Tag, insn : Bytes]
Request == [core : Core, cmd : {"read", "write", "dmaen"}, line : Line,
            off : Offset, data : Data]
Transfer == [state : {"idle", "posted", "done"}, src : Line, dst : Line]

TypeOK ==
    /\ writeback \in BOOLEAN
    /\ mem \in [Line -> Bytes] /\ cache \in [Index -> Entry]
    /\ queue \in Seq(Request)
    /\ pc \in {"idle", "evict", "fill", "through", "uncached"}
    /\ opline \in Line /\ posted \in BOOLEAN
    /\ ret \in Data /\ dma \in Transfer
    /\ latest \in [Line -> Bytes]
    /\ crossed \subseteq Line /\ since \subseteq Line /\ accesses \in Nat
    /\ pc # "idle" => queue # <<>>

Init ==
    /\ writeback \in BOOLEAN
    /\ mem = [l \in Line |-> ZeroLine]
    /\ cache = [x \in Index |-> Flushed]
    /\ queue = <<>> /\ pc = "idle" /\ opline = NoLine /\ posted = FALSE
    /\ ret = Zero
    /\ dma = NoTransfer
    /\ latest = mem /\ crossed = {} /\ since = {} /\ accesses = 0

-----------------------------------------------------------------------------
(* The cores. A core has one data access under way at a time; the data of  *)
(* a request that writes nothing is Zero.                                  *)

Idle(c) == \A n \in 1 .. Len(queue) : queue[n].core # c

Ask(r) ==
    /\ Idle(r.core)
    /\ accesses < MaxAccesses /\ accesses' = accesses + 1
    /\ queue' = Append(queue, r)
    /\ UNCHANGED <<writeback, mem, cache, pc, opline, posted, ret, dma, latest,
                   crossed, since>>

Read(c, l, o) ==
    Ask([core |-> c, cmd |-> "read", line |-> l, off |-> o, data |-> Zero])

Write(c, l, o, d) ==
    Ask([core |-> c, cmd |-> "write", line |-> l, off |-> o, data |-> d])

\* The write to DMAEN: it stands for all accesses that bypass the cache.
StartDma(c) ==
    /\ dma.state = "idle" /\ \A n \in 1 .. Len(queue) : queue[n].cmd # "dmaen"
    /\ Ask([core |-> c, cmd |-> "dmaen", line |-> NoLine, off |-> AnOffset,
            data |-> Zero])

-----------------------------------------------------------------------------
(* D2_Bus_Request_Thread: each action is what it does from one wait to the *)
(* next. It serves no line that ends where its memory ends: the checks     *)
(* compare addr + len with the end by <. Such a line is neither filled nor *)
(* written back.                                                           *)

req == Head(queue)
index == req.line[2]
entry == cache[index]
Missing == entry.invalid \/ entry.tag # req.line[1]

\* Mutant: the old line is written back to the address of the new one.
VictimNew == req.line

Victim == <<entry.tag, index>>
MustEvict == ~entry.invalid /\ Missing /\ entry.dirty

Serving(k) == queue # <<>> /\ pc = k /\ ~posted
Cached == req.cmd # "dmaen"

Wait(k, l) == pc' = k /\ opline' = l /\ posted' = TRUE

\* Mutant: the thread does not go back to its queue.
AnswerWaits ==
    /\ queue' = Tail(queue)
    /\ UNCHANGED <<pc, opline, posted>>

Answer ==
    /\ queue' = Tail(queue)
    /\ pc' = "idle" /\ opline' = NoLine /\ posted' = FALSE

\* The end of the loop's body, with the line in the cache.
ReadByte(e) ==
    /\ req.cmd = "read"
    /\ cache' = [cache EXCEPT ![index] =
                   [e EXCEPT !.invalid = FALSE, !.tag = req.line[1]]]
    /\ ret' = e.insn[req.off]
    /\ Answer
    /\ UNCHANGED <<latest, since>>

WriteByte(e) ==
    /\ req.cmd = "write"
    /\ cache' = [cache EXCEPT ![index] =
                   [invalid |-> FALSE, tag |-> req.line[1], dirty |-> writeback,
                    insn |-> [e.insn EXCEPT ![req.off] = req.data]]]
    /\ latest' = [latest EXCEPT ![req.line][req.off] = req.data]
    /\ since' = since \cup {req.line}
    /\ IF writeback \/ req.line \in LastLine THEN Answer
       ELSE Wait("through", req.line) /\ UNCHANGED queue
    /\ UNCHANGED ret

Finish(e) == ReadByte(e) \/ WriteByte(e)

\* On a miss, with the old line out of the way.
FillFrom(e) ==
    IF req.line \in LastLine THEN Finish(e)
    ELSE /\ cache' = [cache EXCEPT ![index] = e]
         /\ Wait("fill", req.line)
         /\ UNCHANGED <<queue, ret, latest, since>>

Evicted(e) == [e EXCEPT !.dirty = FALSE, !.insn = ZeroLine]

Rest == UNCHANGED <<writeback, mem, dma, crossed, accesses>>

Hit == Serving("idle") /\ Cached /\ ~Missing /\ Finish(entry) /\ Rest

Miss ==
    /\ Serving("idle") /\ Cached /\ Missing /\ ~MustEvict
    /\ FillFrom([entry EXCEPT !.dirty = FALSE])
    /\ Rest

Evict ==
    /\ Serving("idle") /\ Cached /\ MustEvict
    /\ IF Victim \in LastLine THEN FillFrom(Evicted(entry))
       ELSE Wait("evict", Victim) /\ UNCHANGED <<cache, queue, ret, latest, since>>
    /\ Rest

WroteBack == Serving("evict") /\ FillFrom(Evicted(entry)) /\ Rest

\* Mutant: after the fill the cache is looked up again.
FilledLooksAgain ==
    /\ Serving("fill") /\ pc' = "idle" /\ opline' = NoLine /\ posted' = FALSE
    /\ cache' = [cache EXCEPT ![index].invalid = FALSE, ![index].tag = req.line[1]]
    /\ UNCHANGED <<queue, ret, latest, since>> /\ Rest

Filled == Serving("fill") /\ Finish([entry EXCEPT !.dirty = FALSE]) /\ Rest

WroteThrough ==
    /\ Serving("through") /\ Answer
    /\ UNCHANGED <<cache, ret, latest, since>> /\ Rest

Uncached ==
    /\ Serving("idle") /\ ~Cached
    /\ Wait("uncached", NoLine)
    /\ UNCHANGED <<cache, queue, ret, latest, since>> /\ Rest

UncachedDone ==
    /\ Serving("uncached") /\ Answer
    /\ UNCHANGED <<cache, ret, latest, since>> /\ Rest

-----------------------------------------------------------------------------
(* b_transport: the flush. It takes no time, and no lock keeps it off a    *)
(* request that is being served: lock and unlock get a copy of the lock.   *)

\* Mutant: the tag is reset before the line is written back.
WritebackReset(l) == l \notin LastLine /\ cache[l[2]].dirty /\ l[1] = 0

Writeback(l) ==
    l \notin LastLine /\ cache[l[2]].dirty /\ cache[l[2]].tag = l[1]

\* Lines under way between the cache and the memory.
UnderWay == IF (pc \in {"evict", "through"} /\ posted) \/ (pc = "fill" /\ ~posted)
            THEN {opline} ELSE {}

FlushedMem == [l \in Line |-> IF Writeback(l) THEN cache[l[2]].insn ELSE mem[l]]

Flush ==
    /\ cache' = [x \in Index |-> Flushed]
    /\ crossed' = crossed \cup UnderWay

\* Mutant: the transfer starts without the flush.
TransfersUnflushed(l, m) ==
    /\ l # m
    /\ dma' = [state |-> "posted", src |-> l, dst |-> m]
    /\ since' = {}
    /\ UNCHANGED <<cache, crossed, mem>>

\* Dma_Bus::nb_transport_fw: the flush, then the transfer goes to a memory.
Transfers(l, m) ==
    /\ l # m
    /\ Flush /\ mem' = FlushedMem
    /\ dma' = [state |-> "posted", src |-> l, dst |-> m]
    /\ since' = {}

-----------------------------------------------------------------------------
(* The memories and the DMA.                                               *)

\* The memory copies from or to the cache entry, whatever it holds by now.
ServeFill ==
    /\ pc = "fill" /\ posted /\ posted' = FALSE
    /\ cache' = [cache EXCEPT ![opline[2]].insn = mem[opline]]
    /\ UNCHANGED <<writeback, mem, queue, pc, opline, ret, dma, history>>

ServeWrite ==
    /\ pc \in {"evict", "through"} /\ posted /\ posted' = FALSE
    /\ mem' = [mem EXCEPT ![opline] = cache[opline[2]].insn]
    /\ UNCHANGED <<writeback, cache, queue, pc, opline, ret, dma, history>>

\* The DMA runs before D2 gets the answer. Its registers hold any transfer.
ServeDmaen(l, m) ==
    /\ pc = "uncached" /\ posted /\ posted' = FALSE
    /\ Transfers(l, m)
    /\ UNCHANGED <<writeback, queue, pc, opline, ret, latest, accesses>>

\* Lines the cache holds a copy of.
Holds(l) ==
    LET e == cache[l[2]]
    IN  IF pc = "fill" /\ opline[2] = l[2] THEN opline = l /\ ~posted
        ELSE ~e.invalid /\ e.tag = l[1]

DmaCopies ==
    /\ dma.state = "posted"
    /\ mem' = [mem EXCEPT ![dma.dst] = mem[dma.src]]
    /\ dma' = [dma EXCEPT !.state = "done"]
    /\ latest' = [latest EXCEPT ![dma.dst] = mem[dma.src]]
    /\ crossed' = crossed \cup (IF Holds(dma.dst) THEN {dma.dst} ELSE {})
    /\ UNCHANGED <<writeback, cache, queue, pc, opline, posted, ret, since,
                   accesses>>

\* M1_Dma_Response_Thread, M2_Dma_Response_Thread: without a linked list ...
DmaEnds ==
    /\ dma.state = "done" /\ dma' = NoTransfer /\ since' = {}
    /\ UNCHANGED <<writeback, mem, cache, queue, pc, opline, posted, ret, latest,
                   crossed, accesses>>

\* ... and with one: the next transfer starts while D2 may serve a request.
DmaChains(l, m) ==
    /\ dma.state = "done" /\ Transfers(l, m)
    /\ UNCHANGED <<writeback, queue, pc, opline, posted, ret, latest, accesses>>

-----------------------------------------------------------------------------
(* Direct accesses: of the debugger and of a core's flush instruction. The *)
(* core buses make them at a clock edge, when nothing is under way.        *)

Quiet == queue = <<>> /\ dma.state = "idle"

\* A flush, or a read, which flushes first.
DirectFlush ==
    /\ Quiet /\ Flush /\ mem' = FlushedMem
    /\ UNCHANGED <<writeback, queue, pc, opline, posted, ret, dma, latest, since,
                   accesses>>

DirectWrite(l, o, d) ==
    /\ Quiet /\ accesses < MaxAccesses /\ accesses' = accesses + 1
    /\ Flush
    /\ mem' = [FlushedMem EXCEPT ![l][o] = d]
    /\ latest' = [latest EXCEPT ![l][o] = d]
    /\ UNCHANGED <<writeback, queue, pc, opline, posted, ret, dma, since>>

D2 == Hit \/ Miss \/ Evict \/ WroteBack \/ Filled \/ WroteThrough \/ Uncached
      \/ UncachedDone
Reachable == Line \ LastLine
Memory == ServeFill \/ ServeWrite \/ \E l, m \in Reachable : ServeDmaen(l, m)

\* Zero is told apart from all that is written.
Written == Data \ {Zero}

Next ==
    \/ D2 \/ Memory \/ DmaCopies \/ DmaEnds
    \/ \E l, m \in Reachable : DmaChains(l, m)
    \/ \E c \in Core, l \in Line, o \in Offset : Read(c, l, o)
    \/ \E c \in Core, l \in Line, o \in Offset, d \in Written : Write(c, l, o, d)
    \/ \E c \in Core : StartDma(c)
    \/ DirectFlush
    \/ \E l \in Reachable, o \in Offset, d \in Written : DirectWrite(l, o, d)

Spec == Init /\ [][Next]_vars

\* The simulation kernel runs every process that has been notified.
FairSpec == Spec /\ WF_vars(D2) /\ WF_vars(Memory)

-----------------------------------------------------------------------------
(* Properties. The code keeps no promise for the last line of a memory, or *)
(* for a line that a flush or a DMA has crossed on its way.                *)

Kept == Line \ (LastLine \cup crossed)

\* A core reads what was written last (D2_Bus_Request_Thread), through misses,
\* write-backs, write-throughs, flushes, DMA transfers and direct writes.
ReadsLatest ==
    [][(queue # <<>> /\ queue' = Tail(queue)
        /\ req.cmd = "read" /\ req.line \in Kept)
       => ret' = latest[req.line][req.off]]_vars

\* After a flush (b_transport) the memory has what was written last, for the
\* direct access or the DMA that follows.
FlushLeavesLatest ==
    (\A x \in Index : cache[x].invalid) => \A l \in Kept : mem[l] = latest[l]

\* A transfer copies what its source held when it started, unless the program
\* has written the source meanwhile.
DmaCopiesLatest ==
    [][(dma.state = "posted" /\ dma'.state = "done"
        /\ dma.src \in Kept /\ dma.src \notin since)
       => mem'[dma.dst] = latest[dma.src]]_vars

\* Every access is answered (the waits of m1_mem_read and the like end), however
\* many flushes of chained transfers cross it.
AccessEnds == \A c \in Core : ~Idle(c) ~> Idle(c)
=============================================================================
