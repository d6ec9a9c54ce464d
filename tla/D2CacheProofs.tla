--------------------------- MODULE D2CacheProofs ---------------------------
(***************************************************************************)
(* The safety properties of D2Cache, for every number of cores and every   *)
(* size of cache, line and memory.                                         *)
(***************************************************************************)
EXTENDS D2Cache, TLAPS

USE LineAssumption, ZeroAssumption, OffsetAssumption, LastLineAssumption,
    MaxAccessesAssumption

-----------------------------------------------------------------------------
(* The inductive invariant.                                                *)

\* What D2_Bus_Request_Thread waits for is part of the request it serves.
Shape ==
    /\ \A x \in Index : cache[x].invalid => ~cache[x].dirty
    /\ pc = "idle" => ~posted
    /\ pc \in {"evict", "fill", "through"} => Cached /\ opline[2] = index
    /\ pc = "fill" => opline = req.line /\ ~entry.dirty
    /\ pc = "through" => opline = req.line /\ req.cmd = "write"
    /\ pc = "uncached" => req.cmd = "dmaen"
    /\ pc = "evict" => entry.invalid \/ entry.tag = opline[1]
    /\ (pc \in {"evict", "through"} /\ posted /\ opline \notin crossed)
       => ~entry.invalid /\ entry.tag = opline[1]

\* The cache has what was written last to a line it holds, and unless it is
\* still to be written back, or through, so has the memory.
Coherent(l) ==
    /\ Holds(l) => cache[l[2]].insn = latest[l]
    /\ \/ mem[l] = latest[l]
       \/ /\ Holds(l)
          /\ \/ cache[l[2]].dirty
             \/ pc = "through" /\ posted /\ opline = l
    /\ pc = "evict" /\ ~posted /\ opline = l => mem[l] = latest[l]

SourceKept ==
    (dma.state = "posted" /\ dma.src \in Kept /\ dma.src \notin since)
    => mem[dma.src] = latest[dma.src]

Safe == Shape /\ (\A l \in Kept : Coherent(l)) /\ SourceKept
IInv == TypeOK /\ Safe

-----------------------------------------------------------------------------
(* Facts about the data.                                                   *)

LEMMA ConstantTypes ==
    /\ ZeroLine \in Bytes /\ Flushed \in Entry /\ NoLine \in Line
    /\ NoTransfer \in Transfer /\ AnOffset \in Offset
BY DEF ZeroLine, Bytes, Flushed, Entry, NoLine, Line, NoTransfer, Transfer, AnOffset

\* A line is the pair of its tag and its index.
LEMMA LinePair ==
    ASSUME NEW l \in Line
    PROVE  l[1] \in Tag /\ l[2] \in Index /\ l = <<l[1], l[2]>>
BY DEF Line

\* The request being served.
LEMMA Served ==
    ASSUME TypeOK, queue # <<>>
    PROVE  /\ req \in Request /\ index \in Index /\ entry \in Entry
           /\ Tail(queue) \in Seq(Request) /\ Tail(queue) # queue
           /\ \A r : Append(queue, r) # Tail(queue) /\ Head(Append(queue, r)) = req
           /\ \A r \in Request : Append(queue, r) \in Seq(Request)
<1>1. req \in Request /\ Tail(queue) \in Seq(Request)
  BY DEF TypeOK, req
<1>2. req.line \in Line
  BY <1>1 DEF Request
<1>3. index \in Index
  BY <1>2, LinePair DEF index
<1>4. entry \in Entry
  BY <1>3 DEF TypeOK, entry
<1>5. Tail(queue) # queue
  BY DEF TypeOK
<1>6. ASSUME NEW r PROVE Append(queue, r) # Tail(queue) /\ Head(Append(queue, r)) = req
  BY DEF TypeOK, req
<1>7. \A r \in Request : Append(queue, r) \in Seq(Request)
  BY DEF TypeOK
<1> QED BY <1>1, <1>3, <1>4, <1>5, <1>6, <1>7
\* What Finish and FillFrom may leave behind.
LEMMA FinishTypes ==
    ASSUME TypeOK, queue # <<>>, NEW e \in Entry, Finish(e), Rest
    PROVE  TypeOK'
<1> USE Served
<1>1. req.line \in Line /\ req.off \in Offset /\ req.data \in Data
  BY DEF Request
<1>2. req.line[1] \in Tag
  BY <1>1, LinePair
<1>3. CASE ReadByte(e)
  <2>1. [e EXCEPT !.invalid = FALSE, !.tag = req.line[1]] \in Entry
    BY <1>2 DEF Entry
  <2>2. cache' \in [Index -> Entry] /\ ret' \in Data
    BY <2>1, <1>1, <1>3 DEF ReadByte, TypeOK, Entry, Bytes
  <2> QED BY <2>2, <1>3, ConstantTypes DEF ReadByte, Answer, Rest, TypeOK
<1>4. CASE WriteByte(e)
  <2>1. [invalid |-> FALSE, tag |-> req.line[1], dirty |-> writeback,
         insn |-> [e.insn EXCEPT ![req.off] = req.data]] \in Entry
    BY <1>1, <1>2 DEF Entry, Bytes, TypeOK
  <2>2. cache' \in [Index -> Entry]
    BY <2>1, <1>4 DEF WriteByte, TypeOK
  <2>3. latest' \in [Line -> Bytes] /\ since' \subseteq Line
    BY <1>1, <1>4 DEF WriteByte, TypeOK, Bytes
  <2>4. CASE writeback \/ req.line \in LastLine
    BY <2>2, <2>3, <2>4, <1>4, ConstantTypes DEF WriteByte, Answer, Rest, TypeOK
  <2>5. CASE ~(writeback \/ req.line \in LastLine)
    BY <2>2, <2>3, <2>5, <1>1, <1>4 DEF WriteByte, Wait, Rest, TypeOK
  <2> QED BY <2>4, <2>5
<1> QED BY <1>3, <1>4 DEF Finish

LEMMA FillTypes ==
    ASSUME TypeOK, queue # <<>>, NEW e \in Entry, FillFrom(e), Rest
    PROVE  TypeOK'
<1>1. CASE req.line \in LastLine
  BY <1>1, FinishTypes DEF FillFrom
<1>2. CASE req.line \notin LastLine
  <2>1. req.line \in Line
    BY Served DEF Request
  <2> QED BY <2>1, <1>2, Served DEF FillFrom, Wait, Rest, TypeOK
<1> QED BY <1>1, <1>2

LEMMA EvictedEntry ==
    ASSUME NEW e \in Entry
    PROVE  Evicted(e) \in Entry /\ [e EXCEPT !.dirty = FALSE] \in Entry
BY ConstantTypes DEF Evicted, Entry

\* A flush, and a transfer that starts with one.
LEMMA FlushTypes ==
    ASSUME TypeOK
    PROVE  /\ UnderWay \subseteq Line /\ FlushedMem \in [Line -> Bytes]
           /\ Flush => cache' \in [Index -> Entry] /\ crossed' \subseteq Line
<1>1. UnderWay \subseteq Line
  BY DEF UnderWay, TypeOK
<1>2. \A l \in Line : cache[l[2]].insn \in Bytes
  BY LinePair DEF TypeOK, Entry
<1> QED BY <1>1, <1>2, ConstantTypes DEF Flush, FlushedMem, TypeOK

LEMMA TypeStep == TypeOK /\ [Next]_vars => TypeOK'
<1> SUFFICES ASSUME TypeOK, [Next]_vars PROVE TypeOK'
  OBVIOUS
<1>1. ASSUME NEW r \in Request, Ask(r) PROVE TypeOK'
  <2>1. queue' \in Seq(Request) /\ queue' # <<>>
    BY <1>1 DEF Ask, TypeOK
  <2> QED BY <1>1, <2>1 DEF Ask, TypeOK
<1>2. CASE \E c \in Core, l \in Line, o \in Offset : Read(c, l, o)
  BY <1>1, <1>2 DEF Read, Request
<1>3. CASE \E c \in Core, l \in Line, o \in Offset, d \in Written : Write(c, l, o, d)
  BY <1>1, <1>3 DEF Write, Request, Written
<1>4. CASE \E c \in Core : StartDma(c)
  BY <1>1, <1>4, ConstantTypes DEF StartDma, Request
<1>5. CASE D2
  <2>1. queue # <<>>
    BY <1>5 DEF D2, Hit, Miss, Evict, WroteBack, Filled, WroteThrough, Uncached,
                UncachedDone, Serving
  <2>2. entry \in Entry
    BY <2>1, Served
  <2>3. CASE Hit
    BY <2>1, <2>2, <2>3, FinishTypes DEF Hit
  <2>4. CASE Miss
    BY <2>1, <2>2, <2>4, FillTypes, EvictedEntry DEF Miss
  <2>5. CASE Evict
    <3>1. CASE Victim \in LastLine
      BY <3>1, <2>1, <2>2, <2>5, FillTypes, EvictedEntry DEF Evict
    <3>2. CASE Victim \notin LastLine
      <4>1. Victim \in Line
        BY <2>1, <2>2, Served DEF Victim, Line, Entry
      <4> QED BY <3>2, <4>1, <2>1, <2>5 DEF Evict, Wait, Rest, TypeOK
    <3> QED BY <3>1, <3>2
  <2>6. CASE WroteBack
    BY <2>1, <2>2, <2>6, FillTypes, EvictedEntry DEF WroteBack
  <2>7. CASE Filled
    BY <2>1, <2>2, <2>7, FinishTypes, EvictedEntry DEF Filled
  <2>8. CASE WroteThrough \/ UncachedDone
    BY <2>1, <2>8, Served, ConstantTypes DEF WroteThrough, UncachedDone, Answer, Rest, TypeOK
  <2>9. CASE Uncached
    BY <2>1, <2>9, ConstantTypes DEF Uncached, Wait, Rest, TypeOK
  <2> QED BY <1>5, <2>3, <2>4, <2>5, <2>6, <2>7, <2>8, <2>9 DEF D2
<1>6. CASE ServeFill
  <2>1. cache' \in [Index -> Entry]
    BY <1>6, LinePair DEF ServeFill, TypeOK, Entry
  <2> QED BY <2>1, <1>6 DEF ServeFill, TypeOK, history
<1>7. CASE ServeWrite
  <2>1. cache[opline[2]].insn \in Bytes
    BY LinePair DEF TypeOK, Entry
  <2> QED BY <2>1, <1>7 DEF ServeWrite, TypeOK, history
<1>8. CASE \E l, m \in Reachable : ServeDmaen(l, m) \/ DmaChains(l, m)
  BY <1>8, FlushTypes DEF ServeDmaen, DmaChains, Transfers, Transfer, Reachable, TypeOK
<1>9. CASE DmaCopies
  <2>1. dma.src \in Line /\ dma.dst \in Line /\ dma' \in Transfer
    BY <1>9 DEF DmaCopies, TypeOK, Transfer
  <2> QED BY <2>1, <1>9 DEF DmaCopies, TypeOK
<1>10. CASE DmaEnds
  BY <1>10, ConstantTypes DEF DmaEnds, TypeOK
<1>11. CASE DirectFlush
  BY <1>11, FlushTypes DEF DirectFlush, TypeOK
<1>12. CASE \E l \in Reachable, o \in Offset, d \in Written : DirectWrite(l, o, d)
  <2>1. PICK l \in Reachable, o \in Offset, d \in Written : DirectWrite(l, o, d)
    BY <1>12
  <2>2. l \in Line /\ d \in Data
    BY <2>1 DEF Reachable, Written
  <2>3. mem' \in [Line -> Bytes] /\ latest' \in [Line -> Bytes]
    BY <2>1, <2>2, FlushTypes DEF DirectWrite, Bytes, TypeOK
  <2> QED BY <2>1, <2>3, FlushTypes DEF DirectWrite, TypeOK
<1>13. CASE UNCHANGED vars
  BY <1>13 DEF vars, history, TypeOK
<1> QED BY <1>2, <1>3, <1>4, <1>5, <1>6, <1>7, <1>8, <1>9, <1>10, <1>11, <1>12, <1>13
        DEF Next, Memory

\* The state keeps its types: the cache (d2_dcache_mem), the queue of D2_Bus and
\* the transfer.
THEOREM TypeCorrect == Spec => []TypeOK
<1>1. Init => TypeOK
  BY ConstantTypes DEF Init, TypeOK
<1> QED BY <1>1, TypeStep, PTL DEF Spec

-----------------------------------------------------------------------------
(* The steps of D2_Bus_Request_Thread.                                     *)

LEMMA FinishSafe ==
    ASSUME TypeOK, Shape, SourceKept, queue # <<>>, Cached,
           NEW e \in Entry, Finish(e), Rest,
           \A l \in Kept : l[2] # index => Coherent(l),
           \A l \in Kept : l[2] = index /\ l # req.line => mem[l] = latest[l],
           req.line \in Kept => /\ e.insn = latest[req.line]
                                /\ e.dirty \/ mem[req.line] = latest[req.line]
    PROVE  Safe'
<1> USE Served
<1>1. req.line \in Line /\ req.off \in Offset /\ req.data \in Data
  BY DEF Request
<1>2. Kept' = Kept /\ mem' = mem /\ dma' = dma
  BY DEF Rest, Kept
<1>3. CASE ReadByte(e)
  <2>1. /\ pc' = "idle" /\ posted' = FALSE
        /\ cache'[index] = [e EXCEPT !.invalid = FALSE, !.tag = req.line[1]]
        /\ \A x \in Index : x # index => cache'[x] = cache[x]
        /\ latest' = latest /\ since' = since
    BY <1>3 DEF ReadByte, Answer, TypeOK
  <2>2. Shape'
    <3>1. ASSUME NEW x \in Index PROVE cache'[x].invalid => ~cache'[x].dirty
      BY <2>1 DEF Shape, Entry
    <3> QED BY <2>1, <3>1 DEF Shape
  <2>3. ASSUME NEW l \in Kept PROVE Coherent(l)'
    <3>1. l \in Line /\ l[1] \in Tag /\ l[2] \in Index /\ l = <<l[1], l[2]>>
      BY LinePair DEF Kept
    <3>2. CASE l[2] # index
      BY <1>2, <2>1, <2>3, <3>1, <3>2 DEF Coherent, Holds, Shape
    <3>3. CASE l = req.line
      BY <1>2, <2>1, <2>3, <3>1, <3>3 DEF Coherent, Holds, Entry, index
    <3>4. CASE l[2] = index /\ l # req.line
      <4>1. l[1] # req.line[1]
        BY <3>1, <3>4, <1>1, LinePair DEF index
      <4> QED BY <1>2, <2>1, <2>3, <3>1, <3>4, <4>1 DEF Coherent, Holds, Entry
    <3> QED BY <3>2, <3>3, <3>4
  <2>4. SourceKept'
    BY <1>2, <2>1 DEF SourceKept
  <2> QED BY <1>2, <2>2, <2>3, <2>4 DEF Safe
<1>4. CASE WriteByte(e)
  <2>1. /\ pc' \in {"idle", "through"} /\ (pc' = "idle" => posted' = FALSE)
        /\ pc' = "through" => opline' = req.line /\ req' = req
        /\ pc' = "idle" => writeback \/ req.line \in LastLine
        /\ pc' = "through" => posted' = TRUE
        /\ cache'[index] = [invalid |-> FALSE, tag |-> req.line[1], dirty |-> writeback,
                            insn |-> [e.insn EXCEPT ![req.off] = req.data]]
        /\ \A x \in Index : x # index => cache'[x] = cache[x]
        /\ latest'[req.line] = [latest[req.line] EXCEPT ![req.off] = req.data]
        /\ \A l \in Line : l # req.line => latest'[l] = latest[l]
        /\ since' = since \cup {req.line} /\ req.cmd = "write"
    BY <1>1, <1>4 DEF WriteByte, Answer, Wait, req, TypeOK
  <2>2. Shape'
    <3>1. ASSUME NEW x \in Index PROVE cache'[x].invalid => ~cache'[x].dirty
      BY <2>1 DEF Shape
    <3> QED BY <2>1, <3>1 DEF Shape, index, entry, Cached
  <2>3. ASSUME NEW l \in Kept PROVE Coherent(l)'
    <3>1. l \in Line /\ l[1] \in Tag /\ l[2] \in Index /\ l = <<l[1], l[2]>>
      BY LinePair DEF Kept
    <3>2. CASE l[2] # index
      <4>1. l # req.line
        BY <3>2 DEF index
      <4> QED BY <1>2, <2>1, <2>3, <3>1, <3>2, <4>1 DEF Coherent, Holds, Shape
    <3>3. CASE l = req.line
      <4>1. l \notin LastLine
        BY DEF Kept
      <4> QED BY <1>2, <2>1, <2>3, <3>1, <3>3, <4>1 DEF Coherent, Holds, index
    <3>4. CASE l[2] = index /\ l # req.line
      <4>1. l[1] # req.line[1]
        BY <3>1, <3>4, <1>1, LinePair DEF index
      <4> QED BY <1>2, <2>1, <2>3, <3>1, <3>4, <4>1 DEF Coherent, Holds
    <3> QED BY <3>2, <3>3, <3>4
  <2>4. SourceKept'
    BY <1>2, <2>1 DEF SourceKept, TypeOK, Transfer
  <2> QED BY <1>2, <2>2, <2>3, <2>4 DEF Safe
<1> QED BY <1>3, <1>4 DEF Finish

LEMMA FillSafe ==
    ASSUME TypeOK, Shape, SourceKept, queue # <<>>, Cached,
           NEW e \in Entry, ~e.dirty, FillFrom(e), Rest,
           \A l \in Kept : l[2] # index => Coherent(l),
           \A l \in Kept : l[2] = index => mem[l] = latest[l]
    PROVE  Safe'
<1> USE Served
<1>1. req.line \in Line
  BY DEF Request
<1>2. CASE req.line \in LastLine
  <2>1. Finish(e) /\ req.line \notin Kept
    BY <1>2 DEF FillFrom, Kept
  <2> QED BY <2>1, FinishSafe
<1>3. CASE req.line \notin LastLine
  <2>1. /\ pc' = "fill" /\ opline' = req.line /\ posted' = TRUE
        /\ queue' = queue /\ latest' = latest /\ since' = since
        /\ cache'[index] = e
        /\ \A x \in Index : x # index => cache'[x] = cache[x]
        /\ Kept' = Kept /\ mem' = mem /\ dma' = dma
    BY <1>3 DEF FillFrom, Wait, Rest, Kept, TypeOK
  <2>2. Shape'
    <3>1. ASSUME NEW x \in Index PROVE cache'[x].invalid => ~cache'[x].dirty
      BY <2>1 DEF Shape
    <3> QED BY <2>1, <3>1 DEF Shape, index, entry, Cached, req
  <2>3. ASSUME NEW l \in Kept PROVE Coherent(l)'
    <3>1. l \in Line /\ l[1] \in Tag /\ l[2] \in Index
      BY LinePair DEF Kept
    <3>2. CASE l[2] # index
      BY <2>1, <2>3, <3>1, <3>2 DEF Coherent, Holds, Shape, index
    <3>3. CASE l[2] = index
      BY <2>1, <2>3, <3>1, <3>3 DEF Coherent, Holds, index
    <3> QED BY <3>2, <3>3
  <2>4. SourceKept'
    BY <2>1 DEF SourceKept
  <2> QED BY <2>1, <2>2, <2>3, <2>4 DEF Safe
<1> QED BY <1>2, <1>3

\* A step that leaves the cache, the memory and what is being served alone.
LEMMA SameSafe ==
    ASSUME Safe, UNCHANGED <<mem, cache, pc, opline, posted, dma, latest, crossed, since>>,
           pc # "idle" => req' = req
    PROVE  Safe'
<1>1. Shape'
  BY DEF Safe, Shape, Cached, index, entry
<1>2. (\A l \in Kept : Coherent(l))'
  BY DEF Safe, Coherent, Holds, Kept
<1>3. SourceKept'
  BY DEF Safe, SourceKept, Kept
<1> QED BY <1>1, <1>2, <1>3 DEF Safe

LEMMA D2Safe ==
    ASSUME TypeOK, Safe, D2
    PROVE  Safe'
<1>1. queue # <<>> /\ ~posted
  BY DEF D2, Hit, Miss, Evict, WroteBack, Filled, WroteThrough, Uncached,
         UncachedDone, Serving
<1> USE <1>1, Served
<1>2. req.line \in Line /\ entry \in Entry
  BY DEF Request
<1>3. \A l \in Kept : /\ l \in Line /\ l[1] \in Tag /\ l[2] \in Index
                      /\ l = <<l[1], l[2]>> /\ Coherent(l)
  BY LinePair DEF Kept, Safe
<1>4. ASSUME pc = "idle", Cached, NEW l \in Kept, l[2] = index
      PROVE  /\ (entry.invalid \/ entry.tag # l[1] \/ ~entry.dirty) => mem[l] = latest[l]
             /\ ~entry.invalid /\ entry.tag = l[1] => entry.insn = latest[l]
  BY <1>3, <1>4 DEF Coherent, Holds, entry, index
<1>5. req.line = <<req.line[1], index>>
  BY <1>2, LinePair DEF index
<1>6. CASE Hit
  <2>1. ~entry.invalid /\ entry.tag = req.line[1] /\ pc = "idle"
    BY <1>6 DEF Hit, Missing, Serving
  <2>2. ASSUME NEW l \in Kept, l[2] = index, l # req.line PROVE mem[l] = latest[l]
    <3>1. l[1] # req.line[1]
      BY <1>3, <1>5, <2>2
    <3> QED BY <1>4, <1>6, <2>1, <2>2, <3>1 DEF Hit
  <2>3. ASSUME req.line \in Kept
        PROVE  entry.insn = latest[req.line] /\ (entry.dirty \/ mem[req.line] = latest[req.line])
    BY <1>4, <1>6, <2>1, <2>3 DEF Hit, index
  <2> QED BY <1>3, <1>6, <2>2, <2>3, FinishSafe DEF Hit, Safe
<1>7. CASE Miss
  <2>1. pc = "idle" /\ Cached /\ Missing /\ ~MustEvict
    BY <1>7 DEF Miss, Serving
  <2>2. ~entry.dirty
    BY <2>1 DEF MustEvict, Safe, Shape, entry
  <2>3. ASSUME NEW l \in Kept, l[2] = index PROVE mem[l] = latest[l]
    BY <1>4, <2>1, <2>2, <2>3
  <2>4. [entry EXCEPT !.dirty = FALSE] \in Entry /\ ~[entry EXCEPT !.dirty = FALSE].dirty
    BY <1>2 DEF Entry
  <2> QED BY <1>3, <1>7, <2>1, <2>3, <2>4, FillSafe DEF Miss, Safe
<1>8. CASE Evict
  <2>1. /\ pc = "idle" /\ Cached /\ ~entry.invalid /\ entry.dirty
        /\ entry.tag # req.line[1] /\ Victim = <<entry.tag, index>>
    BY <1>8 DEF Evict, Serving, MustEvict, Missing, Victim
  <2>2. CASE Victim \in LastLine
    <3>1. ASSUME NEW l \in Kept, l[2] = index PROVE mem[l] = latest[l]
      <4>1. l # Victim
        BY <2>2, <3>1 DEF Kept
      <4> QED BY <1>3, <1>4, <2>1, <3>1, <4>1
    <3>2. Evicted(entry) \in Entry /\ ~Evicted(entry).dirty
      BY <1>2, EvictedEntry DEF Evicted, Entry
    <3> QED BY <1>3, <1>8, <2>1, <2>2, <3>1, <3>2, FillSafe DEF Evict, Safe
  <2>3. CASE Victim \notin LastLine
    <3>1. /\ pc' = "evict" /\ opline' = Victim /\ posted' = TRUE
          /\ UNCHANGED <<cache, queue, latest, since, mem, dma, crossed>>
      BY <1>8, <2>3 DEF Evict, Wait, Rest
    <3>2. Victim[1] = entry.tag /\ Victim[2] = index
      BY <2>1
    <3>3. Shape'
      BY <2>1, <3>1, <3>2 DEF Shape, Cached, index, entry, req, Safe
    <3>4. (\A l \in Kept : Coherent(l))'
      BY <1>3, <2>1, <3>1 DEF Coherent, Holds, Kept
    <3>5. SourceKept'
      BY <3>1 DEF SourceKept, Kept, Safe
    <3> QED BY <3>3, <3>4, <3>5 DEF Safe
  <2> QED BY <2>2, <2>3
<1>9. CASE WroteBack
  <2>1. /\ pc = "evict" /\ Cached /\ opline[2] = index
        /\ entry.invalid \/ entry.tag = opline[1]
    BY <1>9 DEF WroteBack, Serving, Safe, Shape
  <2>2. ASSUME NEW l \in Kept, l[2] = index PROVE mem[l] = latest[l]
    <3>1. CASE l = opline
      BY <1>3, <2>1, <2>2, <3>1 DEF Coherent
    <3>2. CASE l # opline
      <4>1. opline = <<opline[1], opline[2]>>
        BY LinePair DEF TypeOK
      <4>2. l[1] # opline[1]
        BY <1>3, <2>1, <2>2, <3>2, <4>1
      <4>3. ~Holds(l)
        BY <2>1, <2>2, <4>2 DEF Holds, entry
      <4> QED BY <1>3, <2>2, <4>3 DEF Coherent
    <3> QED BY <3>1, <3>2
  <2>3. Evicted(entry) \in Entry /\ ~Evicted(entry).dirty
    BY <1>2, EvictedEntry DEF Evicted, Entry
  <2> QED BY <1>3, <1>9, <2>1, <2>2, <2>3, FillSafe DEF WroteBack, Safe
<1>10. CASE Filled
  <2>1. pc = "fill" /\ Cached /\ opline = req.line /\ ~entry.dirty
    BY <1>10 DEF Filled, Serving, Safe, Shape
  <2>2. ASSUME NEW l \in Kept, l[2] = index PROVE mem[l] = latest[l]
    BY <1>3, <2>1, <2>2 DEF Coherent, entry
  <2>3. ASSUME req.line \in Kept PROVE entry.insn = latest[req.line]
    BY <1>1, <1>3, <2>1, <2>3 DEF Coherent, Holds, entry, index
  <2>4. /\ [entry EXCEPT !.dirty = FALSE] \in Entry
        /\ [entry EXCEPT !.dirty = FALSE].insn = entry.insn
    BY <1>2 DEF Entry
  <2>5. req.line \in Kept => mem[req.line] = latest[req.line]
    BY <2>2 DEF index
  <2> QED BY <1>3, <1>10, <2>1, <2>2, <2>3, <2>4, <2>5, FinishSafe DEF Filled, Safe
<1>11. CASE WroteThrough \/ UncachedDone
  <2>1. /\ pc \in {"through", "uncached"} /\ pc' = "idle" /\ posted' = FALSE
        /\ UNCHANGED <<cache, latest, since, mem, dma, crossed>>
    BY <1>11 DEF WroteThrough, UncachedDone, Serving, Answer, Rest
  <2>2. Shape'
    BY <2>1 DEF Shape, Safe
  <2>3. (\A l \in Kept : Coherent(l))'
    BY <1>1, <1>3, <2>1 DEF Coherent, Holds, Kept
  <2>4. SourceKept'
    BY <2>1 DEF SourceKept, Kept, Safe
  <2> QED BY <2>2, <2>3, <2>4 DEF Safe
<1>12. CASE Uncached
  <2>1. /\ pc = "idle" /\ req.cmd = "dmaen" /\ pc' = "uncached"
        /\ UNCHANGED <<cache, queue, latest, since, mem, dma, crossed>>
    BY <1>12 DEF Uncached, Serving, Wait, Rest, Cached
  <2>2. Shape'
    BY <2>1 DEF Shape, Safe, req
  <2>3. (\A l \in Kept : Coherent(l))'
    BY <1>3, <2>1 DEF Coherent, Holds, Kept
  <2>4. SourceKept'
    BY <2>1 DEF SourceKept, Kept, Safe
  <2> QED BY <2>2, <2>3, <2>4 DEF Safe
<1> QED BY <1>6, <1>7, <1>8, <1>9, <1>10, <1>11, <1>12 DEF D2

-----------------------------------------------------------------------------
(* The flush, the memories and the DMA.                                    *)

\* After a flush the memory has everything, but for the lines it has crossed.
LEMMA FlushSafe ==
    ASSUME TypeOK, Safe, Flush, mem' = FlushedMem, latest' = latest,
           UNCHANGED <<queue, pc, opline>>, posted' = posted \/ pc = "uncached"
    PROVE  /\ Shape' /\ (\A l \in Kept : Coherent(l))'
           /\ \A l \in Kept' : mem'[l] = latest'[l]
<1>1. Kept' \subseteq Kept /\ \A l \in Kept' : l \notin UnderWay
  BY DEF Kept, Flush
<1>2. ASSUME NEW l \in Kept' PROVE mem'[l] = latest'[l] /\ ~Holds(l)'
  <2>1. /\ l \in Line /\ l \notin LastLine /\ l[2] \in Index /\ Coherent(l)
        /\ l \notin UnderWay
    BY <1>1, <1>2, LinePair DEF Kept, Safe
  <2>2. pc = "fill" => opline[2] = index /\ ~entry.dirty /\ (~posted => opline # l)
    BY <2>1 DEF Safe, Shape, UnderWay
  <2>3. mem'[l] = latest'[l]
    <3>1. CASE Writeback(l)
      <4>1. cache[l[2]].dirty /\ ~cache[l[2]].invalid /\ cache[l[2]].tag = l[1]
        BY <2>1, <3>1 DEF Writeback, Safe, Shape
      <4>2. ~(pc = "fill" /\ opline[2] = l[2])
        BY <2>2, <4>1 DEF entry
      <4>3. Holds(l)
        BY <4>1, <4>2 DEF Holds
      <4> QED BY <2>1, <3>1, <4>3 DEF Coherent, FlushedMem
    <3>2. CASE ~Writeback(l)
      <4>1. ~(Holds(l) /\ cache[l[2]].dirty)
        BY <2>1, <2>2, <3>2 DEF Writeback, Holds, entry
      <4>2. ~(pc = "through" /\ posted /\ opline = l)
        BY <2>1 DEF UnderWay
      <4> QED BY <2>1, <3>2, <4>1, <4>2 DEF Coherent, FlushedMem
    <3> QED BY <3>1, <3>2
  <2>4. ~Holds(l)'
    BY <2>1, <2>2 DEF Holds, Flush, Flushed
  <2> QED BY <2>3, <2>4
<1>3. (\A l \in Kept : Coherent(l))'
  BY <1>2 DEF Coherent
<1>4. Shape'
  <2>1. \A x \in Index : cache'[x] = Flushed
    BY DEF Flush
  <2>2. pc # "idle" => index \in Index /\ index' = index /\ req' = req
    BY Served DEF TypeOK, req, index
  <2>3. pc \in {"evict", "through"} /\ posted => opline \in crossed'
    BY DEF UnderWay, Flush
  <2> QED BY <2>1, <2>2, <2>3 DEF Shape, Safe, Flushed, Cached, entry
<1> QED BY <1>2, <1>3, <1>4

LEMMA TransfersSafe ==
    ASSUME TypeOK, Safe, NEW l \in Reachable, NEW m \in Reachable,
           ServeDmaen(l, m) \/ DmaChains(l, m)
    PROVE  Safe'
<1>1. /\ Flush /\ mem' = FlushedMem /\ latest' = latest
      /\ UNCHANGED <<queue, pc, opline>> /\ (posted' = posted \/ pc = "uncached")
      /\ dma' = [state |-> "posted", src |-> l, dst |-> m]
  BY DEF ServeDmaen, DmaChains, Transfers
<1>2. /\ Shape' /\ (\A n \in Kept : Coherent(n))'
      /\ \A n \in Kept' : mem'[n] = latest'[n]
  BY <1>1, FlushSafe
<1>3. SourceKept'
  BY <1>1, <1>2 DEF SourceKept
<1> QED BY <1>2, <1>3 DEF Safe

LEMMA ServeSafe ==
    ASSUME TypeOK, Safe, ServeFill \/ ServeWrite
    PROVE  Safe'
<1>1. /\ pc \in {"fill", "evict", "through"} /\ posted /\ posted' = FALSE
      /\ UNCHANGED <<queue, pc, opline, dma, latest, crossed, since>>
  BY DEF ServeFill, ServeWrite, history
<1>2. /\ queue # <<>> /\ opline[2] = index /\ Cached /\ req' = req
      /\ opline \in Line /\ opline = <<opline[1], opline[2]>>
      /\ opline[1] \in Tag /\ opline[2] \in Index /\ entry \in Entry
  BY <1>1, Served, LinePair DEF TypeOK, Safe, Shape, req
<1>3. ASSUME NEW l \in Kept
      PROVE  /\ l \in Line /\ l[1] \in Tag /\ l[2] \in Index
             /\ l = <<l[1], l[2]>> /\ Coherent(l)
  BY <1>3, LinePair DEF Kept, Safe
<1>4. Kept' = Kept
  BY <1>1 DEF Kept
<1>5. CASE ServeFill
  <2>1. /\ pc = "fill" /\ mem' = mem
        /\ cache'[index] = [entry EXCEPT !.insn = mem[opline]]
        /\ \A x \in Index : x # index => cache'[x] = cache[x]
    BY <1>2, <1>5 DEF ServeFill, TypeOK, entry
  <2>2. Shape'
    <3>1. ASSUME NEW x \in Index PROVE cache'[x].invalid => ~cache'[x].dirty
      BY <1>2, <2>1 DEF Shape, Safe, Entry, entry
    <3> QED BY <1>1, <1>2, <2>1, <3>1 DEF Shape, Safe, Cached, index, entry, Entry
  <2>3. ASSUME NEW l \in Kept PROVE Coherent(l)'
    <3>1. CASE l[2] # index
      BY <1>1, <1>2, <1>3, <2>1, <2>3, <3>1 DEF Coherent, Holds
    <3>2. CASE l[2] = index
      <4>1. mem[l] = latest[l]
        BY <1>1, <1>2, <1>3, <2>1, <2>3, <3>2 DEF Coherent, Holds
      <4> QED BY <1>1, <1>2, <2>1, <3>2, <4>1 DEF Coherent, Holds, Entry
    <3> QED BY <3>1, <3>2
  <2>4. SourceKept'
    BY <1>1, <1>4, <2>1 DEF SourceKept, Safe
  <2> QED BY <1>4, <2>2, <2>3, <2>4 DEF Safe
<1>6. CASE ServeWrite
  <2>1. /\ pc \in {"evict", "through"} /\ cache' = cache
        /\ mem'[opline] = entry.insn
        /\ \A l \in Line : l # opline => mem'[l] = mem[l]
    BY <1>2, <1>6 DEF ServeWrite, TypeOK, entry
  <2>2. opline \in Kept => entry.insn = latest[opline]
    <3> HAVE opline \in Kept
    <3>1. ~entry.invalid /\ entry.tag = opline[1]
      BY <1>1, <2>1 DEF Safe, Shape, Kept
    <3>2. Holds(opline)
      BY <1>2, <2>1, <3>1 DEF Holds, entry
    <3> QED BY <1>2, <1>3, <3>2 DEF Coherent, entry
  <2>3. Shape'
    BY <1>1, <1>2, <2>1 DEF Shape, Safe, Cached, index, entry
  <2>4. ASSUME NEW l \in Kept PROVE Coherent(l)'
    <3>1. CASE l = opline
      BY <1>1, <1>2, <1>3, <2>1, <2>2, <2>4, <3>1 DEF Coherent, Holds
    <3>2. CASE l # opline
      BY <1>1, <1>2, <1>3, <2>1, <2>4, <3>2 DEF Coherent, Holds
    <3> QED BY <3>1, <3>2
  <2>5. SourceKept'
    <3>1. CASE dma.src = opline
      BY <1>1, <1>4, <2>1, <2>2, <3>1 DEF SourceKept
    <3>2. CASE dma.src # opline
      BY <1>1, <1>4, <2>1, <3>2 DEF SourceKept, Safe, TypeOK, Transfer
    <3> QED BY <3>1, <3>2
  <2> QED BY <1>4, <2>3, <2>4, <2>5 DEF Safe
<1> QED BY <1>5, <1>6

LEMMA DmaCopiesSafe ==
    ASSUME TypeOK, Safe, DmaCopies
    PROVE  Safe'
<1>1. /\ UNCHANGED <<cache, queue, pc, opline, posted, since>>
      /\ dma'.state = "done" /\ crossed \subseteq crossed'
      /\ dma.dst \in Line /\ dma.src \in Line
      /\ mem'[dma.dst] = latest'[dma.dst]
      /\ \A l \in Line : l # dma.dst => mem'[l] = mem[l] /\ latest'[l] = latest[l]
      /\ Holds(dma.dst) => dma.dst \notin Kept'
  BY DEF DmaCopies, TypeOK, Transfer, Kept
<1>2. Shape'
  BY <1>1 DEF Shape, Safe, Cached, index, entry, req
<1>3. ASSUME NEW l \in Kept' PROVE Coherent(l)'
  <2>1. l \in Line /\ l \in Kept
    BY <1>1 DEF Kept
  <2> QED BY <1>1, <1>3, <2>1 DEF Coherent, Holds, Safe
<1>4. SourceKept'
  BY <1>1 DEF SourceKept
<1> QED BY <1>2, <1>3, <1>4 DEF Safe

LEMMA DirectSafe ==
    ASSUME TypeOK, Safe,
           DirectFlush \/ \E l \in Reachable, o \in Offset, d \in Written : DirectWrite(l, o, d)
    PROVE  Safe'
<1>1. Quiet /\ Flush /\ UNCHANGED <<queue, pc, opline, posted, dma>>
  BY DEF DirectFlush, DirectWrite
<1>2. pc = "idle" /\ ~posted /\ dma.state = "idle"
  BY <1>1 DEF Quiet, TypeOK, Safe, Shape
<1>3. CASE DirectFlush
  <2>1. mem' = FlushedMem /\ latest' = latest
    BY <1>3 DEF DirectFlush
  <2>2. Shape' /\ (\A l \in Kept : Coherent(l))'
    BY <1>1, <1>2, <2>1, FlushSafe
  <2> QED BY <1>1, <1>2, <2>2 DEF Safe, SourceKept
<1>4. CASE \E l \in Reachable, o \in Offset, d \in Written : DirectWrite(l, o, d)
  <2>1. PICK l \in Reachable, o \in Offset, d \in Written : DirectWrite(l, o, d)
    BY <1>4
  <2>2. mem' = [FlushedMem EXCEPT ![l][o] = d] /\ latest' = [latest EXCEPT ![l][o] = d]
    BY <2>1 DEF DirectWrite
  <2>3. \A x \in Index : cache'[x] = Flushed
    BY <1>1 DEF Flush
  <2>4. Shape'
    BY <1>1, <1>2, <2>3 DEF Shape, Flushed
  <2>5. ASSUME NEW k \in Kept' PROVE Coherent(k)'
    <3>1. k \in Line /\ k \in Kept /\ k[2] \in Index /\ k \notin LastLine /\ Coherent(k)
      BY <1>1, LinePair DEF Kept, Flush, Safe
    <3>2. ~Holds(k)'
      BY <1>1, <1>2, <2>3, <3>1 DEF Holds, Flushed
    <3>3. FlushedMem[k] = latest[k]
      <4>1. CASE Writeback(k)
        <5>1. ~cache[k[2]].invalid /\ cache[k[2]].tag = k[1]
          BY <3>1, <4>1 DEF Writeback, Safe, Shape
        <5> QED BY <1>2, <3>1, <4>1, <5>1 DEF Coherent, Holds, FlushedMem
      <4>2. CASE ~Writeback(k)
        BY <1>2, <3>1, <4>2 DEF Coherent, Holds, FlushedMem, Writeback
      <4> QED BY <4>1, <4>2
    <3>4. mem'[k] = latest'[k]
      <4>1. l \in Line /\ FlushedMem \in [Line -> Bytes] /\ latest \in [Line -> Bytes]
        BY FlushTypes DEF Reachable, TypeOK
      <4>2. CASE k = l
        BY <2>2, <3>1, <3>3, <4>1, <4>2
      <4>3. CASE k # l
        BY <2>2, <3>1, <3>3, <4>1, <4>3
      <4> QED BY <4>2, <4>3
    <3> QED BY <1>1, <1>2, <3>2, <3>4 DEF Coherent
  <2> QED BY <1>1, <1>2, <2>4, <2>5 DEF Safe, SourceKept
<1> QED BY <1>3, <1>4

LEMMA SafeStep == TypeOK /\ Safe /\ [Next]_vars => Safe'
<1> SUFFICES ASSUME TypeOK, Safe, [Next]_vars PROVE Safe'
  OBVIOUS
<1>1. ASSUME NEW r, Ask(r) PROVE Safe'
  <2>1. pc # "idle" => req' = req
    BY <1>1, Served DEF Ask, TypeOK, req
  <2> QED BY <1>1, <2>1, SameSafe DEF Ask
<1>2. CASE \/ \E c \in Core, l \in Line, o \in Offset : Read(c, l, o)
           \/ \E c \in Core, l \in Line, o \in Offset, d \in Written : Write(c, l, o, d)
           \/ \E c \in Core : StartDma(c)
  BY <1>1, <1>2 DEF Read, Write, StartDma
<1>3. CASE D2
  BY <1>3, D2Safe
<1>4. CASE Memory \/ \E l, m \in Reachable : DmaChains(l, m)
  BY <1>4, ServeSafe, TransfersSafe DEF Memory
<1>5. CASE DmaCopies
  BY <1>5, DmaCopiesSafe
<1>6. CASE DmaEnds
  <2>1. /\ Shape' /\ (\A l \in Kept : Coherent(l))'
    BY <1>6 DEF DmaEnds, Safe, Shape, Coherent, Holds, Kept, Cached, index, entry, req
  <2>2. SourceKept'
    BY <1>6 DEF DmaEnds, NoTransfer, SourceKept
  <2> QED BY <2>1, <2>2 DEF Safe
<1>7. CASE DirectFlush \/ \E l \in Reachable, o \in Offset, d \in Written : DirectWrite(l, o, d)
  BY <1>7, DirectSafe
<1>8. CASE UNCHANGED vars
  BY <1>8, SameSafe DEF vars, history, req
<1> QED BY <1>2, <1>3, <1>4, <1>5, <1>6, <1>7, <1>8 DEF Next

-----------------------------------------------------------------------------
(* The theorems.                                                           *)

\* Everything below rests on this invariant: the cache and the memory between
\* them hold what was written last to every line the code answers for.
THEOREM Invariance == Spec => []IInv
<1> USE DEF IInv
<1>1. Init => IInv
  <2> SUFFICES ASSUME Init PROVE TypeOK /\ Safe
    OBVIOUS
  <2>1. TypeOK
    BY ConstantTypes DEF Init, TypeOK
  <2>2. Shape
    BY DEF Init, Shape, Flushed
  <2>3. ASSUME NEW l \in Kept PROVE Coherent(l)
    BY <2>3, LinePair DEF Init, Coherent, Holds, Flushed, Kept
  <2>4. SourceKept
    BY DEF Init, SourceKept
  <2> QED BY <2>1, <2>2, <2>3, <2>4 DEF Safe
<1> QED BY <1>1, TypeStep, SafeStep, PTL DEF Spec

\* After a flush (D2_Bus::b_transport) the memory has what was written last.
THEOREM FlushComplete == Spec => []FlushLeavesLatest
<1>1. IInv => FlushLeavesLatest
  <2> SUFFICES ASSUME TypeOK, Safe, \A x \in Index : cache[x].invalid, NEW l \in Kept
               PROVE  mem[l] = latest[l]
    BY DEF FlushLeavesLatest, IInv
  <2>1. l[2] \in Index /\ Coherent(l)
    BY LinePair DEF Kept, Safe
  <2>2. CASE pc = "fill" /\ opline[2] = l[2]
    BY <2>1, <2>2 DEF Coherent, Safe, Shape, entry
  <2>3. CASE ~(pc = "fill" /\ opline[2] = l[2])
    BY <2>1, <2>3 DEF Coherent, Holds
  <2> QED BY <2>2, <2>3
<1> QED BY <1>1, Invariance, PTL

\* A core reads what was written last (D2_Bus_Request_Thread).
THEOREM LatestRead == Spec => ReadsLatest
<1> DEFINE Good == (queue # <<>> /\ queue' = Tail(queue)
                    /\ req.cmd = "read" /\ req.line \in Kept)
                   => ret' = latest[req.line][req.off]
<1>1. IInv /\ [Next]_vars => [Good]_vars
  <2> SUFFICES ASSUME TypeOK, Safe, [Next]_vars, queue # <<>>, queue' = Tail(queue),
                      req.cmd = "read", req.line \in Kept
               PROVE  ret' = latest[req.line][req.off]
    BY DEF IInv
  <2>1. Tail(queue) # queue /\ \A r : Append(queue, r) # Tail(queue)
    BY Served
  <2>2. D2
    BY <2>1 DEF Next, Ask, Read, Write, StartDma, Memory, ServeFill, ServeWrite,
                ServeDmaen, DmaCopies, DmaEnds, DmaChains, DirectFlush, DirectWrite,
                vars
  <2>3. req.line \notin LastLine /\ req.line \in Line /\ Coherent(req.line)
        /\ entry \in Entry
    BY Served DEF Kept, Safe
  <2>4. ASSUME NEW e, FillFrom(e) PROVE FALSE
    BY <2>1, <2>3, <2>4 DEF FillFrom
  <2>5. CASE Hit
    <3>1. pc = "idle" /\ ~entry.invalid /\ entry.tag = req.line[1]
      BY <2>5 DEF Hit, Serving, Missing
    <3>2. entry.insn = latest[req.line]
      BY <2>3, <3>1 DEF Coherent, Holds, entry, index
    <3> QED BY <2>5, <3>2 DEF Hit, Finish, ReadByte, WriteByte
  <2>6. CASE Filled
    <3>1. pc = "fill" /\ ~posted /\ opline = req.line
      BY <2>6 DEF Filled, Serving, Safe, Shape
    <3>2. entry.insn = latest[req.line]
      BY <2>3, <3>1 DEF Coherent, Holds, entry, index
    <3>3. [entry EXCEPT !.dirty = FALSE].insn = entry.insn
      BY <2>3 DEF Entry
    <3> QED BY <2>6, <3>2, <3>3 DEF Filled, Finish, ReadByte, WriteByte
  <2>7. ~Miss /\ ~WroteBack
    BY <2>4 DEF Miss, WroteBack
  <2>8. ~Evict
    BY <2>1, <2>4 DEF Evict
  <2>9. ~WroteThrough /\ ~UncachedDone /\ ~Uncached
    BY DEF WroteThrough, UncachedDone, Uncached, Serving, Cached, Safe, Shape
  <2> QED BY <2>2, <2>5, <2>6, <2>7, <2>8, <2>9 DEF D2
<1> QED BY <1>1, Invariance, PTL DEF Spec, ReadsLatest

\* A transfer (Dma_Bus, M1_Bus, M2_Bus) copies what its source held when it
\* started, unless the program writes the source meanwhile.
THEOREM LatestCopied == Spec => DmaCopiesLatest
<1> DEFINE Good == (dma.state = "posted" /\ dma'.state = "done"
                    /\ dma.src \in Kept /\ dma.src \notin since)
                   => mem'[dma.dst] = latest[dma.src]
<1>1. IInv /\ [Next]_vars => [Good]_vars
  <2> SUFFICES ASSUME TypeOK, Safe, [Next]_vars, dma.state = "posted",
                      dma'.state = "done", dma.src \in Kept, dma.src \notin since
               PROVE  mem'[dma.dst] = latest[dma.src]
    BY DEF IInv
  <2>1. mem[dma.src] = latest[dma.src]
    BY DEF Safe, SourceKept
  <2>2. dma' # dma
    OBVIOUS
  <2>3. ~D2
    BY <2>2 DEF D2, Hit, Miss, Evict, WroteBack, Filled, WroteThrough, Uncached,
                UncachedDone, Rest
  <2>4. \A l, m : ~ServeDmaen(l, m) /\ ~DmaChains(l, m)
    BY DEF ServeDmaen, DmaChains, Transfers
  <2>5. DmaCopies
    BY <2>2, <2>3, <2>4 DEF Next, Ask, Read, Write, StartDma, Memory, ServeFill,
         ServeWrite, DmaEnds, DirectFlush, DirectWrite, vars
  <2> QED BY <2>1, <2>5 DEF DmaCopies, TypeOK, Transfer
<1> QED BY <1>1, Invariance, PTL DEF Spec, DmaCopiesLatest

-----------------------------------------------------------------------------
(* How far the D2 bus is from its next answer.                             *)

\* The waits that D2_Bus_Request_Thread has before it for the head of its queue,
\* each of them until the memory has served the access and then until it goes on.
WaitsLeft ==
    (CASE pc = "idle" -> 7 [] pc = "evict" -> 5 [] pc = "fill" -> 3 [] OTHER -> 1)
    + (IF posted THEN 1 ELSE 0)

\* No flush or transfer that crosses a request makes the thread start it again
\* or drop it: the head of the queue keeps its place until it is answered, and
\* each step of the thread or of a memory brings the answer nearer.
AnswerNearer ==
    [][queue # <<>> =>
         \/ queue' = Tail(queue) /\ pc' = "idle" /\ ~posted'
         \/ /\ Head(queue') = req
            /\ WaitsLeft' <= WaitsLeft
            /\ D2 \/ Memory => WaitsLeft' < WaitsLeft]_vars

\* Where a step of the thread or of a memory leads to.
LEMMA StepsOn ==
    ASSUME IInv, D2 \/ Memory
    PROVE  \/ queue' = Tail(queue) /\ pc' = "idle" /\ ~posted'
           \/ queue' = queue /\ WaitsLeft' < WaitsLeft
<1> USE DEF WaitsLeft
<1>1. ASSUME NEW e, Finish(e), pc \in {"idle", "evict", "fill"}
      PROVE  \/ queue' = Tail(queue) /\ pc' = "idle" /\ ~posted'
             \/ queue' = queue /\ pc' = "through" /\ posted'
    BY <1>1 DEF Finish, ReadByte, WriteByte, Answer, Wait
<1>2. ASSUME NEW e, FillFrom(e), pc \in {"idle", "evict"}
      PROVE  \/ queue' = Tail(queue) /\ pc' = "idle" /\ ~posted'
             \/ queue' = queue /\ pc' \in {"fill", "through"} /\ posted'
    BY <1>1, <1>2 DEF FillFrom, Wait
<1>3. CASE Hit
    BY <1>1, <1>3 DEF Hit, Serving
<1>4. CASE Miss \/ WroteBack
    BY <1>2, <1>4 DEF Miss, WroteBack, Serving
<1>5. CASE Evict
    BY <1>2, <1>5 DEF Evict, Serving, Wait
<1>6. CASE Filled
    BY <1>1, <1>6 DEF Filled, Serving
<1>7. CASE WroteThrough \/ UncachedDone
    BY <1>7 DEF WroteThrough, UncachedDone, Answer
<1>8. CASE Uncached
    BY <1>8 DEF Uncached, Serving, Wait
<1>9. CASE Memory
    BY <1>9 DEF Memory, ServeFill, ServeWrite, ServeDmaen
<1> QED BY <1>3, <1>4, <1>5, <1>6, <1>7, <1>8, <1>9 DEF D2

\* The cores, the DMA and the debugger leave the head of the queue and what the
\* thread waits for alone.
LEMMA OthersWait ==
    ASSUME TypeOK, Next, ~D2, ~Memory
    PROVE  UNCHANGED <<pc, posted>>
           /\ (queue' = queue \/ \E r : queue' = Append(queue, r))
BY DEF Next, Ask, Read, Write, StartDma, DmaCopies, DmaEnds, DmaChains, DirectFlush,
       DirectWrite

\* Whatever crosses it, a request is answered after at most seven steps of
\* D2_Bus_Request_Thread and the memories.
THEOREM AnswersComeUp == Spec => AnswerNearer
<1> DEFINE Step == queue # <<>> =>
             \/ queue' = Tail(queue) /\ pc' = "idle" /\ ~posted'
             \/ /\ Head(queue') = req
                /\ WaitsLeft' <= WaitsLeft
                /\ D2 \/ Memory => WaitsLeft' < WaitsLeft
<1>1. IInv /\ [Next]_vars => [Step]_vars
  <2> SUFFICES ASSUME IInv, Next, queue # <<>> PROVE Step
    OBVIOUS
  <2>1. CASE D2 \/ Memory
    <3>1. WaitsLeft \in Int /\ WaitsLeft' \in Int
      BY DEF WaitsLeft
    <3> QED BY <2>1, <3>1, StepsOn DEF req
  <2>2. CASE ~(D2 \/ Memory)
    <3>1. UNCHANGED <<pc, posted>>
          /\ (queue' = queue \/ \E r : queue' = Append(queue, r))
      BY <2>2, OthersWait DEF IInv
    <3>2. WaitsLeft' = WaitsLeft /\ WaitsLeft \in Int
      BY <3>1 DEF WaitsLeft
    <3>3. Head(queue') = Head(queue)
      BY <3>1 DEF IInv, TypeOK
    <3> QED BY <2>2, <3>2, <3>3 DEF req
  <2> QED BY <2>1, <2>2
<1> QED BY <1>1, Invariance, PTL DEF Spec, AnswerNearer
=============================================================================
