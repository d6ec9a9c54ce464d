------------------------------- MODULE L1ICache -------------------------------
(***************************************************************************)
(* The instruction fetch of one core (SC_pac_if, the direct-mapped build): *)
(* the instruction buffer core_insnbuf0 in front of the L1 instruction     *)
(* cache icache_mem in front of the memory that ICACHE_READ reads, taken   *)
(* as one: the L2 cache in between is not modelled.                        *)
(*                                                                         *)
(* An address is what struct icache_addr makes of it: a line, which is a   *)
(* tag and an index, and an offset.  The instruction buffer is as long as  *)
(* a line, so filling it from offset 0 needs one line and from any other   *)
(* offset the next line too.  What lies in a line is abstracted to the     *)
(* line it was read from and to how often that line had been written.      *)
(*                                                                         *)
(* A fetch is one action: its only wait, for the answer of the SoC, comes  *)
(* between the miss and the stores into the cache, and nothing else of the *)
(* core touches cache or buffer meanwhile.                                 *)
(***************************************************************************)
EXTENDS Integers

CONSTANTS
  NI,        \* lines of the cache (128 in the code)
  MaxTag,    \* bound of the tags (2^17 - 1 in the code)
  LineSize,  \* bytes of a line and of the instruction buffer (256)
  Len,       \* bytes that decode asks for (72)
  Code,      \* the lines the program runs in
  Written,   \* bound: the lines that are written while it runs
  MaxWrites  \* bound: writes to each of them

Index  == 0..(NI - 1)
Line   == [tag : 0..MaxTag, index : Index]
Offset == 0..(LineSize - 1)

\* The line behind l: past the last index the tag changes.
After(l) == IF l.index = NI - 1 THEN [tag |-> l.tag + 1, index |-> 0]
                                ELSE [tag |-> l.tag, index |-> l.index + 1]

ASSUME SizeAssumption == NI \in Nat \ {0, 1} /\ MaxTag \in Nat
ASSUME LenAssumption == LineSize \in Nat /\ Len \in Nat \ {0} /\ Len < LineSize
ASSUME CodeAssumption == Code \subseteq Line /\ \A l \in Code : After(l) \in Line
ASSUME WrittenAssumption == Written \subseteq Line /\ MaxWrites \in Nat

VARIABLES
  mem,     \* how often each line of memory has been written
  cache,   \* per index the valid entry, if any: tag and contents of the line
  ibuf,    \* the instruction buffer, if it holds code: its address and what
           \* lies in it, up to the end of the line and behind it
  fetched, \* history: the lines of the last fetch, with what was read there
  stale    \* history: the lines written since the caches were flushed

vars == <<mem, cache, ibuf, fetched, stale>>

Content == [line : Line, ver : Nat]
Entry   == [tag : 0..MaxTag, data : Content]
Buffer  == [line : Code, off : Offset, lo : Content, hi : Content]

Init ==
  /\ mem = [l \in Line |-> 0]
  /\ cache = [i \in Index |-> {}]
  /\ ibuf = {} /\ fetched = {}
  /\ stale = {}

-----------------------------------------------------------------------------
(* icache_read: the instruction buffer *)

\* The lines that Len bytes from offset o of line l lie in.
Touched(l, o) == IF o + Len > LineSize THEN {l, After(l)} ELSE {l}

\* All the bytes of the fetch lie in the instruction buffer.
Covers(b, l, o) ==
  \/ l = b.line /\ o >= b.off /\ o + Len < b.off + LineSize
  \/ l = After(b.line) /\ o + Len < b.off

FetchBuffered(l, o) ==
  \E b \in ibuf :
    /\ Covers(b, l, o)
    /\ fetched' = {[line |-> k, data |-> IF k = b.line THEN b.lo ELSE b.hi] :
                     k \in Touched(l, o)}
    /\ UNCHANGED <<mem, cache, ibuf, stale>>

\* Otherwise l1_icache_read fills the buffer from l and o on, with c1 up to the
\* end of the line and c2 behind it, and the bytes are taken from there.
Fill(l, o, c1, c2) ==
  /\ \A b \in ibuf : ~Covers(b, l, o)
  /\ ibuf' = {[line |-> l, off |-> o, lo |-> c1, hi |-> c2]}
  /\ fetched' = {[line |-> k, data |-> IF k = l THEN c1 ELSE c2] :
                   k \in Touched(l, o)}
  /\ UNCHANGED <<mem, stale>>

-----------------------------------------------------------------------------
(* l1_icache_read *)

Hit(l) == \E e \in cache[l.index] : e.tag = l.tag

\* What the SoC answers for line l.
Loaded(l) == [line |-> l, ver |-> mem[l]]

\* Mutant: the entries that are evicted stay.
LoadKeepsEvicted(l, t) ==
  cache' = [cache EXCEPT
              ![l.index] = @ \cup {[tag |-> t, data |-> Loaded(l)]},
              ![After(l).index] = @ \cup {[tag |-> After(l).tag,
                                           data |-> Loaded(After(l))]}]

\* A miss reads two lines in one request, the one of the first byte and the
\* one behind it; t is the tag the first of them is filed under.
Load(l, t) ==
  cache' = [cache EXCEPT
              ![l.index] = {[tag |-> t, data |-> Loaded(l)]},
              ![After(l).index] = {[tag |-> After(l).tag,
                                    data |-> Loaded(After(l))]}]

\* Every byte hits.
FetchHits(l, o) ==
  \E e \in cache[l.index] :
    /\ e.tag = l.tag
    /\ \/ o = 0 /\ Fill(l, o, e.data, e.data)
       \/ /\ o # 0
          /\ \E f \in cache[After(l).index] :
               f.tag = After(l).tag /\ Fill(l, o, e.data, f.data)
    /\ UNCHANGED cache

\* Mutant: both lines are filed under the tag of the first byte.
FetchMissesOneTag(l, o) ==
  /\ ~Hit(l)
  /\ Fill(l, o, Loaded(l), Loaded(After(l)))
  /\ cache' = [cache EXCEPT
                 ![l.index] = {[tag |-> l.tag, data |-> Loaded(l)]},
                 ![After(l).index] = {[tag |-> l.tag,
                                       data |-> Loaded(After(l))]}]

\* The first byte misses.
FetchMisses(l, o) ==
  /\ ~Hit(l)
  /\ Fill(l, o, Loaded(l), Loaded(After(l)))
  /\ Load(l, l.tag)

\* The bytes of the first line hit and the first one of the second line misses.
\* The tag of that byte is stored with both lines.
FetchMissesSecond(l, o) ==
  /\ o # 0 /\ ~Hit(After(l))
  /\ \E e \in cache[l.index] :
       e.tag = l.tag /\ Fill(l, o, e.data, Loaded(After(l)))
  /\ Load(l, After(l).tag)

-----------------------------------------------------------------------------
(* Writes and flushes *)

\* A store of any core or of the debugger changes a line of memory.
Store(l) ==
  /\ mem[l] < MaxWrites
  /\ mem' = [mem EXCEPT ![l] = @ + 1]
  /\ stale' = stale \cup {l}
  /\ UNCHANGED <<cache, ibuf, fetched>>

\* Mutant: the instruction buffer is not emptied.
FlushKeepsBuffer ==
  /\ cache' = [i \in Index |-> {}]
  /\ fetched' = {} /\ stale' = {}
  /\ UNCHANGED <<mem, ibuf>>

\* icache_write, which the initialisation and reset commands call: all lines
\* are invalid and the buffer lies at address 0, where no code runs.  Each of
\* them empties the L2 cache as well before the core fetches again.
Flush ==
  /\ cache' = [i \in Index |-> {}]
  /\ ibuf' = {}
  /\ fetched' = {} /\ stale' = {}
  /\ UNCHANGED mem

-----------------------------------------------------------------------------
Fetch(l, o) == \/ FetchBuffered(l, o) \/ FetchHits(l, o)
               \/ FetchMisses(l, o) \/ FetchMissesSecond(l, o)

Next == \/ \E l \in Code, o \in Offset : Fetch(l, o)
        \/ \E l \in Written : Store(l)
        \/ Flush

Spec == Init /\ [][Next]_vars
-----------------------------------------------------------------------------
(* Properties *)

\* Memory, cache and buffer hold lines and tags of the machine, and an index
\* never holds two entries.
TypeOK ==
  /\ mem \in [Line -> Nat]
  /\ cache \in [Index -> SUBSET Entry]
  /\ \A i \in Index : \A e, f \in cache[i] : e = f
  /\ ibuf \subseteq Buffer
  /\ fetched \subseteq [line : Line, data : Content]
  /\ stale \subseteq Line

\* l1_icache_read: the bytes that are decoded are those of the address that was
\* fetched, whichever lines hit, missed or were evicted before.
FetchesItsLine == \A f \in fetched : f.data.line = f.line

\* Of a program of any size, at most the last line of the cache is ever mixed
\* up: the line pair of a fetch wraps to index 0 and to the next tag there.
OnlyLastLineMixedUp ==
  \A f \in fetched : f.line.index # NI - 1 => f.data.line = f.line

\* A program that stays out of the last line of the cache.
NoWrap == \A l \in Code : l.index # NI - 1

\* After a flush, as INIT and RESET of the debugger do it before a program is
\* loaded, the core never executes bytes of a line as they were before, unless
\* the line is written again: buffer and cache keep nothing back.
FreshSinceFlush ==
  \A f \in fetched : f.data.line \in stale \/ f.data.ver = mem[f.data.line]
-----------------------------------------------------------------------------
(* The inductive invariants *)

\* An entry outside the last index holds the line it is filed as.
Filed ==
  \A i \in Index : \A e \in cache[i] :
    i # NI - 1 => e.data.line = [tag |-> e.tag, index |-> i]

\* The buffer holds the lines it is addressed by, but for the last index;
\* filled from offset 0 it holds nothing behind its line.
Buffered ==
  \A b \in ibuf :
    /\ b.line.index # NI - 1 => b.lo.line = b.line
    /\ b.off # 0 /\ After(b.line).index # NI - 1 => b.hi.line = After(b.line)

Mixed == Filed /\ Buffered /\ OnlyLastLineMixedUp

\* What was read from a line since its last write, or before an unflushed one.
Fresh(c) == c.line \in stale \/ c.ver = mem[c.line]

AllFresh ==
  /\ \A i \in Index : \A e \in cache[i] : Fresh(e.data)
  /\ \A b \in ibuf : Fresh(b.lo) /\ Fresh(b.hi)

Recent == AllFresh /\ FreshSinceFlush

\* For a program that never wraps, the same without the exception.
FiledWell == \A i \in Index : \A e \in cache[i] :
               e.data.line = [tag |-> e.tag, index |-> i]
BufferedWell ==
  \A b \in ibuf : /\ b.lo.line = b.line
                  /\ b.off # 0 => b.hi.line = After(b.line)
Well == FiledWell /\ BufferedWell /\ FetchesItsLine
=============================================================================
