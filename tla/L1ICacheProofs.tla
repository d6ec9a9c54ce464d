---------------------------- MODULE L1ICacheProofs ----------------------------
(* Theorems about L1ICache, for every size of cache, line and program.       *)
EXTENDS L1ICache, TLAPS

-----------------------------------------------------------------------------
(* Lines and what a miss loads *)

\* The line behind a line of code is another one, in another index, and has
\* the same tag unless the index wraps.
LEMMA NextLine ==
  ASSUME NEW l \in Code
  PROVE  /\ l \in Line /\ After(l) \in Line
         /\ After(l) # l /\ After(l).index # l.index
         /\ l.index # NI - 1 => After(l).tag = l.tag
<1>1. l \in Line /\ After(l) \in Line
  BY CodeAssumption
<1>2. l.index \in 0..(NI - 1) /\ l.tag \in 0..MaxTag
  BY <1>1 DEF Line, Index
<1>3. CASE l.index = NI - 1
  BY <1>1, <1>2, <1>3, SizeAssumption DEF After
<1>4. CASE l.index # NI - 1
  BY <1>1, <1>2, <1>4, SizeAssumption DEF After
<1>5. QED
  BY <1>1, <1>3, <1>4

\* Two lines with the same tag and index are the same.
LEMMA SameLine ==
  ASSUME NEW l \in Line
  PROVE  /\ l.tag \in 0..MaxTag /\ l.index \in Index
         /\ l = [tag |-> l.tag, index |-> l.index]
  BY DEF Line

\* What the SoC answers is the contents of the line, as of now.
LEMMA Answer ==
  ASSUME TypeOK, NEW l \in Line
  PROVE  Loaded(l) \in Content /\ Loaded(l).line = l /\ Fresh(Loaded(l))
  BY DEF TypeOK, Loaded, Content, Fresh

\* A miss replaces the entries of two indices and no other.
LEMMA Replaced ==
  ASSUME TypeOK, NEW l \in Code, NEW t, Load(l, t)
  PROVE  /\ cache' = [i \in Index |-> cache'[i]]
         /\ cache'[l.index] = {[tag |-> t, data |-> Loaded(l)]}
         /\ cache'[After(l).index] =
              {[tag |-> After(l).tag, data |-> Loaded(After(l))]}
         /\ \A i \in Index : i # l.index /\ i # After(l).index =>
              cache'[i] = cache[i]
<1>1. l.index \in Index /\ After(l).index \in Index /\ After(l).index # l.index
  BY NextLine, SameLine
<1>2. QED
  BY <1>1 DEF TypeOK, Load

-----------------------------------------------------------------------------
(* What a fetch does *)

\* c is what the cache holds, or what the SoC answers, for line k.
Held(k, c) == \/ c = Loaded(k)
              \/ \E e \in cache[k.index] : e.tag = k.tag /\ c = e.data

\* e is the entry that a fetch at line l has loaded for line k; only the line
\* the fetch starts in may get a tag that is not its own, in the last index.
Loads(l, k, e) == /\ k \in {l, After(l)} /\ e \in Entry
                  /\ e.data = Loaded(k)
                  /\ k.index # NI - 1 \/ l.index # NI - 1 => e.tag = k.tag

\* What a fetch at line l may leave in the cache.
Cached(l) ==
  /\ cache' = [i \in Index |-> cache'[i]]
  /\ \A i \in Index : \A e, f \in cache'[i] : e = f
  /\ \A i \in Index : \A e \in cache'[i] :
       e \in cache[i] \/ \E k \in Line : k.index = i /\ Loads(l, k, e)

\* f was read from buffer b.
From(b, f) == \/ f.line = b.line /\ f.data = b.lo
              \/ b.off # 0 /\ f.line = After(b.line) /\ f.data = b.hi

\* What the cache or the SoC has for a line is the contents of some line.
LEMMA HeldContent ==
  ASSUME TypeOK, NEW k \in Line, NEW c, Held(k, c)
  PROVE  c \in Content
<1>1. CASE c = Loaded(k)
  BY <1>1, Answer
<1>2. CASE \E e \in cache[k.index] : e.tag = k.tag /\ c = e.data
  <2>1. cache[k.index] \subseteq Entry
    BY SameLine DEF TypeOK
  <2>2. QED
    BY <1>2, <2>1 DEF Entry
<1>3. QED
  BY <1>1, <1>2 DEF Held

\* Filling the buffer: all bytes of the fetch come from the new buffer.
LEMMA Filled ==
  ASSUME NEW l \in Code, NEW o \in Offset, NEW c1 \in Content,
         NEW c2 \in Content, Fill(l, o, c1, c2)
  PROVE  /\ ibuf' = {[line |-> l, off |-> o, lo |-> c1, hi |-> c2]}
         /\ \A f \in fetched' :
              /\ f \in [line : Line, data : Content]
              /\ \E b \in ibuf' : From(b, f)
         /\ mem' = mem /\ stale' = stale
<1> DEFINE b == [line |-> l, off |-> o, lo |-> c1, hi |-> c2]
<1>1. ibuf' = {b} /\ mem' = mem /\ stale' = stale
  BY DEF Fill
<1>2. ASSUME NEW f \in fetched'
      PROVE  f \in [line : Line, data : Content] /\ From(b, f)
  <2>1. PICK k \in Touched(l, o) :
          f = [line |-> k, data |-> IF k = l THEN c1 ELSE c2]
    BY <1>2 DEF Fill
  <2>2. k = l \/ (k = After(l) /\ o # 0)
    BY LenAssumption DEF Touched, Offset
  <2>3. l \in Line /\ After(l) \in Line /\ After(l) # l
    BY NextLine
  <2>4. QED
    BY <2>1, <2>2, <2>3 DEF From
<1>3. QED
  BY <1>1, <1>2

\* A fetch from the buffer: all bytes come from it.
LEMMA Reused ==
  ASSUME TypeOK, NEW l \in Code, NEW o \in Offset, FetchBuffered(l, o)
  PROVE  /\ \A f \in fetched' :
              /\ f \in [line : Line, data : Content]
              /\ \E b \in ibuf : From(b, f)
         /\ UNCHANGED <<mem, cache, ibuf, stale>>
<1>1. PICK b \in ibuf :
        /\ Covers(b, l, o)
        /\ fetched' = {[line |-> k, data |-> IF k = b.line THEN b.lo ELSE b.hi] :
                         k \in Touched(l, o)}
        /\ UNCHANGED <<mem, cache, ibuf, stale>>
  BY DEF FetchBuffered
<1>2. /\ b.line \in Code /\ b.off \in Offset
      /\ b.lo \in Content /\ b.hi \in Content
  BY DEF TypeOK, Buffer
<1>3. b.line \in Line /\ After(b.line) \in Line /\ After(b.line) # b.line
  BY <1>2, NextLine
<1>4. ASSUME NEW f \in fetched'
      PROVE  f \in [line : Line, data : Content] /\ From(b, f)
  <2>1. PICK k \in Touched(l, o) :
          f = [line |-> k, data |-> IF k = b.line THEN b.lo ELSE b.hi]
    BY <1>1, <1>4
  <2>2. k = b.line \/ (k = After(b.line) /\ b.off # 0)
    BY <1>1, <1>2, <2>1, LenAssumption DEF Touched, Covers, Offset
  <2>3. QED
    BY <1>2, <1>3, <2>1, <2>2 DEF From
<1>5. QED
  BY <1>1, <1>4

\* A miss leaves at most one entry per index, and what it loads is filed well
\* but for the line it starts in.
LEMMA LoadCached ==
  ASSUME TypeOK, NEW l \in Code, NEW t, Load(l, t),
         t = l.tag \/ t = After(l).tag
  PROVE  Cached(l)
<1> DEFINE e1 == [tag |-> t, data |-> Loaded(l)]
           e2 == [tag |-> After(l).tag, data |-> Loaded(After(l))]
<1>1. /\ l \in Line /\ After(l) \in Line /\ After(l).index # l.index
      /\ l.index # NI - 1 => After(l).tag = l.tag
  BY NextLine
<1>2. /\ l.tag \in 0..MaxTag /\ After(l).tag \in 0..MaxTag
      /\ l.index \in Index /\ After(l).index \in Index
  BY <1>1, SameLine
<1>3. /\ cache' = [i \in Index |-> cache'[i]]
      /\ cache'[l.index] = {e1}
      /\ cache'[After(l).index] = {e2}
      /\ \A i \in Index : i # l.index /\ i # After(l).index =>
           cache'[i] = cache[i]
  BY Replaced
<1>4. Loaded(l) \in Content /\ Loaded(After(l)) \in Content
  BY <1>1, Answer
<1>5. Loads(l, l, e1)
  BY <1>1, <1>2, <1>4 DEF Loads, Entry
<1>6. Loads(l, After(l), e2)
  BY <1>2, <1>4 DEF Loads, Entry
<1>7. \A i \in Index : \A e, f \in cache'[i] : e = f
  BY <1>3 DEF TypeOK
<1>8. ASSUME NEW i \in Index, NEW e \in cache'[i]
      PROVE  e \in cache[i] \/ \E k \in Line : k.index = i /\ Loads(l, k, e)
  <2>1. CASE i = l.index
    BY <1>1, <1>3, <1>5, <1>8, <2>1
  <2>2. CASE i = After(l).index
    BY <1>1, <1>3, <1>6, <1>8, <2>2
  <2>3. CASE i # l.index /\ i # After(l).index
    BY <1>3, <1>8, <2>3
  <2>4. QED
    BY <2>1, <2>2, <2>3
<1>9. QED
  BY <1>3, <1>7, <1>8 DEF Cached

\* A fetch that leaves the cache alone.
LEMMA SameCached ==
  ASSUME TypeOK, UNCHANGED cache, NEW l
  PROVE  Cached(l)
<1>1. cache' = [i \in Index |-> cache'[i]]
  BY DEF TypeOK
<1>2. \A i \in Index : \A e, f \in cache'[i] : e = f
  BY DEF TypeOK
<1>3. QED
  BY <1>1, <1>2 DEF Cached

\* Every fetch: the cache as above; it executes bytes of the buffer, and a
\* buffer that is new holds what cache or SoC had for its line and the next.
LEMMA FetchDoes ==
  ASSUME TypeOK, NEW l \in Code, NEW o \in Offset, Fetch(l, o)
  PROVE  /\ mem' = mem /\ stale' = stale
         /\ Cached(l)
         /\ \A f \in fetched' :
              /\ f \in [line : Line, data : Content]
              /\ \E b \in ibuf' : From(b, f)
         /\ \A b \in ibuf' :
              b \in ibuf \/ /\ b \in Buffer
                            /\ Held(b.line, b.lo)
                            /\ b.off # 0 => Held(After(b.line), b.hi)
                            /\ b.off = 0 => b.hi = b.lo \/ Held(After(b.line), b.hi)
<1>1. l \in Line /\ After(l) \in Line
  BY NextLine
<1>2. l.tag \in 0..MaxTag /\ After(l).tag \in 0..MaxTag
  BY <1>1, SameLine
<1>3. Held(l, Loaded(l)) /\ Held(After(l), Loaded(After(l)))
  BY DEF Held
<1>4. CASE FetchBuffered(l, o)
  BY <1>4, Reused, SameCached
<1>5. ASSUME NEW c1, NEW c2, Held(l, c1),
             Held(After(l), c2) \/ (o = 0 /\ c2 = c1), Fill(l, o, c1, c2)
      PROVE  /\ mem' = mem /\ stale' = stale
             /\ \A f \in fetched' :
                  /\ f \in [line : Line, data : Content]
                  /\ \E b \in ibuf' : From(b, f)
             /\ \A b \in ibuf' :
                  /\ b \in Buffer
                  /\ Held(b.line, b.lo)
                  /\ b.off # 0 => Held(After(b.line), b.hi)
                  /\ b.off = 0 => b.hi = b.lo \/ Held(After(b.line), b.hi)
  <2>1. c1 \in Content /\ c2 \in Content
    BY <1>1, <1>5, HeldContent
  <2>2. /\ ibuf' = {[line |-> l, off |-> o, lo |-> c1, hi |-> c2]}
        /\ \A f \in fetched' :
             /\ f \in [line : Line, data : Content]
             /\ \E b \in ibuf' : From(b, f)
        /\ mem' = mem /\ stale' = stale
    BY <1>5, <2>1, Filled
  <2>3. [line |-> l, off |-> o, lo |-> c1, hi |-> c2] \in Buffer
    BY <2>1 DEF Buffer
  <2>4. QED
    BY <1>5, <2>2, <2>3
<1>6. CASE FetchHits(l, o)
  <2>1. PICK e \in cache[l.index] :
          /\ e.tag = l.tag
          /\ \/ o = 0 /\ Fill(l, o, e.data, e.data)
             \/ /\ o # 0
                /\ \E f \in cache[After(l).index] :
                     f.tag = After(l).tag /\ Fill(l, o, e.data, f.data)
          /\ UNCHANGED cache
    BY <1>6 DEF FetchHits
  <2>2. Held(l, e.data)
    BY <2>1 DEF Held
  <2>3. Cached(l)
    BY <2>1, SameCached
  <2>4. CASE o = 0 /\ Fill(l, o, e.data, e.data)
    BY <1>5, <2>2, <2>3, <2>4
  <2>5. CASE \E f \in cache[After(l).index] :
               f.tag = After(l).tag /\ Fill(l, o, e.data, f.data)
    <3>1. PICK f \in cache[After(l).index] :
            f.tag = After(l).tag /\ Fill(l, o, e.data, f.data)
      BY <2>5
    <3>2. Held(After(l), f.data)
      BY <3>1 DEF Held
    <3>3. QED
      BY <1>5, <2>2, <2>3, <3>1, <3>2
  <2>6. QED
    BY <2>1, <2>4, <2>5
<1>7. CASE FetchMisses(l, o)
  <2>1. Fill(l, o, Loaded(l), Loaded(After(l))) /\ Load(l, l.tag)
    BY <1>7 DEF FetchMisses
  <2>2. Cached(l)
    BY <2>1, LoadCached
  <2>3. QED
    BY <1>3, <1>5, <2>1, <2>2
<1>8. CASE FetchMissesSecond(l, o)
  <2>1. PICK e \in cache[l.index] :
          e.tag = l.tag /\ Fill(l, o, e.data, Loaded(After(l)))
    BY <1>8 DEF FetchMissesSecond
  <2>2. Held(l, e.data)
    BY <2>1 DEF Held
  <2>3. Load(l, After(l).tag)
    BY <1>8 DEF FetchMissesSecond
  <2>4. Cached(l)
    BY <2>3, LoadCached
  <2>5. QED
    BY <1>3, <1>5, <2>1, <2>2, <2>4
<1>9. QED
  BY <1>4, <1>6, <1>7, <1>8 DEF Fetch

-----------------------------------------------------------------------------
(* Type correctness *)

\* The core starts well typed.
LEMMA TypeInit == Init => TypeOK
  BY DEF Init, TypeOK

\* Every fetch, store and flush keeps the types.
LEMMA TypeStep == TypeOK /\ [Next]_vars => TypeOK'
<1> SUFFICES ASSUME TypeOK, [Next]_vars PROVE TypeOK'
  OBVIOUS
<1>1. ASSUME NEW l \in Code, NEW o \in Offset, Fetch(l, o) PROVE TypeOK'
  <2>1. mem' = mem /\ stale' = stale /\ Cached(l)
    BY <1>1, FetchDoes
  <2>2. fetched' \subseteq [line : Line, data : Content]
    BY <1>1, FetchDoes
  <2>3. ibuf' \subseteq Buffer
    BY <1>1, FetchDoes DEF TypeOK
  <2>4. \A i \in Index : cache'[i] \subseteq Entry
    <3>1. \A i \in Index : cache[i] \subseteq Entry
      BY DEF TypeOK
    <3>2. \A k \in Line : \A e : Loads(l, k, e) => e \in Entry
      BY DEF Loads
    <3>3. QED
      BY <2>1, <3>1, <3>2 DEF Cached
  <2>5. cache' \in [Index -> SUBSET Entry]
    BY <2>1, <2>4 DEF Cached
  <2>6. \A i \in Index : \A e, f \in cache'[i] : e = f
    BY <2>1 DEF Cached
  <2>7. QED
    BY <2>1, <2>2, <2>3, <2>5, <2>6 DEF TypeOK
<1>2. ASSUME NEW l \in Written, Store(l) PROVE TypeOK'
  <2>1. l \in Line
    BY WrittenAssumption
  <2>2. mem' \in [Line -> Nat] /\ stale' \subseteq Line
    BY <1>2, <2>1 DEF TypeOK, Store
  <2>3. UNCHANGED <<cache, ibuf, fetched>>
    BY <1>2 DEF Store
  <2>4. QED
    BY <2>2, <2>3 DEF TypeOK
<1>3. CASE Flush
  BY <1>3 DEF TypeOK, Flush
<1>4. CASE UNCHANGED vars
  BY <1>4 DEF TypeOK, vars
<1>5. QED
  BY <1>1, <1>2, <1>3, <1>4 DEF Next

\* l1_icache_read keeps one entry per line of the cache, with a tag of the
\* machine, and the buffer holds lines of the program.
THEOREM TypeCorrect == Spec => []TypeOK
  BY TypeInit, TypeStep, PTL DEF Spec

-----------------------------------------------------------------------------
(* A mixed-up line is the last of the cache *)

\* What cache or SoC have for a line outside the last index is that line.
LEMMA HeldFiled ==
  ASSUME TypeOK, Filed, NEW k \in Line, NEW c, Held(k, c), k.index # NI - 1
  PROVE  c.line = k
<1>1. CASE c = Loaded(k)
  BY <1>1, Answer
<1>2. CASE \E e \in cache[k.index] : e.tag = k.tag /\ c = e.data
  BY <1>2, SameLine DEF Filed
<1>3. QED
  BY <1>1, <1>2 DEF Held

\* Every fetch files what it loads well, but for the last index.
LEMMA FiledStep ==
  ASSUME TypeOK, Filed, NEW l \in Code, Cached(l)
  PROVE  Filed'
<1> SUFFICES ASSUME NEW i \in Index, NEW e \in cache'[i], i # NI - 1
             PROVE  e.data.line = [tag |-> e.tag, index |-> i]
  BY DEF Filed
<1>1. CASE e \in cache[i]
  BY <1>1 DEF Filed
<1>2. CASE \E k \in Line : k.index = i /\ Loads(l, k, e)
  <2>1. PICK k \in Line : k.index = i /\ Loads(l, k, e)
    BY <1>2
  <2>2. e.tag = k.tag /\ e.data = Loaded(k)
    BY <2>1 DEF Loads
  <2>3. QED
    BY <2>1, <2>2, Answer, SameLine
<1>3. QED
  BY <1>1, <1>2 DEF Cached

\* Bytes that come from a buffer that is well are well.
LEMMA FromBuffered ==
  ASSUME NEW b \in Buffer, NEW f, From(b, f), f.line.index # NI - 1,
         b.line.index # NI - 1 => b.lo.line = b.line,
         b.off # 0 /\ After(b.line).index # NI - 1 => b.hi.line = After(b.line)
  PROVE  f.data.line = f.line
  BY DEF From

\* Every step keeps what lies outside the last index in order.
LEMMA MixedStep == TypeOK /\ Mixed /\ [Next]_vars => Mixed'
<1> SUFFICES ASSUME TypeOK, Mixed, [Next]_vars PROVE Mixed'
  OBVIOUS
<1>1. ASSUME NEW l \in Code, NEW o \in Offset, Fetch(l, o) PROVE Mixed'
  <2>1. Filed'
    BY <1>1, FetchDoes, FiledStep DEF Mixed
  <2>2. ASSUME NEW b \in ibuf'
        PROVE  /\ b \in Buffer
               /\ b.line.index # NI - 1 => b.lo.line = b.line
               /\ b.off # 0 /\ After(b.line).index # NI - 1 =>
                    b.hi.line = After(b.line)
    <3>1. CASE b \in ibuf
      BY <3>1 DEF Mixed, Buffered, TypeOK
    <3>2. CASE /\ b \in Buffer
               /\ Held(b.line, b.lo)
               /\ b.off # 0 => Held(After(b.line), b.hi)
      <4>1. b.line \in Line /\ After(b.line) \in Line
        BY <3>2, NextLine DEF Buffer
      <4>2. QED
        BY <3>2, <4>1, HeldFiled DEF Mixed
    <3>3. QED
      BY <1>1, <2>2, <3>1, <3>2, FetchDoes
  <2>3. Buffered'
    BY <2>2 DEF Buffered
  <2>4. OnlyLastLineMixedUp'
    <3> SUFFICES ASSUME NEW f \in fetched', f.line.index # NI - 1
                 PROVE  f.data.line = f.line
      BY DEF OnlyLastLineMixedUp
    <3>1. PICK b \in ibuf' : From(b, f)
      BY <1>1, FetchDoes
    <3>2. QED
      BY <2>2, <3>1, FromBuffered
  <2>5. QED
    BY <2>1, <2>3, <2>4 DEF Mixed
<1>2. ASSUME NEW l \in Written, Store(l) PROVE Mixed'
  BY <1>2 DEF Mixed, Filed, Buffered, OnlyLastLineMixedUp, Store
<1>3. CASE Flush
  BY <1>3 DEF Mixed, Filed, Buffered, OnlyLastLineMixedUp, Flush
<1>4. CASE UNCHANGED vars
  BY <1>4 DEF Mixed, Filed, Buffered, OnlyLastLineMixedUp, vars
<1>5. QED
  BY <1>1, <1>2, <1>3, <1>4 DEF Next

\* l1_icache_read: whatever the size of the program, bytes of a wrong line are
\* executed at the last index of the cache only.
THEOREM LastLineOnly == Spec => []OnlyLastLineMixedUp
<1>1. Init => Mixed
  BY DEF Init, Mixed, Filed, Buffered, OnlyLastLineMixedUp
<1>2. Mixed => OnlyLastLineMixedUp
  BY DEF Mixed
<1>3. QED
  BY <1>1, <1>2, TypeCorrect, MixedStep, PTL DEF Spec

-----------------------------------------------------------------------------
(* Nothing is kept back over a flush *)

\* What cache or SoC have for a line is fresh.
LEMMA HeldFresh ==
  ASSUME TypeOK, AllFresh, NEW k \in Line, NEW c, Held(k, c)
  PROVE  Fresh(c)
<1>1. CASE c = Loaded(k)
  BY <1>1, Answer
<1>2. CASE \E e \in cache[k.index] : e.tag = k.tag /\ c = e.data
  BY <1>2, SameLine DEF AllFresh
<1>3. QED
  BY <1>1, <1>2 DEF Held

\* Every fetch, store and flush keeps cache, buffer and the last fetch fresh.
LEMMA RecentStep == TypeOK /\ Recent /\ [Next]_vars => Recent'
<1> SUFFICES ASSUME TypeOK, Recent, [Next]_vars PROVE Recent'
  OBVIOUS
<1>1. ASSUME NEW l \in Code, NEW o \in Offset, Fetch(l, o) PROVE Recent'
  <2>1. mem' = mem /\ stale' = stale /\ Cached(l)
    BY <1>1, FetchDoes
  <2>2. ASSUME NEW c, Fresh(c) PROVE Fresh(c)'
    BY <2>1, <2>2 DEF Fresh
  <2>3. ASSUME NEW i \in Index, NEW e \in cache'[i] PROVE Fresh(e.data)'
    <3>1. CASE e \in cache[i]
      BY <2>2, <3>1 DEF Recent, AllFresh
    <3>2. CASE \E k \in Line : k.index = i /\ Loads(l, k, e)
      <4>1. PICK k \in Line : e.data = Loaded(k)
        BY <3>2 DEF Loads
      <4>2. Fresh(e.data)
        BY <4>1, Answer
      <4>3. QED
        BY <2>2, <4>2
    <3>3. QED
      BY <2>1, <2>3, <3>1, <3>2 DEF Cached
  <2>4. ASSUME NEW b \in ibuf' PROVE Fresh(b.lo)' /\ Fresh(b.hi)'
    <3>1. CASE b \in ibuf
      BY <2>2, <3>1 DEF Recent, AllFresh
    <3>2. CASE /\ b \in Buffer
               /\ Held(b.line, b.lo)
               /\ b.hi = b.lo \/ Held(After(b.line), b.hi)
      <4>1. b.line \in Line /\ After(b.line) \in Line
        BY <3>2, NextLine DEF Buffer
      <4>2. Fresh(b.lo)
        BY <3>2, <4>1, HeldFresh DEF Recent
      <4>3. Fresh(b.hi)
        BY <3>2, <4>1, <4>2, HeldFresh DEF Recent
      <4>4. QED
        BY <2>2, <4>2, <4>3
    <3>3. QED
      BY <1>1, <2>4, <3>1, <3>2, FetchDoes
  <2>5. AllFresh'
    BY <2>3, <2>4 DEF AllFresh
  <2>6. FreshSinceFlush'
    <3> SUFFICES ASSUME NEW f \in fetched' PROVE Fresh(f.data)'
      BY DEF FreshSinceFlush, Fresh
    <3>1. PICK b \in ibuf' : From(b, f)
      BY <1>1, FetchDoes
    <3>2. f.data = b.lo \/ f.data = b.hi
      BY <3>1 DEF From
    <3>3. QED
      BY <2>4, <3>2
  <2>7. QED
    BY <2>5, <2>6 DEF Recent
<1>2. ASSUME NEW l \in Written, Store(l) PROVE Recent'
  <2>1. l \in Line /\ UNCHANGED <<cache, ibuf, fetched>>
    BY <1>2, WrittenAssumption DEF Store
  <2>2. ASSUME NEW c, Fresh(c) PROVE Fresh(c)'
    BY <1>2, <2>1, <2>2 DEF Fresh, Store, TypeOK
  <2>3. AllFresh'
    BY <2>1, <2>2 DEF Recent, AllFresh
  <2>4. \A f \in fetched : Fresh(f.data)
    BY DEF Recent, FreshSinceFlush, Fresh
  <2>5. \A f \in fetched' : Fresh(f.data)'
    BY <2>1, <2>2, <2>4
  <2>6. FreshSinceFlush'
    BY <2>5 DEF FreshSinceFlush, Fresh
  <2>7. QED
    BY <2>3, <2>6 DEF Recent
<1>3. CASE Flush
  BY <1>3 DEF Recent, AllFresh, FreshSinceFlush, Flush
<1>4. CASE UNCHANGED vars
  BY <1>4 DEF Recent, AllFresh, FreshSinceFlush, Fresh, vars
<1>5. QED
  BY <1>1, <1>2, <1>3, <1>4 DEF Next

\* icache_write empties the instruction buffer and every line: what is executed
\* after it was read after it, or has been written again.
THEOREM NothingKeptBack == Spec => []FreshSinceFlush
<1>1. Init => Recent
  BY DEF Init, Recent, AllFresh, FreshSinceFlush
<1>2. Recent => FreshSinceFlush
  BY DEF Recent
<1>3. QED
  BY <1>1, <1>2, TypeCorrect, RecentStep, PTL DEF Spec

-----------------------------------------------------------------------------
(* Programs that stay out of the last line of the cache *)

\* What cache or SoC have for a line is that line.
LEMMA HeldWell ==
  ASSUME TypeOK, FiledWell, NEW k \in Line, NEW c, Held(k, c)
  PROVE  c.line = k
<1>1. CASE c = Loaded(k)
  BY <1>1, Answer
<1>2. CASE \E e \in cache[k.index] : e.tag = k.tag /\ c = e.data
  BY <1>2, SameLine DEF FiledWell
<1>3. QED
  BY <1>1, <1>2 DEF Held

\* Every step of such a program keeps cache, buffer and fetch in order.
LEMMA WellStep ==
  ASSUME NoWrap
  PROVE  TypeOK /\ Well /\ [Next]_vars => Well'
<1> SUFFICES ASSUME TypeOK, Well, [Next]_vars PROVE Well'
  OBVIOUS
<1>1. ASSUME NEW l \in Code, NEW o \in Offset, Fetch(l, o) PROVE Well'
  <2>1. l.index # NI - 1 /\ Cached(l)
    BY <1>1, FetchDoes DEF NoWrap
  <2>2. ASSUME NEW i \in Index, NEW e \in cache'[i]
        PROVE  e.data.line = [tag |-> e.tag, index |-> i]
    <3>1. CASE e \in cache[i]
      BY <3>1 DEF Well, FiledWell
    <3>2. CASE \E k \in Line : k.index = i /\ Loads(l, k, e)
      <4>1. PICK k \in Line : k.index = i /\ Loads(l, k, e)
        BY <3>2
      <4>2. e.tag = k.tag /\ e.data = Loaded(k)
        BY <2>1, <4>1 DEF Loads
      <4>3. QED
        BY <4>1, <4>2, Answer, SameLine
    <3>3. QED
      BY <2>1, <2>2, <3>1, <3>2 DEF Cached
  <2>3. ASSUME NEW b \in ibuf'
        PROVE  /\ b.lo.line = b.line
               /\ b.off # 0 => b.hi.line = After(b.line)
    <3>1. CASE b \in ibuf
      BY <3>1 DEF Well, BufferedWell
    <3>2. CASE /\ b \in Buffer
               /\ Held(b.line, b.lo)
               /\ b.off # 0 => Held(After(b.line), b.hi)
      <4>1. b.line \in Line /\ After(b.line) \in Line
        BY <3>2, NextLine DEF Buffer
      <4>2. QED
        BY <3>2, <4>1, HeldWell DEF Well
    <3>3. QED
      BY <1>1, <2>3, <3>1, <3>2, FetchDoes
  <2>4. ASSUME NEW f \in fetched' PROVE f.data.line = f.line
    <3>1. PICK b \in ibuf' : From(b, f)
      BY <1>1, <2>4, FetchDoes
    <3>2. QED
      BY <2>3, <3>1 DEF From
  <2>5. QED
    BY <2>2, <2>3, <2>4 DEF Well, FiledWell, BufferedWell, FetchesItsLine
<1>2. ASSUME NEW l \in Written, Store(l) PROVE Well'
  BY <1>2 DEF Well, FiledWell, BufferedWell, FetchesItsLine, Store
<1>3. CASE Flush
  BY <1>3 DEF Well, FiledWell, BufferedWell, FetchesItsLine, Flush
<1>4. CASE UNCHANGED vars
  BY <1>4 DEF Well, FiledWell, BufferedWell, FetchesItsLine, vars
<1>5. QED
  BY <1>1, <1>2, <1>3, <1>4 DEF Next

\* l1_icache_read: a program none of whose lines falls into the last index of
\* the cache always executes the bytes of the address it fetches from.
THEOREM FetchesRight ==
  ASSUME NoWrap
  PROVE  Spec => []FetchesItsLine
<1>1. Init => Well
  BY DEF Init, Well, FiledWell, BufferedWell, FetchesItsLine
<1>2. Well => FetchesItsLine
  BY DEF Well
<1>3. TypeOK /\ Well /\ [Next]_vars => Well'
  BY WellStep
<1>4. QED
  BY <1>1, <1>2, <1>3, TypeCorrect, PTL DEF Spec
=============================================================================
