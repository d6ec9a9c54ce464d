---------------------------- MODULE CfuCallsProofs ----------------------------
(* Theorems about CfuCalls, for all cores, units and functions.              *)
EXTENDS CfuCalls, TLAPS

-----------------------------------------------------------------------------
(* Types                                                                     *)

LEMMA UnitType ==
  /\ 0 \in Unit
  /\ \A u \in Unit : (u + 1) % CFU_NUM \in Unit
BY UnitsAssumption DEF Unit

LEMMA RegisteredType ==
  ASSUME NEW u, NEW f, <<u, f>> \in Registered
  PROVE  u \in Unit /\ f \in Func /\ f # Zero
BY RegisteredAssumption, ZeroAssumption DEF Unit

\* Every variable has its type.
THEOREM TypeCorrect == Spec => []TypeOK
<1>1. Init => TypeOK
  BY UnitType, ZeroAssumption DEF Init, TypeOK
<1>2. TypeOK /\ [Next]_vars => TypeOK'
  <2> SUFFICES ASSUME TypeOK, [Next]_vars PROVE TypeOK'
    OBVIOUS
  <2> USE UnitType, ZeroAssumption
  <2>1. CASE UNCHANGED vars
    BY <2>1 DEF vars, history, TypeOK
  <2>2. CASE CfuStart
    BY <2>2 DEF CfuStart, history, TypeOK
  <2>3. CASE Scan
    <3>1. <<i, start[i]>> \in Registered \/ i' = (i + 1) % CFU_NUM
      BY <2>3 DEF Scan, NextUnit
    <3>2. QED
      BY <2>3, <3>1 DEF Scan, NextUnit, history, TypeOK
  <2>4. ASSUME NEW d \in Data, Run(d) PROVE TypeOK'
    BY <2>4 DEF Run, Calling, TypeOK
  <2>5. CASE Clear
    BY <2>5 DEF Clear, NextUnit, history, TypeOK
  <2>6. ASSUME NEW c \in Core, Return(c) PROVE TypeOK'
    BY <2>6 DEF Return, TypeOK
  <2>7. ASSUME NEW c \in Core, ErrListClear(c) PROVE TypeOK'
    BY <2>7 DEF ErrListClear, history, TypeOK
  <2>8. ASSUME NEW c \in Core, NEW u \in Unit, NEW f \in Func, Start(c, u, f)
        PROVE TypeOK'
    BY <2>8 DEF Start, Calling, TypeOK
  <2>9. ASSUME NEW c \in Core, NEW u \in Unit, NEW d \in Data, MemWrite(c, u, d)
        PROVE TypeOK'
    BY <2>9 DEF MemWrite, Calling, history, TypeOK
  <2>10. ASSUME NEW c \in Core, NEW u \in Unit, NEW f \in Func \cup {Zero},
                MemStart(c, u, f)
         PROVE TypeOK'
    BY <2>10 DEF MemStart, Calling, history, TypeOK
  <2>11. QED
    BY <2>1, <2>2, <2>3, <2>4, <2>5, <2>6, <2>7, <2>8, <2>9, <2>10 DEF Next, Cfu
<1>3. QED
  BY <1>1, <1>2, PTL DEF Spec

-----------------------------------------------------------------------------
(* The progress of a call that is alone in its unit                          *)

\* The start word waits to be read, or has been read and the function not run.
Waiting(c) ==
  /\ start[unit[c]] = func[c] /\ func[c] # Zero
  /\ runs[c] = 0 /\ buffer[unit[c]] = given[c]
  /\ i = unit[c] => cfu # "clear" /\ (cfu = "run" => func_start = func[c])

\* The function has run once; the start word stands until it is cleared.
Served(c) ==
  /\ runs[c] = 1 /\ used[c] = given[c] /\ buffer[unit[c]] = made[c]
  /\ i = unit[c] => cfu # "run" /\ (cfu = "clear" \/ start[unit[c]] = Zero)
  /\ i # unit[c] => start[unit[c]] = Zero

CallInv(c) ==
  /\ pc[c] # "spin" \/ cfu = "down" => runs[c] = 0
  /\ pc[c] = "spin" /\ c \notin crossed => cfu # "down" /\ (Waiting(c) \/ Served(c))

IInv == TypeOK /\ \A c \in Core : CallInv(c)

\* What every step of another core leaves to a call it does not cross.
LEMMA OtherCore ==
  ASSUME TypeOK, NEW c \in Core, CallInv(c),
         pc'[c] = pc[c], unit'[c] = unit[c], func'[c] = func[c],
         given'[c] = given[c], runs'[c] = runs[c], used'[c] = used[c],
         made'[c] = made[c], UNCHANGED <<cfu, i, func_start>>,
         c \notin crossed' => c \notin crossed,
         pc[c] = "spin" /\ c \notin crossed' =>
            start'[unit[c]] = start[unit[c]] /\ buffer'[unit[c]] = buffer[unit[c]]
  PROVE  CallInv(c)'
<1>1. pc'[c] # "spin" \/ cfu' = "down" => runs'[c] = 0
  BY DEF CallInv
<1>2. ASSUME pc'[c] = "spin", c \notin crossed'
      PROVE  cfu' # "down" /\ (Waiting(c)' \/ Served(c)')
  <2>1. pc[c] = "spin" /\ c \notin crossed
    BY <1>2
  <2>2. cfu # "down" /\ (Waiting(c) \/ Served(c))
    BY <2>1 DEF CallInv
  <2>3. Waiting(c) => Waiting(c)'
    BY <1>2, <2>1 DEF Waiting
  <2>4. Served(c) => Served(c)'
    BY <1>2, <2>1 DEF Served
  <2>5. QED
    BY <2>2, <2>3, <2>4
<1>3. QED
  BY <1>1, <1>2 DEF CallInv

LEMMA CfuStep ==
  ASSUME TypeOK, NEW c \in Core, CallInv(c), Cfu
  PROVE  CallInv(c)'
<1> USE UnitType
<1>1. CASE CfuStart
  BY <1>1 DEF CfuStart, CallInv, history, TypeOK
<1>2. CASE Scan
  <2>1. UNCHANGED <<pc, crossed, runs>> /\ cfu' # "down" /\ cfu = "scan"
    BY <1>2 DEF Scan, history
  <2>2. CASE Waiting(c)
    <3>1. Waiting(c)'
      <4>1. CASE i = unit[c]
        BY <1>2, <2>2, <4>1 DEF Scan, Waiting, history, TypeOK
      <4>2. CASE i # unit[c]
        BY <1>2, <2>2, <4>2 DEF Scan, Waiting, history, TypeOK
      <4>3. QED
        BY <4>1, <4>2
    <3>2. QED
      BY <2>1, <3>1 DEF CallInv
  <2>3. CASE Served(c)
    <3>1. start[unit[c]] = Zero
      BY <2>1, <2>3 DEF Served
    <3>2. i = unit[c] => cfu' = "scan"
      BY <1>2, <3>1, RegisteredType DEF Scan
    <3>3. cfu' = "run" => i' = i
      BY <1>2, <2>1 DEF Scan
    <3>4. Served(c)'
      BY <1>2, <2>1, <2>3, <3>1, <3>2, <3>3 DEF Scan, Served, history
    <3>5. QED
      BY <2>1, <3>4 DEF CallInv
  <2>4. QED
    BY <2>1, <2>2, <2>3 DEF CallInv
<1>3. ASSUME NEW d \in Data, Run(d) PROVE CallInv(c)'
  <2>1. UNCHANGED <<pc, crossed, unit, start, i>> /\ cfu' = "clear" /\ cfu = "run"
    BY <1>3 DEF Run
  <2>2. pc[c] # "spin" => runs'[c] = runs[c]
    BY <1>3 DEF Run, Calling, TypeOK
  <2>3. ASSUME pc[c] = "spin", Waiting(c) PROVE Waiting(c)' \/ Served(c)'
    <3>1. CASE i = unit[c]
      <4>1. c \in Calling(i) /\ func[c] = func_start
        BY <2>1, <2>3, <3>1 DEF Calling, Waiting
      <4>2. runs'[c] = 1 /\ used'[c] = buffer[i] /\ made'[c] = d
        BY <1>3, <2>3, <4>1 DEF Run, Waiting
      <4>3. buffer'[i] = d
        BY <1>3 DEF Run, TypeOK
      <4>4. QED
        BY <1>3, <2>1, <2>3, <3>1, <4>2, <4>3 DEF Run, Waiting, Served
    <3>2. CASE i # unit[c]
      BY <1>3, <2>3, <3>2 DEF Run, Calling, Waiting, TypeOK
    <3>3. QED
      BY <3>1, <3>2
  <2>4. ASSUME Served(c) PROVE Served(c)'
    <3>1. i # unit[c]
      BY <2>1, <2>4 DEF Served
    <3>2. QED
      BY <1>3, <2>4, <3>1 DEF Run, Calling, Served, TypeOK
  <2>5. QED
    BY <2>1, <2>2, <2>3, <2>4 DEF CallInv
<1>4. CASE Clear
  <2>1. UNCHANGED <<pc, crossed, runs>> /\ cfu' = "scan" /\ cfu = "clear"
    BY <1>4 DEF Clear, history
  <2>2. ASSUME Waiting(c) PROVE Waiting(c)'
    <3>1. i # unit[c]
      BY <2>1, <2>2 DEF Waiting
    <3>2. QED
      BY <1>4, <2>2, <3>1 DEF Clear, Waiting, history, TypeOK
  <2>3. ASSUME Served(c) PROVE Served(c)'
    <3>1. start'[unit[c]] = Zero
      BY <1>4, <2>3 DEF Clear, Served, TypeOK
    <3>2. QED
      BY <1>4, <2>3, <3>1 DEF Clear, Served, history
  <2>4. QED
    BY <2>1, <2>2, <2>3 DEF CallInv
<1>5. QED
  BY <1>1, <1>2, <1>3, <1>4 DEF Cfu

\* A call that starts alone in its unit waits.
LEMMA StartStep ==
  ASSUME TypeOK, NEW b \in Core, NEW u \in Unit, NEW f \in Func, Start(b, u, f),
         NEW c \in Core, CallInv(c)
  PROVE  CallInv(c)'
<1>1. CASE c = b
  <2>1. runs'[c] = 0 /\ pc'[c] = "spin" /\ UNCHANGED <<buffer, cfu, i, func_start>>
    BY <1>1 DEF Start, CallInv, TypeOK
  <2>2. unit'[c] = u /\ func'[c] = f /\ start'[u] = f /\ given'[c] = buffer[u]
    BY <1>1 DEF Start, TypeOK
  <2>3. c \notin crossed' => ~Busy(u) /\ cfu # "down"
    BY <1>1 DEF Start
  <2>4. ASSUME c \notin crossed' PROVE Waiting(c)'
    <3>1. i = u => cfu # "clear" /\ cfu # "run"
      BY <2>3, <2>4 DEF Busy
    <3>2. QED
      BY <2>1, <2>2, <3>1, ZeroAssumption DEF Waiting
  <2>5. QED
    BY <2>1, <2>3, <2>4 DEF CallInv
<1>2. CASE c # b
  <2>1. pc[c] = "spin" /\ c \notin crossed' => unit[c] # u
    BY <1>2 DEF Start, Calling
  <2>2. c \notin crossed' => c \notin crossed
    BY DEF Start
  <2>3. pc'[c] = pc[c] /\ unit'[c] = unit[c] /\ func'[c] = func[c] /\ given'[c] = given[c]
    BY <1>2 DEF Start, TypeOK
  <2>4. UNCHANGED <<buffer, cfu, i, func_start, runs, used, made>>
    BY DEF Start
  <2>5. unit[c] # u => start'[unit[c]] = start[unit[c]]
    BY DEF Start, TypeOK
  <2>6. QED
    BY <2>1, <2>2, <2>3, <2>4, <2>5, OtherCore
<1>3. QED
  BY <1>1, <1>2

LEMMA ReturnStep ==
  ASSUME TypeOK, NEW b \in Core, Return(b), NEW c \in Core, CallInv(c)
  PROVE  CallInv(c)'
<1>1. CASE c = b
  BY <1>1 DEF Return, CallInv, TypeOK
<1>2. CASE c # b
  <2>1. /\ pc'[c] = pc[c] /\ unit'[c] = unit[c] /\ func'[c] = func[c]
        /\ given'[c] = given[c] /\ runs'[c] = runs[c] /\ used'[c] = used[c]
        /\ made'[c] = made[c]
    BY <1>2 DEF Return, TypeOK
  <2>2. c \notin crossed' => c \notin crossed
    BY <1>2 DEF Return
  <2>3. UNCHANGED <<start, buffer, cfu, i, func_start>>
    BY DEF Return
  <2>4. QED
    BY <2>1, <2>2, <2>3, OtherCore
<1>3. QED
  BY <1>1, <1>2

LEMMA MemoryStep ==
  ASSUME TypeOK, NEW b \in Core, NEW u \in Unit, NEW c \in Core, CallInv(c),
         \/ \E d \in Data : MemWrite(b, u, d)
         \/ \E f \in Func \cup {Zero} : MemStart(b, u, f)
  PROVE  CallInv(c)'
<1>1. UNCHANGED <<pc, unit, func, given, runs, used, made, cfu, i, func_start>>
  BY DEF MemWrite, MemStart, history
<1>2. c \notin crossed' => c \notin crossed
  BY DEF MemWrite, MemStart
<1>3. pc[c] = "spin" /\ c \notin crossed' => unit[c] # u
  BY DEF MemWrite, MemStart, Calling
<1>4. unit[c] # u =>
        start'[unit[c]] = start[unit[c]] /\ buffer'[unit[c]] = buffer[unit[c]]
  BY DEF MemWrite, MemStart, TypeOK
<1>5. QED
  BY <1>1, <1>2, <1>3, <1>4, OtherCore

-----------------------------------------------------------------------------
(* The theorem                                                               *)

LEMMA Inductive == Spec => []IInv
<1>1. Init => IInv
  <2> SUFFICES ASSUME Init PROVE IInv
    OBVIOUS
  <2>1. TypeOK
    BY UnitType, ZeroAssumption DEF Init, TypeOK
  <2>2. \A c \in Core : CallInv(c)
    BY DEF Init, CallInv
  <2>3. QED
    BY <2>1, <2>2 DEF IInv
<1>2. IInv /\ TypeOK' /\ [Next]_vars => IInv'
  <2> SUFFICES ASSUME IInv, TypeOK', [Next]_vars, NEW c \in Core
               PROVE  CallInv(c)'
    BY DEF IInv
  <2>1. TypeOK /\ CallInv(c)
    BY DEF IInv
  <2>2. CASE UNCHANGED vars
    BY <2>1, <2>2 DEF vars, history, CallInv, Waiting, Served
  <2>3. CASE Cfu
    BY <2>1, <2>3, CfuStep
  <2>4. ASSUME NEW b \in Core, Return(b) PROVE CallInv(c)'
    BY <2>1, <2>4, ReturnStep
  <2>5. ASSUME NEW b \in Core, ErrListClear(b) PROVE CallInv(c)'
    <3>1. CASE c = b
      BY <2>1, <2>5, <3>1 DEF ErrListClear, CallInv, history, TypeOK
    <3>2. CASE c # b
      <4>1. pc'[c] = pc[c]
        BY <2>5, <3>2 DEF ErrListClear, TypeOK
      <4>2. UNCHANGED <<start, buffer, unit, func, cfu, i, func_start, given,
                        runs, used, made, crossed>>
        BY <2>5 DEF ErrListClear, history
      <4>3. QED
        BY <2>1, <4>1, <4>2, OtherCore
    <3>3. QED
      BY <3>1, <3>2
  <2>6. ASSUME NEW b \in Core, NEW u \in Unit, NEW f \in Func, Start(b, u, f)
        PROVE  CallInv(c)'
    BY <2>1, <2>6, StartStep
  <2>7. ASSUME NEW b \in Core, NEW u \in Unit, NEW d \in Data, MemWrite(b, u, d)
        PROVE  CallInv(c)'
    BY <2>1, <2>7, MemoryStep
  <2>8. ASSUME NEW b \in Core, NEW u \in Unit, NEW f \in Func \cup {Zero},
               MemStart(b, u, f)
        PROVE  CallInv(c)'
    BY <2>1, <2>8, MemoryStep
  <2>9. QED
    BY <2>2, <2>3, <2>4, <2>5, <2>6, <2>7, <2>8 DEF Next
<1>3. QED
  BY <1>1, <1>2, TypeCorrect, PTL DEF Spec

\* A call that is alone in its unit returns after its function has run exactly
\* once, on its arguments, and finds the results.
THEOREM CallsServed == Spec => ReturnsServed
<1>1. ASSUME IInv, NEW c \in Core, Return(c), c \notin crossed
      PROVE  runs[c] = 1 /\ used[c] = given[c] /\ buffer[unit[c]] = made[c]
  <2>1. pc[c] = "spin" /\ start[unit[c]] = Zero
    BY <1>1 DEF Return
  <2>2. Waiting(c) \/ Served(c)
    BY <1>1, <2>1 DEF IInv, CallInv
  <2>3. ~Waiting(c)
    BY <2>1 DEF Waiting
  <2>4. QED
    BY <2>2, <2>3 DEF Served
<1>2. IInv => [\A c \in Core : Return(c) /\ c \notin crossed =>
                 runs[c] = 1 /\ used[c] = given[c] /\ buffer[unit[c]] = made[c]]_vars
  BY <1>1
<1>3. QED
  BY <1>2, Inductive, PTL DEF ReturnsServed

-----------------------------------------------------------------------------
(* How far the CFU is from a call                                            *)

\* A function the CFU knows is asked for in unit u.
Due(u) == <<u, start[u]>> \in Registered

\* The steps main of pac-cfu takes at most until it has cleared start word u: the
\* rest of what it does now and three for each unit on the way.
UnitsAway(u) == IF i <= u THEN u - i ELSE u - i + CFU_NUM
StepsLeft(u) ==
  3 * UnitsAway(u) + CASE cfu = "run" -> 2 [] cfu = "clear" -> 1 [] OTHER -> 3

\* No order of the calls and no function that is not registered makes the loop
\* of the CFU go round a call: each of its steps is one step nearer to it.
CallNearer ==
  [][\A u \in Unit :
       /\ StepsLeft(u) \in 1 .. 3 * CFU_NUM
       /\ Cfu /\ Due(u) /\ Due(u)' => StepsLeft(u)' < StepsLeft(u)]_vars

\* After the last unit comes the first.
LEMMA NextUnitIs ==
  ASSUME TypeOK, NextUnit
  PROVE  i' = IF i = CFU_NUM - 1 THEN 0 ELSE i + 1
<1>1. i \in 0 .. CFU_NUM - 1 /\ CFU_NUM \in Nat \ {0} /\ i' = (i + 1) % CFU_NUM
  BY UnitsAssumption DEF TypeOK, Unit, NextUnit
<1>2. CASE i = CFU_NUM - 1
  <2>1. i' = CFU_NUM % CFU_NUM
    BY <1>1, <1>2
  <2>2. QED
    BY <1>1, <1>2, <2>1
<1>3. CASE i # CFU_NUM - 1
  <2>1. i + 1 \in 0 .. CFU_NUM - 1
    BY <1>1, <1>3
  <2>2. QED
    BY <1>1, <1>3, <2>1
<1>4. QED
  BY <1>2, <1>3

\* A turn of the loop that leaves another unit than u is three steps nearer to u.
LEMMA UnitNearer ==
  ASSUME TypeOK, NextUnit, NEW u \in Unit, u # i
  PROVE  UnitsAway(u)' = UnitsAway(u) - 1
<1>1. i \in 0 .. CFU_NUM - 1 /\ u \in 0 .. CFU_NUM - 1 /\ CFU_NUM \in Nat \ {0}
  BY UnitsAssumption DEF TypeOK, Unit
<1>2. i' = IF i = CFU_NUM - 1 THEN 0 ELSE i + 1
  BY NextUnitIs
<1>3. QED
  BY <1>1, <1>2 DEF UnitsAway

\* A call of a registered function is cleared within 3 * CFU_NUM steps of the CFU
\* (main of pac-cfu-main.cpp), whatever the other cores do meanwhile.
THEOREM CallsComeUp == Spec => CallNearer
<1>1. ASSUME TypeOK, NEW u \in Unit
      PROVE  /\ UnitsAway(u) \in 0 .. CFU_NUM - 1
             /\ StepsLeft(u) \in 1 .. 3 * CFU_NUM
  <2>1. UnitsAway(u) \in 0 .. CFU_NUM - 1
    BY <1>1, UnitsAssumption DEF TypeOK, Unit, UnitsAway
  <2>2. QED
    BY <2>1, UnitsAssumption DEF StepsLeft
<1>2. ASSUME TypeOK, Cfu, NEW u \in Unit, Due(u), Due(u)'
      PROVE  StepsLeft(u)' < StepsLeft(u)
  <2>1. start[u] # Zero /\ start'[u] # Zero
    BY <1>2, RegisteredType DEF Due
  <2>2. UnitsAway(u) \in Int /\ i \in Unit
    BY <1>1, <1>2 DEF TypeOK
  <2>3. ~CfuStart
    BY <2>1 DEF CfuStart
  <2>4. ASSUME NEW d \in Data, Run(d) PROVE StepsLeft(u)' < StepsLeft(u)
    <3>1. UnitsAway(u)' = UnitsAway(u)
      BY <2>4 DEF Run, UnitsAway
    <3>2. QED
      BY <2>2, <2>4, <3>1 DEF Run, StepsLeft
  <2>5. CASE Clear
    <3>1. u # i
      BY <1>2, <2>1, <2>5 DEF Clear, TypeOK
    <3>2. UnitsAway(u)' = UnitsAway(u) - 1
      BY <1>2, <2>5, <3>1, UnitNearer DEF Clear
    <3>3. QED
      BY <2>2, <2>5, <3>2 DEF Clear, StepsLeft
  <2>6. CASE Scan
    <3>1. CASE <<i, start[i]>> \in Registered
      <4>1. UnitsAway(u)' = UnitsAway(u) /\ cfu = "scan" /\ cfu' = "run"
        BY <2>6, <3>1 DEF Scan, UnitsAway
      <4>2. QED
        BY <2>2, <4>1 DEF StepsLeft
    <3>2. CASE <<i, start[i]>> \notin Registered
      <4>1. u # i
        BY <1>2, <3>2 DEF Due
      <4>2. UnitsAway(u)' = UnitsAway(u) - 1 /\ cfu = "scan" /\ cfu' = "scan"
        BY <1>2, <2>6, <3>2, <4>1, UnitNearer DEF Scan
      <4>3. QED
        BY <2>2, <4>2 DEF StepsLeft
    <3>3. QED
      BY <3>1, <3>2
  <2>7. QED
    BY <1>2, <2>3, <2>4, <2>5, <2>6 DEF Cfu
<1>3. TypeOK => [\A u \in Unit :
         /\ StepsLeft(u) \in 1 .. 3 * CFU_NUM
         /\ Cfu /\ Due(u) /\ Due(u)' => StepsLeft(u)' < StepsLeft(u)]_vars
  BY <1>1, <1>2
<1>4. QED
  BY <1>3, TypeCorrect, PTL DEF CallNearer
=============================================================================
