-------------------------- MODULE CpuMonitor_proof -------------------------
(***************************************************************************)
(* Proofs about the sampler of the CPU load and its alerts (getStats,      *)
(* cpu_monitor, Stats::Monitor): for any number of loops and of requests   *)
(* that sample, any cooldown, and clocks that run and are set as far as    *)
(* one likes.                                                              *)
(***************************************************************************)
EXTENDS CpuMonitor, TLAPS

-----------------------------------------------------------------------------
(* Type correctness *)

\* A second adds at most one to the idle time.
CurveGrows == \A t \in 0..tick : curve[t + 1] \in 0..t

Typed == TypeOK /\ CurveGrows

LEMMA TypedInit == Init => Typed
<1> SUFFICES ASSUME Init PROVE Typed
  OBVIOUS
<1>1. tick = 0 /\ curve = <<0>> /\ MaxTicks \in Nat /\ MaxShift \in Nat
  BY MonitorAssumption DEF Init
<1>2. curve \in Seq(0..MaxTicks) /\ Len(curve) = tick + 1 /\ CurveGrows
  BY <1>1 DEF CurveGrows
<1>3. pc \in [Threads -> Points]
  BY DEF Init, Points, Threads
<1>4. Never \in Moments /\ NoLoad \in [num : Int, den : Int]
  BY DEF Never, Moments, NoLoad
<1>5. /\ world \in Worlds /\ running \in BOOLEAN
      /\ forward = 0 /\ back = 0 /\ last = 0 /\ lastTotal = 0 /\ lastIdle = 0
      /\ since \in [Loops -> 0..tick] /\ read \in [Threads -> 0..tick]
      /\ alerts = <<>> /\ silence = 0 /\ mixed = {}
  BY <1>1 DEF Init
<1>6. cpu \in [Threads -> [num : Int, den : Int]] /\ stamp \in [Loops -> Moments]
  BY <1>4 DEF Init
<1>7. /\ tick \in 0..MaxTicks /\ forward \in 0..MaxShift /\ back \in 0..MaxShift
      /\ last \in Int /\ lastTotal \in 0..tick /\ lastIdle \in 0..tick
      /\ silence \in Nat
  BY <1>1, <1>5
<1>8. alerts \in Seq(Moments) /\ mixed \subseteq Threads
  BY <1>5
<1>9. crossed \in BOOLEAN
  BY DEF Init
<1>10. TypeOK
  BY <1>2, <1>3, <1>5, <1>6, <1>7, <1>8, <1>9 DEF TypeOK
<1> QED BY <1>2, <1>10 DEF Typed

\* Time goes on, or the wall clock is set.
LEMMA TypedClock ==
    ASSUME Typed, Tick \/ SetClock
    PROVE  Typed'
<1>1. /\ tick \in 0..MaxTicks /\ MaxTicks \in Nat /\ MaxShift \in Nat
      /\ curve \in Seq(0..MaxTicks) /\ Len(curve) = tick + 1
      /\ \A t \in 0..tick : curve[t + 1] \in 0..t
      /\ forward \in 0..MaxShift /\ back \in 0..MaxShift
  BY MonitorAssumption DEF Typed, TypeOK, CurveGrows
<1>2. CASE Tick
  <2>1. PICK load \in {0, 1} : curve' = Append(curve, curve[tick + 1] + 1 - load)
    BY <1>2 DEF Tick
  <2>2. /\ tick' = tick + 1 /\ tick' \in 0..MaxTicks
        /\ UNCHANGED <<world, forward, back, running, statVars, alertVars, pc, locals>>
    BY <1>1, <1>2 DEF Tick
  <2>3. curve[tick + 1] \in 0..tick
    BY <1>1
  <2>4. curve[tick + 1] + 1 - load \in 0..tick'
    BY <1>1, <2>2, <2>3
  <2>5. /\ curve' \in Seq(0..MaxTicks) /\ Len(curve') = tick' + 1
        /\ \A t \in 0..tick' : curve'[t + 1] \in 0..t
    BY <1>1, <2>1, <2>2, <2>4
  <2>6. 0..tick \subseteq 0..tick'
    BY <1>1, <2>2
  <2>7. /\ {lastTotal, lastIdle} \subseteq 0..tick'
        /\ read \in [Threads -> 0..tick'] /\ since \in [Loops -> 0..tick']
    BY <2>6 DEF Typed, TypeOK
  <2>8. CurveGrows'
    BY <2>5 DEF CurveGrows
  <2>9. TypeOK'
    BY <2>2, <2>5, <2>7 DEF Typed, TypeOK, statVars, alertVars, locals
  <2> QED BY <2>8, <2>9 DEF Typed
<1>3. CASE SetClock
  <2>1. /\ forward' \in 0..MaxShift /\ back' \in 0..MaxShift
        /\ UNCHANGED <<world, tick, curve, running, statVars, alertVars, pc, locals>>
    BY <1>1, <1>3 DEF SetClock
  <2> QED BY <2>1 DEF Typed, TypeOK, CurveGrows, statVars, alertVars, locals
<1> QED BY <1>2, <1>3

LEMMA TypedSample ==
    ASSUME Typed, NEW x \in Threads, Sample(x)
    PROVE  Typed'
<1>1. /\ tick \in Nat /\ read \in [Threads -> 0..tick] /\ pc \in [Threads -> Points]
      /\ cpu \in [Threads -> [num : Int, den : Int]]
      /\ lastTotal \in 0..tick /\ lastIdle \in 0..tick
      /\ mixed \subseteq Threads
  BY MonitorAssumption DEF Typed, TypeOK
<1>2. curve[read[x] + 1] \in 0..read[x] /\ read[x] \in 0..tick
  BY <1>1 DEF Typed, CurveGrows
<1>3. /\ UNCHANGED <<world, clockVars, running, alertVars, since, stamp>>
      /\ \E p \in Points : pc' = [pc EXCEPT ![x] = p]
      /\ \E r \in 0..tick : read' = [read EXCEPT ![x] = r]
      /\ \E c \in [num : Int, den : Int] : cpu' = [cpu EXCEPT ![x] = c]
      /\ lastTotal' \in 0..tick /\ lastIdle' \in 0..tick
      /\ mixed' \subseteq Threads
      /\ crossed' \in BOOLEAN
  <2>1. CASE ReadStat(x)
    <3>1. /\ "read" \in Points /\ tick \in 0..tick
          /\ cpu' = [cpu EXCEPT ![x] = cpu[x]] /\ cpu[x] \in [num : Int, den : Int]
          /\ crossed' \in BOOLEAN
      BY <1>1, <2>1 DEF ReadStat, Points, Typed, TypeOK
    <3>2. mixed' \subseteq Threads
      BY <1>1, <2>1 DEF ReadStat, Sampling
    <3> QED BY <1>1, <2>1, <3>1, <3>2 DEF ReadStat, Goto
  <2>2. CASE DiffTotal(x) \/ DiffIdle(x)
    <3>1. /\ read[x] - lastTotal \in Int /\ cpu[x].den \in Int
          /\ cpu[x].den - (curve[read[x] + 1] - lastIdle) \in Int
      BY <1>1, <1>2
    <3>2. PICK n \in Int, d \in Int : cpu' = [cpu EXCEPT ![x] = [num |-> n, den |-> d]]
      <4> DEFINE idled == curve[read[x] + 1] - lastIdle
                 n0 == IF cpu[x].den = 0 THEN 0 ELSE cpu[x].den - idled
      <4>1. CASE DiffTotal(x)
        <5>1. cpu' = [cpu EXCEPT ![x] = [num |-> 0, den |-> read[x] - lastTotal]]
          BY <4>1 DEF DiffTotal
        <5>2. 0 \in Int
          OBVIOUS
        <5> DEFINE d1 == read[x] - lastTotal
        <5>3. d1 \in Int
          BY <3>1
        <5> HIDE DEF d1
        <5> QED BY <5>1, <5>2, <5>3 DEF d1
      <4>2. CASE DiffIdle(x)
        <5>1. cpu' = [cpu EXCEPT ![x] = [num |-> n0, den |-> cpu[x].den]]
          BY <4>2 DEF DiffIdle
        <5>2. n0 \in Int
          BY <3>1
        <5> HIDE DEF n0
        <5> QED BY <3>1, <5>1, <5>2
      <4> QED BY <2>2, <4>1, <4>2
    <3>3. read' = [read EXCEPT ![x] = read[x]]
      BY <1>1, <2>2 DEF DiffTotal, DiffIdle, locals
    <3>4. [num |-> n, den |-> d] \in [num : Int, den : Int]
      OBVIOUS
    <3>5. \E p \in Points : pc' = [pc EXCEPT ![x] = p]
      BY <2>2 DEF DiffTotal, DiffIdle, Goto, Points
    <3> QED BY <1>1, <1>2, <2>2, <3>2, <3>3, <3>4, <3>5
            DEF DiffTotal, DiffIdle, statVars, Typed, TypeOK
  <2>3. CASE StoreTotal(x)
    BY <1>1, <1>2, <2>3 DEF StoreTotal, Goto, Points, locals, Typed, TypeOK
  <2>4. CASE StoreIdle(x)
    <3>1. \E c \in [num : Int, den : Int] : cpu' = [cpu EXCEPT ![x] = c]
      <4>1. NoLoad \in [num : Int, den : Int]
        BY DEF NoLoad
      <4>2. cpu = [cpu EXCEPT ![x] = cpu[x]] /\ cpu[x] \in [num : Int, den : Int]
        BY <1>1
      <4> QED BY <2>4, <4>1, <4>2 DEF StoreIdle, Forget
    <3>2. "stored" \in Points /\ "answered" \in Points /\ 0 \in 0..tick
      BY <1>1 DEF Points
    <3>3. /\ \E p \in Points : pc' = [pc EXCEPT ![x] = p]
          /\ \E r \in 0..tick : read' = [read EXCEPT ![x] = r]
          /\ lastTotal' = lastTotal /\ lastIdle' = curve[read[x] + 1]
          /\ mixed' = mixed \ {x}
          /\ UNCHANGED <<world, clockVars, running, alertVars, since, stamp>>
      BY <2>4, <3>2 DEF StoreIdle, Forget, Goto
    <3>4. lastIdle' \in 0..tick
      BY <1>1, <1>2, <3>3
    <3>5. crossed' \in BOOLEAN
      BY <2>4 DEF StoreIdle
    <3> QED BY <1>1, <3>1, <3>3, <3>4, <3>5
  <2> QED BY <2>1, <2>2, <2>3, <2>4 DEF Sample
<1> QED BY <1>1, <1>3 DEF clockVars, alertVars, Typed, TypeOK, CurveGrows

LEMMA TypedLoop ==
    ASSUME Typed, NEW l \in Loops, Loop(l) \/ Start(l)
    PROVE  Typed'
<1>1. l \in Threads
  BY DEF Threads
<1>2. CASE Sample(l)
  BY <1>1, <1>2, TypedSample
<1>3. CASE Top(l) \/ Wake(l) \/ Stamp(l) \/ Decide(l) \/ Mark(l) \/ Start(l)
  <2>1. /\ tick \in Nat /\ forward \in Nat /\ back \in Nat /\ Cooldown \in Nat
        /\ pc \in [Threads -> Points] /\ since \in [Loops -> 0..tick]
        /\ stamp \in [Loops -> Moments]
        /\ cpu \in [Threads -> [num : Int, den : Int]]
        /\ alerts \in Seq(Moments) /\ silence \in Nat /\ last \in Int
        /\ running \in BOOLEAN
    BY MonitorAssumption DEF Typed, TypeOK
  <2>2. Now \in Moments /\ Never \in Moments /\ NoLoad \in [num : Int, den : Int]
    BY <2>1 DEF Now, Never, Moments, NoLoad
  <2>3. Wall(stamp[l]) \in Int
    BY <2>1 DEF Wall, Moments
  <2>4. /\ UNCHANGED <<world, clockVars, statVars, read>>
        /\ pc' \in [Threads -> Points]
        /\ since' \in [Loops -> 0..tick]
        /\ stamp' \in [Loops -> Moments]
        /\ cpu' \in [Threads -> [num : Int, den : Int]]
        /\ alerts' \in Seq(Moments) /\ silence' \in Nat /\ last' \in Int
        /\ running' \in BOOLEAN
    <3>1. CASE Top(l)
      BY <1>1, <2>1, <3>1 DEF Top, Goto, Points, alertVars
    <3>2. CASE Wake(l)
      BY <1>1, <2>1, <3>2 DEF Wake, Goto, Points, alertVars
    <3>3. CASE Stamp(l)
      BY <1>1, <2>1, <2>2, <3>3 DEF Stamp, Goto, Points, alertVars
    <3>4. CASE Decide(l)
      BY <1>1, <2>1, <2>2, <3>4 DEF Decide, Conclude, Goto, Points
    <3>5. CASE Mark(l)
      BY <1>1, <2>1, <2>2, <2>3, <3>5 DEF Mark, Goto, Points
    <3>6. CASE Start(l)
      BY <1>1, <2>1, <3>6 DEF Start, Goto, Points, alertVars, locals
    <3> QED BY <1>3, <3>1, <3>2, <3>3, <3>4, <3>5, <3>6
  <2> QED BY <2>4 DEF clockVars, statVars, Typed, TypeOK, CurveGrows
<1> QED BY <1>2, <1>3 DEF Loop

LEMMA TypedStep == Typed /\ [Next]_vars => Typed'
<1> SUFFICES ASSUME Typed, [Next]_vars PROVE Typed'
  OBVIOUS
<1>1. CASE Tick \/ SetClock
  BY <1>1, TypedClock
<1>2. CASE UNCHANGED vars
  BY <1>2 DEF vars, clockVars, statVars, alertVars, locals, Typed, TypeOK, CurveGrows
<1>3. CASE Stop
  BY <1>3 DEF Stop, clockVars, statVars, alertVars, locals, Typed, TypeOK, CurveGrows
<1>4. ASSUME NEW x \in Askers, Ask(x) \/ Sample(x) PROVE Typed'
  <2>1. x \in Threads /\ pc \in [Threads -> Points]
    BY DEF Threads, Typed, TypeOK
  <2>2. CASE Ask(x)
    <3>1. pc' \in [Threads -> Points]
      BY <2>1, <2>2 DEF Ask, Goto, Points
    <3> QED BY <2>2, <3>1 DEF Ask, clockVars, statVars, alertVars, locals, Typed,
                              TypeOK, CurveGrows
  <2> QED BY <1>4, <2>1, <2>2, TypedSample
<1>5. ASSUME NEW l \in Loops, Loop(l) \/ Start(l) PROVE Typed'
  BY <1>5, TypedLoop
<1> QED BY <1>1, <1>2, <1>3, <1>4, <1>5 DEF Next, Finished

\* Every variable always has its type, and neither a thread nor a static is ahead
\* of its time.
THEOREM TypeCorrect == Spec => []TypeOK
<1>1. Init => Typed
  BY TypedInit
<1>2. Typed /\ [Next]_vars => Typed'
  BY TypedStep
<1> QED BY <1>1, <1>2, PTL DEF Spec, Typed

-----------------------------------------------------------------------------
(* The load a sample finds *)

\* The statics belong to one moment.
Whole == lastIdle = curve[lastTotal + 1]

\* A sample that none overlaps is the only one, and the statics were whole when it
\* began, unless it is the first after some that did overlap.
HonestInv ==
    /\ mixed \subseteq Sampling
    /\ \A x, y \in Sampling : x \notin mixed => x = y
    /\ ~crossed /\ mixed = {} /\ (\A x \in Threads : pc[x] # "half") => Whole
    /\ \A x \in Sampling : x \notin mixed =>
          /\ lastTotal <= read[x]
          /\ pc[x] = "total" => cpu[x].den = read[x] - lastTotal
          /\ pc[x] = "half" => lastTotal = read[x]
    /\ HonestCpu

LEMMA HonestInit == Init => HonestInv
<1> SUFFICES ASSUME Init PROVE HonestInv
  OBVIOUS
<1>1. \A x \in Threads : pc[x] \in {"none", "idle", "top"}
  BY DEF Init
<1>2. Sampling = {} /\ mixed = {}
  BY <1>1 DEF Sampling, Init
<1>3. Whole
  BY DEF Init, Whole
<1> QED BY <1>1, <1>2, <1>3 DEF HonestInv, HonestCpu

\* What happens outside getStats, the passing of time included.
LEMMA HonestElsewhere ==
    ASSUME Typed, HonestInv, UNCHANGED statVars, Sampling' = Sampling,
           \A x \in Sampling : pc'[x] = pc[x] /\ read'[x] = read[x] /\ cpu'[x] = cpu[x],
           \A t \in 0..tick : curve'[t + 1] = curve[t + 1]
    PROVE  HonestInv'
<1>1. /\ tick \in Nat /\ lastTotal \in 0..tick
      /\ \A x \in Threads : read[x] \in 0..tick
  BY MonitorAssumption DEF Typed, TypeOK
<1>2. \A x \in Threads : pc'[x] = "half" => pc[x] = "half"
  BY DEF Sampling
<1>3. \A x \in Threads : pc[x] = "half" => pc'[x] = "half"
  BY DEF Sampling
<1>4. Whole' = Whole
  BY <1>1 DEF Whole, statVars
<1>5. HonestCpu'
  <2> SUFFICES ASSUME NEW x \in Threads, pc'[x] \in {"diffed", "half"},
                      x \notin mixed, ~crossed
               PROVE  \E a \in 0..read'[x] :
                        cpu'[x] = [den |-> read'[x] - a,
                                   num |-> read'[x] - a
                                           - (curve'[read'[x] + 1] - curve'[a + 1])]
    BY DEF HonestCpu, statVars
  <2>1. x \in Sampling /\ pc[x] \in {"diffed", "half"}
    BY DEF Sampling
  <2>2. PICK a \in 0..read[x] :
              cpu[x] = [den |-> read[x] - a,
                        num |-> read[x] - a - (curve[read[x] + 1] - curve[a + 1])]
    BY <2>1 DEF HonestInv, HonestCpu
  <2>3. a \in 0..tick /\ read[x] \in 0..tick
    BY <1>1
  <2> QED BY <2>1, <2>2, <2>3
<1> QED BY <1>2, <1>3, <1>4, <1>5 DEF HonestInv, statVars

LEMMA HonestReadStat ==
    ASSUME Typed, HonestInv, NEW x \in Threads, ReadStat(x)
    PROVE  HonestInv'
<1>1. /\ pc[x] = "wake" /\ pc' = [pc EXCEPT ![x] = "read"]
      /\ read' = [read EXCEPT ![x] = tick]
      /\ UNCHANGED <<curve, lastTotal, lastIdle, crossed, cpu>>
  BY DEF ReadStat, Goto, clockVars
<1>2. pc \in [Threads -> Points] /\ read \in [Threads -> 0..tick] /\ tick \in Nat
      /\ lastTotal \in 0..tick
  BY MonitorAssumption DEF Typed, TypeOK
<1>3. Sampling' = Sampling \union {x} /\ x \notin Sampling
  BY <1>1, <1>2 DEF Sampling
<1>4. \A y \in Threads : pc'[y] \in {"diffed", "half"} =>
          y \in Sampling /\ pc'[y] = pc[y] /\ read'[y] = read[y]
  BY <1>1, <1>2 DEF Sampling
<1>5. CASE Sampling = {}
  <2>1. mixed = {} /\ mixed' = {}
    BY <1>5 DEF ReadStat, HonestInv
  <2>2. \A y \in Threads : pc[y] # "half" /\ pc'[y] \notin {"diffed", "half"}
    BY <1>4, <1>5 DEF Sampling
  <2>3. lastTotal <= read'[x]
    BY <1>1, <1>2
  <2>4. Whole' = Whole
    BY <1>1 DEF Whole
  <2>5. HonestCpu'
    BY <2>2 DEF HonestCpu
  <2>6. pc'[x] = "read"
    BY <1>1, <1>2
  <2> QED BY <1>1, <1>3, <1>5, <2>1, <2>2, <2>3, <2>4, <2>5, <2>6 DEF HonestInv
<1>6. CASE Sampling # {}
  <2>1. mixed' = mixed \union Sampling \union {x}
    BY <1>6 DEF ReadStat
  <2>2. mixed' = Sampling' /\ mixed' # {}
    BY <1>3, <2>1 DEF HonestInv
  <2>3. HonestCpu'
    BY <1>3, <1>4, <2>2 DEF HonestCpu
  <2> QED BY <2>2, <2>3 DEF HonestInv
<1> QED BY <1>5, <1>6

LEMMA HonestDiffTotal ==
    ASSUME Typed, HonestInv, NEW x \in Threads, DiffTotal(x)
    PROVE  HonestInv'
<1>1. /\ pc[x] = "read" /\ pc' = [pc EXCEPT ![x] = "total"]
      /\ cpu' = [cpu EXCEPT ![x] = [num |-> 0, den |-> read[x] - lastTotal]]
      /\ UNCHANGED <<curve, lastTotal, lastIdle, mixed, crossed, read>>
  BY DEF DiffTotal, Goto, clockVars, statVars
<1>2. pc \in [Threads -> Points] /\ cpu \in [Threads -> [num : Int, den : Int]]
  BY DEF Typed, TypeOK
<1>3. Sampling' = Sampling /\ x \in Sampling
  BY <1>1, <1>2 DEF Sampling
<1>4. \A y \in Threads : /\ pc'[y] = "half" <=> pc[y] = "half"
                         /\ y # x => cpu'[y] = cpu[y] /\ pc'[y] = pc[y]
  BY <1>1, <1>2
<1>5. pc'[x] = "total" /\ cpu'[x].den = read[x] - lastTotal
  BY <1>1, <1>2
<1>6. HonestCpu'
  BY <1>1, <1>4, <1>5 DEF HonestInv, HonestCpu
<1>7. Whole' = Whole
  BY <1>1 DEF Whole
<1>8. ~crossed /\ mixed = {} /\ (\A y \in Threads : pc'[y] # "half") => Whole'
  BY <1>4, <1>7 DEF HonestInv
<1>9. \A y \in Sampling : y \notin mixed =>
          /\ lastTotal <= read[y]
          /\ pc'[y] = "total" => cpu'[y].den = read[y] - lastTotal
          /\ pc'[y] = "half" => lastTotal = read[y]
  BY <1>4, <1>5 DEF HonestInv, Sampling
<1> QED BY <1>1, <1>3, <1>6, <1>8, <1>9 DEF HonestInv

LEMMA HonestDiffIdle ==
    ASSUME Typed, HonestInv, NEW x \in Threads, DiffIdle(x)
    PROVE  HonestInv'
<1> DEFINE new == [num |-> IF cpu[x].den = 0 THEN 0
                           ELSE cpu[x].den - (curve[read[x] + 1] - lastIdle),
                   den |-> cpu[x].den]
<1>1. /\ pc[x] = "total" /\ pc' = [pc EXCEPT ![x] = "diffed"]
      /\ cpu' = [cpu EXCEPT ![x] = new]
      /\ UNCHANGED <<curve, lastTotal, lastIdle, mixed, crossed, read>>
  BY DEF DiffIdle, Goto, clockVars, statVars
<1>2. /\ pc \in [Threads -> Points] /\ cpu \in [Threads -> [num : Int, den : Int]]
      /\ read[x] \in Nat /\ lastTotal \in Nat /\ tick \in Nat
      /\ curve[read[x] + 1] \in Int /\ lastIdle \in Int
  <2>1. read[x] \in 0..tick /\ tick \in Nat
    BY MonitorAssumption DEF Typed, TypeOK
  <2>2. curve[read[x] + 1] \in 0..read[x]
    BY <2>1 DEF Typed, CurveGrows
  <2> QED BY <2>1, <2>2 DEF Typed, TypeOK
<1>3. Sampling' = Sampling /\ x \in Sampling
  BY <1>1, <1>2 DEF Sampling
<1>4. \A y \in Threads : /\ pc'[y] = "half" <=> pc[y] = "half"
                         /\ y # x => cpu'[y] = cpu[y] /\ pc'[y] = pc[y]
  BY <1>1, <1>2
<1>5. ASSUME x \notin mixed, ~crossed
      PROVE  \E a \in 0..read[x] :
               cpu'[x] = [den |-> read[x] - a,
                          num |-> read[x] - a - (curve[read[x] + 1] - curve[a + 1])]
  <2>1. mixed = {} /\ \A y \in Threads : pc[y] # "half"
    BY <1>1, <1>3, <1>5 DEF HonestInv, Sampling
  <2>2. lastIdle = curve[lastTotal + 1] /\ lastTotal <= read[x]
    BY <1>3, <1>5, <2>1 DEF HonestInv, Whole
  <2>3. cpu'[x] = new /\ cpu[x].den = read[x] - lastTotal
    BY <1>1, <1>2, <1>3, <1>5 DEF HonestInv
  <2>4. new = [den |-> read[x] - lastTotal,
               num |-> read[x] - lastTotal
                       - (curve[read[x] + 1] - curve[lastTotal + 1])]
    <3>1. CASE read[x] - lastTotal = 0
      <4>1. read[x] = lastTotal
        BY <1>2, <3>1
      <4>2. read[x] - lastTotal - (curve[read[x] + 1] - curve[lastTotal + 1]) = 0
        BY <1>2, <4>1
      <4> QED BY <2>3, <3>1, <4>2
    <3>2. CASE read[x] - lastTotal # 0
      BY <2>2, <2>3, <3>2
    <3> QED BY <3>1, <3>2
  <2>5. lastTotal \in 0..read[x]
    BY <1>2, <2>2
  <2> QED BY <2>3, <2>4, <2>5
<1> HIDE DEF new
<1>6. HonestCpu'
  BY <1>1, <1>4, <1>5 DEF HonestInv, HonestCpu
<1>7. Whole' = Whole
  BY <1>1 DEF Whole
<1>8. ~crossed /\ mixed = {} /\ (\A y \in Threads : pc'[y] # "half") => Whole'
  BY <1>4, <1>7 DEF HonestInv
<1>9. \A y \in Sampling : y \notin mixed =>
          /\ lastTotal <= read[y]
          /\ pc'[y] = "total" => cpu'[y].den = read[y] - lastTotal
          /\ pc'[y] = "half" => lastTotal = read[y]
  BY <1>1, <1>2, <1>4 DEF HonestInv, Sampling
<1> QED BY <1>1, <1>3, <1>6, <1>8, <1>9 DEF HonestInv

LEMMA HonestStoreTotal ==
    ASSUME Typed, HonestInv, NEW x \in Threads, StoreTotal(x)
    PROVE  HonestInv'
<1>1. /\ pc[x] = "diffed" /\ pc' = [pc EXCEPT ![x] = "half"]
      /\ lastTotal' = read[x]
      /\ UNCHANGED <<curve, lastIdle, mixed, crossed, read, cpu>>
  BY DEF StoreTotal, Goto, clockVars, locals
<1>2. pc \in [Threads -> Points] /\ read[x] \in Nat
  BY MonitorAssumption DEF Typed, TypeOK
<1>3. Sampling' = Sampling /\ x \in Sampling
  BY <1>1, <1>2 DEF Sampling
<1>4. \A y \in Threads : pc'[y] \in {"diffed", "half"} <=> pc[y] \in {"diffed", "half"}
  BY <1>1, <1>2
<1>5. HonestCpu'
  BY <1>1, <1>4 DEF HonestInv, HonestCpu
<1>6. \A y \in Sampling : y \notin mixed => y = x
  BY <1>3 DEF HonestInv
<1>7. pc'[x] = "half" /\ x \in Threads
  BY <1>1, <1>2
<1>8. \A y \in Sampling : y \notin mixed =>
          /\ lastTotal' <= read[y]
          /\ pc'[y] # "total"
          /\ pc'[y] = "half" => lastTotal' = read[y]
  BY <1>1, <1>2, <1>6, <1>7
<1> QED BY <1>1, <1>3, <1>5, <1>7, <1>8 DEF HonestInv

LEMMA HonestStoreIdle ==
    ASSUME Typed, HonestInv, NEW x \in Threads, StoreIdle(x)
    PROVE  HonestInv'
<1>1. /\ pc[x] = "half"
      /\ \E p \in {"stored", "answered"} : pc' = [pc EXCEPT ![x] = p]
      /\ lastIdle' = curve[read[x] + 1]
      /\ crossed' <=> x \in mixed
      /\ mixed' = mixed \ {x}
      /\ UNCHANGED <<curve, lastTotal>>
      /\ \A y \in Threads \ {x} : read'[y] = read[y] /\ cpu'[y] = cpu[y]
  BY DEF StoreIdle, Forget, Goto, clockVars, Typed, TypeOK
<1>2. pc \in [Threads -> Points]
  BY DEF Typed, TypeOK
<1>3. Sampling' = Sampling \ {x} /\ x \in Sampling
  BY <1>1, <1>2 DEF Sampling
<1>4. \A y \in Threads \ {x} : pc'[y] = pc[y]
  BY <1>1, <1>2
<1>5. mixed' \subseteq Sampling'
  BY <1>1, <1>3 DEF HonestInv
<1>6. CASE x \in mixed
  <2>1. \A y \in Sampling : y \notin mixed => y = x
    BY <1>3, <1>6 DEF HonestInv
  <2>2. Sampling' \subseteq mixed' /\ crossed'
    BY <1>1, <1>3, <1>6, <2>1
  <2> QED BY <1>5, <2>2 DEF HonestInv, HonestCpu
<1>7. CASE x \notin mixed
  <2>1. Sampling = {x} /\ lastTotal = read[x]
    BY <1>1, <1>3, <1>7 DEF HonestInv
  <2>2. Sampling' = {} /\ mixed' = {}
    BY <1>3, <1>5, <2>1
  <2>3. Whole'
    BY <1>1, <2>1 DEF Whole
  <2>4. \A y \in Threads : pc'[y] \notin {"diffed", "half"}
    BY <2>2 DEF Sampling
  <2> QED BY <2>2, <2>3, <2>4 DEF HonestInv, HonestCpu
<1> QED BY <1>6, <1>7

LEMMA HonestStep == Typed /\ HonestInv /\ [Next]_vars => HonestInv'
<1> SUFFICES ASSUME Typed, HonestInv, [Next]_vars PROVE HonestInv'
  OBVIOUS
<1>1. pc \in [Threads -> Points] /\ Loops \subseteq Threads /\ Askers \subseteq Threads
      /\ cpu \in [Threads -> [num : Int, den : Int]]
  BY DEF Threads, Typed, TypeOK
<1>2. CASE Tick
  <2>1. UNCHANGED <<statVars, pc, read, cpu>> /\ Sampling' = Sampling
    BY <1>2 DEF Tick, locals, Sampling
  <2>2. \A t \in 0..tick : curve'[t + 1] = curve[t + 1]
    <3>1. curve \in Seq(0..MaxTicks) /\ Len(curve) = tick + 1 /\ tick \in Nat
      BY MonitorAssumption DEF Typed, TypeOK
    <3>2. PICK v : curve' = Append(curve, v)
      BY <1>2 DEF Tick
    <3> QED BY <3>1, <3>2
  <2> QED BY <2>1, <2>2, HonestElsewhere
<1>3. CASE SetClock \/ Stop \/ UNCHANGED vars
  <2>1. UNCHANGED <<statVars, pc, read, cpu, curve>> /\ Sampling' = Sampling
    BY <1>3 DEF SetClock, Stop, vars, clockVars, locals, Sampling
  <2> QED BY <2>1, HonestElsewhere
<1>4. ASSUME NEW x \in Threads, Sample(x) PROVE HonestInv'
  BY <1>4, HonestReadStat, HonestDiffTotal, HonestDiffIdle, HonestStoreTotal,
     HonestStoreIdle DEF Sample
<1>5. ASSUME NEW x \in Threads, NEW p \in Points \ {"read", "total", "diffed", "half"},
             pc' = [pc EXCEPT ![x] = p], pc[x] \notin {"read", "total", "diffed", "half"},
             cpu' = cpu \/ cpu' = [cpu EXCEPT ![x] = NoLoad],
             UNCHANGED <<statVars, read, curve>>
      PROVE  HonestInv'
  <2>1. Sampling' = Sampling /\ x \notin Sampling
    BY <1>1, <1>5 DEF Sampling
  <2>2. \A y \in Threads : y # x => pc'[y] = pc[y] /\ cpu'[y] = cpu[y]
    BY <1>1, <1>5
  <2>3. Sampling \subseteq Threads
    BY DEF Sampling
  <2> QED BY <1>5, <2>1, <2>2, <2>3, HonestElsewhere
<1>6. ASSUME NEW l \in Loops, Top(l) \/ Wake(l) \/ Stamp(l) \/ Decide(l) \/ Mark(l)
                              \/ Start(l)
      PROVE  HonestInv'
  <2>1. UNCHANGED <<statVars, read, curve>>
    BY <1>6 DEF Top, Wake, Stamp, Decide, Conclude, Mark, Start, clockVars, locals
  <2>2. cpu' = cpu \/ cpu' = [cpu EXCEPT ![l] = NoLoad]
    BY <1>6 DEF Top, Wake, Stamp, Decide, Conclude, Mark, Start, locals
  <2>3. /\ pc[l] \notin {"read", "total", "diffed", "half"}
        /\ \E p \in Points \ {"read", "total", "diffed", "half"} : pc' = [pc EXCEPT ![l] = p]
    BY <1>6 DEF Top, Wake, Stamp, Decide, Conclude, Mark, Start, Caller, Goto, Points
  <2> QED BY <1>1, <1>5, <2>1, <2>2, <2>3
<1>7. ASSUME NEW x \in Askers, Ask(x) PROVE HonestInv'
  <2>1. /\ pc[x] = "idle" /\ pc' = [pc EXCEPT ![x] = "wake"]
        /\ UNCHANGED <<statVars, read, curve, cpu>>
    BY <1>7 DEF Ask, Goto, clockVars, locals
  <2> QED BY <1>1, <1>5, <2>1 DEF Points
<1> QED BY <1>1, <1>2, <1>3, <1>4, <1>6, <1>7 DEF Next, Loop, Finished

\* A sample that none overlaps, after one that none overlapped, finds the load of a
\* stretch of time that ends with it.
THEOREM SamplesAreHonest == Spec => []HonestCpu
<1>1. Init => Typed /\ HonestInv
  BY TypedInit, HonestInit
<1>2. Typed /\ HonestInv /\ [Next]_vars => (Typed /\ HonestInv)'
  BY TypedStep, HonestStep
<1>3. HonestInv => HonestCpu
  BY DEF HonestInv
<1> QED BY <1>1, <1>2, <1>3, PTL DEF Spec

-----------------------------------------------------------------------------
(* The alerts *)

\* Neither clock's settings are undone: one moment is not before another.
Since(m, n) == m.tick <= n.tick /\ m.forward <= n.forward /\ m.back <= n.back

\* One loop at most is there, and the cooldown counts from the last alert as soon
\* as that loop has taken it down.
AlertsInv ==
    /\ \A k, l \in Alive : k = l
    /\ \A l \in Loops : pc[l] \in {"stamped", "alerted"} => Since(stamp[l], Now)
    /\ \A i \in DOMAIN alerts : Since(alerts[i], Now)
    /\ \A l \in Loops : pc[l] = "stamped" =>
          \A i \in DOMAIN alerts : Since(alerts[i], stamp[l])
    /\ \A i, j \in DOMAIN alerts : i < j =>
          /\ Since(alerts[i], alerts[j])
          /\ Wall(alerts[j]) - Wall(alerts[i]) > Cooldown
    /\ \A l \in Loops : pc[l] = "alerted" =>
          alerts # <<>> /\ stamp[l] = alerts[Len(alerts)]
    /\ alerts # <<>> =>
          \/ \E l \in Loops : pc[l] = "alerted"
          \/ last = Wall(alerts[Len(alerts)])

SpacedInv == Typed /\ (world # "hasty" => AlertsInv)

LEMMA NowSince == ASSUME Typed PROVE Now \in Moments /\ Since(Now, Now)
<1>1. tick \in Nat /\ forward \in Nat /\ back \in Nat
  BY MonitorAssumption DEF Typed, TypeOK
<1> QED BY <1>1 DEF Now, Moments, Since

LEMMA SinceAll ==
    ASSUME NEW a \in Moments, NEW b \in Moments, NEW c \in Moments,
           Since(a, b), Since(b, c)
    PROVE  Since(a, c)
  BY DEF Since, Moments

LEMMA SpacedInit == Init => SpacedInv
<1> SUFFICES ASSUME Init PROVE AlertsInv
  BY TypedInit DEF SpacedInv
<1>1. alerts = <<>>
  BY DEF Init
<1>2. \E k \in Loops : \A l \in Loops : pc[l] \in {"none", "top"} /\ (l # k => pc[l] = "none")
  BY MonitorAssumption DEF Init, Threads
<1> QED BY <1>1, <1>2 DEF AlertsInv, Alive

\* What leaves loops and alerts alone, whether time goes on or not.
LEMMA SpacedElsewhere ==
    ASSUME Typed, Typed', AlertsInv, UNCHANGED <<alertVars, stamp>>,
           \A l \in Loops : pc'[l] = pc[l] \/
                            (pc[l] # "none" /\ pc[l] # "gone" /\ pc[l] # "alerted"
                                /\ pc'[l] \notin {"stamped", "alerted"}),
           Since(Now, Now')
    PROVE  AlertsInv'
<1>1. /\ stamp \in [Loops -> Moments] /\ alerts \in Seq(Moments)
      /\ Now \in Moments /\ Now' \in Moments
  BY NowSince, MonitorAssumption DEF Typed, TypeOK, Now, Moments
<1>2. Alive' \subseteq Alive
  BY DEF Alive
<1>3. \A l \in Loops : /\ pc'[l] = "stamped" => pc[l] = "stamped"
                       /\ pc'[l] = "alerted" <=> pc[l] = "alerted"
  OBVIOUS
<1>4. \A m : Wall(m)' = Wall(m)
  BY DEF Wall
<1>5. \A m \in Moments : Since(m, Now) => Since(m, Now')
  BY <1>1, SinceAll
<1>6. \A i \in DOMAIN alerts : alerts[i] \in Moments
  BY <1>1
<1>7. \A k, l \in Alive' : k = l
  BY <1>2 DEF AlertsInv
<1>8. \A l \in Loops : pc'[l] \in {"stamped", "alerted"} => Since(stamp[l], Now')
  BY <1>1, <1>3, <1>5 DEF AlertsInv
<1>9. \A i \in DOMAIN alerts : Since(alerts[i], Now')
  BY <1>5, <1>6 DEF AlertsInv
<1>10. \A i, j \in DOMAIN alerts : i < j =>
          /\ Since(alerts[i], alerts[j])
          /\ Wall(alerts[j]) - Wall(alerts[i]) > Cooldown
  BY DEF AlertsInv
<1> QED BY <1>3, <1>4, <1>7, <1>8, <1>9, <1>10 DEF AlertsInv, alertVars

LEMMA SpacedStamp ==
    ASSUME Typed, AlertsInv, NEW l \in Loops, Stamp(l)
    PROVE  AlertsInv'
<1>1. /\ pc[l] = "stored" /\ pc' = [pc EXCEPT ![l] = "stamped"]
      /\ stamp' = [stamp EXCEPT ![l] = Now]
      /\ UNCHANGED <<clockVars, alertVars>>
  BY DEF Stamp, Goto
<1>2. l \in Threads /\ pc \in [Threads -> Points] /\ stamp \in [Loops -> Moments]
  BY DEF Threads, Typed, TypeOK
<1>3. Alive' = Alive
  BY <1>1, <1>2 DEF Alive
<1>4. \A k \in Loops : k # l => pc'[k] = pc[k] /\ stamp'[k] = stamp[k]
  BY <1>1, <1>2 DEF Threads
<1>5. pc'[l] = "stamped" /\ stamp'[l] = Now
  BY <1>1, <1>2
<1>6. Now' = Now /\ \A m : Wall(m)' = Wall(m)
  BY <1>1 DEF Now, Wall, clockVars
<1>7. \A k \in Loops : pc'[k] = "alerted" <=> pc[k] = "alerted"
  BY <1>1, <1>4, <1>5
<1> QED BY <1>1, <1>3, <1>4, <1>5, <1>6, <1>7, NowSince DEF AlertsInv, alertVars

\* A new alert: the loop is the only one, so the cooldown counts from the one
\* before.
LEMMA SpacedAlert ==
    ASSUME Typed, AlertsInv, NEW l \in Loops, pc[l] = "stamped", Due(l)
    PROVE  \A i \in DOMAIN alerts : /\ Since(alerts[i], stamp[l])
                                    /\ Wall(stamp[l]) - Wall(alerts[i]) > Cooldown
<1> SUFFICES ASSUME NEW i \in DOMAIN alerts
             PROVE  Wall(stamp[l]) - Wall(alerts[i]) > Cooldown
  BY DEF AlertsInv
<1> DEFINE n == Len(alerts)
<1>1. alerts \in Seq(Moments) /\ i \in 1..n /\ n \in Nat \ {0} /\ stamp[l] \in Moments
  BY DEF Typed, TypeOK
<1>2. \A k \in Loops : pc[k] # "alerted"
  BY DEF AlertsInv, Alive
<1>3. last = Wall(alerts[n])
  BY <1>1, <1>2 DEF AlertsInv
<1>4. /\ Wall(stamp[l]) \in Int /\ Wall(alerts[i]) \in Int /\ Wall(alerts[n]) \in Int
      /\ Cooldown \in Nat
  <2>1. alerts[i] \in Moments /\ alerts[n] \in Moments
    BY <1>1
  <2>2. \A m \in Moments : Wall(m) \in Int
    BY MonitorAssumption DEF Wall, Moments
  <2>3. Cooldown \in Nat
    BY MonitorAssumption
  <2> HIDE DEF n
  <2> QED BY <1>1, <2>1, <2>2, <2>3
<1>5. Wall(stamp[l]) - Wall(alerts[n]) > Cooldown
  BY <1>3 DEF Due
<1>6. i = n \/ Wall(alerts[n]) - Wall(alerts[i]) > Cooldown
  BY <1>1 DEF AlertsInv
<1> HIDE DEF n
<1> QED BY <1>4, <1>5, <1>6

LEMMA SpacedDecide ==
    ASSUME Typed, AlertsInv, NEW l \in Loops, Decide(l)
    PROVE  AlertsInv'
<1>1. /\ pc[l] = "stamped" /\ l \in Threads /\ UNCHANGED <<clockVars, last>>
      /\ pc \in [Threads -> Points] /\ stamp \in [Loops -> Moments]
      /\ alerts \in Seq(Moments)
  BY DEF Decide, Conclude, Threads, Typed, TypeOK
<1>2. Now' = Now /\ \A m : Wall(m)' = Wall(m)
  BY <1>1 DEF Now, Wall, clockVars
<1>3. CASE Hot(cpu[l]) /\ Due(l)
  <2> DEFINE n == Len(alerts) + 1
  <2>1. /\ pc' = [pc EXCEPT ![l] = "alerted"]
        /\ alerts' = Append(alerts, stamp[l])
        /\ stamp' = stamp
    BY <1>3 DEF Decide, Conclude, Goto
  <2>2. pc'[l] = "alerted" /\ \A k \in Loops : k # l => pc'[k] = pc[k]
    BY <1>1, <2>1 DEF Threads
  <2>3. Alive' = Alive /\ l \in Alive
    BY <1>1, <2>1, <2>2 DEF Alive
  <2>4. \A k \in Loops : k # l => pc'[k] \notin {"stamped", "alerted"}
    BY <2>2, <2>3 DEF AlertsInv, Alive
  <2>5. /\ DOMAIN alerts' = 1..n /\ n \in Nat \ {0} /\ alerts'[n] = stamp[l]
        /\ DOMAIN alerts = 1..(n - 1) /\ Len(alerts') = n
        /\ \A i \in 1..(n - 1) : alerts'[i] = alerts[i]
    BY <1>1, <2>1
  <2> HIDE DEF n
  <2>6. \A i \in 1..(n - 1) : /\ Since(alerts[i], stamp[l])
                              /\ Wall(stamp[l]) - Wall(alerts[i]) > Cooldown
    BY <1>1, <1>3, <2>5, SpacedAlert
  <2>7. \A i \in 1..n : i = n \/ i \in 1..(n - 1)
    BY <2>5
  <2>8. \A i, j \in DOMAIN alerts' : i < j =>
            /\ Since(alerts'[i], alerts'[j])
            /\ Wall(alerts'[j]) - Wall(alerts'[i]) > Cooldown
    <3> SUFFICES ASSUME NEW i \in 1..n, NEW j \in 1..n, i < j
                 PROVE  /\ Since(alerts'[i], alerts'[j])
                        /\ Wall(alerts'[j]) - Wall(alerts'[i]) > Cooldown
      BY <2>5
    <3>1. i \in 1..(n - 1)
      BY <2>5
    <3>2. CASE j = n
      BY <2>5, <2>6, <3>1, <3>2
    <3>3. CASE j \in 1..(n - 1)
      BY <2>5, <3>1, <3>3 DEF AlertsInv
    <3> QED BY <2>7, <3>2, <3>3
  <2>9. \A i \in DOMAIN alerts' : Since(alerts'[i], Now)
    BY <1>1, <2>5, <2>7 DEF AlertsInv
  <2>10. Since(stamp[l], Now)
    BY <1>1 DEF AlertsInv
  <2>11. alerts' # <<>>
    BY <2>5
  <2> QED BY <1>2, <2>1, <2>2, <2>3, <2>4, <2>5, <2>8, <2>9, <2>10, <2>11 DEF AlertsInv
<1>4. CASE ~(Hot(cpu[l]) /\ Due(l))
  <2>1. /\ pc' = [pc EXCEPT ![l] = "top"]
        /\ alerts' = alerts
        /\ stamp' = [stamp EXCEPT ![l] = Never]
    BY <1>4 DEF Decide, Conclude, Goto
  <2>2. /\ pc'[l] = "top"
        /\ \A k \in Loops : k # l => pc'[k] = pc[k] /\ stamp'[k] = stamp[k]
    BY <1>1, <2>1 DEF Threads
  <2>3. Alive' = Alive
    BY <1>1, <2>1, <2>2 DEF Alive
  <2>4. \A k \in Loops : pc'[k] = "alerted" <=> pc[k] = "alerted"
    BY <1>1, <2>2
  <2> QED BY <1>1, <1>2, <2>1, <2>2, <2>3, <2>4 DEF AlertsInv
<1> QED BY <1>3, <1>4

LEMMA SpacedMark ==
    ASSUME Typed, AlertsInv, NEW l \in Loops, Mark(l)
    PROVE  AlertsInv'
<1>1. /\ pc[l] = "alerted" /\ pc' = [pc EXCEPT ![l] = "top"]
      /\ last' = Wall(stamp[l])
      /\ stamp' = [stamp EXCEPT ![l] = Never]
      /\ UNCHANGED <<clockVars, alerts>>
  BY DEF Mark, Goto
<1>2. l \in Threads /\ pc \in [Threads -> Points] /\ stamp \in [Loops -> Moments]
  BY DEF Threads, Typed, TypeOK
<1>3. /\ pc'[l] = "top"
      /\ \A k \in Loops : k # l => pc'[k] = pc[k] /\ stamp'[k] = stamp[k]
  BY <1>1, <1>2 DEF Threads
<1>4. Alive' = Alive /\ l \in Alive
  BY <1>1, <1>3 DEF Alive
<1>5. \A k \in Loops : pc'[k] # "alerted" /\ pc'[k] # "stamped"
  BY <1>3, <1>4 DEF AlertsInv, Alive
<1>6. Now' = Now /\ \A m : Wall(m)' = Wall(m)
  BY <1>1 DEF Now, Wall, clockVars
<1>7. stamp[l] = alerts[Len(alerts)]
  BY <1>1 DEF AlertsInv
<1> QED BY <1>1, <1>4, <1>5, <1>6, <1>7 DEF AlertsInv

LEMMA SpacedStart ==
    ASSUME Typed, AlertsInv, world # "hasty", NEW l \in Loops, Start(l)
    PROVE  AlertsInv'
<1>1. /\ Alive = {} /\ pc' = [pc EXCEPT ![l] = "top"]
      /\ UNCHANGED <<clockVars, alertVars, stamp>>
  <2>1. world = "patient" /\ ~running
    BY MonitorAssumption DEF Start, Caller, Typed, TypeOK
  <2> QED BY <2>1 DEF Start, Caller, Goto, locals
<1>2. l \in Threads /\ pc \in [Threads -> Points]
  BY DEF Threads, Typed, TypeOK
<1>3. pc'[l] = "top" /\ \A k \in Loops : k # l => pc'[k] = pc[k]
  BY <1>1, <1>2 DEF Threads
<1>4. \A k \in Loops : pc[k] \in {"none", "gone"}
  BY <1>1 DEF Alive
<1>5. Alive' = {l} /\ \A k \in Loops : pc'[k] \notin {"stamped", "alerted"}
  BY <1>3, <1>4 DEF Alive
<1>6. Now' = Now /\ \A m : Wall(m)' = Wall(m)
  BY <1>1 DEF Now, Wall, clockVars
<1>7. alerts # <<>> => last = Wall(alerts[Len(alerts)])
  BY <1>4 DEF AlertsInv
<1> QED BY <1>1, <1>5, <1>6, <1>7 DEF AlertsInv, alertVars

LEMMA SpacedStep == SpacedInv /\ [Next]_vars => SpacedInv'
<1> SUFFICES ASSUME SpacedInv, [Next]_vars, world' # "hasty" PROVE AlertsInv'
  BY TypedStep DEF SpacedInv
<1>1. world' = world
  BY DEF Next, Tick, SetClock, Stop, Finished, Ask, Sample, ReadStat, DiffTotal,
     DiffIdle, StoreTotal,
         StoreIdle, Loop, Top, Wake, Stamp, Decide, Conclude, Mark, Start, vars
<1>2. Typed /\ Typed' /\ AlertsInv /\ world # "hasty"
  BY <1>1, TypedStep DEF SpacedInv
<1>3. /\ tick \in Nat /\ forward \in Nat /\ back \in Nat
      /\ pc \in [Threads -> Points] /\ Loops \subseteq Threads /\ Askers \subseteq Threads
  BY <1>2, MonitorAssumption DEF Typed, TypeOK, Threads
<1>4. CASE Tick \/ SetClock
  <2>1. UNCHANGED <<alertVars, stamp, pc>>
    BY <1>4 DEF Tick, SetClock, locals
  <2>2. Since(Now, Now')
    BY <1>3, <1>4 DEF Tick, SetClock, Since, Now
  <2> QED BY <1>2, <2>1, <2>2, SpacedElsewhere
<1>5. CASE Stop \/ UNCHANGED vars
  <2>1. UNCHANGED <<clockVars, alertVars, stamp, pc>>
    BY <1>5 DEF Stop, vars, locals
  <2>2. Since(Now, Now')
    BY <1>3, <2>1 DEF clockVars, Since, Now
  <2> QED BY <1>2, <2>1, <2>2, SpacedElsewhere
<1>6. ASSUME NEW x \in Threads, Sample(x) \/ (x \in Askers /\ Ask(x))
                                \/ (x \in Loops /\ (Top(x) \/ Wake(x)))
      PROVE  AlertsInv'
  <2>1. UNCHANGED <<clockVars, alertVars, stamp>>
    BY <1>6 DEF Sample, ReadStat, DiffTotal, DiffIdle, StoreTotal, StoreIdle, Ask, Top,
       Wake, locals
  <2>2. PICK p \in Points \ {"stamped", "alerted"} : pc' = [pc EXCEPT ![x] = p]
    BY <1>6 DEF Sample, ReadStat, DiffTotal, DiffIdle, StoreTotal, StoreIdle, Ask, Top,
       Wake, Goto,
                Points
  <2>3. x \in Loops => pc[x] \notin {"none", "gone", "alerted"}
    BY <1>6, MonitorAssumption
       DEF Sample, ReadStat, DiffTotal, DiffIdle, StoreTotal, StoreIdle, Ask, Top, Wake
  <2>4. \A l \in Loops : l # x => pc'[l] = pc[l]
    BY <1>3, <2>2
  <2>5. pc'[x] \notin {"stamped", "alerted"}
    BY <1>3, <2>2
  <2>6. Since(Now, Now')
    BY <1>3, <2>1 DEF clockVars, Since, Now
  <2> QED BY <1>2, <2>1, <2>3, <2>4, <2>5, <2>6, SpacedElsewhere
<1>7. ASSUME NEW l \in Loops, Stamp(l) \/ Decide(l) \/ Mark(l) \/ Start(l)
      PROVE  AlertsInv'
  BY <1>2, <1>7, SpacedStamp, SpacedDecide, SpacedMark, SpacedStart
<1> QED BY <1>3, <1>4, <1>5, <1>6, <1>7 DEF Next, Loop, Finished

\* Two alerts are more than the cooldown apart in real seconds, but for what the
\* wall clock was set forward in between.
THEOREM AlertsKeepApart == Spec => []AlertsSpaced
<1>1. Init => SpacedInv
  BY SpacedInit
<1>2. SpacedInv /\ [Next]_vars => SpacedInv'
  BY SpacedStep
<1>3. SpacedInv => AlertsSpaced
  <2> SUFFICES ASSUME SpacedInv, world # "hasty",
                      NEW i \in DOMAIN alerts, NEW j \in DOMAIN alerts, i < j
               PROVE  (alerts[j].tick + alerts[j].forward)
                          - (alerts[i].tick + alerts[i].forward) > Cooldown
    BY DEF AlertsSpaced
  <2>1. alerts[i] \in Moments /\ alerts[j] \in Moments /\ Cooldown \in Nat
    BY MonitorAssumption DEF SpacedInv, Typed, TypeOK
  <2>2. /\ Since(alerts[i], alerts[j])
        /\ Wall(alerts[j]) - Wall(alerts[i]) > Cooldown
    BY DEF SpacedInv, AlertsInv
  <2> QED BY <2>1, <2>2 DEF Since, Wall, Moments
<1> QED BY <1>1, <1>2, <1>3, PTL DEF Spec

-----------------------------------------------------------------------------
(* Silence *)

\* The second of the last alert's sample.
Quiet == IF alerts = <<>> THEN 0 ELSE alerts[Len(alerts)].tick

\* Every sample since the last alert has a second of its own after it, and so has
\* the one the loop is about to take: it sleeps into the next second.
SilenceInv ==
    /\ alerts = <<>> => last = 0
    /\ silence <= Cooldown + back
    /\ silence <= tick - Quiet
    /\ \A l \in Loops : /\ pc[l] = "sleep" => silence <= since[l] - Quiet
                        /\ pc[l] \in {"wake", "read", "total", "diffed", "half", "stored"}
                              => silence < tick - Quiet
                        /\ pc[l] = "stamped" => silence < stamp[l].tick - Quiet

QuietInv == SpacedInv /\ (world # "hasty" => SilenceInv)

LEMMA QuietTyped ==
    ASSUME Typed, AlertsInv
    PROVE  /\ Quiet \in Nat /\ Quiet <= tick /\ tick \in Nat /\ silence \in Nat
           /\ back \in Nat /\ Cooldown \in Nat
           /\ \A l \in Loops : since[l] \in Nat /\ stamp[l] \in Moments
<1>1. /\ tick \in Nat /\ silence \in Nat /\ back \in Nat /\ Cooldown \in Nat
      /\ \A l \in Loops : since[l] \in Nat /\ stamp[l] \in Moments
      /\ alerts \in Seq(Moments)
  BY MonitorAssumption DEF Typed, TypeOK
<1>2. CASE alerts = <<>>
  BY <1>1, <1>2 DEF Quiet
<1>3. CASE alerts # <<>>
  <2>1. Len(alerts) \in DOMAIN alerts /\ alerts[Len(alerts)] \in Moments
    BY <1>1, <1>3
  <2>2. Since(alerts[Len(alerts)], Now)
    BY <2>1 DEF AlertsInv
  <2> QED BY <1>1, <1>3, <2>1, <2>2 DEF Quiet, Since, Now, Moments
<1> QED BY <1>1, <1>2, <1>3

LEMMA QuietInit == Init => QuietInv
<1> SUFFICES ASSUME Init PROVE SilenceInv
  BY SpacedInit DEF QuietInv
<1>1. /\ alerts = <<>> /\ last = 0 /\ silence = 0 /\ tick = 0 /\ back = 0
      /\ Cooldown \in Nat
  BY MonitorAssumption DEF Init
<1>2. \A l \in Loops : pc[l] \in {"none", "top"}
  BY MonitorAssumption DEF Init, Threads
<1> QED BY <1>1, <1>2 DEF SilenceInv, Quiet

LEMMA Longer == \A s, q, t, u \in Nat : t <= u /\ s < t - q => s < u - q
  OBVIOUS

\* What neither hears nor makes an alert, and brings no loop closer to one.
LEMMA QuietElsewhere ==
    ASSUME Typed, AlertsInv, SilenceInv, UNCHANGED <<alertVars, stamp, since>>,
           tick' \in Nat, tick' >= tick, back' \in Nat, back' >= back,
           \A l \in Loops : \/ pc'[l] = pc[l] \/ pc'[l] = "top"
                            \/ /\ pc[l] \in {"wake", "read", "total", "diffed", "half", "stored"}
                               /\ pc'[l] \in {"read", "total", "diffed", "half", "stored"}
    PROVE  SilenceInv'
<1>1. Quiet' = Quiet
  BY DEF Quiet, alertVars
<1>2. /\ alerts' = alerts /\ last' = last /\ silence' = silence
      /\ stamp' = stamp /\ since' = since
  BY DEF alertVars
<1>3. /\ alerts' = <<>> => last' = 0
      /\ silence' <= Cooldown + back' /\ silence' <= tick' - Quiet'
  BY <1>1, <1>2, QuietTyped DEF SilenceInv
<1>4. ASSUME NEW l \in Loops
      PROVE  /\ pc'[l] = "sleep" => silence' <= since'[l] - Quiet'
             /\ pc'[l] \in {"wake", "read", "total", "diffed", "half", "stored"}
                   => silence' < tick' - Quiet'
             /\ pc'[l] = "stamped" => silence' < stamp'[l].tick - Quiet'
  <2>1. /\ pc'[l] = "sleep" => pc[l] = "sleep"
        /\ pc'[l] = "stamped" => pc[l] = "stamped"
        /\ pc'[l] \in {"wake", "read", "total", "diffed", "half", "stored"}
              => pc[l] \in {"wake", "read", "total", "diffed", "half", "stored"}
    OBVIOUS
  <2>2. pc'[l] \in {"wake", "read", "total", "diffed", "half", "stored"}
           => silence < tick - Quiet
    BY <2>1 DEF SilenceInv
  <2>3. /\ Quiet \in Nat /\ silence \in Nat /\ tick \in Nat /\ tick' \in Nat
        /\ tick <= tick' /\ silence' = silence /\ Quiet' = Quiet
    BY <1>1, <1>2, QuietTyped
  <2>4. /\ pc'[l] = "sleep" => silence' <= since'[l] - Quiet'
        /\ pc'[l] = "stamped" => silence' < stamp'[l].tick - Quiet'
    BY <1>1, <1>2, <2>1 DEF SilenceInv
  <2>5. silence < tick - Quiet => silence' < tick' - Quiet'
    BY <2>3, Longer
  <2> QED BY <2>2, <2>4, <2>5
<1> QED BY <1>3, <1>4 DEF SilenceInv

\* To sleep, out of it, and the moment of the sample.
LEMMA QuietRound ==
    ASSUME Typed, AlertsInv, SilenceInv, NEW l \in Loops,
           Top(l) \/ Wake(l) \/ Stamp(l) \/ Mark(l)
    PROVE  SilenceInv'
<1>1. /\ UNCHANGED <<alerts, silence, tick, back>> /\ Quiet' = Quiet
      /\ Now' = Now
  BY DEF Top, Wake, Stamp, Mark, clockVars, alertVars, Quiet, Now
<1>2. /\ pc \in [Threads -> Points] /\ l \in Threads /\ Loops \subseteq Threads
      /\ since \in [Loops -> 0..tick] /\ stamp \in [Loops -> Moments]
  BY DEF Typed, TypeOK, Threads
<1>3. \A k \in Loops \ {l} : pc'[k] = pc[k] /\ since'[k] = since[k] /\ stamp'[k] = stamp[k]
  BY <1>2 DEF Top, Wake, Stamp, Mark, Goto, locals
<1>4. alerts' = <<>> => last' = 0
  <2>1. CASE Mark(l)
    BY <1>1, <2>1 DEF Mark, AlertsInv
  <2>2. CASE Top(l) \/ Wake(l) \/ Stamp(l)
    BY <2>2 DEF Top, Wake, Stamp, alertVars, SilenceInv
  <2> QED BY <2>1, <2>2
<1>5. /\ pc'[l] = "sleep" => silence <= since'[l] - Quiet
      /\ pc'[l] \in {"wake", "read", "total", "diffed", "half", "stored"}
            => silence < tick - Quiet
      /\ pc'[l] = "stamped" => silence < stamp'[l].tick - Quiet
  <2>1. CASE Top(l)
    BY <1>2, <2>1, QuietTyped DEF Top, Goto, SilenceInv
  <2>2. CASE Wake(l)
    <3>1. pc'[l] = "wake" /\ pc[l] = "sleep" /\ tick > since[l]
      BY <1>2, <2>2 DEF Wake, Goto
    <3>2. silence <= since[l] - Quiet
      BY <3>1 DEF SilenceInv
    <3> QED BY <3>1, <3>2, QuietTyped
  <2>3. CASE Stamp(l)
    <3>1. pc'[l] = "stamped" /\ pc[l] = "stored" /\ stamp'[l].tick = tick
      BY <1>2, <2>3 DEF Stamp, Goto, Now
    <3> QED BY <3>1 DEF SilenceInv
  <2>4. CASE Mark(l)
    BY <1>2, <2>4 DEF Mark, Goto
  <2> QED BY <2>1, <2>2, <2>3, <2>4
<1>6. \A k \in Loops \ {l} :
         /\ pc'[k] = "sleep" => silence <= since'[k] - Quiet
         /\ pc'[k] \in {"wake", "read", "total", "diffed", "half", "stored"}
               => silence < tick - Quiet
         /\ pc'[k] = "stamped" => silence < stamp'[k].tick - Quiet
  BY <1>3 DEF SilenceInv
<1> QED BY <1>1, <1>4, <1>5, <1>6 DEF SilenceInv

\* The wall clock keeps up with the seconds, but for what it was set back.
LEMMA WallApart ==
    ASSUME NEW m \in Moments, NEW n \in Moments, m.forward <= n.forward,
           Cooldown \in Nat, Wall(n) - Wall(m) <= Cooldown
    PROVE  n.tick - m.tick <= Cooldown + n.back
<1> DEFINE mt == m.tick
           mf == m.forward
           mb == m.back
           nt == n.tick
           nf == n.forward
           nb == n.back
<1>1. /\ mt \in Nat /\ mf \in Nat /\ mb \in Nat
      /\ nt \in Nat /\ nf \in Nat /\ nb \in Nat /\ mf <= nf
  BY DEF Moments
<1>2. (Cooldown + 1 + nt + nf - nb) - (Cooldown + 1 + mt + mf - mb) <= Cooldown
  BY DEF Wall
<1> HIDE DEF mt, mf, mb, nt, nf, nb
<1>3. nt - mt <= Cooldown + nb
  BY <1>1, <1>2
<1> QED BY <1>3 DEF mt, nt, nb

\* While the cooldown lasts, no more seconds went by than it has, but for what the
\* clock was set back.
LEMMA NotDueYet ==
    ASSUME Typed, AlertsInv, SilenceInv, NEW l \in Loops, pc[l] = "stamped", ~Due(l)
    PROVE  stamp[l].tick - Quiet <= Cooldown + back
<1>1. /\ stamp[l] \in Moments /\ Since(stamp[l], Now) /\ alerts \in Seq(Moments)
      /\ Cooldown \in Nat /\ back \in Nat /\ last \in Int
  BY QuietTyped DEF AlertsInv, Typed, TypeOK
<1>2. stamp[l].back <= back
  BY <1>1 DEF Since, Now
<1>3. Wall(stamp[l]) - last <= Cooldown
  <2>1. Wall(stamp[l]) \in Int
    BY <1>1 DEF Wall, Moments
  <2> QED BY <1>1, <2>1 DEF Due
<1>4. CASE alerts = <<>>
  BY <1>1, <1>2, <1>3, <1>4 DEF SilenceInv, Wall, Moments, Quiet
<1>5. CASE alerts # <<>>
  <2> DEFINE a == alerts[Len(alerts)]
  <2>1. Len(alerts) \in DOMAIN alerts /\ a \in Moments
    BY <1>1, <1>5
  <2>2. last = Wall(a)
    BY <1>5 DEF AlertsInv, Alive
  <2>3. Since(a, stamp[l])
    BY <2>1 DEF AlertsInv
  <2>4. Quiet = a.tick
    BY <1>5 DEF Quiet
  <2>5. /\ Wall(stamp[l]) = Cooldown + 1 + stamp[l].tick + stamp[l].forward - stamp[l].back
        /\ Wall(a) = Cooldown + 1 + a.tick + a.forward - a.back
    BY DEF Wall
  <2>6. /\ stamp[l].tick \in Nat /\ stamp[l].forward \in Nat /\ stamp[l].back \in Nat
        /\ a.tick \in Nat /\ a.forward \in Nat /\ a.back \in Nat
    BY <1>1, <2>1 DEF Moments
  <2>7. a.forward <= stamp[l].forward
    BY <2>3 DEF Since
  <2>8. Wall(stamp[l]) - Wall(a) <= Cooldown
    BY <1>3, <2>2
  <2>9. stamp[l].tick - a.tick <= Cooldown + stamp[l].back
    BY <1>1, <2>1, <2>7, <2>8, WallApart
  <2> HIDE DEF a
  <2> QED BY <1>1, <1>2, <2>4, <2>6, <2>9
<1> QED BY <1>4, <1>5

LEMMA QuietDecide ==
    ASSUME Typed, AlertsInv, SilenceInv, NEW l \in Loops, Decide(l)
    PROVE  SilenceInv'
<1>1. /\ pc[l] = "stamped" /\ UNCHANGED <<tick, back, last, since>>
      /\ silence < stamp[l].tick - Quiet
      /\ pc \in [Threads -> Points] /\ l \in Threads /\ Loops \subseteq Threads
      /\ alerts \in Seq(Moments) /\ stamp \in [Loops -> Moments]
  BY DEF Decide, Conclude, clockVars, SilenceInv, Typed, TypeOK, Threads
<1>2. stamp[l].tick <= tick /\ stamp[l].tick \in Nat
  BY <1>1 DEF AlertsInv, Since, Now, Moments
<1>3. \A k \in Loops \ {l} : pc'[k] = pc[k] /\ stamp'[k] = stamp[k]
                             /\ pc'[k] \in {"none", "gone"}
  BY <1>1 DEF Decide, Conclude, Goto, AlertsInv, Alive
<1>4. pc'[l] \in {"top", "alerted"}
  BY <1>1 DEF Decide, Conclude, Goto
<1>5. CASE Hot(cpu[l]) /\ Due(l)
  <2>1. silence' = 0 /\ alerts' = Append(alerts, stamp[l])
    BY <1>5 DEF Decide, Conclude
  <2>2. Quiet' = stamp[l].tick /\ alerts' # <<>>
    BY <1>1, <2>1 DEF Quiet
  <2>3. silence' <= Cooldown + back /\ silence' <= tick - Quiet'
    BY <1>2, <2>1, <2>2, QuietTyped
  <2> QED BY <1>1, <1>3, <1>4, <2>2, <2>3 DEF SilenceInv
<1>6. CASE ~(Hot(cpu[l]) /\ Due(l))
  <2>1. alerts' = alerts /\ Quiet' = Quiet
    BY <1>6 DEF Decide, Conclude, Quiet
  <2>2. silence' = IF Hot(cpu[l]) THEN silence + 1 ELSE silence
    BY <1>6 DEF Decide, Conclude
  <2>3. CASE Hot(cpu[l])
    <3>1. stamp[l].tick - Quiet <= Cooldown + back
      BY <1>1, <1>6, <2>3, NotDueYet
    <3>2. silence' <= stamp[l].tick - Quiet /\ silence' = silence + 1
      BY <1>1, <1>2, <2>2, <2>3, QuietTyped
    <3>3. silence' <= Cooldown + back /\ silence' <= tick - Quiet'
      BY <1>2, <2>1, <3>1, <3>2, QuietTyped
    <3> QED BY <1>1, <1>3, <1>4, <2>1, <3>3 DEF SilenceInv
  <2>4. CASE ~Hot(cpu[l])
    BY <1>1, <1>3, <1>4, <2>1, <2>2, <2>4 DEF SilenceInv
  <2> QED BY <2>3, <2>4
<1> QED BY <1>5, <1>6

LEMMA QuietStep == QuietInv /\ [Next]_vars => QuietInv'
<1> SUFFICES ASSUME QuietInv, [Next]_vars, world' # "hasty" PROVE SilenceInv'
  BY SpacedStep DEF QuietInv
<1>1. world' = world
  BY DEF Next, Tick, SetClock, Stop, Finished, Ask, Sample, ReadStat, DiffTotal,
     DiffIdle, StoreTotal,
         StoreIdle, Loop, Top, Wake, Stamp, Decide, Conclude, Mark, Start, vars
<1>2. Typed /\ AlertsInv /\ SilenceInv
  BY <1>1 DEF QuietInv, SpacedInv
<1>3. /\ tick \in Nat /\ back \in Nat /\ forward \in Nat
      /\ pc \in [Threads -> Points] /\ Loops \subseteq Threads /\ Askers \subseteq Threads
  BY <1>2, MonitorAssumption DEF Typed, TypeOK, Threads
<1>4. CASE Tick \/ SetClock \/ Stop \/ UNCHANGED vars
  <2>1. /\ UNCHANGED <<alertVars, stamp, since, pc>>
        /\ tick' \in Nat /\ tick' >= tick /\ back' \in Nat /\ back' >= back
    BY <1>3, <1>4 DEF Tick, SetClock, Stop, vars, locals, clockVars
  <2> QED BY <1>2, <2>1, QuietElsewhere
<1>5. ASSUME NEW x \in Threads, Sample(x) \/ (x \in Askers /\ Ask(x))
                                \/ (x \in Loops /\ Start(x))
      PROVE  SilenceInv'
  <2>1. /\ UNCHANGED <<alertVars, stamp, since, clockVars>>
        /\ tick' \in Nat /\ tick' >= tick /\ back' \in Nat /\ back' >= back
    BY <1>3, <1>5 DEF Sample, ReadStat, DiffTotal, DiffIdle, StoreTotal, StoreIdle,
       Ask, Start, locals,
                      Forget, clockVars
  <2>2. \A l \in Loops : l # x => pc'[l] = pc[l]
    BY <1>3, <1>5 DEF Sample, ReadStat, DiffTotal, DiffIdle, StoreTotal, StoreIdle,
       Ask, Start, Goto
  <2>3. x \in Loops =>
            \/ pc'[x] = "top"
            \/ /\ pc[x] \in {"wake", "read", "total", "diffed", "half", "stored"}
               /\ pc'[x] \in {"read", "total", "diffed", "half", "stored"}
    BY <1>3, <1>5, MonitorAssumption
       DEF Sample, ReadStat, DiffTotal, DiffIdle, StoreTotal, StoreIdle, Ask, Start, Goto
  <2> QED BY <1>2, <2>1, <2>2, <2>3, QuietElsewhere
<1>6. ASSUME NEW l \in Loops, Top(l) \/ Wake(l) \/ Stamp(l) \/ Decide(l) \/ Mark(l)
      PROVE  SilenceInv'
  BY <1>2, <1>6, QuietRound, QuietDecide
<1> QED BY <1>3, <1>4, <1>5, <1>6 DEF Next, Loop, Finished

\* A load over 90% is not kept silent for longer than the cooldown, but for what
\* the wall clock was set back: whichever loop takes the samples.
THEOREM LoadIsNotKeptSilent == Spec => []SilenceBounded
<1>1. Init => QuietInv
  BY QuietInit
<1>2. QuietInv /\ [Next]_vars => QuietInv'
  BY QuietStep
<1>3. QuietInv => SilenceBounded
  BY DEF QuietInv, SilenceInv, SilenceBounded
<1> QED BY <1>1, <1>2, <1>3, PTL DEF Spec
=============================================================================
