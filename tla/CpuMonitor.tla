----------------------------- MODULE CpuMonitor ----------------------------
(***************************************************************************)
(* CPU load and its alerts: getStats and cpu_monitor of server/main.cpp    *)
(* with the requests that sample too (/stats, /system/health-check), and   *)
(* Stats::Monitor of the modular build with Start and Stop                 *)
(* (server/stats/StatsMonitor.cpp, GetSystemStats of                       *)
(* server/platform/PlatformAbstraction.cpp).  Both builds run one loop and *)
(* one sampler; they differ in who else calls what, which is the world:    *)
(*   "monolith"  one loop that never ends, and requests that sample        *)
(*   "patient"   Start and Stop, Start again only when no loop is left     *)
(*   "hasty"     Start and Stop in any order                               *)
(* Time is in seconds.  A second's load is 0 or 1, so curve[t + 1] is the  *)
(* idle time /proc/stat shows at second t.                                 *)
(***************************************************************************)
EXTENDS Integers, Sequences, FiniteSets

CONSTANTS Loops,      \* threads Start may create
          Askers,     \* requests that sample
          Worlds,
          Cooldown,   \* alert_cooldown, 60 in the code
          MaxTicks,   \* bound: seconds
          MaxShift    \* bound: seconds by which the wall clock is set, in all

ASSUME MonitorAssumption ==
    /\ Loops \intersect Askers = {}
    /\ Worlds \subseteq {"monolith", "patient", "hasty"}
    /\ {Cooldown, MaxTicks, MaxShift} \subseteq Nat

VARIABLES
  world,
  tick,       \* seconds since the server started
  curve,      \* idle time at each second so far
  forward,    \* how far the wall clock was set forward
  back,       \* how far it was set back
  running,    \* running_
  last,       \* last_alert_time
  lastTotal,  \* static of getStats
  lastIdle,   \* static of getStats
  pc,         \* what each thread does next
  since,      \* when a loop went to sleep
  read,       \* the second at which a thread read /proc/stat
  cpu,        \* [num, den]: what it made of it, in parts instead of percent
  stamp,      \* the moment a loop had its sample
  alerts,     \* history: the moment of each alert's sample
  silence,    \* history: samples over 90% since the last alert
  mixed,      \* history: samples another one overlapped
  crossed     \* history: no sample has been alone since two overlapped

clockVars == <<tick, curve, forward, back>>
statVars == <<lastTotal, lastIdle, mixed, crossed>>
alertVars == <<last, alerts, silence>>
locals == <<since, read, cpu, stamp>>
vars == <<world, clockVars, running, statVars, alertVars, pc, locals>>

Threads == Loops \union Askers
Alive == {l \in Loops : pc[l] \notin {"none", "gone"}}
Sampling == {x \in Threads : pc[x] \in {"read", "total", "diffed", "half"}}

\* A moment, and the wall clock's seconds since the epoch at that moment; the
\* server starts long enough after the epoch for a first alert.
Now == [tick |-> tick, forward |-> forward, back |-> back]
Wall(m) == Cooldown + 1 + m.tick + m.forward - m.back

\* cpu_usage > 90: the division turns the comparison if the divisor is negative.
Hot(c) == \/ c.den > 0 /\ 10 * c.num > 9 * c.den
          \/ c.den < 0 /\ 10 * c.num < 9 * c.den

NoLoad == [num |-> 0, den |-> 0]
Never == [tick |-> 0, forward |-> 0, back |-> 0]

Init == /\ world \in Worlds
        /\ tick = 0 /\ curve = <<0>> /\ forward = 0 /\ back = 0
        /\ running = (world = "monolith")
        /\ last = 0 /\ lastTotal = 0 /\ lastIdle = 0
        /\ \E l \in Loops :
             pc = [x \in Threads |-> IF x \in Askers THEN "idle"
                                     ELSE IF x = l /\ running THEN "top" ELSE "none"]
        /\ since = [l \in Loops |-> 0]
        /\ read = [x \in Threads |-> 0]
        /\ cpu = [x \in Threads |-> NoLoad]
        /\ stamp = [l \in Loops |-> Never]
        /\ alerts = <<>> /\ silence = 0
        /\ mixed = {} /\ crossed = FALSE

Goto(x, p) == pc' = [pc EXCEPT ![x] = p]

-----------------------------------------------------------------------------
(* The clocks *)

Tick == /\ tick < MaxTicks
        /\ tick' = tick + 1
        /\ \E load \in {0, 1} :
             curve' = Append(curve, curve[tick + 1] + 1 - load)
        /\ UNCHANGED <<world, forward, back, running, statVars, alertVars, pc,
                       locals>>

\* Not in the hasty world, of which no property about alerts is stated.
SetClock == /\ world # "hasty"
            /\ forward + back < MaxShift
            /\ \/ forward' = forward + 1 /\ UNCHANGED back
               \/ back' = back + 1 /\ UNCHANGED forward
            /\ UNCHANGED <<world, tick, curve, running, statVars, alertVars, pc,
                           locals>>

-----------------------------------------------------------------------------
(* getStats: no lock, and the statics are stored one after the other *)

ReadStat(x) ==
    /\ pc[x] = "wake"
    /\ Goto(x, "read")
    /\ read' = [read EXCEPT ![x] = tick]
    /\ mixed' = IF Sampling = {} THEN mixed \ {x} ELSE mixed \union Sampling \union {x}
    /\ UNCHANGED <<world, clockVars, running, lastTotal, lastIdle, crossed,
                   alertVars, since, cpu, stamp>>

\* totald, and then idled: the statics are read one after the other too.
DiffTotal(x) ==
    /\ pc[x] = "read"
    /\ Goto(x, "total")
    /\ cpu' = [cpu EXCEPT ![x] = [num |-> 0, den |-> read[x] - lastTotal]]
    /\ UNCHANGED <<world, clockVars, running, statVars, alertVars, since, read,
                   stamp>>

DiffIdle(x) ==
    /\ pc[x] = "total"
    /\ Goto(x, "diffed")
    /\ LET totald == cpu[x].den
           idled == curve[read[x] + 1] - lastIdle
       IN cpu' = [cpu EXCEPT ![x] = [num |-> IF totald = 0 THEN 0 ELSE totald - idled,
                                     den |-> totald]]
    /\ UNCHANGED <<world, clockVars, running, statVars, alertVars, since, read,
                   stamp>>

StoreTotal(x) ==
    /\ pc[x] = "diffed"
    /\ Goto(x, "half")
    /\ lastTotal' = read[x]
    /\ UNCHANGED <<world, clockVars, running, lastIdle, mixed, crossed,
                   alertVars, locals>>

\* A request's load is sent and a loop's kept; the rest is no longer needed.
Forget(x) == /\ read' = [read EXCEPT ![x] = 0]
             /\ cpu' = IF x \in Loops THEN cpu ELSE [cpu EXCEPT ![x] = NoLoad]
             /\ mixed' = mixed \ {x}

\* The second static is forgotten (a mutant).
StoreNoIdle(x) ==
    /\ pc[x] = "half"
    /\ Goto(x, IF x \in Loops THEN "stored" ELSE "answered")
    /\ crossed' = (x \in mixed)
    /\ Forget(x)
    /\ UNCHANGED <<world, clockVars, running, lastTotal, lastIdle, alertVars,
                   since, stamp>>

StoreIdle(x) ==
    /\ pc[x] = "half"
    /\ Goto(x, IF x \in Loops THEN "stored" ELSE "answered")
    /\ lastIdle' = curve[read[x] + 1]
    /\ crossed' = (x \in mixed)
    /\ Forget(x)
    /\ UNCHANGED <<world, clockVars, running, lastTotal, alertVars, since,
                   stamp>>

\* /stats, and the cpu part of /system/health-check, on a thread of its own.
Ask(x) == /\ world = "monolith"
          /\ x \in Askers
          /\ pc[x] = "idle"
          /\ Goto(x, "wake")
          /\ UNCHANGED <<world, clockVars, running, statVars, alertVars, locals>>

-----------------------------------------------------------------------------
(* cpu_monitor, MonitorLoop *)

\* The loop looks at nothing but its own condition of the first time (a mutant).
TopForEver(l) == /\ pc[l] = "top"
                 /\ Goto(l, "sleep")
                 /\ since' = [since EXCEPT ![l] = tick]
                 /\ UNCHANGED <<world, clockVars, running, statVars, alertVars,
                                read, cpu, stamp>>

\* Where time ends, a loop that runs does not go to sleep again.
Top(l) == /\ pc[l] = "top"
          /\ running => tick < MaxTicks
          /\ Goto(l, IF running THEN "sleep" ELSE "gone")
          /\ since' = [since EXCEPT ![l] = IF running THEN tick ELSE 0]
          /\ UNCHANGED <<world, clockVars, running, statVars, alertVars, read,
                         cpu, stamp>>

\* sleep_for takes a second or more, by a clock that is not set.
Wake(l) == /\ pc[l] = "sleep"
           /\ tick > since[l]
           /\ Goto(l, "wake")
           /\ since' = [since EXCEPT ![l] = 0]
           /\ UNCHANGED <<world, clockVars, running, statVars, alertVars, read,
                          cpu, stamp>>

\* The time of the sample; then the stats_update is published.
Stamp(l) == /\ pc[l] = "stored"
            /\ Goto(l, "stamped")
            /\ stamp' = [stamp EXCEPT ![l] = Now]
            /\ UNCHANGED <<world, clockVars, running, statVars, alertVars, since,
                           read, cpu>>

Due(l) == Wall(stamp[l]) - last > Cooldown

\* An alert is published or not, and the cooldown starts or not.
Conclude(l, alert, mark) ==
    /\ Goto(l, IF mark THEN "alerted" ELSE "top")
    /\ alerts' = IF alert THEN Append(alerts, stamp[l]) ELSE alerts
    /\ silence' = IF alert THEN 0
                  ELSE IF Hot(cpu[l]) THEN silence + 1 ELSE silence
    /\ cpu' = [cpu EXCEPT ![l] = NoLoad]
    /\ stamp' = IF mark THEN stamp ELSE [stamp EXCEPT ![l] = Never]
    /\ UNCHANGED <<world, clockVars, running, statVars, last, since, read>>

\* The cooldown starts again with every sample over 90% (a mutant).
DecideRestarting(l) == /\ pc[l] = "stamped"
                       /\ Conclude(l, Hot(cpu[l]) /\ Due(l), Hot(cpu[l]))

Decide(l) == /\ pc[l] = "stamped"
             /\ LET alert == Hot(cpu[l]) /\ Due(l) IN Conclude(l, alert, alert)

\* last_alert_time is set once the alert is out.
Mark(l) == /\ pc[l] = "alerted"
           /\ Goto(l, "top")
           /\ last' = Wall(stamp[l])
           /\ stamp' = [stamp EXCEPT ![l] = Never]
           /\ UNCHANGED <<world, clockVars, running, statVars, alerts, silence,
                          since, read, cpu>>

-----------------------------------------------------------------------------
(* Stats::Monitor *)

Caller(l) == /\ world # "monolith"
             /\ world = "patient" => running \/ Alive = {}
             /\ pc[l] = "none"

\* A new loop knows nothing of the last alert (a mutant).
StartForgets(l) == /\ Caller(l)
                   /\ ~running
                   /\ running' = TRUE
                   /\ Goto(l, "top")
                   /\ last' = 0
                   /\ UNCHANGED <<world, clockVars, statVars, alerts, silence,
                                  locals>>

Start(l) == /\ Caller(l)
            /\ ~running
            /\ running' = TRUE
            /\ Goto(l, "top")
            /\ UNCHANGED <<world, clockVars, statVars, alertVars, locals>>

Stop == /\ world # "monolith"
        /\ running
        /\ running' = FALSE
        /\ UNCHANGED <<world, clockVars, statVars, alertVars, pc, locals>>

-----------------------------------------------------------------------------
Sample(x) == \/ ReadStat(x) \/ DiffTotal(x) \/ DiffIdle(x)
             \/ StoreTotal(x) \/ StoreIdle(x)

Loop(l) == Top(l) \/ Wake(l) \/ Sample(l) \/ Stamp(l) \/ Decide(l) \/ Mark(l)

\* Time is over: requests are answered, loops are gone or would sleep.
Finished == /\ tick = MaxTicks
            /\ \A x \in Threads : pc[x] \in {"none", "idle", "top", "gone", "answered"}
            /\ UNCHANGED vars

Next == \/ Tick \/ SetClock \/ Stop \/ Finished
        \/ \E x \in Askers : Ask(x) \/ Sample(x)
        \/ \E l \in Loops : Loop(l) \/ Start(l)

\* Time goes on, and so does a thread that is not asleep.
Fairness == /\ WF_vars(Tick)
            /\ \A l \in Loops : WF_vars(Loop(l))

Spec == Init /\ [][Next]_vars /\ Fairness

-----------------------------------------------------------------------------
(* Properties *)

Points == {"none", "idle", "top", "sleep", "wake", "read", "total", "diffed",
           "half", "stored", "answered", "stamped", "alerted", "gone"}
Moments == [tick : Nat, forward : Nat, back : Nat]

\* Every variable has its type, and no thread or static is ahead of its time.
TypeOK == /\ world \in Worlds
          /\ tick \in 0..MaxTicks
          /\ curve \in Seq(0..MaxTicks) /\ Len(curve) = tick + 1
          /\ {forward, back} \subseteq 0..MaxShift
          /\ running \in BOOLEAN
          /\ last \in Int
          /\ {lastTotal, lastIdle} \subseteq 0..tick
          /\ pc \in [Threads -> Points]
          /\ read \in [Threads -> 0..tick] /\ since \in [Loops -> 0..tick]
          /\ cpu \in [Threads -> [num : Int, den : Int]]
          /\ stamp \in [Loops -> Moments]
          /\ alerts \in Seq(Moments)
          /\ silence \in Nat
          /\ mixed \subseteq Threads /\ crossed \in BOOLEAN

\* A sample no other overlapped, taken after one that none overlapped, is the
\* load of a stretch of time that ends with it: a mess two samples make of the
\* statics lasts until the next one that is alone, and no longer.
HonestCpu ==
    \A x \in Threads :
        pc[x] \in {"diffed", "half"} /\ x \notin mixed /\ ~crossed =>
            \E a \in 0..read[x] :
                cpu[x] = [den |-> read[x] - a,
                          num |-> read[x] - a - (curve[read[x] + 1] - curve[a + 1])]

\* The samples that raise two alerts are more than the cooldown apart in real
\* seconds, but for what the clock was set forward in between; also across Stop
\* and Start, when the loop before was left to end.
AlertsSpaced ==
    world # "hasty" =>
        \A i, j \in DOMAIN alerts : i < j =>
            (alerts[j].tick + alerts[j].forward)
                - (alerts[i].tick + alerts[i].forward) > Cooldown

\* A load over 90% is not kept silent for longer than the cooldown, but for
\* what the clock was set back.
SilenceBounded == world # "hasty" => silence <= Cooldown + back

\* After Stop every loop ends, unless Start comes first.
StopStops == ~running ~> running \/ Alive = {}

=============================================================================
