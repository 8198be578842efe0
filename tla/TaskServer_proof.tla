-------------------------- MODULE TaskServer_proof --------------------------
(***************************************************************************)
(* Proofs about the task service of server/main.cpp, for any number of     *)
(* connections, tasks and lines of output.                                 *)
(***************************************************************************)
EXTENDS TaskServer, FiniteSetTheorems, TLAPS

-----------------------------------------------------------------------------
(* Type correctness *)

\* A runTask thread works on an entry of the map: the reference it was given
\* is to a Task that is stored (nothing is ever erased), and the connection
\* that started it is past its critical section.
ThreadHasTask ==
    \A h \in Handlers : thr[h] # "none" => /\ id[h] \in DOMAIN tasks
                                           /\ conn[h] \in {"reply", "done",
                                                           "aborted"}

Typed == TypeOK /\ ThreadHasTask

LEMMA TypedInit == Init => Typed
<1> SUFFICES ASSUME Init PROVE Typed
  OBVIOUS
<1>1. Whole(0) \in Copy
  BY DEF Whole, Copy
<1>2. copy \in [Handlers -> Copy]
  BY <1>1 DEF Init
<1>3. req \in [Handlers -> Request]
  BY DEF Init, NoRequest, Request, Commands
<1>4. tasks \in [DOMAIN tasks -> Task] /\ DOMAIN tasks \subseteq Nat
  BY DEF Init
<1>5. /\ counter \in Nat /\ up \in BOOLEAN /\ clash \in BOOLEAN
      /\ lock = NoOne
  BY DEF Init
<1>7. log \in Seq(Event)
  <2>1. log = <<>>
    BY DEF Init
  <2> QED BY <2>1
<1>6. /\ conn \in [Handlers -> ConnStates]
      /\ tmp \in [Handlers -> Nat] /\ id \in [Handlers -> Nat]
      /\ thr \in [Handlers -> ThreadStates]
      /\ ran \in [Handlers -> Handlers \union {NoOne}]
      /\ shell \in [Handlers -> {"none", "alive", "ended"}]
      /\ pkill \in [Handlers -> {"none", "pending", "over"}]
      /\ \A h \in Handlers : thr[h] = "none"
  BY DEF Init, ConnStates, ThreadStates
<1> QED BY <1>2, <1>3, <1>4, <1>5, <1>6, <1>7
        DEF Typed, TypeOK, ThreadHasTask

\* The connection threads: one step per action of handle_client.
LEMMA TypedConnection ==
    ASSUME Typed, NEW h \in Handlers, Accept(h) \/ Connection(h)
    PROVE  Typed'
<1> USE DEF Typed, TypeOK, ThreadHasTask, connVars, runVars, Goto
<1>1. CASE Accept(h)
  <2>1. req' = req \/ \E r \in Offered : req' = [req EXCEPT ![h] = r]
    BY <1>1 DEF Accept
  <2>4. req' \in [Handlers -> Request]
    BY <2>1, TaskAssumption
  <2>2. \E pc \in {"aborted", "load", "wait"} :
           conn' = [conn EXCEPT ![h] = pc]
    BY <1>1 DEF Accept
  <2>3. /\ conn' \in [Handlers -> ConnStates]
        /\ \A g \in Handlers : g # h => conn'[g] = conn[g]
    BY <2>2 DEF ConnStates
  <2>5. /\ conn[h] = "free"
        /\ UNCHANGED <<up, counter, tasks, lock, tmp, id, copy, clash, thr,
                       ran, shell, pkill, log>>
    BY <1>1 DEF Accept
  <2>6. ThreadHasTask'
    BY <2>3, <2>5
  <2> QED BY <2>3, <2>4, <2>5, <2>6
<1>2. CASE Load(h)
  BY <1>2 DEF Load, ConnStates
<1>3. CASE Store(h)
  BY <1>3 DEF Store, ConnStates
<1>4. CASE Reload(h)
  BY <1>4 DEF Reload, ConnStates
<1>5. CASE Insert(h)
  <2> DEFINE t == [by |-> h, running |-> TRUE, out |-> 0]
  <2>1. t \in Task
    BY DEF Task
  <2>2. /\ DOMAIN tasks' = DOMAIN tasks \union {id[h]}
        /\ tasks' \in [DOMAIN tasks' -> Task]
    <3>1. tasks' = Put(tasks, id[h], t) /\ id[h] \in Nat
      BY <1>5 DEF Insert
    <3> QED BY <2>1, <3>1 DEF Put
  <2>3. ThreadHasTask'
    BY <1>5, <2>2 DEF Insert, ThreadStates
  <2>4. DOMAIN tasks' \subseteq Nat
    BY <2>2
  <2> QED BY <1>5, <2>2, <2>3, <2>4 DEF Insert, ConnStates, ThreadStates
<1>6. CASE ReplyExec(h)
  BY <1>6 DEF ReplyExec, ConnStates
<1>7. CASE ListTasks(h)
  BY <1>7 DEF ListTasks, TakeLock, ConnStates
<1>8. CASE ReadLogs(h)
  <2>1. copy' \in [Handlers -> Copy]
    <3>1. req[h].about \in DOMAIN tasks => tasks[req[h].about].out \in Nat
      BY DEF Task
    <3>2. PICK c \in Copy : copy' = [copy EXCEPT ![h] = c] \/ copy' = copy
      BY <1>8, <3>1 DEF ReadLogs, Copy, Whole
    <3> QED BY <3>2
  <2> QED BY <1>8, <2>1 DEF ReadLogs, TakeLock, ConnStates
<1>9. CASE KillTask(h)
  BY <1>9 DEF KillTask, TakeLock, ConnStates
<1>10. CASE SendLocked(h)
  BY <1>10 DEF SendLocked, ConnStates
<1> QED BY <1>1, <1>2, <1>3, <1>4, <1>5, <1>6, <1>7, <1>8, <1>9, <1>10
        DEF Connection

\* runTask's assignments to its Task leave a map of Tasks.
LEMMA SetRunningType ==
    ASSUME Typed, NEW h \in Handlers, NEW b \in BOOLEAN, SetRunning(h, b)
    PROVE  /\ DOMAIN tasks' = DOMAIN tasks
           /\ tasks' \in [DOMAIN tasks -> Task]
<1> DEFINE t == [tasks[id[h]] EXCEPT !.running = b]
<1>1. tasks' = [tasks EXCEPT ![id[h]] = t]
  BY DEF SetRunning
<1>2. id[h] \in DOMAIN tasks => t \in Task
  BY DEF Typed, TypeOK, Task
<1> QED BY <1>1, <1>2 DEF Typed, TypeOK

LEMMA AppendType ==
    ASSUME Typed, NEW h \in Handlers,
           tasks' = [tasks EXCEPT ![id[h]].out = @ + 1]
    PROVE  /\ DOMAIN tasks' = DOMAIN tasks
           /\ tasks' \in [DOMAIN tasks -> Task]
<1> DEFINE t == [tasks[id[h]] EXCEPT !.out = tasks[id[h]].out + 1]
<1>1. tasks' = [tasks EXCEPT ![id[h]] = t]
  OBVIOUS
<1>2. ASSUME id[h] \in DOMAIN tasks PROVE t \in Task
  <2>1. tasks[id[h]] \in Task
    BY <1>2 DEF Typed, TypeOK
  <2>2. t = [by |-> tasks[id[h]].by, running |-> tasks[id[h]].running,
             out |-> tasks[id[h]].out + 1]
    BY <2>1 DEF Task
  <2>3. tasks[id[h]].by \in Handlers /\ tasks[id[h]].running \in BOOLEAN
        /\ tasks[id[h]].out + 1 \in Nat
    BY <2>1 DEF Task
  <2> QED BY <2>2, <2>3 DEF Task
<1> QED BY <1>1, <1>2 DEF Typed, TypeOK

\* A broadcast appends an event.
LEMMA PublishType ==
    ASSUME Typed, NEW h \in Handlers,
           NEW type \in {"start", "output", "dir_change", "complete"},
           Publish(h, type)
    PROVE  log' \in Seq(Event)
  BY DEF Typed, TypeOK, Publish, Event

\* The task threads: one step per action of runTask.
LEMMA TypedThread ==
    ASSUME Typed, NEW h \in Handlers,
           TaskThread(h) \/ ShellExits(h) \/ Pkill(h)
    PROVE  Typed'
<1> USE DEF Typed, TypeOK, ThreadHasTask, connVars, Step
<1>1. CASE Begin(h)
  BY <1>1 DEF Begin, ThreadStates, Task
<1>2. CASE ChangeDir(h)
  BY <1>2, SetRunningType DEF ChangeDir, ThreadStates
<1>3. CASE PublishDir(h)
  BY <1>3, PublishType DEF PublishDir, ThreadStates
<1>4. CASE Popen(h)
  <2>1. CASE SetRunning(h, FALSE) /\ UNCHANGED shell
    BY <1>4, <2>1, SetRunningType DEF Popen, ThreadStates
  <2>2. CASE UNCHANGED tasks
    BY <1>4, <2>2 DEF Popen, ThreadStates
  <2> QED BY <1>4, <2>1, <2>2 DEF Popen
<1>5. CASE PublishStart(h)
  BY <1>5, PublishType DEF PublishStart, ThreadStates
<1>6. CASE ReadChunk(h)
  BY <1>6 DEF ReadChunk, ThreadStates
<1>7. CASE AppendChunk(h)
  <2>1. CASE UNCHANGED tasks
    BY <1>7, <2>1 DEF AppendChunk, ThreadStates
  <2>2. CASE tasks' = [tasks EXCEPT ![id[h]].out = @ + 1]
    BY <1>7, <2>2, AppendType DEF AppendChunk, ThreadStates
  <2> QED BY <1>7, <2>1, <2>2 DEF AppendChunk
<1>8. CASE PublishChunk(h)
  BY <1>8, PublishType DEF PublishChunk, ThreadStates
<1>9. CASE ReadEof(h)
  BY <1>9, SetRunningType DEF ReadEof, ThreadStates
<1>10. CASE PublishComplete(h)
  BY <1>10, PublishType DEF PublishComplete, ThreadStates
<1>11. CASE ShellExits(h)
  BY <1>11 DEF ShellExits, runVars
<1>12. CASE Pkill(h)
  BY <1>12 DEF Pkill, runVars
<1> QED BY <1>1, <1>2, <1>3, <1>4, <1>5, <1>6, <1>7, <1>8, <1>9, <1>10,
           <1>11, <1>12 DEF TaskThread

LEMMA TypedStep == Typed /\ [Next]_vars => Typed'
<1> SUFFICES ASSUME Typed, [Next]_vars PROVE Typed'
  OBVIOUS
<1>1. CASE \E h \in Handlers : Accept(h) \/ Connection(h)
  BY <1>1, TypedConnection
<1>2. CASE \E h \in Handlers : TaskThread(h) \/ ShellExits(h) \/ Pkill(h)
  BY <1>2, TypedThread
<1>3. CASE UNCHANGED vars
  BY <1>3 DEF vars, connVars, runVars, Typed, TypeOK, ThreadHasTask
<1> QED BY <1>1, <1>2, <1>3 DEF Next, Quiet

\* Every variable always has its type, and every runTask thread always works
\* on an entry of the map tasks, whatever the interleaving of handle_client,
\* runTask, exits of commands and pkills.
THEOREM TypeCorrect == Spec => [](TypeOK /\ ThreadHasTask)
<1>1. Init => Typed
  BY TypedInit
<1>2. Typed /\ [Next]_vars => Typed'
  BY TypedStep
<1> QED BY <1>1, <1>2, PTL DEF Spec, Typed

-----------------------------------------------------------------------------
(* What holds of identifiers and Tasks whatever the increments do *)

\* Every stored Task is under the id of the connection that submitted it, which
\* is past its critical section.
Inserted == {"reply", "error", "done", "refused", "aborted"}
StoredUnderOwnId ==
    \A i \in DOMAIN tasks : /\ id[tasks[i].by] = i
                            /\ conn[tasks[i].by] \in Inserted

\* A thread has read the command of a connection with its id.
RanUnderId ==
    \A h \in Handlers : ran[h] # NoOne =>
        /\ thr[h] # "none"
        /\ ran[h] \in Handlers /\ conn[ran[h]] \in Inserted
        /\ id[ran[h]] = id[h]

\* Who takes tasks_mtx to read starts no task, and who is told an id did.
RepliedHasThread ==
    \A h \in Handlers :
        /\ conn[h] \in {"wait", "sending"} => ~StartsTask(h)
        /\ conn[h] \in {"reply", "done"} /\ StartsTask(h) => thr[h] # "none"

Always == /\ Typed
          /\ StoredUnderOwnId
          /\ RanUnderId
          /\ RepliedHasThread

LEMMA AlwaysInit == Init => Always
<1> SUFFICES ASSUME Init PROVE Always
  OBVIOUS
<1>1. Typed
  BY TypedInit
<1> QED BY <1>1 DEF Always, Init, StoredUnderOwnId, RanUnderId,
        RepliedHasThread, StartsTask

\* Accepting a request.
LEMMA AlwaysAccept ==
    ASSUME Always, Typed', NEW h \in Handlers, Accept(h)
    PROVE  Always'
<1>1. /\ conn[h] = "free"
      /\ thr[h] = "none"
      /\ UNCHANGED <<tasks, id, thr, ran>>
  BY DEF Accept, runVars, Always, Typed, ThreadHasTask
<1>2. /\ \A g \in Handlers : g # h => req'[g] = req[g] /\ conn'[g] = conn[g]
      /\ \/ conn'[h] = "aborted"
         \/ conn'[h] \in {"load", "wait"}
            /\ (conn'[h] = "wait" => ~StartsTask(h)')
  <2>1. CASE Goto(h, "aborted") /\ UNCHANGED req
    BY <2>1 DEF Goto, Always, Typed, TypeOK
  <2>2. ASSUME NEW r \in Offered, req' = [req EXCEPT ![h] = r],
               Goto(h, IF r.op \in {"exec", "install"} THEN "load" ELSE "wait")
        PROVE  /\ \A g \in Handlers : g # h => /\ req'[g] = req[g]
                                                /\ conn'[g] = conn[g]
               /\ conn'[h] \in {"load", "wait"}
               /\ conn'[h] = "wait" => ~StartsTask(h)'
    BY <2>2 DEF Goto, Always, Typed, TypeOK, StartsTask
  <2> QED BY <2>1, <2>2 DEF Accept
<1>3. StoredUnderOwnId'
  BY <1>1, <1>2 DEF Always, Typed, TypeOK, Task, StoredUnderOwnId, Inserted
<1>4. RanUnderId'
  BY <1>1, <1>2 DEF Always, RanUnderId, Inserted
<1>5. RepliedHasThread'
  BY <1>1, <1>2 DEF Always, RepliedHasThread, StartsTask
<1> QED BY <1>3, <1>4, <1>5 DEF Always

\* The critical section.
LEMMA AlwaysInsert ==
    ASSUME Always, Typed', NEW h \in Handlers, Insert(h)
    PROVE  Always'
<1>1. conn[h] = "insert" /\ thr[h] = "none" /\ UNCHANGED <<req, id, ran>>
  BY DEF Insert, Always, Typed, ThreadHasTask
<1>2. /\ DOMAIN tasks' = DOMAIN tasks \union {id[h]}
      /\ tasks'[id[h]].by = h
      /\ \A i \in DOMAIN tasks : i # id[h] => tasks'[i] = tasks[i]
  BY DEF Insert, Put
<1>3. /\ \A g \in Handlers : g # h => conn'[g] = conn[g] /\ thr'[g] = thr[g]
      /\ conn'[h] \in {"reply", "aborted", "error"}
      /\ conn'[h] = "reply" => thr'[h] = "begin"
      /\ thr'[h] \in {"none", "begin"}
  BY <1>1 DEF Insert, Goto, Always, Typed, TypeOK
<1>4. StoredUnderOwnId'
  <2>1. \A i \in DOMAIN tasks : tasks[i].by \in Handlers
    BY DEF Always, Typed, TypeOK, Task
  <2> QED BY <1>1, <1>2, <1>3, <2>1 DEF Always, StoredUnderOwnId, Inserted
<1>5. RanUnderId'
  BY <1>1, <1>3 DEF Always, RanUnderId, Inserted
<1>6. RepliedHasThread'
  BY <1>1, <1>3 DEF Always, RepliedHasThread, StartsTask
<1> QED BY <1>4, <1>5, <1>6 DEF Always

\* The increment, the replies, and the requests that only read the map.
LEMMA AlwaysAnswer ==
    ASSUME Always, Typed', NEW h \in Handlers,
           \/ Load(h) \/ Store(h) \/ Reload(h) \/ ReplyExec(h)
           \/ ListTasks(h) \/ ReadLogs(h) \/ KillTask(h) \/ SendLocked(h)
    PROVE  Always'
<1>1. /\ UNCHANGED <<tasks, req, thr, ran>>
      /\ \A g \in Handlers : g # h => UNCHANGED <<conn[g], id[g]>>
      /\ \/ /\ conn[h] \in {"load", "store", "reload"}
            /\ conn'[h] \in {"store", "reload", "insert"}
         \/ /\ UNCHANGED id[h]
            /\ \/ /\ conn[h] \in {"reply", "error"}
                  /\ conn'[h] \in {"aborted", "refused"}
               \/ conn[h] = "reply" /\ conn'[h] = "done"
               \/ conn[h] = "wait" /\ conn'[h] = "sending"
               \/ conn[h] = "sending" /\ conn'[h] \in {"done", "aborted"}
  BY DEF Load, Store, Reload, ReplyExec, ListTasks, ReadLogs, KillTask,
     TakeLock, SendLocked, Goto, runVars, Always, Typed, TypeOK
<1>2. thr[h] # "none" => conn[h] \in {"reply", "done", "aborted"}
  BY DEF Always, Typed, ThreadHasTask
<1>3. StoredUnderOwnId'
  <2>1. \A i \in DOMAIN tasks : tasks[i].by \in Handlers
    BY DEF Always, Typed, TypeOK, Task
  <2> QED BY <1>1, <2>1 DEF Always, StoredUnderOwnId, Inserted
<1>4. RanUnderId'
  BY <1>1, <1>2 DEF Always, RanUnderId, Inserted
<1>5. RepliedHasThread'
  BY <1>1 DEF Always, RepliedHasThread, StartsTask
<1> QED BY <1>3, <1>4, <1>5 DEF Always

\* A task thread reads its command, and never touches whose Task it is.
LEMMA ThreadKeeps ==
    ASSUME Typed, NEW h \in Handlers,
           TaskThread(h) \/ ShellExits(h) \/ Pkill(h)
    PROVE  /\ UNCHANGED <<counter, conn, req, tmp, id, clash>>
           /\ DOMAIN tasks' = DOMAIN tasks
           /\ \A i \in DOMAIN tasks : tasks'[i].by = tasks[i].by
           /\ \A g \in Handlers : thr'[g] = "none" <=> thr[g] = "none"
           /\ UNCHANGED ran \/ Begin(h)
<1>1. /\ DOMAIN tasks' = DOMAIN tasks
      /\ \A i \in DOMAIN tasks : tasks'[i].by = tasks[i].by
  <2> DEFINE Same == /\ DOMAIN tasks' = DOMAIN tasks
                     /\ \A i \in DOMAIN tasks : tasks'[i].by = tasks[i].by
  <2>1. ASSUME NEW b \in BOOLEAN, SetRunning(h, b) PROVE Same
    BY <2>1 DEF SetRunning, Typed, TypeOK, Task
  <2>2. ASSUME tasks' = [tasks EXCEPT ![id[h]].out = @ + 1] PROVE Same
    BY <2>2 DEF Typed, TypeOK, Task
  <2>3. ASSUME UNCHANGED tasks PROVE Same
    BY <2>3
  <2> HIDE DEF Same
  <2>4. Same
    BY <2>1, <2>2, <2>3 DEF TaskThread, Begin, ChangeDir, PublishDir, Popen,
       PublishStart, ReadChunk, AppendChunk, PublishChunk, ReadEof,
       PublishComplete, ShellExits, Pkill
  <2> QED BY <2>4 DEF Same
<1>2. UNCHANGED <<counter, conn, req, tmp, id, clash>>
  BY DEF TaskThread, Begin, ChangeDir, PublishDir, Popen, PublishStart,
     ReadChunk, AppendChunk, PublishChunk, ReadEof, PublishComplete,
     ShellExits, Pkill, connVars
<1>3. \A g \in Handlers : thr'[g] = "none" <=> thr[g] = "none"
  BY DEF TaskThread, Begin, ChangeDir, PublishDir, Popen, PublishStart,
     ReadChunk, AppendChunk, PublishChunk, ReadEof, PublishComplete,
     ShellExits, Pkill, Step, Typed, TypeOK
<1>4. UNCHANGED ran \/ Begin(h)
  BY DEF TaskThread, ChangeDir, PublishDir, Popen, PublishStart, ReadChunk,
     AppendChunk, PublishChunk, ReadEof, PublishComplete, ShellExits, Pkill
<1> QED BY <1>1, <1>2, <1>3, <1>4

LEMMA AlwaysThread ==
    ASSUME Always, Typed', NEW h \in Handlers,
           TaskThread(h) \/ ShellExits(h) \/ Pkill(h)
    PROVE  Always'
<1>1. /\ UNCHANGED <<conn, req, id>>
      /\ DOMAIN tasks' = DOMAIN tasks
      /\ \A i \in DOMAIN tasks : tasks'[i].by = tasks[i].by
      /\ \A g \in Handlers : thr'[g] = "none" <=> thr[g] = "none"
      /\ UNCHANGED ran \/ Begin(h)
  BY ThreadKeeps DEF Always
<1>2. RanUnderId'
  <2>1. CASE UNCHANGED ran
    BY <1>1, <2>1 DEF Always, RanUnderId
  <2>2. CASE Begin(h)
    <3>1. /\ id[h] \in DOMAIN tasks /\ thr[h] # "none"
          /\ tasks[id[h]].by \in Handlers
      BY <2>2 DEF Begin, Always, Typed, TypeOK, ThreadHasTask, Task
    <3>2. /\ ran'[h] = tasks[id[h]].by
          /\ \A g \in Handlers : g # h => ran'[g] = ran[g]
      BY <2>2 DEF Begin, Always, Typed, TypeOK
    <3> QED BY <1>1, <3>1, <3>2 DEF Always, RanUnderId, StoredUnderOwnId
  <2> QED BY <1>1, <2>1, <2>2
<1>3. StoredUnderOwnId' /\ RepliedHasThread'
  BY <1>1 DEF Always, StoredUnderOwnId, RepliedHasThread, StartsTask
<1> QED BY <1>2, <1>3 DEF Always

LEMMA AlwaysStep == Always /\ [Next]_vars => Always'
<1> SUFFICES ASSUME Always, [Next]_vars PROVE Always'
  OBVIOUS
<1>1. Typed'
  BY TypedStep DEF Always
<1>2. CASE UNCHANGED vars
  BY <1>1, <1>2 DEF vars, connVars, runVars, Always, StoredUnderOwnId,
     RanUnderId, RepliedHasThread, StartsTask
<1>3. ASSUME NEW h \in Handlers, Accept(h) \/ Connection(h) PROVE Always'
  BY <1>1, <1>3, AlwaysAccept, AlwaysInsert, AlwaysAnswer DEF Connection
<1>4. ASSUME NEW h \in Handlers,
             TaskThread(h) \/ ShellExits(h) \/ Pkill(h)
      PROVE  Always'
  BY <1>1, <1>4, AlwaysThread
<1> QED BY <1>2, <1>3, <1>4 DEF Next, Quiet

-----------------------------------------------------------------------------
(* Identifiers are unique until a clash *)

\* No id that was given out is above the counter, and what a connection has
\* stored and will load again is nobody's id, and nobody else's to be.
CounterIsAhead ==
    \A h \in Handlers :
        /\ id[h] <= counter
        /\ conn[h] = "reload" =>
              /\ tmp[h] # 0 /\ tmp[h] <= counter
              /\ \A g \in Handlers :
                    /\ id[g] # tmp[h]
                    /\ conn[g] = "reload" /\ tmp[g] = tmp[h] => g = h

\* A connection enters its critical section with an id, and gives its thread
\* the Task it stored.
OwnThread ==
    \A h \in Handlers :
        /\ conn[h] = "insert" => id[h] # 0
        /\ thr[h] # "none" => tasks[id[h]].by = h
        /\ ran[h] \in {NoOne, h}

Inv == /\ Always
       /\ CounterIsAhead
       /\ UniqueIds
       /\ OwnThread

\* What the type invariant says of the map.
LEMMA MapFacts ==
    ASSUME Inv
    PROVE  /\ id \in [Handlers -> Nat]
           /\ \A i \in DOMAIN tasks : i \in Nat /\ tasks[i].by \in Handlers
           /\ \A h \in Handlers : thr[h] # "none"
                 => /\ id[h] \in DOMAIN tasks
                    /\ conn[h] \in {"reply", "done", "aborted"}
  BY DEF Inv, Always, Typed, TypeOK, ThreadHasTask, Task

LEMMA InvInit == Init => Inv
<1> SUFFICES ASSUME Init PROVE Inv
  OBVIOUS
<1>1. Always
  BY AlwaysInit
<1> QED BY <1>1, TaskAssumption DEF Inv, Init, CounterIsAhead, UniqueIds,
        OwnThread

\* The increment: neither its store nor its second load finds the counter
\* changed, however it overlaps with others.
LEMMA InvCount ==
    ASSUME Inv, Always', ~clash', NEW h \in Handlers,
           Load(h) \/ Store(h) \/ Reload(h)
    PROVE  Inv'
<1>1. /\ thr[h] = "none"
      /\ UNCHANGED <<tasks, thr, ran>>
      /\ \A g \in Handlers : g # h => UNCHANGED <<conn[g], tmp[g], id[g]>>
      /\ counter \in Nat /\ tmp \in [Handlers -> Nat] /\ id \in [Handlers -> Nat]
  <2> USE DEF Goto, runVars, Inv, Always, Typed, TypeOK, ThreadHasTask
  <2>1. CASE Load(h)
    BY <2>1 DEF Load
  <2>2. CASE Store(h)
    BY <2>2 DEF Store
  <2>3. CASE Reload(h)
    BY <2>3 DEF Reload
  <2> QED BY <2>1, <2>2, <2>3
<1>2. CASE Load(h)
  <2>1. conn'[h] = "store" /\ UNCHANGED <<id, counter>>
    BY <1>2 DEF Load, Goto, Inv, Always, Typed, TypeOK
  <2> QED BY <1>1, <2>1 DEF Inv, CounterIsAhead, UniqueIds, OwnThread
<1>3. CASE Store(h)
  <2>1. /\ conn'[h] = "reload" /\ UNCHANGED id
        /\ counter' = counter + 1 /\ tmp'[h] = counter + 1
    BY <1>3 DEF Store, Goto, Inv, Always, Typed, TypeOK
  <2> QED BY <1>1, <2>1 DEF Inv, CounterIsAhead, UniqueIds, OwnThread
<1>4. CASE Reload(h)
  <2>1. /\ conn[h] = "reload" /\ conn'[h] = "insert"
        /\ UNCHANGED <<counter, tmp>>
        /\ id'[h] = counter /\ counter = tmp[h]
    BY <1>4 DEF Reload, Goto, Inv, Always, Typed, TypeOK
  <2> QED BY <1>1, <2>1 DEF Inv, CounterIsAhead, UniqueIds, OwnThread
<1> QED BY <1>2, <1>3, <1>4

\* The critical section: the id is nobody else's, so no entry is overwritten.
LEMMA InsertsFresh ==
    ASSUME Inv, NEW h \in Handlers, Insert(h)
    PROVE  id[h] \notin DOMAIN tasks
<1> SUFFICES ASSUME id[h] \in DOMAIN tasks PROVE FALSE
  OBVIOUS
<1>1. conn[h] = "insert" /\ id[h] # 0
  BY DEF Insert, Inv, OwnThread
<1>2. id[tasks[id[h]].by] = id[h] /\ conn[tasks[id[h]].by] \in Inserted
  BY DEF Inv, Always, StoredUnderOwnId
<1>3. tasks[id[h]].by = h
  BY <1>1, <1>2, MapFacts DEF Inv, UniqueIds
<1> QED BY <1>1, <1>2, <1>3 DEF Inserted

LEMMA InvInsert ==
    ASSUME Inv, Always', NEW h \in Handlers, Insert(h)
    PROVE  Inv'
<1>1. /\ conn[h] = "insert"
      /\ thr[h] = "none"
      /\ UNCHANGED <<counter, tmp, id, ran>>
  BY MapFacts DEF Insert
<1>2. /\ tasks'[id[h]].by = h
      /\ \A i \in DOMAIN tasks : tasks'[i] = tasks[i]
  BY InsertsFresh DEF Insert, Put
<1>3. /\ \A g \in Handlers : g # h => conn'[g] = conn[g] /\ thr'[g] = thr[g]
      /\ conn'[h] \in {"reply", "aborted", "error"}
  BY <1>1 DEF Insert, Goto, Inv, Always, Typed, TypeOK
<1>4. CounterIsAhead' /\ UniqueIds'
  BY <1>1, <1>3 DEF Inv, CounterIsAhead, UniqueIds
<1>5. OwnThread'
  BY <1>1, <1>2, <1>3, MapFacts DEF Inv, OwnThread
<1> QED BY <1>4, <1>5 DEF Inv

\* The other steps of a connection.
LEMMA InvAnswer ==
    ASSUME Inv, Always', NEW h \in Handlers,
           \/ Accept(h) \/ ReplyExec(h) \/ ListTasks(h) \/ ReadLogs(h)
           \/ KillTask(h) \/ SendLocked(h)
    PROVE  Inv'
<1>1. /\ UNCHANGED <<counter, tasks, tmp, id, thr, ran>>
      /\ \A g \in Handlers : g # h => UNCHANGED conn[g]
      /\ conn'[h] \notin {"reload", "insert"}
  BY DEF Accept, ReplyExec, ListTasks, ReadLogs, KillTask, TakeLock,
     SendLocked, Goto, runVars, Inv, Always, Typed, TypeOK
<1>2. CounterIsAhead' /\ UniqueIds'
  BY <1>1 DEF Inv, CounterIsAhead, UniqueIds
<1>3. OwnThread'
  BY <1>1 DEF Inv, OwnThread
<1> QED BY <1>2, <1>3 DEF Inv

LEMMA InvThread ==
    ASSUME Inv, Always', NEW h \in Handlers,
           TaskThread(h) \/ ShellExits(h) \/ Pkill(h)
    PROVE  Inv'
<1>1. /\ UNCHANGED <<counter, conn, tmp, id>>
      /\ \A i \in DOMAIN tasks : tasks'[i].by = tasks[i].by
      /\ \A g \in Handlers : thr'[g] = "none" <=> thr[g] = "none"
      /\ UNCHANGED ran \/ Begin(h)
  BY ThreadKeeps DEF Inv, Always
<1>2. \A g \in Handlers : ran'[g] \in {NoOne, g}
  <2>1. CASE Begin(h)
    BY <2>1 DEF Begin, Inv, Always, Typed, TypeOK, OwnThread
  <2> QED BY <1>1, <2>1 DEF Inv, OwnThread
<1>3. CounterIsAhead' /\ UniqueIds'
  BY <1>1 DEF Inv, CounterIsAhead, UniqueIds
<1>4. OwnThread'
  BY <1>1, <1>2, MapFacts DEF Inv, OwnThread
<1> QED BY <1>3, <1>4 DEF Inv

\* A clash is never forgotten.
LEMMA ClashStays == TypeOK /\ [Next]_vars => (clash => clash')
  BY DEF Next, Quiet, vars, Accept, Connection, Load, Store, Reload, Insert,
     ReplyExec, ListTasks, ReadLogs, KillTask, SendLocked, TaskThread, Begin,
     ChangeDir, PublishDir, Popen, PublishStart, ReadChunk, AppendChunk,
     PublishChunk, ReadEof, PublishComplete, ShellExits, Pkill, connVars,
     TypeOK

LEMMA InvStep == Inv /\ ~clash' /\ [Next]_vars => Inv'
<1> SUFFICES ASSUME Inv, ~clash', [Next]_vars PROVE Inv'
  OBVIOUS
<1>1. Always'
  BY AlwaysStep DEF Inv
<1>2. CASE UNCHANGED vars
  BY <1>1, <1>2 DEF vars, connVars, runVars, Inv, CounterIsAhead, UniqueIds,
     OwnThread
<1>3. ASSUME NEW h \in Handlers, Accept(h) \/ Connection(h) PROVE Inv'
  BY <1>1, <1>3, InvCount, InvInsert, InvAnswer DEF Connection
<1>4. ASSUME NEW h \in Handlers,
             TaskThread(h) \/ ShellExits(h) \/ Pkill(h)
      PROVE  Inv'
  BY <1>1, <1>4, InvThread
<1> QED BY <1>2, <1>3, <1>4 DEF Next, Quiet

Settled == Always /\ (~clash => Inv)

LEMMA SettledAlways == Spec => []Settled
<1>1. Init => Settled
  BY AlwaysInit, InvInit DEF Settled
<1>2. Settled /\ [Next]_vars => Settled'
  <2> SUFFICES ASSUME Settled, [Next]_vars PROVE Settled'
    OBVIOUS
  <2>1. clash => clash'
    BY ClashStays DEF Settled, Always, Typed
  <2> QED BY <2>1, AlwaysStep, InvStep DEF Settled
<1> QED BY <1>1, <1>2, PTL DEF Spec

\* Any number of /exec and auto-installs may increment task_counter at once:
\* until one of them finds it changed in its hands, no two get one task_id.
THEOREM IdsAreUnique == Spec => []UniqueUnlessClash
<1>1. Settled => UniqueUnlessClash
  BY DEF Settled, Inv, UniqueUnlessClash
<1> QED BY <1>1, SettledAlways, PTL

\* A client that was told a task_id finds a task of that id, whose thread was
\* started and runs a command that got this id: even after a clash nobody is
\* led to a task of another id.  Until a clash the task is the client's own,
\* as the insertion under tasks_mtx overwrites no other.
THEOREM RepliedTasksAreOwn == Spec => []RepliedTaskIsOwn
<1>1. Settled => RepliedTaskIsOwn
  <2> SUFFICES ASSUME Settled, NEW h \in Handlers
      PROVE /\ ran[h] # NoOne => id[ran[h]] = id[h]
            /\ conn[h] \in {"reply", "done"} /\ StartsTask(h)
                  => /\ id[h] \in DOMAIN tasks
                     /\ id[tasks[id[h]].by] = id[h]
                     /\ thr[h] # "none"
                     /\ ~clash => tasks[id[h]].by = h
            /\ ~clash => ran[h] \in {NoOne, h}
    BY DEF RepliedTaskIsOwn
  <2>1. ran[h] # NoOne => id[ran[h]] = id[h]
    BY DEF Settled, Always, RanUnderId
  <2>2. ASSUME conn[h] \in {"reply", "done"}, StartsTask(h)
        PROVE  /\ thr[h] # "none" /\ id[h] \in DOMAIN tasks
               /\ id[tasks[id[h]].by] = id[h]
    BY <2>2 DEF Settled, Always, RepliedHasThread, Typed, ThreadHasTask,
       StoredUnderOwnId
  <2>3. ~clash => /\ ran[h] \in {NoOne, h}
                  /\ thr[h] # "none" => tasks[id[h]].by = h
    BY DEF Settled, Inv, OwnThread
  <2> QED BY <2>1, <2>2, <2>3
<1> QED BY <1>1, SettledAlways, PTL

-----------------------------------------------------------------------------
(* What is published, and what the map shows meanwhile *)

Before == {"begin", "cd", "cdMoved", "popen", "start"}
Streaming == {"read", "append", "publish"}
Stopped == {"cdMoved", "complete", "over"}

Shown(h, type) == \E k \in DOMAIN log : log[k].by = h /\ log[k].type = type

\* An event is about the Task of the thread that published it.
EventsAreOwn ==
    \A k \in DOMAIN log : /\ thr[log[k].by] # "none"
                          /\ log[k].id = id[log[k].by]

\* How far a thread has come is what it has published.
StorySoFar ==
    \A h \in Handlers :
        /\ thr[h] \in Before => \A k \in DOMAIN log : log[k].by # h
        /\ thr[h] \in Streaming => Shown(h, "start") /\ ~Shown(h, "dir_change")
        /\ Shown(h, "complete") <=> thr[h] = "over"

\* /tasks shows a task as running until its thread is about to announce its end;
\* for ever if it got no thread.
RunningShows ==
    \A i \in DOMAIN tasks : tasks[i].running <=> thr[tasks[i].by] \notin Stopped

\* /logs has what was streamed, and the line that is about to be.
OutputShows ==
    \A i \in DOMAIN tasks :
        tasks[i].out = Cardinality(Outputs(i))
                          + IF thr[tasks[i].by] = "publish" THEN 1 ELSE 0

StoryInv == /\ Inv
            /\ EventsAreOwn
            /\ StorySoFar
            /\ Story
            /\ RunningShows
            /\ OutputShows

LEMMA StoryInit == Init => StoryInv
<1> SUFFICES ASSUME Init PROVE StoryInv
  OBVIOUS
<1>1. Inv /\ DOMAIN log = {} /\ DOMAIN tasks = {}
  BY InvInit DEF Init
<1> QED BY <1>1 DEF Init, StoryInv, EventsAreOwn, StorySoFar, Story,
        RunningShows, OutputShows, Before, Streaming, Shown

\* What the types say of the log.
LEMMA LogFacts ==
    ASSUME Inv
    PROVE  /\ Len(log) \in Nat /\ DOMAIN log = 1..Len(log)
           /\ \A k \in DOMAIN log : log[k] \in Event /\ log[k].by \in Handlers
<1>1. log \in Seq(Event)
  BY DEF Inv, Always, Typed, TypeOK
<1>2. \A e \in Event : e.by \in Handlers
  BY DEF Event
<1> QED BY <1>1, <1>2

\* A thread's entry is its own, and an event under its id is one it published.
LEMMA ThreadFacts ==
    ASSUME StoryInv, NEW h \in Handlers, thr[h] # "none"
    PROVE  /\ id[h] \in DOMAIN tasks
           /\ tasks[id[h]].by = h
           /\ \A i \in DOMAIN tasks : tasks[i].by = h <=> i = id[h]
           /\ \A k \in DOMAIN log : log[k].id = id[h] <=> log[k].by = h
<1>1. id[h] \in DOMAIN tasks /\ tasks[id[h]].by = h
  BY MapFacts DEF StoryInv, Inv, OwnThread
<1>2. ASSUME NEW i \in DOMAIN tasks PROVE tasks[i].by = h <=> i = id[h]
  BY <1>1 DEF StoryInv, Inv, Always, StoredUnderOwnId
<1>3. ASSUME NEW k \in DOMAIN log PROVE log[k].id = id[h] <=> log[k].by = h
  <2>1. /\ log[k].by \in Handlers
        /\ thr[log[k].by] # "none"
        /\ log[k].id = id[log[k].by]
    BY LogFacts DEF StoryInv, EventsAreOwn
  <2>2. tasks[id[log[k].by]].by = log[k].by
    BY <2>1 DEF StoryInv, Inv, OwnThread
  <2> QED BY <1>1, <2>1, <2>2
<1> QED BY <1>1, <1>2, <1>3

\* The events of a Task are its thread's, whose state tells whether its end is
\* announced.
LEMMA TaskFacts ==
    ASSUME StoryInv, NEW i \in DOMAIN tasks
    PROVE  /\ tasks[i].by \in Handlers
           /\ \A k \in DOMAIN log : log[k].id = i <=> log[k].by = tasks[i].by
           /\ Announced(i) <=> thr[tasks[i].by] = "over"
<1>1. tasks[i].by \in Handlers /\ id[tasks[i].by] = i
  BY MapFacts DEF StoryInv, Inv, Always, StoredUnderOwnId
<1>2. ASSUME NEW k \in DOMAIN log
      PROVE  log[k].id = i <=> log[k].by = tasks[i].by
  <2>1. /\ log[k].by \in Handlers
        /\ thr[log[k].by] # "none"
        /\ log[k].id = id[log[k].by]
    BY LogFacts DEF StoryInv, EventsAreOwn
  <2> QED BY <1>1, <2>1, ThreadFacts
<1>3. Announced(i) <=> Shown(tasks[i].by, "complete")
  BY <1>2 DEF Announced, Shown
<1> QED BY <1>1, <1>2, <1>3 DEF StoryInv, StorySoFar

LEMMA OutputsAreFinite ==
    ASSUME Inv, NEW i
    PROVE  IsFiniteSet(Outputs(i))
<1>1. IsFiniteSet(DOMAIN log)
  BY LogFacts, FS_Interval
<1>2. Outputs(i) \subseteq DOMAIN log
  BY DEF Outputs
<1> QED BY <1>1, <1>2, FS_Subset

\* A step that publishes nothing and leaves the threads and the map alone.
LEMMA StorySame ==
    ASSUME StoryInv, Inv', UNCHANGED <<log, tasks, thr>>,
           \A g \in Handlers : thr[g] # "none" => id'[g] = id[g]
    PROVE  StoryInv'
<1>1. EventsAreOwn'
  BY LogFacts DEF StoryInv, EventsAreOwn
<1>2. StorySoFar' /\ Story'
  BY DEF StoryInv, StorySoFar, Story, Shown
<1>3. RunningShows'
  BY DEF StoryInv, RunningShows
<1>4. OutputShows'
  BY DEF StoryInv, OutputShows, Outputs
<1> QED BY <1>1, <1>2, <1>3, <1>4 DEF StoryInv

\* A new entry has no story yet.
LEMMA StoryInsert ==
    ASSUME StoryInv, Inv', NEW h \in Handlers, Insert(h)
    PROVE  StoryInv'
<1>1. /\ conn[h] = "insert" /\ thr[h] = "none"
      /\ UNCHANGED <<id, log>>
      /\ thr' = [thr EXCEPT ![h] = "begin"] \/ thr' = thr
  BY MapFacts DEF Insert, StoryInv
<1>2. \A g \in Handlers : g # h => thr'[g] = thr[g]
  BY <1>1 DEF StoryInv, Inv, Always, Typed, TypeOK
<1>3. thr'[h] \in {"none", "begin"}
  BY <1>1 DEF StoryInv, Inv, Always, Typed, TypeOK
<1>4. \A i \in DOMAIN tasks : tasks[i].by # h
  BY <1>1 DEF StoryInv, Inv, Always, StoredUnderOwnId, Inserted
<1>5. id[h] \notin DOMAIN tasks
  BY InsertsFresh DEF StoryInv
<1>6. /\ DOMAIN tasks' = DOMAIN tasks \union {id[h]}
      /\ tasks'[id[h]] = [by |-> h, running |-> TRUE, out |-> 0]
      /\ \A i \in DOMAIN tasks : tasks'[i] = tasks[i]
  BY <1>5 DEF Insert, Put
<1>7. \A k \in DOMAIN log : log[k].by # h
  BY <1>1, LogFacts DEF StoryInv, EventsAreOwn
<1>8. Outputs(id[h]) = {}
  <2>1. \A k \in DOMAIN log : log[k].id # id[h]
    BY <1>5, LogFacts, MapFacts DEF StoryInv, EventsAreOwn
  <2> QED BY <2>1 DEF Outputs
<1>9. EventsAreOwn' /\ Story'
  BY <1>1, <1>2, <1>7, LogFacts DEF StoryInv, EventsAreOwn, Story
<1>10. StorySoFar'
  BY <1>1, <1>2, <1>3, <1>7
     DEF StoryInv, StorySoFar, Shown, Before, Streaming
<1>11. RunningShows'
  <2>1. \A i \in DOMAIN tasks : thr'[tasks[i].by] = thr[tasks[i].by]
    BY <1>2, <1>4, MapFacts DEF StoryInv
  <2>2. thr'[h] \notin Stopped
    BY <1>3 DEF Stopped
  <2> QED BY <1>6, <2>1, <2>2 DEF StoryInv, RunningShows
<1>12. OutputShows'
  <2>1. \A i : Outputs(i)' = Outputs(i)
    BY <1>1 DEF Outputs
  <2>2. Cardinality(Outputs(id[h])) = 0
    BY <1>8, FS_EmptySet
  <2>3. thr'[h] # "publish"
    BY <1>3
  <2>4. \A i \in DOMAIN tasks : thr'[tasks[i].by] = thr[tasks[i].by]
    BY <1>2, <1>4, MapFacts DEF StoryInv
  <2> QED BY <1>6, <2>1, <2>2, <2>3, <2>4 DEF StoryInv, OutputShows
<1> QED BY <1>9, <1>10, <1>11, <1>12 DEF StoryInv

\* A thread that publishes nothing goes from one state to another of the same
\* part of its story, or to its end.
LEMMA StoryMove ==
    ASSUME StoryInv, Inv', UNCHANGED <<id, log>>,
           NEW h \in Handlers, NEW pc \in ThreadStates, Step(h, pc),
           \/ thr[h] \in Before /\ pc \in Before
           \/ thr[h] \in Streaming \ {"publish"} /\ pc \in Streaming
           \/ thr[h] \in (Before \union Streaming) \ {"publish"} /\ pc = "complete",
           DOMAIN tasks' = DOMAIN tasks,
           \A i \in DOMAIN tasks : i # id[h] => tasks'[i] = tasks[i],
           tasks'[id[h]].by = tasks[id[h]].by,
           tasks'[id[h]].running <=> pc \notin Stopped,
           tasks'[id[h]].out = tasks[id[h]].out + IF pc = "publish" THEN 1 ELSE 0
    PROVE  StoryInv'
<1>1. /\ thr[h] # "none" /\ thr[h] # "over" /\ thr[h] # "publish"
      /\ pc # "none" /\ pc # "over"
  BY DEF Before, Streaming
<1>2. thr'[h] = pc /\ \A g \in Handlers : g # h => thr'[g] = thr[g]
  BY DEF Step, StoryInv, Inv, Always, Typed, TypeOK
<1>3. /\ id[h] \in DOMAIN tasks /\ tasks[id[h]].by = h
      /\ \A i \in DOMAIN tasks : tasks[i].by = h <=> i = id[h]
  BY <1>1, ThreadFacts
<1>4. \A i \in DOMAIN tasks : tasks[i].by \in Handlers /\ tasks'[i].by = tasks[i].by
  BY MapFacts DEF StoryInv
<1>5. EventsAreOwn'
  BY <1>1, <1>2, LogFacts DEF StoryInv, EventsAreOwn
<1>6. StorySoFar'
  BY <1>1, <1>2 DEF StoryInv, StorySoFar, Shown, Before, Streaming
<1>7. Story'
  BY DEF StoryInv, Story
<1>8. RunningShows'
  BY <1>2, <1>3, <1>4 DEF StoryInv, RunningShows
<1>9. OutputShows'
  <2>1. \A i : Outputs(i)' = Outputs(i)
    BY DEF Outputs
  <2>2. ASSUME NEW i \in DOMAIN tasks, i # id[h]
        PROVE  tasks'[i] = tasks[i] /\ thr'[tasks[i].by] = thr[tasks[i].by]
    BY <1>2, <1>3, <1>4, <2>2
  <2>3. ASSUME NEW i \in DOMAIN tasks, i # id[h]
        PROVE  tasks'[i].out = Cardinality(Outputs(i)')
                  + IF thr'[tasks'[i].by] = "publish" THEN 1 ELSE 0
    BY <2>1, <2>2, <2>3 DEF StoryInv, OutputShows
  <2>4. tasks'[id[h]].out = Cardinality(Outputs(id[h])')
                               + IF thr'[h] = "publish" THEN 1 ELSE 0
    <3>1. tasks[id[h]].out = Cardinality(Outputs(id[h])) + 0
      BY <1>1, <1>3 DEF StoryInv, OutputShows
    <3>2. tasks[id[h]].out \in Nat
      BY <1>3 DEF StoryInv, Inv, Always, Typed, TypeOK, Task
    <3>3. IsFiniteSet(Outputs(id[h]))
      BY OutputsAreFinite DEF StoryInv
    <3>4. Cardinality(Outputs(id[h])) \in Nat
      BY <3>3, FS_CardinalityType
    <3> QED BY <1>2, <2>1, <3>1, <3>2, <3>4
  <2>5. id' = id
    OBVIOUS
  <2> QED BY <1>3, <1>4, <2>3, <2>4, <2>5 DEF OutputShows
<1> QED BY <1>5, <1>6, <1>7, <1>8, <1>9 DEF StoryInv

\* A thread that publishes has come to that place of its story.
LEMMA StoryPublish ==
    ASSUME StoryInv, Inv', UNCHANGED <<id, tasks>>,
           NEW h \in Handlers, NEW type, NEW pc, Publish(h, type), Step(h, pc),
           \/ thr[h] = "start" /\ type = "start" /\ pc = "read"
           \/ thr[h] = "cdMoved" /\ type = "dir_change" /\ pc = "complete"
           \/ thr[h] = "publish" /\ type = "output" /\ pc = "read"
           \/ thr[h] = "complete" /\ type = "complete" /\ pc = "over"
    PROVE  StoryInv'
<1> DEFINE n == Len(log) + 1
           e == [type |-> type, id |-> id[h], by |-> h]
<1>1. thr[h] # "none" /\ pc # "none"
  OBVIOUS
<1>2. thr'[h] = pc /\ \A g \in Handlers : g # h => thr'[g] = thr[g]
  BY DEF Step, StoryInv, Inv, Always, Typed, TypeOK
<1>3. /\ id[h] \in DOMAIN tasks /\ tasks[id[h]].by = h
      /\ \A i \in DOMAIN tasks : tasks[i].by = h <=> i = id[h]
      /\ \A k \in DOMAIN log : log[k].id = id[h] <=> log[k].by = h
  BY <1>1, ThreadFacts
<1>4. /\ Len(log) \in Nat /\ DOMAIN log = 1..Len(log)
      /\ n \in DOMAIN log'
      /\ log'[n].type = type /\ log'[n].id = id[h] /\ log'[n].by = h
      /\ \A k \in DOMAIN log : k # n /\ k \in DOMAIN log' /\ log'[k] = log[k]
      /\ \A k \in DOMAIN log' : k = n \/ k \in DOMAIN log
  <2>1. log' = Append(log, e) /\ log \in Seq(Event)
    BY DEF Publish, StoryInv, Inv, Always, Typed, TypeOK
  <2> QED BY <2>1
<1>5. \A i \in DOMAIN tasks : tasks[i].by \in Handlers
  BY MapFacts DEF StoryInv
<1>6. \A k \in DOMAIN log : log[k].by \in Handlers
  BY LogFacts DEF StoryInv
<1> HIDE DEF n, e
<1>7. EventsAreOwn'
  BY <1>1, <1>2, <1>4, <1>6 DEF StoryInv, EventsAreOwn
<1>8. ASSUME NEW g \in Handlers, NEW t
      PROVE  Shown(g, t)' <=> Shown(g, t) \/ (g = h /\ t = type)
  <2>1. Shown(g, t)' => Shown(g, t) \/ (g = h /\ t = type)
    BY <1>4 DEF Shown
  <2>2. Shown(g, t) => Shown(g, t)'
    BY <1>4 DEF Shown
  <2>3. g = h /\ t = type => Shown(g, t)'
    BY <1>4 DEF Shown
  <2> QED BY <2>1, <2>2, <2>3
<1>9. StorySoFar'
  <2>1. ASSUME NEW g \in Handlers, g # h
        PROVE  /\ thr'[g] \in Before => \A k \in DOMAIN log' : log'[k].by # g
               /\ thr'[g] \in Streaming =>
                     Shown(g, "start")' /\ ~Shown(g, "dir_change")'
               /\ Shown(g, "complete")' <=> thr'[g] = "over"
    BY <1>2, <1>4, <1>8, <2>1 DEF StoryInv, StorySoFar
  <2>2. /\ thr'[h] \notin Before
        /\ thr'[h] \in Streaming =>
              Shown(h, "start")' /\ ~Shown(h, "dir_change")'
        /\ Shown(h, "complete")' <=> thr'[h] = "over"
    <3>1. /\ thr[h] = "publish" => Shown(h, "start") /\ ~Shown(h, "dir_change")
          /\ thr[h] = "start" => ~Shown(h, "dir_change")
          /\ ~Shown(h, "complete")
      BY DEF StoryInv, StorySoFar, Before, Streaming, Shown
    <3> QED BY <1>2, <1>8, <3>1 DEF Before, Streaming
  <2> QED BY <2>1, <2>2 DEF StorySoFar
<1>10. Story'
  <2>1. ASSUME NEW k \in DOMAIN log, log[k].id = id[h]
        PROVE  /\ log[k].type # "complete"
               /\ type \notin {"start", "dir_change"}
               /\ log[k].type = "dir_change" => type = "complete"
    <3>1. log[k].by = h
      BY <1>3, <2>1
    <3> QED BY <2>1, <3>1 DEF StoryInv, StorySoFar, Shown, Before, Streaming
  <2>2. type = "output" =>
           \E k \in DOMAIN log : log[k].id = id[h] /\ log[k].type = "start"
    BY <1>3 DEF StoryInv, StorySoFar, Shown, Streaming
  <2>3. ASSUME NEW m \in DOMAIN log
        PROVE  1..(m - 1) \subseteq DOMAIN log
    BY <1>4
  <2>4. n - 1 = Len(log)
    BY <1>4 DEF n
  <2>5. ASSUME NEW m \in DOMAIN log'
        PROVE  /\ \A k \in 1..(m - 1) : log'[k].id = log'[m].id =>
                     /\ log'[k].type # "complete"
                     /\ log'[m].type \notin {"start", "dir_change"}
                     /\ log'[k].type = "dir_change" => log'[m].type = "complete"
               /\ log'[m].type = "output" =>
                     \E k \in 1..(m - 1) : /\ log'[k].id = log'[m].id
                                           /\ log'[k].type = "start"
    <3>1. CASE m = n
      BY <1>4, <2>1, <2>2, <2>4, <3>1
    <3>2. CASE m \in DOMAIN log
      BY <1>4, <2>3, <3>2 DEF StoryInv, Story
    <3> QED BY <1>4, <3>1, <3>2
  <2> QED BY <2>5 DEF Story
<1>11. RunningShows'
  BY <1>2, <1>3, <1>5 DEF StoryInv, RunningShows, Stopped
<1>12. OutputShows'
  <2>1. ASSUME NEW i \in DOMAIN tasks, i # id[h]
        PROVE  tasks[i].out = Cardinality(Outputs(i)')
                  + IF thr'[tasks[i].by] = "publish" THEN 1 ELSE 0
    <3>1. Outputs(i)' = Outputs(i)
      BY <1>4, <2>1 DEF Outputs
    <3>2. thr'[tasks[i].by] = thr[tasks[i].by]
      BY <1>2, <1>3, <1>5, <2>1
    <3> QED BY <3>1, <3>2 DEF StoryInv, OutputShows
  <2>2. tasks[id[h]].out = Cardinality(Outputs(id[h])')
                              + IF thr'[h] = "publish" THEN 1 ELSE 0
    <3>1. tasks[id[h]].out = Cardinality(Outputs(id[h]))
                                + IF thr[h] = "publish" THEN 1 ELSE 0
      BY <1>3 DEF StoryInv, OutputShows
    <3>2. IsFiniteSet(Outputs(id[h])) /\ Cardinality(Outputs(id[h])) \in Nat
      BY OutputsAreFinite, FS_CardinalityType DEF StoryInv
    <3>3. CASE thr[h] = "publish"
      <4>1. Outputs(id[h])' = Outputs(id[h]) \union {n}
        BY <1>4, <3>3 DEF Outputs
      <4>2. n \notin Outputs(id[h])
        BY <1>4 DEF Outputs
      <4>3. Cardinality(Outputs(id[h])') = Cardinality(Outputs(id[h])) + 1
        BY <3>2, <4>1, <4>2, FS_AddElement
      <4> QED BY <1>2, <3>1, <3>2, <3>3, <4>3
    <3>4. CASE thr[h] # "publish"
      <4>1. Outputs(id[h])' = Outputs(id[h])
        BY <1>4, <3>4 DEF Outputs
      <4> QED BY <1>2, <3>1, <3>4, <4>1
    <3> QED BY <3>3, <3>4
  <2>3. id' = id /\ tasks' = tasks
    OBVIOUS
  <2> QED BY <1>3, <2>1, <2>2, <2>3 DEF OutputShows
<1> QED BY <1>7, <1>9, <1>10, <1>11, <1>12 DEF StoryInv

\* runTask's assignments to its Task, where it has one.
LEMMA RunningSet ==
    ASSUME StoryInv, NEW h \in Handlers, thr[h] # "none", SetRunning(h, FALSE)
    PROVE  /\ DOMAIN tasks' = DOMAIN tasks
           /\ \A i \in DOMAIN tasks : i # id[h] => tasks'[i] = tasks[i]
           /\ tasks'[id[h]].by = tasks[id[h]].by
           /\ ~tasks'[id[h]].running
           /\ tasks'[id[h]].out = tasks[id[h]].out + 0
<1>1. id[h] \in DOMAIN tasks
  BY ThreadFacts
<1>2. tasks \in [DOMAIN tasks -> Task] /\ tasks[id[h]] \in Task
  BY <1>1 DEF StoryInv, Inv, Always, Typed, TypeOK
<1> QED BY <1>1, <1>2 DEF SetRunning, Task

LEMMA OutputAppended ==
    ASSUME StoryInv, NEW h \in Handlers, AppendChunk(h)
    PROVE  /\ Step(h, "publish")
           /\ DOMAIN tasks' = DOMAIN tasks
           /\ \A i \in DOMAIN tasks : i # id[h] => tasks'[i] = tasks[i]
           /\ tasks'[id[h]].by = tasks[id[h]].by
           /\ tasks'[id[h]].running = tasks[id[h]].running
           /\ tasks'[id[h]].out = tasks[id[h]].out + 1
<1>1. id[h] \in DOMAIN tasks
  BY ThreadFacts DEF AppendChunk
<1>2. tasks \in [DOMAIN tasks -> Task] /\ tasks[id[h]] \in Task
  BY <1>1 DEF StoryInv, Inv, Always, Typed, TypeOK
<1>3. \A g \in Handlers \ {h} : thr[g] = "append" => id[g] # id[h]
  BY ThreadFacts DEF AppendChunk
<1>4. /\ tasks' = [tasks EXCEPT ![id[h]].out = @ + 1]
      /\ Step(h, "publish")
  BY <1>3 DEF AppendChunk
<1> QED BY <1>1, <1>2, <1>4 DEF Task

\* Between its places a thread leaves its Task as it is.
LEMMA TaskKept ==
    ASSUME StoryInv, NEW h \in Handlers, thr[h] # "none", UNCHANGED tasks
    PROVE  /\ DOMAIN tasks' = DOMAIN tasks
           /\ \A i \in DOMAIN tasks : i # id[h] => tasks'[i] = tasks[i]
           /\ tasks'[id[h]].by = tasks[id[h]].by
           /\ tasks'[id[h]].running <=> thr[h] \notin Stopped
           /\ tasks'[id[h]].out = tasks[id[h]].out + 0
<1>1. id[h] \in DOMAIN tasks /\ tasks[id[h]].by = h
  BY ThreadFacts
<1>2. tasks[id[h]].out \in Nat
  BY <1>1 DEF StoryInv, Inv, Always, Typed, TypeOK, Task
<1> QED BY <1>1, <1>2 DEF StoryInv, RunningShows

LEMMA StoryThread ==
    ASSUME StoryInv, Inv', NEW h \in Handlers, TaskThread(h)
    PROVE  StoryInv'
<1> USE DEF Before, Streaming, Stopped, ThreadStates
<1>1. CASE Begin(h)
  <2>1. PICK pc \in {"cd", "popen"} : Step(h, pc)
    BY <1>1 DEF Begin
  <2>2. /\ thr[h] = "begin" /\ UNCHANGED <<id, log, tasks>>
    BY <1>1 DEF Begin, connVars
  <2> QED BY <2>1, <2>2, StoryMove, TaskKept
<1>2. CASE ChangeDir(h)
  <2>1. /\ thr[h] = "cd" /\ Step(h, "cdMoved") /\ SetRunning(h, FALSE)
        /\ UNCHANGED <<id, log>>
    BY <1>2 DEF ChangeDir, connVars
  <2> QED BY <2>1, StoryMove, RunningSet
<1>3. CASE PublishDir(h)
  BY <1>3, StoryPublish DEF PublishDir, connVars
<1>4. CASE Popen(h)
  <2>1. thr[h] = "popen" /\ UNCHANGED <<id, log>>
    BY <1>4 DEF Popen, connVars
  <2>2. CASE SetRunning(h, FALSE) /\ Step(h, "complete")
    BY <2>1, <2>2, StoryMove, RunningSet
  <2>3. CASE Step(h, "start") /\ UNCHANGED tasks
    BY <2>1, <2>3, StoryMove, TaskKept
  <2> QED BY <1>4, <2>2, <2>3 DEF Popen
<1>5. CASE PublishStart(h)
  BY <1>5, StoryPublish DEF PublishStart, connVars
<1>6. CASE ReadChunk(h)
  <2>1. /\ thr[h] = "read" /\ Step(h, "append") /\ UNCHANGED <<id, log, tasks>>
    BY <1>6 DEF ReadChunk, connVars
  <2> QED BY <2>1, StoryMove, TaskKept
<1>7. CASE AppendChunk(h)
  <2>1. /\ thr[h] = "append" /\ Step(h, "publish") /\ UNCHANGED <<id, log>>
    BY <1>7, OutputAppended DEF AppendChunk, connVars
  <2>2. tasks[id[h]].running
    BY <2>1, ThreadFacts DEF StoryInv, RunningShows
  <2> QED BY <1>7, <2>1, <2>2, StoryMove, OutputAppended
<1>8. CASE PublishChunk(h)
  <2>1. UNCHANGED <<id, tasks>> /\ thr[h] = "publish"
    BY <1>8 DEF PublishChunk, connVars
  <2>2. CASE Publish(h, "output") /\ Step(h, "read")
    BY <2>1, <2>2, StoryPublish
  <2>3. CASE UNCHANGED <<log, thr>>
    BY <2>1, <2>3, StorySame
  <2> QED BY <1>8, <2>2, <2>3 DEF PublishChunk
<1>9. CASE ReadEof(h)
  <2>1. /\ thr[h] = "read" /\ Step(h, "complete") /\ SetRunning(h, FALSE)
        /\ UNCHANGED <<id, log>>
    BY <1>9 DEF ReadEof, connVars
  <2> QED BY <2>1, StoryMove, RunningSet
<1>10. CASE PublishComplete(h)
  BY <1>10, StoryPublish DEF PublishComplete, connVars
<1> QED BY <1>1, <1>2, <1>3, <1>4, <1>5, <1>6, <1>7, <1>8, <1>9, <1>10
        DEF TaskThread

LEMMA StoryStep == StoryInv /\ ~clash' /\ [Next]_vars => StoryInv'
<1> SUFFICES ASSUME StoryInv, ~clash', [Next]_vars PROVE StoryInv'
  OBVIOUS
<1>1. Inv'
  BY InvStep DEF StoryInv
<1>2. CASE UNCHANGED vars
  BY <1>1, <1>2, StorySame DEF vars, connVars, runVars
<1>3. ASSUME NEW h \in Handlers, Accept(h) \/ Connection(h) PROVE StoryInv'
  <2>1. CASE Insert(h)
    BY <1>1, <2>1, StoryInsert
  <2>2. CASE Reload(h)
    <3>1. thr[h] = "none" /\ \A g \in Handlers : g # h => id'[g] = id[g]
      BY <2>2, MapFacts DEF Reload, StoryInv
    <3> QED BY <1>1, <2>2, <3>1, StorySame DEF Reload, runVars
  <2>3. CASE \/ Accept(h) \/ Load(h) \/ Store(h) \/ ReplyExec(h) \/ ListTasks(h)
             \/ ReadLogs(h) \/ KillTask(h) \/ SendLocked(h)
    BY <1>1, <2>3, StorySame DEF Accept, Load, Store, ReplyExec, ListTasks,
       ReadLogs, KillTask, SendLocked, runVars
  <2> QED BY <1>3, <2>1, <2>2, <2>3 DEF Connection
<1>4. ASSUME NEW h \in Handlers, ShellExits(h) \/ Pkill(h) PROVE StoryInv'
  BY <1>1, <1>4, StorySame DEF ShellExits, Pkill, connVars
<1> QED BY <1>1, <1>2, <1>3, <1>4, StoryThread DEF Next, Quiet

Told == Settled /\ (~clash => StoryInv)

LEMMA StoryAlways == Spec => []Told
<1>1. Init => Told
  BY StoryInit, AlwaysInit DEF Told, Settled, StoryInv
<1>2. Told /\ [Next]_vars /\ Settled' => Told'
  <2> SUFFICES ASSUME Told, [Next]_vars, Settled' PROVE Told'
    OBVIOUS
  <2>1. clash => clash'
    BY ClashStays DEF Told, Settled, Always, Typed
  <2> QED BY <2>1, StoryStep DEF Told
<1> QED BY <1>1, <1>2, SettledAlways, PTL DEF Spec

\* However many tasks stream at once, what WebSocket clients are sent of each is
\* one story: it begins once, its end comes last, and nothing follows it; until
\* a clash.
THEOREM StoriesAreInOrder == Spec => []StoryInOrder
<1>1. Told => StoryInOrder
  BY DEF Told, StoryInv, StoryInOrder
<1> QED BY <1>1, StoryAlways, PTL

\* Only /logs leads a waiting request for logs to its reply.
LEMMA LogStepIsReadLogs ==
    ASSUME Typed, [Next]_vars, NEW h \in Handlers, CopiesOf(h)
    PROVE  ReadLogs(h)
<1> USE DEF CopiesOf, Typed, TypeOK
<1>1. conn[h] = "wait" /\ conn'[h] = "sending" /\ req[h].op = "logs"
  OBVIOUS
<1>2. conn' # conn
  BY <1>1
<1>3. PICK g \in Handlers : Accept(g) \/ Connection(g)
  BY <1>2 DEF Next, Quiet, vars, connVars, TaskThread, Begin, ChangeDir,
     PublishDir, Popen, PublishStart, ReadChunk, AppendChunk, PublishChunk,
     ReadEof, PublishComplete, ShellExits, Pkill
<1>4. g = h
  BY <1>1, <1>3 DEF Connection, Accept, Load, Store, Reload, Insert,
     ReplyExec, ListTasks, ReadLogs, KillTask, TakeLock, SendLocked, Goto
<1> QED BY <1>1, <1>3, <1>4 DEF Connection, Accept, Load, Store, Reload, Insert,
        ReplyExec, ListTasks, KillTask, TakeLock, SendLocked, Goto

\* What a /logs finds in the map for its reply.
LEMMA LogsCopied ==
    ASSUME StoryInv, ~clash, [Next]_vars, NEW h \in Handlers, up', CopiesOf(h)
    PROVE  CopiesStream(h)
<1> DEFINE i == req[h].about
           streamed == Cardinality(Outputs(i))
<1>1. ReadLogs(h)
  BY LogStepIsReadLogs DEF StoryInv, Inv, Always
<1>2. i \in DOMAIN tasks
  BY DEF CopiesOf
<1>3. /\ tasks[i].out = streamed + IF thr[tasks[i].by] = "publish" THEN 1 ELSE 0
      /\ Announced(i) <=> thr[tasks[i].by] = "over"
      /\ streamed \in Nat
  BY <1>2, TaskFacts, OutputsAreFinite, FS_CardinalityType
     DEF StoryInv, OutputShows
<1>4. Appending(i) => thr[tasks[i].by] = "append"
  <2> SUFFICES ASSUME NEW g \in Handlers, thr[g] = "append", id[g] = i
               PROVE  thr[tasks[i].by] = "append"
    BY DEF Appending
  <2> QED BY ThreadFacts
<1>5. \/ copy'[h] = Whole(tasks[i].out)
      \/ Appending(i) /\ copy'[h].torn
  <2>1. /\ copy \in [Handlers -> Copy]
        /\ \/ copy' = [copy EXCEPT ![h] = Whole(tasks[i].out)]
           \/ /\ Appending(i)
              /\ copy' = [copy EXCEPT ![h] = [lines |-> 0, torn |-> TRUE]]
    BY <1>1, <1>2 DEF ReadLogs, StoryInv, Inv, Always, Typed, TypeOK
  <2> QED BY <2>1
<1> HIDE DEF streamed
<1>6. CASE Announced(i)
  <2>1. copy'[h] = Whole(streamed)
    BY <1>3, <1>4, <1>5, <1>6
  <2> QED BY <1>6, <2>1 DEF CopiesStream, streamed
<1>7. CASE ~Announced(i)
  <2>1. copy'[h].torn \/ copy'[h].lines \in {streamed, streamed + 1}
    BY <1>3, <1>4, <1>5, <1>7 DEF Whole
  <2> QED BY <1>7, <2>1 DEF CopiesStream, streamed
<1> QED BY <1>6, <1>7

\* What a GET /logs replies is what was streamed before, one line more at most, or
\* torn; and neither more nor torn once the end was announced; until a clash.
THEOREM LogsAgree == Spec => LogsMatchStream
<1> DEFINE A == \A h \in Handlers : ~clash /\ up' /\ CopiesOf(h) => CopiesStream(h)
<1>1. Told /\ [Next]_vars => [A]_vars
  BY LogsCopied DEF Told
<1> QED BY <1>1, StoryAlways, PTL DEF Spec, LogsMatchStream

-----------------------------------------------------------------------------
(* The service implements the abstract task lifecycle *)

LEMMA LifecycleInit == Init => Lifecycle!Init
<1> SUFFICES ASSUME Init PROVE Lifecycle!Init
  OBVIOUS
<1>1. tasks = [i \in {} |-> "none"]
  BY DEF Init
<1>2. taskOwner = [i \in {} |-> "none"] /\ taskLife = [i \in {} |-> "running"]
  BY <1>1 DEF taskOwner, taskLife
<1> QED BY <1>2 DEF Lifecycle!Init

\* What the mapping makes of a Task: how far its thread has come.
LifeOf(p) == IF p = "over" THEN "announced"
             ELSE IF p \in Stopped THEN "stopped" ELSE "running"

LifeShows == taskLife = [i \in DOMAIN tasks |-> LifeOf(thr[tasks[i].by])]

LEMMA LifeIsProgress == StoryInv => LifeShows
<1> SUFFICES ASSUME StoryInv PROVE LifeShows
  OBVIOUS
<1>1. ASSUME NEW i \in DOMAIN tasks
      PROVE  (IF Announced(i) THEN "announced"
              ELSE IF tasks[i].running THEN "running" ELSE "stopped")
                = LifeOf(thr[tasks[i].by])
  BY <1>1, TaskFacts DEF StoryInv, RunningShows, LifeOf, Stopped
<1> QED BY <1>1 DEF taskLife, LifeShows

LEMMA LifeShowsNext == StoryInv' => LifeShows'
  BY LifeIsProgress, PTL

\* A request that inserts its Task gives it an id nobody had.
LEMMA InsertBegins ==
    ASSUME StoryInv, StoryInv', NEW h \in Handlers, Insert(h)
    PROVE  Lifecycle!Begin(h)
<1>1. /\ conn[h] = "insert" /\ thr[h] = "none" /\ id' = id
      /\ thr' = [thr EXCEPT ![h] = "begin"] \/ thr' = thr
  BY MapFacts DEF Insert, StoryInv
<1>2. /\ \A g \in Handlers : g # h => thr'[g] = thr[g]
      /\ thr'[h] \in {"none", "begin"}
  BY <1>1 DEF StoryInv, Inv, Always, Typed, TypeOK
<1>3. \A i \in DOMAIN tasks : tasks[i].by # h /\ tasks[i].by \in Handlers
  BY <1>1, MapFacts DEF StoryInv, Inv, Always, StoredUnderOwnId, Inserted
<1>4. id[h] \notin DOMAIN tasks
  BY InsertsFresh DEF StoryInv
<1>5. /\ DOMAIN tasks' = DOMAIN tasks \union {id[h]}
      /\ tasks'[id[h]].by = h
      /\ \A i \in DOMAIN tasks : tasks'[i] = tasks[i]
  BY <1>4 DEF Insert, Put
<1>6. /\ DOMAIN taskOwner = DOMAIN tasks
      /\ DOMAIN taskOwner' = DOMAIN tasks'
      /\ \A i \in DOMAIN taskOwner : taskOwner[i] # h
  BY <1>3 DEF taskOwner
<1>7. taskOwner' = [i \in DOMAIN taskOwner \union {id[h]} |->
                       IF i = id[h] THEN h ELSE taskOwner[i]]
  BY <1>4, <1>5, <1>6 DEF taskOwner
<1>8. taskLife' = [i \in DOMAIN taskOwner \union {id[h]} |->
                      IF i = id[h] THEN "running" ELSE taskLife[i]]
  <2>1. taskLife = [i \in DOMAIN tasks |-> LifeOf(thr[tasks[i].by])]
    BY LifeIsProgress DEF LifeShows
  <2>2. taskLife' = [i \in DOMAIN tasks' |-> LifeOf(thr'[tasks'[i].by])]
    BY LifeShowsNext DEF LifeShows
  <2>3. LifeOf(thr'[h]) = "running"
    BY <1>2 DEF LifeOf, Stopped
  <2> QED BY <1>2, <1>3, <1>4, <1>5, <1>6, <2>1, <2>2, <2>3
<1> QED BY <1>4, <1>5, <1>6, <1>7, <1>8 DEF Lifecycle!Begin, Lifecycle!Ids

\* A thread that moves on moves its Task on, or leaves it where it is.
LEMMA MoveMaps ==
    ASSUME StoryInv, StoryInv', NEW h \in Handlers, thr[h] # "none",
           NEW pc, Step(h, pc), UNCHANGED id,
           DOMAIN tasks' = DOMAIN tasks,
           \A i \in DOMAIN tasks : tasks'[i].by = tasks[i].by
    PROVE  /\ id[h] \in DOMAIN taskOwner /\ UNCHANGED taskOwner
           /\ taskLife[id[h]] = LifeOf(thr[h])
           /\ taskLife' = [taskLife EXCEPT ![id[h]] = LifeOf(pc)]
<1>1. /\ id[h] \in DOMAIN tasks /\ tasks[id[h]].by = h
      /\ \A i \in DOMAIN tasks : tasks[i].by = h <=> i = id[h]
  BY ThreadFacts
<1>2. thr'[h] = pc /\ \A g \in Handlers : g # h => thr'[g] = thr[g]
  BY DEF Step, StoryInv, Inv, Always, Typed, TypeOK
<1>3. \A i \in DOMAIN tasks : tasks[i].by \in Handlers
  BY MapFacts DEF StoryInv
<1>4. taskLife = [i \in DOMAIN tasks |-> LifeOf(thr[tasks[i].by])]
  BY LifeIsProgress DEF LifeShows
<1>5. taskLife' = [i \in DOMAIN tasks' |-> LifeOf(thr'[tasks'[i].by])]
  BY LifeShowsNext DEF LifeShows
<1>6. DOMAIN taskOwner = DOMAIN tasks /\ UNCHANGED taskOwner
  BY DEF taskOwner
<1> QED BY <1>1, <1>2, <1>3, <1>4, <1>5, <1>6

\* The three ways to move on: nothing is seen, the task stops, its end is
\* announced.
LEMMA SeenMoves ==
    ASSUME StoryInv, StoryInv', NEW h \in Handlers, thr[h] # "none",
           NEW pc, Step(h, pc), UNCHANGED id,
           DOMAIN tasks' = DOMAIN tasks,
           \A i \in DOMAIN tasks : tasks'[i].by = tasks[i].by,
           \/ LifeOf(pc) = LifeOf(thr[h])
           \/ LifeOf(thr[h]) = "running" /\ LifeOf(pc) = "stopped"
           \/ LifeOf(thr[h]) = "stopped" /\ LifeOf(pc) = "announced"
    PROVE  [Lifecycle!Next]_Lifecycle!vars
<1>1. /\ id[h] \in DOMAIN taskOwner /\ UNCHANGED taskOwner
      /\ taskLife[id[h]] = LifeOf(thr[h])
      /\ taskLife' = [taskLife EXCEPT ![id[h]] = LifeOf(pc)]
  BY MoveMaps
<1>2. CASE LifeOf(pc) = LifeOf(thr[h])
  <2>1. taskLife' = taskLife
    BY <1>1, <1>2 DEF taskLife
  <2> QED BY <1>1, <2>1 DEF Lifecycle!vars
<1>3. CASE LifeOf(thr[h]) = "running" /\ LifeOf(pc) = "stopped"
  BY <1>1, <1>3 DEF Lifecycle!Next, Lifecycle!Ids, Lifecycle!Stop
<1>4. CASE LifeOf(thr[h]) = "stopped" /\ LifeOf(pc) = "announced"
  BY <1>1, <1>4 DEF Lifecycle!Next, Lifecycle!Ids, Lifecycle!Announce
<1> QED BY <1>2, <1>3, <1>4

LEMMA ThreadMaps ==
    ASSUME StoryInv, StoryInv', NEW h \in Handlers, TaskThread(h)
    PROVE  [Lifecycle!Next]_Lifecycle!vars
<1>1. UNCHANGED id /\ thr[h] # "none"
  BY DEF TaskThread, Begin, ChangeDir, PublishDir, Popen, PublishStart,
     ReadChunk, AppendChunk, PublishChunk, ReadEof, PublishComplete, connVars
<1>2. /\ DOMAIN tasks' = DOMAIN tasks
      /\ \A i \in DOMAIN tasks : tasks'[i].by = tasks[i].by
  <2> DEFINE Same == /\ DOMAIN tasks' = DOMAIN tasks
                     /\ \A i \in DOMAIN tasks : tasks'[i].by = tasks[i].by
  <2>1. SetRunning(h, FALSE) => Same
    BY <1>1, RunningSet
  <2>2. AppendChunk(h) => Same
    BY <1>1, OutputAppended
  <2>3. UNCHANGED tasks => Same
    OBVIOUS
  <2> HIDE DEF Same
  <2>4. Same
    BY <2>1, <2>2, <2>3 DEF TaskThread, Begin, ChangeDir, PublishDir, Popen,
       PublishStart, ReadChunk, PublishChunk, ReadEof, PublishComplete
  <2> QED BY <2>4 DEF Same
<1>3. ASSUME NEW pc, Step(h, pc),
             \/ LifeOf(pc) = LifeOf(thr[h])
             \/ LifeOf(thr[h]) = "running" /\ LifeOf(pc) = "stopped"
             \/ LifeOf(thr[h]) = "stopped" /\ LifeOf(pc) = "announced"
      PROVE  [Lifecycle!Next]_Lifecycle!vars
  BY <1>1, <1>2, <1>3, SeenMoves
<1>4. CASE Begin(h)
  <2>1. PICK pc \in {"cd", "popen"} : Step(h, pc)
    BY <1>4 DEF Begin
  <2>2. LifeOf(pc) = LifeOf(thr[h])
    BY <1>4 DEF Begin, LifeOf, Stopped
  <2> QED BY <1>3, <2>1, <2>2
<1>5. CASE PublishStart(h) \/ ReadChunk(h) \/ AppendChunk(h)
  <2>1. PICK pc \in {"read", "append", "publish"} : Step(h, pc)
    BY <1>5, OutputAppended DEF PublishStart, ReadChunk
  <2>2. LifeOf(pc) = LifeOf(thr[h])
    BY <1>5 DEF PublishStart, ReadChunk, AppendChunk, LifeOf, Stopped
  <2> QED BY <1>3, <2>1, <2>2
<1>6. CASE PublishDir(h)
  <2>1. Step(h, "complete") /\ LifeOf("complete") = LifeOf(thr[h])
    BY <1>6 DEF PublishDir, LifeOf, Stopped
  <2> QED BY <1>3, <2>1
<1>7. CASE ChangeDir(h) \/ ReadEof(h)
  <2>1. PICK pc \in {"cdMoved", "complete"} : Step(h, pc)
    BY <1>7 DEF ChangeDir, ReadEof
  <2>2. LifeOf(thr[h]) = "running" /\ LifeOf(pc) = "stopped"
    BY <1>7 DEF ChangeDir, ReadEof, LifeOf, Stopped
  <2> QED BY <1>3, <2>1, <2>2
<1>8. CASE Popen(h)
  <2>1. /\ LifeOf(thr[h]) = "running" /\ LifeOf("complete") = "stopped"
        /\ LifeOf("start") = "running"
    BY <1>8 DEF Popen, LifeOf, Stopped
  <2>2. Step(h, "complete") \/ Step(h, "start")
    BY <1>8 DEF Popen
  <2> QED BY <1>3, <2>1, <2>2
<1>9. CASE PublishChunk(h)
  <2>1. CASE Step(h, "read")
    <3>1. LifeOf("read") = LifeOf(thr[h])
      BY <1>9 DEF PublishChunk, LifeOf, Stopped
    <3> QED BY <1>3, <2>1, <3>1
  <2>2. CASE UNCHANGED <<log, thr>>
    BY <1>9, <2>2 DEF PublishChunk, Lifecycle!vars, taskOwner, taskLife,
       Announced
  <2> QED BY <1>9, <2>1, <2>2 DEF PublishChunk
<1>10. CASE PublishComplete(h)
  <2>1. /\ Step(h, "over") /\ LifeOf(thr[h]) = "stopped"
        /\ LifeOf("over") = "announced"
    BY <1>10 DEF PublishComplete, LifeOf, Stopped
  <2> QED BY <1>3, <2>1
<1> QED BY <1>4, <1>5, <1>6, <1>7, <1>8, <1>9, <1>10 DEF TaskThread

LEMMA LifecycleStep ==
    StoryInv /\ StoryInv' /\ [Next]_vars => [Lifecycle!Next]_Lifecycle!vars
<1> SUFFICES ASSUME StoryInv, StoryInv', [Next]_vars
             PROVE  [Lifecycle!Next]_Lifecycle!vars
  OBVIOUS
<1>1. ASSUME UNCHANGED <<tasks, log>>
      PROVE  UNCHANGED Lifecycle!vars
  BY <1>1 DEF Lifecycle!vars, taskOwner, taskLife, Announced
<1>2. ASSUME NEW h \in Handlers, Accept(h) \/ Connection(h)
      PROVE  [Lifecycle!Next]_Lifecycle!vars
  <2>1. CASE Insert(h)
    BY <2>1, InsertBegins DEF Lifecycle!Next
  <2>2. CASE ~Insert(h)
    BY <1>1, <1>2, <2>2 DEF Accept, Connection, Load, Store, Reload, ReplyExec,
       ListTasks, ReadLogs, KillTask, SendLocked
  <2> QED BY <2>1, <2>2
<1>3. ASSUME NEW h \in Handlers, ShellExits(h) \/ Pkill(h)
      PROVE  [Lifecycle!Next]_Lifecycle!vars
  BY <1>1, <1>3 DEF ShellExits, Pkill
<1>4. CASE UNCHANGED vars
  BY <1>1, <1>4 DEF vars
<1> QED BY <1>2, <1>3, <1>4, ThreadMaps DEF Next, Quiet

\* Until a clash, every accepted command gets an id nobody had and keeps it; its
\* task stops once, and its end is announced once, after that.
THEOREM ServiceImplementsLifecycle == Spec => LifecycleSpec
<1>1. Told /\ Told' /\ [Next]_vars => [LifecycleUnlessClash]_vars
  <2> SUFFICES ASSUME Told, Told', [Next]_vars, ~clash'
               PROVE  [Lifecycle!Next]_Lifecycle!vars
    BY DEF LifecycleUnlessClash
  <2>1. clash => clash'
    BY ClashStays DEF Told, Settled, Always, Typed
  <2> QED BY <2>1, LifecycleStep DEF Told
<1> QED BY <1>1, LifecycleInit, StoryAlways, PTL DEF Spec, LifecycleSpec

=============================================================================
