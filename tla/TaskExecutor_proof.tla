------------------------- MODULE TaskExecutor_proof -------------------------
(***************************************************************************)
(* Proofs about Tasks::Manager of the modular server, for any number of    *)
(* tasks and kills.                                                        *)
(***************************************************************************)
EXTENDS TaskExecutor, TLAPS

-----------------------------------------------------------------------------
(* The inductive invariant *)

\* Only a request whose Execute ran has a thread.
Started == \A r \in Requests : thr[r] # "none" => cmd[r] # "none"

\* Every entry is the one its request was given, and every thread works on the
\* entry of its own request.
EntryIsOwn ==
    /\ \A i \in DOMAIN tasks : /\ id[tasks[i].by] = i
                               /\ cmd[tasks[i].by] # "none"
    /\ \A r \in Requests : thr[r] # "none" => /\ id[r] \in DOMAIN tasks
                                              /\ tasks[id[r]].by = r

\* How far a thread has come shows in its entry: past "store" the output is
\* there, past "cd" the directory, past "clear" the task is not running, and only a thread that is over
\* has announced its end.
Progress ==
    \A r \in Requests :
        /\ thr[r] \in {"clear", "output", "completion", "over"}
              => IF cmd[r] = "cd" THEN tasks[id[r]].moved ELSE tasks[id[r]].out
        /\ thr[r] = "cd" => cmd[r] = "cd"
        /\ thr[r] \in {"command", "store"} => cmd[r] # "cd"
        /\ thr[r] \in {"output", "completion", "over"}
              => ~tasks[id[r]].running
        /\ thr[r] \in {"completion", "over"} => id[r] \in outputs
        /\ thr[r] \in {"begin", "command", "store", "cd", "clear",
                       "output", "completion"}
              => id[r] \notin completed

Inv == TypeOK /\ Started /\ EntryIsOwn /\ Progress /\ CompletionIsLast

LEMMA InvInit == Init => Inv
  BY DEF Init, Inv, TypeOK, Started, EntryIsOwn, Progress, CompletionIsLast,
     ThreadStates, Task

\* What the type invariant says of the map.
LEMMA MapFacts ==
    ASSUME Inv
    PROVE  /\ counter \in Nat
           /\ id \in [Requests -> Nat]
           /\ cmd \in [Requests -> {"none", "cd", "run"}]
           /\ thr \in [Requests -> ThreadStates]
           /\ \A i \in DOMAIN tasks : /\ i \in 1..counter
                                      /\ tasks[i] \in Task
                                      /\ tasks[i].by \in Requests
           /\ outputs \subseteq DOMAIN tasks
           /\ completed \subseteq DOMAIN tasks
  BY DEF Inv, TypeOK, Task

\* Execute, the counter under the lock: the id is new.
LEMMA ExecuteFacts ==
    ASSUME Inv, NEW r \in Requests, NEW c \in {"cd", "run"}, Execute(r, c)
    PROVE  /\ counter + 1 \notin DOMAIN tasks
           /\ DOMAIN tasks' = DOMAIN tasks \union {counter + 1}
           /\ tasks'[counter + 1] = NewTask(r)
           /\ \A i \in DOMAIN tasks : tasks'[i] = tasks[i]
           /\ tasks' \in [DOMAIN tasks' -> Task]
           /\ \A i \in DOMAIN tasks : tasks[i].by # r
           /\ thr[r] = "none"
           /\ thr'[r] \in {"none", "begin"}
           /\ id'[r] = counter + 1
           /\ \A s \in Requests : s # r => /\ thr'[s] = thr[s]
                                           /\ id'[s] = id[s]
                                           /\ cmd'[s] = cmd[s]
<1>1. counter + 1 \notin DOMAIN tasks
  BY MapFacts
<1>2. tasks' = Put(tasks, counter + 1, NewTask(r))
  BY DEF Execute
<1>3. /\ DOMAIN tasks' = DOMAIN tasks \union {counter + 1}
      /\ tasks'[counter + 1] = NewTask(r)
      /\ \A i \in DOMAIN tasks : tasks'[i] = tasks[i]
      /\ tasks' = [i \in DOMAIN tasks' |-> tasks'[i]]
  BY <1>1, <1>2 DEF Put
<1>4. NewTask(r) \in Task
  BY DEF Task, NewTask
<1>5. tasks' \in [DOMAIN tasks' -> Task]
  BY <1>3, <1>4, MapFacts
<1>6. (\A i \in DOMAIN tasks : tasks[i].by # r) /\ thr[r] = "none"
  BY DEF Execute, Inv, EntryIsOwn, Started
<1>7. /\ thr'[r] \in {"none", "begin"}
      /\ id'[r] = counter + 1
      /\ \A s \in Requests : s # r => /\ thr'[s] = thr[s]
                                      /\ id'[s] = id[s]
                                      /\ cmd'[s] = cmd[s]
  BY <1>6, MapFacts DEF Execute, Step
<1> QED BY <1>1, <1>3, <1>5, <1>6, <1>7

LEMMA InvExecute ==
    ASSUME Inv, NEW r \in Requests, NEW c \in {"cd", "run"}, Execute(r, c)
    PROVE  Inv'
<1>1. UNCHANGED <<up, outputs, completed>> /\ counter' = counter + 1
      /\ cmd'[r] = c
  BY MapFacts DEF Execute
<1>2. TypeOK'
  <2>1. DOMAIN tasks' \subseteq 1..counter'
    <3>1. counter \in Nat /\ DOMAIN tasks \subseteq 1..counter
      BY DEF Inv, TypeOK
    <3>2. 1..counter \union {counter + 1} \subseteq 1..(counter + 1)
      BY <3>1
    <3>3. DOMAIN tasks' = DOMAIN tasks \union {counter + 1}
      BY ExecuteFacts
    <3> QED BY <1>1, <3>1, <3>2, <3>3
  <2>2. /\ cmd' \in [Requests -> {"none", "cd", "run"}]
        /\ id' \in [Requests -> Nat]
        /\ thr' \in [Requests -> ThreadStates]
    BY MapFacts DEF Execute, Step, ThreadStates
  <2>3. tasks' \in [DOMAIN tasks' -> Task]
        /\ DOMAIN tasks \subseteq DOMAIN tasks'
    BY ExecuteFacts
  <2>4. /\ up' \in BOOLEAN /\ counter' \in Nat
        /\ outputs' \subseteq DOMAIN tasks' /\ completed' \subseteq DOMAIN tasks'
    BY <1>1, <2>3 DEF Inv, TypeOK
  <2> QED BY <2>1, <2>2, <2>3, <2>4 DEF TypeOK
<1>3. Started'
  BY <1>1, ExecuteFacts DEF Inv, Started
<1>4. EntryIsOwn'
  <2>1. /\ DOMAIN tasks' = DOMAIN tasks \union {counter + 1}
        /\ tasks'[counter + 1].by = r
        /\ id'[r] = counter + 1
        /\ \A i \in DOMAIN tasks : tasks'[i] = tasks[i] /\ tasks[i].by # r
        /\ \A s \in Requests : s # r => /\ thr'[s] = thr[s]
                                        /\ id'[s] = id[s]
                                        /\ cmd'[s] = cmd[s]
    <3>1. tasks'[counter + 1] = NewTask(r)
      BY ExecuteFacts
    <3>2. tasks'[counter + 1].by = r
      BY <3>1 DEF NewTask
    <3>3. \A i \in DOMAIN tasks : tasks'[i] = tasks[i] /\ tasks[i].by # r
      BY ExecuteFacts
    <3>4. \A s \in Requests : s # r => /\ thr'[s] = thr[s]
                                       /\ id'[s] = id[s]
                                       /\ cmd'[s] = cmd[s]
      BY ExecuteFacts
    <3>5. /\ DOMAIN tasks' = DOMAIN tasks \union {counter + 1}
          /\ id'[r] = counter + 1
      BY ExecuteFacts
    <3> QED BY <3>2, <3>3, <3>4, <3>5
  <2>2. ASSUME NEW i \in DOMAIN tasks'
        PROVE  id'[tasks'[i].by] = i /\ cmd'[tasks'[i].by] # "none"
    <3>1. CASE i = counter + 1
      BY <1>1, <2>1, <3>1
    <3>2. CASE i \in DOMAIN tasks
      <4>1. tasks[i].by \in Requests
        BY <3>2, MapFacts
      <4>2. id[tasks[i].by] = i /\ cmd[tasks[i].by] # "none"
        BY <3>2 DEF Inv, EntryIsOwn
      <4> QED BY <2>1, <3>2, <4>1, <4>2
    <3> QED BY <2>1, <2>2, <3>1, <3>2
  <2>3. ASSUME NEW s \in Requests, thr'[s] # "none"
        PROVE  id'[s] \in DOMAIN tasks' /\ tasks'[id'[s]].by = s
    <3>1. CASE s = r
      BY <2>1, <3>1
    <3>2. CASE s # r
      <4>1. thr[s] # "none" /\ id'[s] = id[s]
        BY <2>1, <2>3, <3>2
      <4>2. id[s] \in DOMAIN tasks /\ tasks[id[s]].by = s
        BY <4>1 DEF Inv, EntryIsOwn
      <4> QED BY <2>1, <4>1, <4>2
    <3> QED BY <3>1, <3>2
  <2> QED BY <2>2, <2>3 DEF EntryIsOwn
<1>5. Progress'
  <2> SUFFICES ASSUME NEW s \in Requests
               PROVE  /\ thr'[s] \in {"clear", "output", "completion", "over"}
                            => IF cmd'[s] = "cd" THEN tasks'[id'[s]].moved
                                                ELSE tasks'[id'[s]].out
                      /\ thr'[s] = "cd" => cmd'[s] = "cd"
                      /\ thr'[s] \in {"command", "store"} => cmd'[s] # "cd"
                      /\ thr'[s] \in {"output", "completion", "over"}
                            => ~tasks'[id'[s]].running
                      /\ thr'[s] \in {"completion", "over"}
                            => id'[s] \in outputs'
                      /\ thr'[s] \in {"begin", "command", "store", "cd", "clear",
                                      "output", "completion"}
                            => id'[s] \notin completed'
    BY DEF Progress
  <2>1. CASE s = r
    <3>1. counter + 1 \notin completed
      BY ExecuteFacts, MapFacts
    <3> QED BY <1>1, <2>1, <3>1, ExecuteFacts
  <2>2. CASE s # r /\ thr[s] = "none"
    BY <2>2, ExecuteFacts
  <2>3. CASE s # r /\ thr[s] # "none"
    <3>1. id[s] \in DOMAIN tasks
      BY <2>3 DEF Inv, EntryIsOwn
    <3>2. thr'[s] = thr[s] /\ id'[s] = id[s] /\ tasks'[id[s]] = tasks[id[s]]
          /\ cmd'[s] = cmd[s]
      BY <2>3, <3>1, ExecuteFacts
    <3> QED BY <1>1, <3>2 DEF Inv, Progress
  <2> QED BY <2>1, <2>2, <2>3
<1>6. CompletionIsLast'
  BY <1>1, ExecuteFacts, MapFacts DEF Inv, CompletionIsLast
<1> QED BY <1>2, <1>3, <1>4, <1>5, <1>6 DEF Inv

\* Steps that change one flag of one entry, and at most one thread's state.
LEMMA EditFacts ==
    ASSUME Inv, NEW i \in DOMAIN tasks,
           \/ tasks' = [tasks EXCEPT ![i].running = FALSE]
           \/ tasks' = [tasks EXCEPT ![i].out = TRUE]
           \/ tasks' = [tasks EXCEPT ![i].moved = TRUE]
    PROVE  /\ DOMAIN tasks' = DOMAIN tasks
           /\ tasks' \in [DOMAIN tasks -> Task]
           /\ \A j \in DOMAIN tasks : tasks'[j].by = tasks[j].by
           /\ \A j \in DOMAIN tasks : j # i => tasks'[j] = tasks[j]
<1>1. tasks \in [DOMAIN tasks -> Task] /\ tasks[i] \in Task
  BY DEF Inv, TypeOK
<1>2. CASE tasks' = [tasks EXCEPT ![i].running = FALSE]
  <2>1. [tasks[i] EXCEPT !.running = FALSE] \in Task
    BY <1>1 DEF Task
  <2> QED BY <1>1, <1>2, <2>1 DEF Task
<1>3. CASE tasks' = [tasks EXCEPT ![i].out = TRUE]
  <2>1. [tasks[i] EXCEPT !.out = TRUE] \in Task
    BY <1>1 DEF Task
  <2> QED BY <1>1, <1>3, <2>1 DEF Task
<1>4. CASE tasks' = [tasks EXCEPT ![i].moved = TRUE]
  <2>1. [tasks[i] EXCEPT !.moved = TRUE] \in Task
    BY <1>1 DEF Task
  <2> QED BY <1>1, <1>4, <2>1 DEF Task
<1> QED BY <1>2, <1>3, <1>4

LEMMA InvKill ==
    ASSUME Inv, NEW i \in DOMAIN tasks, Kill(i)
    PROVE  Inv'
<1>1. /\ UNCHANGED <<up, counter, cmd, id, thr, outputs, completed>>
      /\ tasks' = [tasks EXCEPT ![i].running = FALSE]
  BY DEF Kill
<1>2. /\ DOMAIN tasks' = DOMAIN tasks
      /\ tasks' \in [DOMAIN tasks -> Task]
      /\ \A j \in DOMAIN tasks : /\ tasks'[j].by = tasks[j].by
                                 /\ tasks'[j].out = tasks[j].out
                                 /\ tasks'[j].moved = tasks[j].moved
                                 /\ tasks'[j].running => tasks[j].running
  BY <1>1, EditFacts, MapFacts DEF Task
<1>3. TypeOK' /\ Started'
  BY <1>1, <1>2 DEF Inv, TypeOK, Started
<1>4. EntryIsOwn' /\ CompletionIsLast'
  BY <1>1, <1>2, MapFacts DEF Inv, EntryIsOwn, CompletionIsLast
<1>5. Progress'
  BY <1>1, <1>2, MapFacts DEF Inv, EntryIsOwn, Progress, ThreadStates
<1> QED BY <1>3, <1>4, <1>5 DEF Inv

\* Two threads never work on one entry.
LEMMA ThreadsApart ==
    ASSUME Inv, NEW r \in Requests, NEW s \in Requests, r # s,
           thr[r] # "none", thr[s] # "none"
    PROVE  id[r] # id[s]
  BY DEF Inv, EntryIsOwn

LEMMA InvRunTask ==
    ASSUME Inv, NEW r \in Requests, RunTask(r)
    PROVE  Inv'
<1>1. /\ UNCHANGED <<counter, cmd, id>>
      /\ thr[r] # "none" /\ thr'[r] # "none"
      /\ id[r] \in DOMAIN tasks
      /\ \A s \in Requests : s # r => thr'[s] = thr[s]
      /\ up' \in BOOLEAN
      /\ thr' \in [Requests -> ThreadStates]
  <2>1. UNCHANGED <<counter, cmd, id>> /\ thr[r] # "none"
    BY DEF RunTask, Begin, CommandReturns, StoreOutput, ChangeDir, ClearRunning,
       OutputCallback, CompletionCallback
  <2>2. id[r] \in DOMAIN tasks
    BY <2>1 DEF Inv, EntryIsOwn
  <2>3. up' \in BOOLEAN
    BY DEF RunTask, Begin, CommandReturns, StoreOutput, ChangeDir, ClearRunning,
       OutputCallback, CompletionCallback, Inv, TypeOK
  <2>4. \/ thr' = thr
        \/ \E pc \in ThreadStates \ {"none"} : Step(r, pc)
    BY DEF RunTask, Begin, CommandReturns, StoreOutput, ChangeDir, ClearRunning,
       OutputCallback, CompletionCallback, ThreadStates
  <2>5. /\ thr' \in [Requests -> ThreadStates]
        /\ thr'[r] # "none"
        /\ \A s \in Requests : s # r => thr'[s] = thr[s]
    BY <2>1, <2>4, MapFacts DEF Step
  <2> QED BY <2>1, <2>2, <2>3, <2>5
<1>2. CASE Begin(r) \/ CommandReturns(r)
  <2>1. /\ UNCHANGED <<tasks, outputs, completed>>
        /\ thr[r] \in {"begin", "command"}
        /\ thr'[r] \in {"command", "store", "cd"}
        /\ thr'[r] = "cd" <=> cmd[r] = "cd"
    BY <1>2, MapFacts DEF Begin, CommandReturns, Step, Inv, EntryIsOwn, Progress
  <2>2. TypeOK' /\ Started' /\ EntryIsOwn' /\ CompletionIsLast'
    BY <1>1, <2>1 DEF Inv, TypeOK, Started, EntryIsOwn, CompletionIsLast
  <2>3. Progress'
    BY <1>1, <2>1 DEF Inv, Progress
  <2> QED BY <2>2, <2>3 DEF Inv
<1>3. CASE StoreOutput(r) \/ ChangeDir(r) \/ ClearRunning(r)
  <2>1. /\ UNCHANGED <<outputs, completed>>
        /\ \/ /\ thr[r] = "store" /\ thr'[r] = "clear"
              /\ tasks' = [tasks EXCEPT ![id[r]].out = TRUE]
           \/ /\ thr[r] = "cd" /\ thr'[r] = "clear"
              /\ tasks' = [tasks EXCEPT ![id[r]].moved = TRUE]
           \/ /\ thr[r] = "clear" /\ thr'[r] = "output"
              /\ tasks' = [tasks EXCEPT ![id[r]].running = FALSE]
    BY <1>3, MapFacts DEF StoreOutput, ChangeDir, ClearRunning, Step
  <2>2. /\ DOMAIN tasks' = DOMAIN tasks
        /\ tasks' \in [DOMAIN tasks -> Task]
        /\ \A j \in DOMAIN tasks : tasks'[j].by = tasks[j].by
        /\ \A j \in DOMAIN tasks : j # id[r] => tasks'[j] = tasks[j]
    BY <1>1, <2>1, EditFacts
  <2>3. /\ IF cmd[r] = "cd" THEN tasks'[id[r]].moved ELSE tasks'[id[r]].out
        /\ thr'[r] = "output" => ~tasks'[id[r]].running
    BY <1>1, <2>1, MapFacts DEF Inv, Progress, Task
  <2>4. TypeOK' /\ Started' /\ EntryIsOwn'
    BY <1>1, <2>1, <2>2, MapFacts DEF Inv, TypeOK, Started, EntryIsOwn
  <2>5. id[r] \notin completed
    BY <2>1 DEF Inv, Progress
  <2>6. CompletionIsLast'
    BY <1>1, <2>1, <2>2, <2>5, MapFacts DEF Inv, CompletionIsLast
  <2>7. Progress'
    <3> SUFFICES ASSUME NEW s \in Requests
                 PROVE  /\ thr'[s] \in {"clear", "output", "completion", "over"}
                              => IF cmd[s] = "cd" THEN tasks'[id[s]].moved
                                                 ELSE tasks'[id[s]].out
                        /\ thr'[s] = "cd" => cmd[s] = "cd"
                        /\ thr'[s] \in {"command", "store"} => cmd[s] # "cd"
                        /\ thr'[s] \in {"output", "completion", "over"}
                              => ~tasks'[id[s]].running
                        /\ thr'[s] \in {"completion", "over"}
                              => id[s] \in outputs
                        /\ thr'[s] \in {"begin", "command", "store", "cd", "clear",
                                        "output", "completion"}
                              => id[s] \notin completed
      BY <1>1, <2>1 DEF Progress
    <3>1. CASE s = r
      BY <2>1, <2>3, <2>5, <3>1
    <3>2. CASE s # r /\ thr[s] = "none"
      BY <1>1, <3>2
    <3>3. CASE s # r /\ thr[s] # "none"
      <4>1. id[s] # id[r] /\ id[s] \in DOMAIN tasks
        BY <1>1, <3>3, ThreadsApart DEF Inv, EntryIsOwn
      <4> QED BY <1>1, <2>2, <3>3, <4>1 DEF Inv, Progress
    <3> QED BY <3>1, <3>2, <3>3
  <2> QED BY <2>4, <2>6, <2>7 DEF Inv
<1>4. CASE OutputCallback(r)
  <2>1. /\ UNCHANGED <<tasks, completed>>
        /\ thr[r] = "output"
        /\ \/ thr' = thr /\ outputs' = outputs
           \/ thr'[r] = "completion" /\ outputs' = outputs \union {id[r]}
    BY <1>4, MapFacts DEF OutputCallback, Step
  <2>2. TypeOK' /\ Started' /\ EntryIsOwn' /\ CompletionIsLast'
    BY <1>1, <2>1 DEF Inv, TypeOK, Started, EntryIsOwn, CompletionIsLast
  <2>3. Progress'
    BY <1>1, <2>1 DEF Inv, Progress
  <2> QED BY <2>2, <2>3 DEF Inv
<1>5. CASE CompletionCallback(r)
  <2>1. /\ UNCHANGED <<tasks, outputs>>
        /\ thr[r] = "completion" /\ thr'[r] = "over"
        /\ completed' = completed \union {id[r]}
    BY <1>5, MapFacts DEF CompletionCallback, Step
  <2>2. TypeOK' /\ Started' /\ EntryIsOwn'
    BY <1>1, <2>1 DEF Inv, TypeOK, Started, EntryIsOwn
  <2>3. CompletionIsLast'
    BY <1>1, <2>1 DEF Inv, EntryIsOwn, Progress, CompletionIsLast
  <2>4. Progress'
    BY <1>1, <2>1, ThreadsApart DEF Inv, Progress
  <2> QED BY <2>2, <2>3, <2>4 DEF Inv
<1> QED BY <1>2, <1>3, <1>4, <1>5 DEF RunTask

LEMMA InvStep == Inv /\ [Next]_vars => Inv'
<1> SUFFICES ASSUME Inv, [Next]_vars PROVE Inv'
  OBVIOUS
<1>1. CASE UNCHANGED vars
  BY <1>1 DEF vars, Inv, TypeOK, Started, EntryIsOwn, Progress,
     CompletionIsLast
<1> QED BY <1>1, InvExecute, InvKill, InvRunTask DEF Next, Quiet

LEMMA InvAlways == Spec => []Inv
<1>1. Init => Inv
  BY InvInit
<1>2. Inv /\ [Next]_vars => Inv'
  BY InvStep
<1> QED BY <1>1, <1>2, PTL DEF Spec

\* Every variable always has its type, and no id exceeds the counter.
THEOREM TypeCorrect == Spec => []TypeOK
<1>1. Inv => TypeOK
  BY DEF Inv
<1> QED BY <1>1, InvAlways, PTL

\* completion_callback_ comes last: the task is no longer running, its output
\* can be fetched, and output_callback_ had it before; also after kills.
THEOREM CompletionComesLast == Spec => []CompletionIsLast
<1>1. Inv => CompletionIsLast
  BY DEF Inv
<1> QED BY <1>1, InvAlways, PTL

-----------------------------------------------------------------------------
(* The manager implements the abstract task lifecycle *)

LEMMA LifecycleInit == Init => Lifecycle!Init
<1> SUFFICES ASSUME Init PROVE Lifecycle!Init
  OBVIOUS
<1>1. tasks = [i \in {} |-> "none"]
  BY DEF Init
<1>2. taskOwner = [i \in {} |-> "none"] /\ taskLife = [i \in {} |-> "running"]
  BY <1>1 DEF taskOwner, taskLife
<1> QED BY <1>2 DEF Lifecycle!Init

\* Execute gives its request, which had no task, an id nobody had.
LEMMA ExecuteBegins ==
    ASSUME Inv, NEW r \in Requests, NEW c \in {"cd", "run"}, Execute(r, c)
    PROVE  Lifecycle!Begin(r)
<1>1. /\ DOMAIN tasks' = DOMAIN tasks \union {counter + 1}
      /\ counter + 1 \notin DOMAIN tasks
      /\ tasks'[counter + 1] = NewTask(r)
      /\ \A i \in DOMAIN tasks : tasks'[i] = tasks[i] /\ tasks[i].by # r
  BY ExecuteFacts
<1>2. completed' = completed /\ counter + 1 \notin completed
  BY <1>1, MapFacts DEF Execute
<1>3. /\ DOMAIN taskOwner = DOMAIN tasks
      /\ DOMAIN taskOwner' = DOMAIN tasks'
      /\ \A j \in DOMAIN taskOwner : taskOwner[j] # r
  BY <1>1 DEF taskOwner
<1>4. taskOwner' = [j \in DOMAIN taskOwner \union {counter + 1} |->
                       IF j = counter + 1 THEN r ELSE taskOwner[j]]
  BY <1>1, <1>3 DEF taskOwner, NewTask
<1>5. taskLife' = [j \in DOMAIN taskOwner \union {counter + 1} |->
                      IF j = counter + 1 THEN "running" ELSE taskLife[j]]
  BY <1>1, <1>2, <1>3 DEF taskLife, NewTask
<1> QED BY <1>1, <1>3, <1>4, <1>5 DEF Lifecycle!Begin, Lifecycle!Ids

\* Clearing the flag stops the task, or changes nothing if a kill cleared it.
LEMMA ClearingStops ==
    ASSUME Inv, NEW i \in DOMAIN tasks,
           tasks' = [tasks EXCEPT ![i].running = FALSE],
           completed' = completed,
           i \notin completed \/ ~tasks[i].running
    PROVE  Lifecycle!Stop(i) \/ UNCHANGED Lifecycle!vars
<1>1. /\ DOMAIN tasks' = DOMAIN tasks
      /\ \A j \in DOMAIN tasks : tasks'[j].by = tasks[j].by
      /\ \A j \in DOMAIN tasks : j # i => tasks'[j] = tasks[j]
  BY EditFacts
<1>2. ~tasks'[i].running
  BY MapFacts DEF Task
<1>3. UNCHANGED taskOwner
  BY <1>1 DEF taskOwner
<1>4. CASE tasks[i].running
  <2>1. taskLife[i] = "running"
    BY <1>4 DEF taskLife
  <2>2. taskLife' = [taskLife EXCEPT ![i] = "stopped"]
    BY <1>1, <1>2, <1>4 DEF taskLife
  <2> QED BY <1>3, <2>1, <2>2 DEF Lifecycle!Stop
<1>5. CASE ~tasks[i].running
  <2>1. UNCHANGED taskLife
    BY <1>1, <1>2, <1>5 DEF taskLife
  <2> QED BY <1>3, <2>1 DEF Lifecycle!vars
<1> QED BY <1>4, <1>5

LEMMA CallbackAnnounces ==
    ASSUME Inv, NEW r \in Requests, CompletionCallback(r)
    PROVE  id[r] \in DOMAIN tasks /\ Lifecycle!Announce(id[r])
<1>1. /\ UNCHANGED tasks
      /\ thr[r] = "completion"
      /\ completed' = completed \union {id[r]}
  BY DEF CompletionCallback
<1>2. /\ id[r] \in DOMAIN tasks
      /\ ~tasks[id[r]].running
      /\ id[r] \notin completed
  BY <1>1 DEF Inv, EntryIsOwn, Progress
<1>3. taskLife[id[r]] = "stopped" /\ UNCHANGED taskOwner
  BY <1>1, <1>2 DEF taskLife, taskOwner
<1>4. taskLife' = [taskLife EXCEPT ![id[r]] = "announced"]
  BY <1>1, <1>2 DEF taskLife
<1> QED BY <1>2, <1>3, <1>4 DEF Lifecycle!Announce

LEMMA LifecycleStep ==
    Inv /\ [Next]_vars => [Lifecycle!Next]_Lifecycle!vars
<1> SUFFICES ASSUME Inv, [Next]_vars
             PROVE  [Lifecycle!Next]_Lifecycle!vars
  OBVIOUS
<1>1. DOMAIN taskOwner = DOMAIN tasks
  BY DEF taskOwner
<1>2. ASSUME UNCHANGED <<tasks, completed>>
      PROVE  UNCHANGED Lifecycle!vars
  BY <1>2 DEF Lifecycle!vars, taskOwner, taskLife
<1>3. ASSUME NEW r \in Requests, NEW c \in {"cd", "run"}, Execute(r, c)
      PROVE  Lifecycle!Next
  BY <1>3, ExecuteBegins DEF Lifecycle!Next
<1>4. ASSUME NEW i \in DOMAIN tasks, Kill(i)
      PROVE  [Lifecycle!Next]_Lifecycle!vars
  <2>1. tasks' = [tasks EXCEPT ![i].running = FALSE] /\ completed' = completed
    BY <1>4 DEF Kill
  <2>2. i \notin completed \/ ~tasks[i].running
    BY DEF Inv, CompletionIsLast
  <2> QED BY <1>1, <2>1, <2>2, ClearingStops DEF Lifecycle!Next, Lifecycle!Ids
<1>5. ASSUME NEW r \in Requests, RunTask(r)
      PROVE  [Lifecycle!Next]_Lifecycle!vars
  <2>1. CASE Begin(r) \/ CommandReturns(r) \/ OutputCallback(r)
    BY <1>2, <2>1 DEF Begin, CommandReturns, OutputCallback
  <2>2. CASE StoreOutput(r) \/ ChangeDir(r)
    <3>1. id[r] \in DOMAIN tasks
      BY <2>2 DEF StoreOutput, ChangeDir, Inv, EntryIsOwn
    <3>2. /\ \/ tasks' = [tasks EXCEPT ![id[r]].out = TRUE]
             \/ tasks' = [tasks EXCEPT ![id[r]].moved = TRUE]
          /\ completed' = completed
      BY <2>2 DEF StoreOutput, ChangeDir
    <3>3. /\ DOMAIN tasks' = DOMAIN tasks
          /\ \A j \in DOMAIN tasks : /\ tasks'[j].by = tasks[j].by
                                     /\ tasks'[j].running = tasks[j].running
      BY <3>1, <3>2, MapFacts DEF Task
    <3> QED BY <3>2, <3>3 DEF Lifecycle!vars, taskOwner, taskLife
  <2>3. CASE ClearRunning(r)
    <3>1. id[r] \in DOMAIN tasks /\ id[r] \notin completed
      BY <2>3 DEF ClearRunning, Inv, EntryIsOwn, Progress
    <3>2. /\ tasks' = [tasks EXCEPT ![id[r]].running = FALSE]
          /\ completed' = completed
      BY <2>3 DEF ClearRunning
    <3> QED BY <1>1, <3>1, <3>2, ClearingStops
            DEF Lifecycle!Next, Lifecycle!Ids
  <2>4. CASE CompletionCallback(r)
    BY <1>1, <2>4, CallbackAnnounces DEF Lifecycle!Next, Lifecycle!Ids
  <2> QED BY <1>5, <2>1, <2>2, <2>3, <2>4 DEF RunTask
<1>6. CASE UNCHANGED vars
  BY <1>2, <1>6 DEF vars
<1> QED BY <1>3, <1>4, <1>5, <1>6 DEF Next, Quiet

\* Whatever kills and callbacks do to each other, every accepted command gets
\* an id of its own, stops once and is announced at most once, after that.
THEOREM ManagerImplementsLifecycle == Spec => LifecycleSpec
<1>1. Inv /\ [Next]_vars => [Lifecycle!Next]_Lifecycle!vars
  BY LifecycleStep
<1> QED BY <1>1, LifecycleInit, InvAlways, PTL
        DEF Spec, LifecycleSpec, Lifecycle!Spec

=============================================================================
