---------------------------- MODULE TaskExecutor ----------------------------
(***************************************************************************)
(* Tasks::Manager of server/tasks/TaskExecutor.cpp, the task service of    *)
(* the modular server.  Execute, Kill, IsRunning, GetOutput and            *)
(* GetCurrentDir hold tasks_mutex_ from their first statement to their     *)
(* last and call nothing that blocks, so each is one step.  RunTask works  *)
(* on its Task in a detached thread without the mutex.                     *)
(***************************************************************************)
EXTENDS Naturals

CONSTANTS Requests      \* calls of Execute

VARIABLES
  up,         \* the process is alive
  counter,    \* task_counter_
  tasks,      \* tasks_: id -> Task
  cmd,        \* what each request asks for: "none" before its Execute
  id,         \* the task of each request, 0 before its Execute
  thr,        \* control state of the RunTask thread of each request
  outputs,    \* ids for which output_callback_ returned
  completed   \* ids for which completion_callback_ returned

vars == <<up, counter, tasks, cmd, id, thr, outputs, completed>>

\* "out": output has what the command printed; "moved": current_dir is where a cd
\* leads.
Task == [by : Requests, running : BOOLEAN, out : BOOLEAN, moved : BOOLEAN]
NewTask(r) == [by |-> r, running |-> TRUE, out |-> FALSE, moved |-> FALSE]

Put(m, i, t) == [j \in DOMAIN m \union {i} |-> IF j = i THEN t ELSE m[j]]
Step(r, pc) == thr' = [thr EXCEPT ![r] = pc]

Init == /\ up = TRUE
        /\ counter = 0
        /\ tasks = [i \in {} |-> "none"]
        /\ cmd = [r \in Requests |-> "none"]
        /\ id = [r \in Requests |-> 0]
        /\ thr = [r \in Requests |-> "none"]
        /\ outputs = {}
        /\ completed = {}

\* ++task_counter_ outside the lock loses an increment (a mutant).
ExecuteUnlocked(r, c) ==
    /\ up
    /\ cmd[r] = "none"
    /\ cmd' = [cmd EXCEPT ![r] = c]
    /\ \E n \in {counter, counter + 1} \ {0} :
          /\ counter' = n
          /\ id' = [id EXCEPT ![r] = n]
          /\ tasks' = Put(tasks, n, NewTask(r))
    /\ Step(r, "begin")
    /\ UNCHANGED <<up, outputs, completed>>

\* Counter, map entry and thread under one lock.  If the thread cannot be
\* started the exception leaves an entry that is marked running.
Execute(r, c) ==
    /\ up
    /\ cmd[r] = "none"
    /\ cmd' = [cmd EXCEPT ![r] = c]
    /\ counter' = counter + 1
    /\ id' = [id EXCEPT ![r] = counter + 1]
    /\ tasks' = Put(tasks, counter + 1, NewTask(r))
    /\ Step(r, "begin") \/ UNCHANGED thr
    /\ UNCHANGED <<up, outputs, completed>>

\* Marks the task stopped and leaves its process alone.
Kill(i) == /\ up
           /\ i \in DOMAIN tasks
           /\ tasks' = [tasks EXCEPT ![i].running = FALSE]
           /\ UNCHANGED <<up, counter, cmd, id, thr, outputs, completed>>

Begin(r) == /\ up
            /\ thr[r] = "begin"
            /\ Step(r, IF cmd[tasks[id[r]].by] = "cd" THEN "cd"
                                                      ELSE "command")
            /\ UNCHANGED <<up, counter, tasks, cmd, id, outputs, completed>>

\* Platform::API::ExecuteCommand returns: the command has ended, or could not
\* be started.
CommandReturns(r) == /\ up
                     /\ thr[r] = "command"
                     /\ Step(r, "store")
                     /\ UNCHANGED <<up, counter, tasks, cmd, id, outputs,
                                    completed>>

StoreOutput(r) == /\ up
                  /\ thr[r] = "store"
                  /\ tasks' = [tasks EXCEPT ![id[r]].out = TRUE]
                  /\ Step(r, "clear")
                  /\ UNCHANGED <<up, counter, cmd, id, outputs, completed>>

\* task.current_dir = new_dir; task.output stays empty.
ChangeDir(r) == /\ up
                /\ thr[r] = "cd"
                /\ tasks' = [tasks EXCEPT ![id[r]].moved = TRUE]
                /\ Step(r, "clear")
                /\ UNCHANGED <<up, counter, cmd, id, outputs, completed>>

\* completion_callback_ is called while the task is marked running (a mutant).
ClearRunningLate(r) == /\ up
                       /\ thr[r] = "clear"
                       /\ Step(r, "output")
                       /\ UNCHANGED <<up, counter, tasks, cmd, id, outputs,
                                      completed>>

ClearRunning(r) == /\ up
                   /\ thr[r] = "clear"
                   /\ tasks' = [tasks EXCEPT ![id[r]].running = FALSE]
                   /\ Step(r, "output")
                   /\ UNCHANGED <<up, counter, cmd, id, outputs, completed>>

\* The callback of main_modular.cpp serialises the output: text that is not
\* UTF-8 throws, nothing catches it, and the process terminates.
OutputCallback(r) ==
    /\ up
    /\ thr[r] = "output"
    /\ \/ /\ outputs' = outputs \union {id[r]}
          /\ Step(r, "completion")
          /\ UNCHANGED up
       \/ /\ up' = FALSE
          /\ cmd[r] = "run"
          /\ UNCHANGED <<thr, outputs>>
    /\ UNCHANGED <<counter, tasks, cmd, id, completed>>

\* The cd branch returns before it calls completion_callback_ (a mutant).
CompletionNotForCd(r) ==
    /\ up
    /\ thr[r] = "completion"
    /\ completed' = IF cmd[r] = "cd" THEN completed
                                     ELSE completed \union {id[r]}
    /\ Step(r, "over")
    /\ UNCHANGED <<up, counter, tasks, cmd, id, outputs>>

CompletionCallback(r) ==
    /\ up
    /\ thr[r] = "completion"
    /\ completed' = completed \union {id[r]}
    /\ Step(r, "over")
    /\ UNCHANGED <<up, counter, tasks, cmd, id, outputs>>

RunTask(r) == \/ Begin(r) \/ CommandReturns(r) \/ StoreOutput(r)
              \/ ChangeDir(r) \/ ClearRunning(r) \/ OutputCallback(r) \/ CompletionCallback(r)

Quiet == /\ \/ ~up
            \/ \A r \in Requests : /\ cmd[r] # "none"
                                   /\ thr[r] \in {"none", "over"}
         /\ UNCHANGED vars

Next == \/ \E r \in Requests : \/ \E c \in {"cd", "run"} : Execute(r, c)
                               \/ RunTask(r)
        \/ \E i \in DOMAIN tasks : Kill(i)
        \/ Quiet

(* The thread runs; the command itself may go on for ever. *)
Fairness == \A r \in Requests :
               WF_vars(\/ Begin(r) \/ StoreOutput(r) \/ ChangeDir(r) \/ ClearRunning(r)
                       \/ OutputCallback(r) \/ CompletionCallback(r))

Spec == Init /\ [][Next]_vars /\ Fairness

-----------------------------------------------------------------------------
(* Properties *)

ThreadStates == {"none", "begin", "command", "store", "cd", "clear",
                 "output", "completion", "over"}

\* Every variable has its type.
TypeOK == /\ up \in BOOLEAN
          /\ counter \in Nat
          /\ DOMAIN tasks \subseteq 1..counter
          /\ tasks \in [DOMAIN tasks -> Task]
          /\ cmd \in [Requests -> {"none", "cd", "run"}]
          /\ id \in [Requests -> Nat]
          /\ thr \in [Requests -> ThreadStates]
          /\ outputs \subseteq DOMAIN tasks
          /\ completed \subseteq DOMAIN tasks

\* When a client is told that a task is complete, it is no longer running, and
\* its whole output was passed on before; then GetOutput has the output of a
\* command, and GetCurrentDir the new directory of a cd.
CompletionIsLast ==
    \A i \in completed : /\ ~tasks[i].running
                         /\ i \in outputs
                         /\ IF cmd[tasks[i].by] = "cd" THEN tasks[i].moved
                                                       ELSE tasks[i].out

\* The manager implements the abstract task lifecycle, also when Kill marks a
\* task stopped while its thread goes on.
taskOwner == [i \in DOMAIN tasks |-> tasks[i].by]
taskLife == [i \in DOMAIN tasks |-> IF i \in completed THEN "announced"
                                    ELSE IF tasks[i].running THEN "running"
                                    ELSE "stopped"]

Lifecycle == INSTANCE TaskLifecycle WITH owner <- taskOwner, life <- taskLife

LifecycleSpec == Lifecycle!Spec

\* A command that returned is announced, unless the process is gone.
EndIsAnnounced ==
    \A r \in Requests :
        thr[r] \in {"store", "cd"} ~> ~up \/ id[r] \in completed

=============================================================================
