----------------------------- MODULE TaskServer -----------------------------
(***************************************************************************)
(* The task service of server/main.cpp: handle_client's /exec, /tasks,     *)
(* /logs and /kill, the auto-install of /files/upload (which starts a task *)
(* the same way), and runTask.  Every HTTP connection has a thread of its  *)
(* own and serves one request; every task has a detached thread.           *)
(*                                                                         *)
(* task_counter is incremented outside tasks_mtx.  The increment is three  *)
(* steps of a -O0 build: load, store of the loaded value plus one, and a   *)
(* second load for the argument of std::to_string.  Two increments may     *)
(* overlap; the history variable clash tells when one of them found the    *)
(* counter other than it left it.  It has no part in any guard.            *)
(***************************************************************************)
EXTENDS Naturals, Sequences, FiniteSets

CONSTANTS Handlers,      \* HTTP connections, one handle_client thread each
          Offered,       \* the requests clients make
          AskedIds,      \* the ids they pass to /logs and /kill
          MaxChunks,     \* bound: lines one command prints
          ServerPid,     \* the process id of the server
          ServerParent,  \* the process id of the server's parent
          NoOne          \* tasks_mtx is free

Commands == {"cd", "run"}
Request == [op : {"exec", "install"}, cmd : Commands, about : {0}]
             \union [op : {"tasks"}, cmd : {"run"}, about : {0}]
             \union [op : {"logs", "kill"}, cmd : {"run"}, about : AskedIds]

ASSUME TaskAssumption == /\ Offered \subseteq Request
                         /\ AskedIds \subseteq Nat
                         /\ MaxChunks \in Nat
                         /\ ServerPid \in Nat
                         /\ ServerParent \in Nat
                         /\ NoOne \notin Handlers

VARIABLES
  up,        \* the server process is alive
  counter,   \* task_counter
  tasks,     \* tasks: task id -> Task
  lock,      \* the connection thread that holds tasks_mtx, or NoOne
  conn,      \* control state of each connection's thread
  req,       \* the request of each connection
  tmp,       \* the register each thread increments task_counter in
  id,        \* task_id in each /exec thread, 0 before it has one
  thr,       \* control state of the runTask thread each /exec started
  ran,       \* the connection whose command that thread read from its Task
  shell,     \* the process popen started for each runTask thread
  pkill,     \* "pkill -P" threads started by /kill
  copy,      \* what each /logs copied of a task's output
  log,       \* the events given to broadcast_ws, in order
  clash      \* (history) an increment has found the counter changed by another

connVars == <<conn, req, tmp, id, copy, clash>>
runVars  == <<thr, ran, shell>>
vars == <<up, counter, tasks, lock, connVars, runVars, pkill, log>>

StartsTask(h) == req[h].op \in {"exec", "install"}

\* A task's command is named by the connection that submitted it.
Task == [by : Handlers, running : BOOLEAN, out : Nat]

Event == [type : {"start", "output", "dir_change", "complete"}, id : Nat,
          by : Handlers]

\* std::map's operator[] with an assignment: insert or overwrite.
Put(m, i, t) == [j \in DOMAIN m \union {i} |-> IF j = i THEN t ELSE m[j]]

\* The text /logs copied: so many whole lines of output, or a torn string.
Copy == [lines : Nat, torn : BOOLEAN]
Whole(n) == [lines |-> n, torn |-> FALSE]

NoRequest == [op |-> "tasks", cmd |-> "run", about |-> 0]

Init == /\ up = TRUE
        /\ counter = 0
        /\ tasks = [i \in {} |-> "none"]
        /\ lock = NoOne
        /\ conn = [h \in Handlers |-> "free"]
        /\ req = [h \in Handlers |-> NoRequest]
        /\ tmp = [h \in Handlers |-> 0]
        /\ id = [h \in Handlers |-> 0]
        /\ thr = [h \in Handlers |-> "none"]
        /\ ran = [h \in Handlers |-> NoOne]
        /\ shell = [h \in Handlers |-> "none"]
        /\ pkill = [h \in Handlers |-> "none"]
        /\ copy = [h \in Handlers |-> Whole(0)]
        /\ log = <<>>
        /\ clash = FALSE

Goto(h, pc) == conn' = [conn EXCEPT ![h] = pc]

-----------------------------------------------------------------------------
(* handle_client: the connection threads *)

\* accept, and the parsing of the request.  json::parse or j["cmd"] may throw,
\* or the client may be gone: catch (...) closes the connection.
Accept(h) ==
    /\ up
    /\ conn[h] = "free"
    /\ \/ /\ Goto(h, "aborted")
          /\ UNCHANGED req
       \/ \E r \in Offered :
            /\ req' = [req EXCEPT ![h] = r]
            /\ Goto(h, IF r.op \in {"exec", "install"} THEN "load" ELSE "wait")
    /\ UNCHANGED <<up, counter, tasks, lock, tmp, id, copy, clash, runVars, pkill,
                   log>>

\* The auto-install forgets to increment (a mutant).
LoadNoIncrement(h) ==
    /\ up
    /\ conn[h] = "load"
    /\ tmp' = [tmp EXCEPT ![h] = counter]
    /\ Goto(h, IF req[h].op = "install" THEN "reload" ELSE "store")
    /\ UNCHANGED <<up, counter, tasks, lock, req, id, copy, clash, runVars, pkill,
                   log>>

Load(h) == /\ up
           /\ conn[h] = "load"
           /\ tmp' = [tmp EXCEPT ![h] = counter]
           /\ Goto(h, "store")
           /\ UNCHANGED <<up, counter, tasks, lock, req, id, copy, clash, runVars,
                          pkill, log>>

Store(h) == /\ up
            /\ conn[h] = "store"
            /\ counter' = tmp[h] + 1
            /\ tmp' = [tmp EXCEPT ![h] = @ + 1]
            /\ clash' = (clash \/ counter # tmp[h])
            /\ Goto(h, "reload")
            /\ UNCHANGED <<up, tasks, lock, req, id, copy, runVars, pkill, log>>

\* The value handed to std::to_string is loaded again.
Reload(h) == /\ up
             /\ conn[h] = "reload"
             /\ id' = [id EXCEPT ![h] = counter]
             /\ clash' = (clash \/ counter # tmp[h])
             /\ Goto(h, "insert")
             /\ UNCHANGED <<up, counter, tasks, lock, req, tmp, copy, runVars,
                            pkill, log>>

\* The task_id is returned although the thread did not start (a mutant).
InsertUnstarted(h) ==
    /\ up
    /\ conn[h] = "insert"
    /\ lock = NoOne
    /\ tasks' = Put(tasks, id[h], [by |-> h, running |-> TRUE, out |-> 0])
    /\ thr' = [thr EXCEPT ![h] = "begin"] \/ UNCHANGED thr
    /\ Goto(h, "reply")
    /\ UNCHANGED <<up, counter, lock, req, tmp, id, copy, clash, ran, shell, pkill,
                   log>>

\* The critical section of /exec.  std::thread's constructor may throw: the
\* Task stays in the map, marked running, and nobody runs it; /exec closes the
\* connection, the auto-install replies with an error.
Insert(h) ==
    /\ up
    /\ conn[h] = "insert"
    /\ lock = NoOne
    /\ tasks' = Put(tasks, id[h], [by |-> h, running |-> TRUE, out |-> 0])
    /\ \/ /\ thr' = [thr EXCEPT ![h] = "begin"]
          /\ Goto(h, "reply")
       \/ /\ Goto(h, IF req[h].op = "exec" THEN "aborted" ELSE "error")
          /\ UNCHANGED thr
    /\ UNCHANGED <<up, counter, lock, req, tmp, id, copy, clash, ran, shell, pkill,
                   log>>

\* asio::write of the reply of /exec or of the upload, after the lock_guard is
\* gone: it arrives or throws.
ReplyExec(h) ==
    /\ up
    /\ conn[h] \in {"reply", "error"}
    /\ Goto(h, "aborted") \/ Goto(h, IF conn[h] = "reply" THEN "done"
                                                          ELSE "refused")
    /\ UNCHANGED <<up, counter, tasks, lock, req, tmp, id, copy, clash, runVars,
                   pkill, log>>

\* The thread is inside t.output += output_chunk for the task with id i.
Appending(i) == \E g \in Handlers : thr[g] = "append" /\ id[g] = i

\* /tasks, /logs and /kill take tasks_mtx before they read the map, and write
\* their reply with the mutex held.
TakeLock(h, op) == /\ up
                   /\ conn[h] = "wait"
                   /\ req[h].op = op
                   /\ lock = NoOne
                   /\ lock' = h
                   /\ Goto(h, "sending")

ListTasks(h) == /\ TakeLock(h, "tasks")
                /\ UNCHANGED <<up, counter, tasks, req, tmp, id, copy, clash, runVars,
                               pkill, log>>

\* A /logs reply holds the lines that were appended.  The string may be under
\* modification, without the mutex: then the copy may be torn, or read storage
\* that was freed and end the process.
ReadLogs(h) ==
    LET i == req[h].about
    IN  /\ TakeLock(h, "logs")
        /\ \/ /\ copy' = [copy EXCEPT ![h] =
                              Whole(IF i \in DOMAIN tasks THEN tasks[i].out
                                                          ELSE 0)]
              /\ UNCHANGED up
           \/ /\ Appending(i)
              /\ copy' = [copy EXCEPT ![h] = [lines |-> 0, torn |-> TRUE]]
              /\ UNCHANGED up
           \/ /\ Appending(i)
              /\ up' = FALSE
              /\ UNCHANGED copy
        /\ UNCHANGED <<counter, tasks, req, tmp, id, clash, runVars, pkill,
                       log>>

\* A known id gets a detached thread that runs pkill; an unknown one gets the
\* same reply and nothing else.
KillTask(h) == /\ TakeLock(h, "kill")
               /\ pkill' = IF req[h].about \in DOMAIN tasks
                           THEN [pkill EXCEPT ![h] = "pending"] ELSE pkill
               /\ UNCHANGED <<up, counter, tasks, req, tmp, id, copy, clash, runVars,
                              log>>

\* A failed write that keeps the mutex (a mutant).
SendLockedLeak(h) ==
    /\ up
    /\ conn[h] = "sending"
    /\ \/ Goto(h, "done") /\ lock' = NoOne
       \/ Goto(h, "aborted") /\ UNCHANGED lock
    /\ UNCHANGED <<up, counter, tasks, req, tmp, id, copy, clash, runVars, pkill, log>>

\* asio::write returns or throws; either way the lock_guard is destroyed.
SendLocked(h) ==
    /\ up
    /\ conn[h] = "sending"
    /\ Goto(h, "done") \/ Goto(h, "aborted")
    /\ lock' = NoOne
    /\ UNCHANGED <<up, counter, tasks, req, tmp, id, copy, clash, runVars, pkill, log>>

-----------------------------------------------------------------------------
(* runTask: the task threads.  The thread started by connection h works on  *)
(* tasks[id[h]] by reference.                                               *)

Publish(h, type) ==
    log' = Append(log, [type |-> type, id |-> id[h], by |-> h])

SetRunning(h, b) == tasks' = [tasks EXCEPT ![id[h]].running = b]

Step(h, pc) == thr' = [thr EXCEPT ![h] = pc]

\* std::string cmd = t.command, and the test for "cd ".
Begin(h) ==
    /\ up
    /\ thr[h] = "begin"
    /\ ran' = [ran EXCEPT ![h] = tasks[id[h]].by]
    /\ Step(h, IF req[tasks[id[h]].by].cmd = "cd" THEN "cd" ELSE "popen")
    /\ UNCHANGED <<up, counter, tasks, lock, connVars, shell, pkill, log>>

\* cd: current_dir and running are set, then both messages are broadcast.
ChangeDir(h) == /\ up
                /\ thr[h] = "cd"
                /\ SetRunning(h, FALSE)
                /\ Step(h, "cdMoved")
                /\ UNCHANGED <<up, counter, lock, connVars, ran, shell, pkill,
                               log>>

\* The cd branch does not return (a mutant).
PublishDirFallsThrough(h) == /\ up
                             /\ thr[h] = "cdMoved"
                             /\ Publish(h, "dir_change")
                             /\ Step(h, "popen")
                             /\ UNCHANGED <<up, counter, tasks, lock, connVars,
                                            ran, shell, pkill>>

PublishDir(h) == /\ up
                 /\ thr[h] = "cdMoved"
                 /\ Publish(h, "dir_change")
                 /\ Step(h, "complete")
                 /\ UNCHANGED <<up, counter, tasks, lock, connVars, ran, shell,
                                pkill>>

\* popen fails: running = false and no task_start; or it starts a shell.
Popen(h) ==
    /\ up
    /\ thr[h] = "popen"
    /\ \/ /\ SetRunning(h, FALSE)
          /\ Step(h, "complete")
          /\ UNCHANGED shell
       \/ /\ shell' = [shell EXCEPT ![h] = "alive"]
          /\ Step(h, "start")
          /\ UNCHANGED tasks
    /\ UNCHANGED <<up, counter, lock, connVars, ran, pkill, log>>

PublishStart(h) == /\ up
                   /\ thr[h] = "start"
                   /\ Publish(h, "start")
                   /\ Step(h, "read")
                   /\ UNCHANGED <<up, counter, tasks, lock, connVars, ran,
                                  shell, pkill>>

\* fgets returns a line, or 127 bytes of one; t.output += begins.
ReadChunk(h) == /\ up
                /\ thr[h] = "read"
                /\ tasks[id[h]].out < MaxChunks
                /\ Step(h, "append")
                /\ UNCHANGED <<up, counter, tasks, lock, connVars, ran, shell,
                               pkill, log>>

\* t.output = output_chunk (a mutant).
AppendChunkOverwrites(h) == /\ up
                            /\ thr[h] = "append"
                            /\ tasks' = [tasks EXCEPT ![id[h]].out = 1]
                            /\ Step(h, "publish")
                            /\ UNCHANGED <<up, counter, lock, connVars, ran,
                                           shell, pkill, log>>

\* Two threads of one Task that append at once may end the process.
AppendChunk(h) ==
    /\ up
    /\ thr[h] = "append"
    /\ \/ /\ tasks' = [tasks EXCEPT ![id[h]].out = @ + 1]
          /\ Step(h, "publish")
          /\ UNCHANGED up
       \/ /\ \E g \in Handlers \ {h} : thr[g] = "append" /\ id[g] = id[h]
          /\ up' = FALSE
          /\ UNCHANGED <<tasks, thr>>
    /\ UNCHANGED <<counter, lock, connVars, ran, shell, pkill, log>>

\* output_msg.dump() throws when the 127 bytes end inside a UTF-8 character
\* (or are not UTF-8): nothing catches it, and the process terminates.
PublishChunk(h) ==
    /\ up
    /\ thr[h] = "publish"
    /\ \/ /\ Publish(h, "output")
          /\ Step(h, "read")
          /\ UNCHANGED up
       \/ /\ up' = FALSE
          /\ UNCHANGED <<log, thr>>
    /\ UNCHANGED <<counter, tasks, lock, connVars, ran, shell, pkill>>

\* task_complete is sent before running is cleared (a mutant).
ReadEofEarly(h) == /\ up
                   /\ thr[h] = "read"
                   /\ shell[h] = "ended"
                   /\ Step(h, "complete")
                   /\ UNCHANGED <<up, counter, tasks, lock, connVars, ran,
                                  shell, pkill, log>>

\* The thread ends without task_complete (a mutant).
ReadEofSilent(h) == /\ up
                    /\ thr[h] = "read"
                    /\ shell[h] = "ended"
                    /\ SetRunning(h, FALSE)
                    /\ Step(h, "over")
                    /\ UNCHANGED <<up, counter, lock, connVars, ran, shell,
                                   pkill, log>>

\* fgets meets the end of the pipe; pclose; running = false.
ReadEof(h) == /\ up
              /\ thr[h] = "read"
              /\ shell[h] = "ended"
              /\ SetRunning(h, FALSE)
              /\ Step(h, "complete")
              /\ UNCHANGED <<up, counter, lock, connVars, ran, shell, pkill,
                             log>>

PublishComplete(h) == /\ up
                      /\ thr[h] = "complete"
                      /\ Publish(h, "complete")
                      /\ Step(h, "over")
                      /\ UNCHANGED <<up, counter, tasks, lock, connVars, ran,
                                     shell, pkill>>

-----------------------------------------------------------------------------
(* The operating system *)

\* The command of a task ends by itself.
ShellExits(h) == /\ shell[h] = "alive"
                 /\ shell' = [shell EXCEPT ![h] = "ended"]
                 /\ UNCHANGED <<up, counter, tasks, lock, connVars, thr, ran,
                                pkill, log>>

\* "pkill -P <id>" terminates the children of the process whose pid is <id>.
\* The shells of popen are children of the server.
Pkill(h) == /\ up
            /\ pkill[h] = "pending"
            /\ pkill' = [pkill EXCEPT ![h] = "over"]
            /\ up' = (req[h].about # ServerParent)
            /\ shell' = IF req[h].about = ServerPid
                        THEN [g \in Handlers |-> IF shell[g] = "alive"
                                                 THEN "ended" ELSE shell[g]]
                        ELSE shell
            /\ UNCHANGED <<counter, tasks, lock, connVars, thr, ran, log>>

-----------------------------------------------------------------------------
Connection(h) == \/ Load(h) \/ Store(h) \/ Reload(h) \/ Insert(h)
                 \/ ReplyExec(h)
                 \/ ListTasks(h) \/ ReadLogs(h) \/ KillTask(h)
                 \/ SendLocked(h)

TaskThread(h) == \/ Begin(h) \/ ChangeDir(h) \/ PublishDir(h) \/ Popen(h)
                 \/ PublishStart(h) \/ ReadChunk(h) \/ AppendChunk(h)
                 \/ PublishChunk(h) \/ ReadEof(h) \/ PublishComplete(h)

\* Nothing is left to do but the commands that go on, or the process is gone.
Quiet == /\ \/ ~up
            \/ \A h \in Handlers :
                  /\ conn[h] \in {"done", "refused", "aborted"}
                  /\ thr[h] \in {"none", "over"} \/ shell[h] = "alive"
         /\ UNCHANGED vars

Next == \/ \E h \in Handlers : \/ Accept(h) \/ Connection(h) \/ TaskThread(h)
                               \/ ShellExits(h) \/ Pkill(h)
        \/ Quiet

(* Threads run, and a client reads the reply of /tasks, /logs or /kill or   *)
(* hangs up: WF on the steps of each thread.  A mutex that is free again    *)
(* and again is got: SF on the steps that take it.  No command has to end   *)
(* or to print, and no client has to send anything.                         *)
Fairness ==
    \A h \in Handlers :
        /\ WF_vars(\/ Load(h) \/ Store(h) \/ Reload(h) \/ ReplyExec(h)
                   \/ SendLocked(h))
        /\ SF_vars(Insert(h) \/ ListTasks(h) \/ ReadLogs(h) \/ KillTask(h))
        /\ WF_vars(\/ Begin(h) \/ ChangeDir(h) \/ PublishDir(h) \/ Popen(h)
                   \/ PublishStart(h) \/ AppendChunk(h) \/ PublishChunk(h)
                   \/ ReadEof(h) \/ PublishComplete(h))

Spec == Init /\ [][Next]_vars /\ Fairness

-----------------------------------------------------------------------------
(* Properties *)

ConnStates == {"free", "load", "store", "reload", "insert", "reply", "error",
               "wait", "sending", "done", "refused", "aborted"}
ThreadStates == {"none", "begin", "cd", "cdMoved", "popen", "start", "read",
                 "append", "publish", "complete", "over"}

\* Every variable has its type.
TypeOK == /\ up \in BOOLEAN
          /\ counter \in Nat
          /\ DOMAIN tasks \subseteq Nat
          /\ tasks \in [DOMAIN tasks -> Task]
          /\ lock \in Handlers \union {NoOne}
          /\ conn \in [Handlers -> ConnStates]
          /\ req \in [Handlers -> Request]
          /\ tmp \in [Handlers -> Nat]
          /\ id \in [Handlers -> Nat]
          /\ thr \in [Handlers -> ThreadStates]
          /\ ran \in [Handlers -> Handlers \union {NoOne}]
          /\ shell \in [Handlers -> {"none", "alive", "ended"}]
          /\ pkill \in [Handlers -> {"none", "pending", "over"}]
          /\ copy \in [Handlers -> Copy]
          /\ log \in Seq(Event)
          /\ clash \in BOOLEAN

\* No two /exec requests (or auto-installs) are given the same task_id.
UniqueIds == \A g, h \in Handlers : id[g] = id[h] /\ id[g] # 0 => g = h

\* Two requests get one task_id only after an increment has found the counter
\* changed in its hands, at its store or at its second load: increments that
\* merely overlap give different ids.
UniqueUnlessClash == ~clash => UniqueIds

\* A thread runs a command that was given the id it works under.  A client
\* that was told a task_id finds a task under it, one that was given this id,
\* and a thread was started for its own.  Until a clash these are the client's
\* own command and task.
RepliedTaskIsOwn ==
    \A h \in Handlers :
        /\ ran[h] # NoOne => id[ran[h]] = id[h]
        /\ conn[h] \in {"reply", "done"} /\ StartsTask(h)
              => /\ id[h] \in DOMAIN tasks
                 /\ id[tasks[id[h]].by] = id[h]
                 /\ thr[h] # "none"
                 /\ ~clash => tasks[id[h]].by = h
        /\ ~clash => ran[h] \in {NoOne, h}

\* What was published of a task: the places of its output in the log, and
\* whether its end is there.
Outputs(i) == {k \in DOMAIN log : log[k].id = i /\ log[k].type = "output"}
Announced(i) == \E k \in DOMAIN log : log[k].id = i /\ log[k].type = "complete"

\* Until a clash, what a WebSocket client sees of a task is a story in order:
\* task_start and its output, or one dir_change, or nothing; then one
\* task_complete; and nothing after it.
Story ==
    \A m \in DOMAIN log :
        /\ \A k \in 1..(m - 1) : log[k].id = log[m].id =>
              /\ log[k].type # "complete"
              /\ log[m].type \notin {"start", "dir_change"}
              /\ log[k].type = "dir_change" => log[m].type = "complete"
        /\ log[m].type = "output" =>
              \E k \in 1..(m - 1) : log[k].id = log[m].id /\ log[k].type = "start"

StoryInOrder == ~clash => Story

\* Until a clash, what GET /logs copies for its reply is never less than what was
\* streamed so far and runs ahead of it by one line at most, unless the copy
\* is torn; once task_complete was sent, it is never torn and is exactly what
\* was streamed.
CopiesStream(h) ==
    LET i == req[h].about
        streamed == Cardinality(Outputs(i))
    IN  IF Announced(i)
        THEN copy'[h] = Whole(streamed)
        ELSE \/ copy'[h].torn
             \/ copy'[h].lines \in {streamed, streamed + 1}

CopiesOf(h) == /\ conn[h] = "wait" /\ conn'[h] = "sending"
               /\ req[h].op = "logs" /\ req[h].about \in DOMAIN tasks

LogsMatchStream ==
    [][\A h \in Handlers : ~clash /\ up' /\ CopiesOf(h) => CopiesStream(h)]_vars

\* Until a clash, the service implements the abstract task lifecycle: fresh ids,
\* running to stopped once, announced once and only after GET /tasks says it
\* stopped.
taskOwner == [i \in DOMAIN tasks |-> tasks[i].by]
taskLife == [i \in DOMAIN tasks |-> IF Announced(i) THEN "announced"
                                    ELSE IF tasks[i].running THEN "running"
                                    ELSE "stopped"]

Lifecycle == INSTANCE TaskLifecycle WITH
    Requests <- Handlers, owner <- taskOwner, life <- taskLife

LifecycleUnlessClash == ~clash' => [Lifecycle!Next]_Lifecycle!vars

LifecycleSpec == Lifecycle!Init /\ [][LifecycleUnlessClash]_vars

\* Every request is answered or its connection closed: no handler keeps
\* tasks_mtx, whichever write fails.
EveryRequestEnds ==
    \A h \in Handlers : conn[h] # "free"
        ~> ~up \/ conn[h] \in {"done", "refused", "aborted"}

\* When the command of a task has ended, its thread broadcasts task_complete.
EndIsAnnounced ==
    \A h \in Handlers :
        shell[h] = "ended"
            ~> \/ ~up
               \/ \E k \in DOMAIN log : log[k].type = "complete"
                                            /\ log[k].by = h

=============================================================================
