----------------------------- MODULE Controller -----------------------------
(***************************************************************************)
(* TaskManager of control/core and the loop of UI::run that drives it: one *)
(* thread that asks every server for its tasks, draws, waits a second for  *)
(* a key and carries it out, one blocking HTTP request after the other.    *)
(*                                                                         *)
(* The servers are what TaskServer models, seen from a client: ids count   *)
(* from 1 in every incarnation of the process and stay in /tasks.  They    *)
(* run tasks of other clients too, become unreachable, come back, and      *)
(* restart.                                                                *)
(***************************************************************************)
EXTENDS Naturals

CONSTANTS Servers,      \* indices of the vector TaskManager::servers
          Name,         \* the host name each server reported
          MaxTasks,     \* bound: tasks of one incarnation of a server
          MaxFaults     \* bound: times a server leaves or restarts

ASSUME ControllerAssumption == /\ Servers \subseteq Nat
                               /\ DOMAIN Name = Servers
                               /\ MaxTasks \in Nat
                               /\ MaxFaults \in Nat

VARIABLES
  proc,      \* the controller: "runs", "quit" or "crashed"
  pc,        \* where its loop is
  batch,     \* servers the loop in progress has not reached
  selected,  \* the selected servers
  list,      \* TaskManager::tasks
  srv,       \* the servers
  started,   \* history: the tasks this controller started
  faults     \* history: how many faults there were

ctlVars == <<proc, pc, batch, selected, list>>
vars == <<ctlVars, srv, started, faults>>

\* The incarnation of the server is not in the code's struct: only properties
\* read it.
Entry == [id : Nat, server : {Name[s] : s \in Servers}, at : Servers,
          inc : Nat, state : {"RUNNING", "FINISHED"}]

Server == [alive : BOOLEAN, inc : Nat, count : Nat, running : SUBSET Nat]

Init == /\ proc = "runs"
        /\ pc = "loop"
        /\ batch = {}
        /\ selected = {}
        /\ list = {}
        /\ srv = [s \in Servers |-> [alive |-> TRUE, inc |-> 0, count |-> 0,
                                     running |-> {}]]
        /\ started = {}
        /\ faults = 0

At(p) == proc = "runs" /\ pc = p

\* for (auto& s : servers): the loop takes the servers in order.
NextInLoop(s) == s \in batch /\ \A t \in batch : s <= t

-----------------------------------------------------------------------------
(* refreshTasks *)

BeginRefresh == /\ At("loop")
                /\ pc' = "refresh"
                /\ batch' = Servers
                /\ UNCHANGED <<proc, selected, list, srv,
                               started, faults>>

\* Entries are matched by id alone (a mutant).
RefreshedById(e, s) ==
    IF e.id \in 1..srv[s].count
    THEN [e EXCEPT !.state = IF e.id \in srv[s].running THEN "RUNNING"
                                                        ELSE "FINISHED"]
    ELSE e

\* What the reply of server s does to an entry: entries are matched by id and
\* by the name of the server.
Refreshed(e, s) ==
    IF e.server = Name[s] /\ e.id \in 1..srv[s].count
    THEN [e EXCEPT !.state = IF e.id \in srv[s].running THEN "RUNNING"
                                                        ELSE "FINISHED"]
    ELSE e

\* An unreachable server ends the loop (a mutant).
RefreshServerStops(s) ==
    /\ At("refresh") \/ At("again")
    /\ NextInLoop(s)
    /\ IF srv[s].alive
       THEN /\ list' = {Refreshed(e, s) : e \in list}
            /\ batch' = batch \ {s}
       ELSE /\ batch' = {}
            /\ UNCHANGED list
    /\ UNCHANGED <<proc, pc, selected, srv, started, faults>>

\* GET /tasks.  An unreachable server gives "{}", which lists nothing; a
\* connection that breaks before the end of the reply gives a text that is not
\* JSON, and nothing catches what json::parse throws.
RefreshServer(s) ==
    /\ At("refresh") \/ At("again")
    /\ NextInLoop(s)
    /\ batch' = batch \ {s}
    /\ \/ /\ srv[s].alive
          /\ list' = {Refreshed(e, s) : e \in list}
          /\ UNCHANGED proc
       \/ /\ ~srv[s].alive
          /\ UNCHANGED <<proc, list>>
       \/ /\ srv[s].alive
          /\ proc' = "crashed"
          /\ UNCHANGED list
    /\ UNCHANGED <<pc, selected, srv, started, faults>>

EndRefresh == /\ At("refresh") \/ At("again")
              /\ batch = {}
              /\ pc' = IF pc = "refresh" THEN "draw" ELSE "loop"
              /\ UNCHANGED <<proc, batch, selected, list, srv,
                             started, faults>>

-----------------------------------------------------------------------------
(* draw, and the keys *)

\* drawMain asks every server for its statistics and keeps nothing of them.
DrawMain == /\ At("draw")
            /\ pc' = "key"
            /\ UNCHANGED <<proc, batch, selected, list, srv, started,
                           faults>>

\* getch times out, or the key changes nothing that is modelled.
OtherKey == /\ At("key")
            /\ pc' = "loop"
            /\ UNCHANGED <<proc, batch, selected, list, srv,
                           started, faults>>

EscapeKey == /\ At("key")
             /\ proc' = "quit"
             /\ UNCHANGED <<pc, batch, selected, list, srv,
                            started, faults>>

ToggleServer(s) ==
    /\ At("key")
    /\ selected' = IF s \in selected THEN selected \ {s}
                                 ELSE selected \union {s}
    /\ pc' = "loop"
    /\ UNCHANGED <<proc, batch, list, srv, started, faults>>

RefreshKey == /\ At("key")
              /\ pc' = "again"
              /\ batch' = Servers
              /\ UNCHANGED <<proc, selected, list, srv, started,
                             faults>>

\* runCommand and the multi-server prompt take the selected servers,
\* runCommandOnServer one.
RunCommand == /\ At("key")
              /\ pc' = "exec"
              /\ \/ batch' = selected
                 \/ \E s \in Servers : batch' = {s}
              /\ UNCHANGED <<proc, selected, list, srv, started,
                             faults>>

\* POST /exec is carried out by server s.
Serve(s) == /\ srv[s].alive
            /\ srv[s].count < MaxTasks
            /\ srv' = [srv EXCEPT ![s].count = @ + 1,
                                  ![s].running = @ \union {srv[s].count + 1}]

NewEntry(s) == [id |-> srv[s].count + 1, server |-> Name[s], at |-> s,
                inc |-> srv[s].inc, state |-> "RUNNING"]

TaskOf(e) == [at |-> e.at, inc |-> e.inc, id |-> e.id]

\* A reply that cannot be parsed is ignored (a mutant).
ExecOnServerQuiet(s) ==
    /\ At("exec")
    /\ NextInLoop(s)
    /\ batch' = batch \ {s}
    /\ \/ /\ Serve(s)
          /\ list' \in {list, list \union {NewEntry(s)}}
          /\ started' = started \union {TaskOf(NewEntry(s))}
       \/ UNCHANGED <<srv, list, started>>
    /\ UNCHANGED <<proc, pc, selected, faults>>

\* execOnServer.  Without a reply there is no task_id: r["task_id"] of "{}" is
\* null, an incomplete reply is not JSON, and both throw to the top of main.
\* The server may have started the task all the same.
ExecOnServer(s) ==
    /\ At("exec")
    /\ NextInLoop(s)
    /\ \/ /\ Serve(s)
          /\ list' = list \union {NewEntry(s)}
          /\ started' = started \union {TaskOf(NewEntry(s))}
          /\ batch' = batch \ {s}
          /\ UNCHANGED proc
       \/ /\ Serve(s)
          /\ started' = started \union {TaskOf(NewEntry(s))}
          /\ proc' = "crashed"
          /\ UNCHANGED <<batch, list>>
       \/ /\ proc' = "crashed"
          /\ UNCHANGED <<batch, list, srv, started>>
    /\ UNCHANGED <<pc, selected, faults>>

EndExec == /\ At("exec")
           /\ batch = {}
           /\ pc' = "loop"
           /\ UNCHANGED <<proc, batch, selected, list, srv,
                          started, faults>>

\* ENTER on the kill screen: one of the tasks shown there, those marked
\* RUNNING.  killTask posts to every server of that name.
KillTask(e) == /\ At("key")
               /\ e.state = "RUNNING"
               /\ batch' = {s \in Servers : Name[s] = e.server}
               /\ pc' = "kill"
               /\ UNCHANGED <<proc, selected, list, srv, started,
                              faults>>

\* POST /kill.  Its reply is not looked at.  What it does on the server is
\* KillTask of TaskServer: no task ends of it.
KillOnServer(s) == /\ At("kill")
                   /\ NextInLoop(s)
                   /\ batch' = batch \ {s}
                   /\ UNCHANGED <<proc, pc, selected, list, srv,
                                  started, faults>>

EndKill == /\ At("kill")
           /\ batch = {}
           /\ pc' = "loop"
           /\ UNCHANGED <<proc, batch, selected, list, srv, started,
                          faults>>

-----------------------------------------------------------------------------
(* The servers and the network *)

OtherClientExec(s) == Serve(s) /\ UNCHANGED <<ctlVars, started, faults>>

TaskEnds(s, i) == /\ i \in srv[s].running
                  /\ srv' = [srv EXCEPT ![s].running = @ \ {i}]
                  /\ UNCHANGED <<ctlVars, started, faults>>

Fault(s, r) == /\ faults < MaxFaults
               /\ faults' = faults + 1
               /\ srv' = [srv EXCEPT ![s] = r]
               /\ UNCHANGED <<ctlVars, started>>

BecomesUnreachable(s) == /\ srv[s].alive
                         /\ Fault(s, [srv[s] EXCEPT !.alive = FALSE])

Returns(s) == /\ ~srv[s].alive
              /\ srv' = [srv EXCEPT ![s].alive = TRUE]
              /\ UNCHANGED <<ctlVars, started, faults>>

\* task_counter and tasks are gone with the process.
Restarts(s) == Fault(s, [alive |-> TRUE, inc |-> srv[s].inc + 1, count |-> 0,
                         running |-> {}])

-----------------------------------------------------------------------------
Loop(s) == RefreshServer(s) \/ ExecOnServer(s) \/ KillOnServer(s)

Key == \/ OtherKey \/ EscapeKey \/ RefreshKey \/ RunCommand
       \/ \E s \in Servers : ToggleServer(s)
       \/ \E e \in list : KillTask(e)

Outside(s) == \/ OtherClientExec(s) \/ BecomesUnreachable(s) \/ Returns(s)
              \/ Restarts(s) \/ \E i \in srv[s].running : TaskEnds(s, i)

Gone == proc # "runs" /\ UNCHANGED vars

Next == \/ BeginRefresh \/ EndRefresh \/ DrawMain \/ EndExec \/ EndKill
        \/ Key
        \/ \E s \in Servers : Loop(s) \/ Outside(s)
        \/ Gone

(* The controller's thread runs, its requests come back (there is no timeout: *)
(* EveryRequestEnds of TaskServer is what it relies on), and getch returns    *)
(* after a second.  Nothing is assumed of the user and of the servers.        *)
Fairness == WF_vars(\/ BeginRefresh \/ EndRefresh \/ DrawMain \/ EndExec
                    \/ EndKill \/ OtherKey \/ \E s \in Servers : Loop(s))

Spec == Init /\ [][Next]_vars /\ Fairness

-----------------------------------------------------------------------------
(* Properties *)

Pcs == {"loop", "refresh", "again", "draw", "key", "exec", "kill"}

\* Every variable has its type.
TypeOK == /\ proc \in {"runs", "quit", "crashed"}
          /\ pc \in Pcs
          /\ batch \subseteq Servers
          /\ selected \subseteq Servers
          /\ list \subseteq Entry
          /\ srv \in [Servers -> Server]
          /\ started \subseteq [at : Servers, inc : Nat, id : Nat]
          /\ faults \in Nat

\* No other server reported the host name an entry has.
OwnName(e) == \A s \in Servers : Name[s] = e.server => s = e.at

\* A task the controller shows as FINISHED is not running on its server, as
\* long as that server has not restarted and has a name of its own, whatever
\* names the others share.
FinishedIsTrue ==
    \A e \in list :
        e.state = "FINISHED" /\ e.inc = srv[e.at].inc /\ OwnName(e)
            => e.id \notin srv[e.at].running

\* While the controller runs, the tasks it started are the tasks it lists, each
\* once: whatever a server answers, no task is lost from view.
StartedIsListed ==
    proc = "runs" => /\ started = {TaskOf(e) : e \in list}
                     /\ \A e, f \in list : TaskOf(e) = TaskOf(f) => e = f

\* A task shown as FINISHED is never shown as RUNNING again, as long as its
\* server has not restarted and has a name of its own: entries are not mixed up
\* with other tasks.
FinishedIsFinal ==
    [][\A e \in list :
          e.state = "FINISHED" /\ e.inc = srv[e.at].inc /\ OwnName(e)
             => \A f \in list' : TaskOf(f) = TaskOf(e) => f.state = "FINISHED"]_vars

\* Entry e shows task i of the present incarnation of server s as being in
\* state st.
ShownAs(e, s, i, st) == /\ e.at = s /\ e.id = i
                        /\ e.inc = srv[s].inc /\ e.state = st

\* A task that has stopped, on a server that stays up, is shown as FINISHED
\* after all, whatever other servers do.
StopIsShown ==
    \A s \in Servers, i \in 1..MaxTasks :
        (\E e \in list : ShownAs(e, s, i, "RUNNING")) /\ i \notin srv[s].running
        ~> \/ proc # "runs"
           \/ ~srv[s].alive
           \/ i > srv[s].count      \* the server has restarted
           \/ \E e \in list : ShownAs(e, s, i, "FINISHED")

=============================================================================
