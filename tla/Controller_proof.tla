-------------------------- MODULE Controller_proof --------------------------
(***************************************************************************)
(* Proofs about the controller, for any number of servers, tasks and       *)
(* faults, and, in the second half, about its file screen (the module      *)
(* FileScreen, as the instance UI), for any names, texts and keys.         *)
(***************************************************************************)
EXTENDS Controller, TLAPS

-----------------------------------------------------------------------------
(* The inductive invariant *)

\* A server runs none but tasks it gave an id to.
RunningHaveIds == \A s \in Servers : srv[s].running \subseteq 1..srv[s].count

\* An entry names its server, and its id is one that this incarnation of the
\* server, or an earlier one, has given out.
EntriesAreOld ==
    \A e \in list : /\ e.server = Name[e.at]
                    /\ e.inc <= srv[e.at].inc
                    /\ e.inc = srv[e.at].inc => e.id <= srv[e.at].count

Typed == TypeOK /\ RunningHaveIds

LEMMA TypedInit == Init => Typed
  BY DEF Init, Typed, TypeOK, RunningHaveIds, Pcs, Server

LEMMA NewEntryType ==
    ASSUME Typed, NEW s \in Servers
    PROVE  /\ NewEntry(s) \in Entry
           /\ TaskOf(NewEntry(s)) \in [at : Servers, inc : Nat, id : Nat]
<1>1. srv[s].count + 1 \in Nat /\ srv[s].inc \in Nat
  BY DEF Typed, TypeOK, Server
<1> QED BY <1>1 DEF NewEntry, TaskOf, Entry

\* A refresh changes nothing of an entry but its state.
LEMMA RefreshedFacts ==
    ASSUME NEW e \in Entry, NEW s \in Servers
    PROVE  /\ Refreshed(e, s) \in Entry
           /\ TaskOf(Refreshed(e, s)) = TaskOf(e)
           /\ Refreshed(e, s).server = e.server
           /\ Refreshed(e, s).at = e.at
           /\ Refreshed(e, s).inc = e.inc
           /\ Refreshed(e, s).id = e.id
<1> DEFINE w(x) == [e EXCEPT !.state = x]
<1>1. ASSUME NEW x \in {"RUNNING", "FINISHED"}
      PROVE  /\ w(x) \in Entry /\ TaskOf(w(x)) = TaskOf(e)
             /\ w(x).server = e.server /\ w(x).at = e.at
             /\ w(x).inc = e.inc /\ w(x).id = e.id
  BY DEF Entry, TaskOf
<1> QED BY <1>1 DEF Refreshed

\* The servers change in one place at a time.
LEMMA ServeFacts ==
    ASSUME Typed, NEW s \in Servers, Serve(s)
    PROVE  /\ srv' \in [Servers -> Server]
           /\ RunningHaveIds'
           /\ srv'[s].inc = srv[s].inc
           /\ srv'[s].count = srv[s].count + 1
           /\ srv'[s].running = srv[s].running \union {srv[s].count + 1}
           /\ \A t \in Servers : t # s => srv'[t] = srv[t]
<1>1. srv[s] \in Server /\ srv \in [Servers -> Server]
  BY DEF Typed, TypeOK
<1>2. srv[s].count \in Nat /\ srv[s].running \subseteq 1..srv[s].count
  BY <1>1 DEF Typed, RunningHaveIds, Server
<1>3. /\ srv'[s] = [srv[s] EXCEPT !.count = @ + 1,
                                  !.running = @ \union {srv[s].count + 1}]
      /\ \A t \in Servers : t # s => srv'[t] = srv[t]
      /\ srv' = [t \in Servers |-> srv'[t]]
  BY <1>1 DEF Serve
<1>4. /\ srv'[s].inc = srv[s].inc
      /\ srv'[s].count = srv[s].count + 1
      /\ srv'[s].running = srv[s].running \union {srv[s].count + 1}
      /\ srv'[s] \in Server
  <2>1. srv[s].running \union {srv[s].count + 1} \in SUBSET Nat
    BY <1>2
  <2>2. srv'[s] = [alive |-> srv[s].alive, inc |-> srv[s].inc,
                   count |-> srv[s].count + 1,
                   running |-> srv[s].running \union {srv[s].count + 1}]
    BY <1>1, <1>3 DEF Server
  <2> QED BY <1>1, <2>1, <2>2 DEF Server
<1>5. srv'[s].running \subseteq 1..srv'[s].count
  BY <1>2, <1>4
<1>6. RunningHaveIds'
  BY <1>3, <1>5 DEF Typed, RunningHaveIds
<1>7. srv' \in [Servers -> Server]
  BY <1>1, <1>3, <1>4
<1> QED BY <1>3, <1>4, <1>6, <1>7

LEMMA OutsideFacts ==
    ASSUME Typed, NEW s \in Servers, Outside(s)
    PROVE  /\ UNCHANGED <<ctlVars, started>>
           /\ srv' \in [Servers -> Server]
           /\ faults' \in Nat
           /\ RunningHaveIds'
           /\ \A t \in Servers : t # s => srv'[t] = srv[t]
           /\ \/ /\ srv'[s].inc = srv[s].inc
                 /\ srv[s].count <= srv'[s].count
                 /\ srv'[s].running \intersect 1..srv[s].count
                       \subseteq srv[s].running
              \/ srv'[s].inc = srv[s].inc + 1
<1>1. srv[s] \in Server /\ srv \in [Servers -> Server] /\ faults \in Nat
  BY DEF Typed, TypeOK
<1>2. srv[s].running \subseteq 1..srv[s].count /\ srv[s].count \in Nat
  BY <1>1 DEF Typed, RunningHaveIds, Server
<1>3. CASE OtherClientExec(s)
  <2>1. Serve(s) /\ UNCHANGED <<ctlVars, started, faults>>
    BY <1>3 DEF OtherClientExec
  <2> QED BY <1>1, <1>2, <2>1, ServeFacts
<1>4. ASSUME NEW r \in Server, srv' = [srv EXCEPT ![s] = r],
             r.running \subseteq 1..r.count,
             \/ /\ r.inc = srv[s].inc
                /\ r.count = srv[s].count
                /\ r.running \subseteq srv[s].running
             \/ r.inc = srv[s].inc + 1
      PROVE  /\ srv' \in [Servers -> Server]
             /\ RunningHaveIds'
             /\ \A t \in Servers : t # s => srv'[t] = srv[t]
             /\ \/ /\ srv'[s].inc = srv[s].inc
                   /\ srv[s].count <= srv'[s].count
                   /\ srv'[s].running \intersect 1..srv[s].count
                         \subseteq srv[s].running
                \/ srv'[s].inc = srv[s].inc + 1
  <2>1. srv'[s] = r /\ \A t \in Servers : t # s => srv'[t] = srv[t]
    BY <1>1, <1>4
  <2>2. srv' \in [Servers -> Server]
    BY <1>1, <1>4
  <2>3. RunningHaveIds'
    BY <1>4, <2>1 DEF Typed, RunningHaveIds
  <2> QED BY <1>2, <1>4, <2>1, <2>2, <2>3
<1>5. CASE BecomesUnreachable(s)
  <2>1. [srv[s] EXCEPT !.alive = FALSE] \in Server
    BY <1>1 DEF Server
  <2>2. srv' = [srv EXCEPT ![s] = [srv[s] EXCEPT !.alive = FALSE]]
        /\ faults' = faults + 1 /\ UNCHANGED <<ctlVars, started>>
    BY <1>5 DEF BecomesUnreachable, Fault
  <2>3. faults' \in Nat
    BY <1>1, <2>2
  <2> DEFINE r == [srv[s] EXCEPT !.alive = FALSE]
  <2>4. /\ r.inc = srv[s].inc /\ r.count = srv[s].count
        /\ r.running = srv[s].running
    BY <1>1 DEF Server
  <2> HIDE DEF r
  <2> QED BY <1>2, <1>4, <2>1, <2>2, <2>3, <2>4 DEF r
<1>6. CASE Returns(s)
  <2>1. [srv[s] EXCEPT !.alive = TRUE] \in Server
    BY <1>1 DEF Server
  <2>2. srv' = [srv EXCEPT ![s] = [srv[s] EXCEPT !.alive = TRUE]]
        /\ faults' = faults /\ UNCHANGED <<ctlVars, started>>
    BY <1>1, <1>6 DEF Returns
  <2> QED BY <1>1, <1>2, <1>4, <2>1, <2>2 DEF Server
<1>7. CASE Restarts(s)
  <2> DEFINE r == [alive |-> TRUE, inc |-> srv[s].inc + 1, count |-> 0,
                   running |-> {}]
  <2>1. r \in Server /\ r.inc = srv[s].inc + 1 /\ r.running \subseteq 1..r.count
    BY <1>1 DEF Server
  <2>2. srv' = [srv EXCEPT ![s] = r]
        /\ faults' = faults + 1 /\ UNCHANGED <<ctlVars, started>>
    BY <1>7 DEF Restarts, Fault
  <2>3. faults' \in Nat
    BY <1>1, <2>2
  <2> HIDE DEF r
  <2> QED BY <1>4, <2>1, <2>2, <2>3
<1>8. ASSUME NEW i \in srv[s].running, TaskEnds(s, i)
      PROVE  /\ UNCHANGED <<ctlVars, started, faults>>
             /\ srv' = [srv EXCEPT ![s] = [srv[s] EXCEPT !.running = @ \ {i}]]
  BY <1>1, <1>8 DEF TaskEnds
<1>9. ASSUME NEW i \in srv[s].running, TaskEnds(s, i)
      PROVE  /\ srv' \in [Servers -> Server]
             /\ RunningHaveIds'
             /\ \A t \in Servers : t # s => srv'[t] = srv[t]
             /\ \/ /\ srv'[s].inc = srv[s].inc
                   /\ srv[s].count <= srv'[s].count
                   /\ srv'[s].running \intersect 1..srv[s].count
                         \subseteq srv[s].running
                \/ srv'[s].inc = srv[s].inc + 1
  <2> DEFINE r == [srv[s] EXCEPT !.running = @ \ {i}]
  <2>1. /\ r \in Server /\ r.inc = srv[s].inc /\ r.count = srv[s].count
        /\ r.running \subseteq srv[s].running
    BY <1>1 DEF Server
  <2>2. srv' = [srv EXCEPT ![s] = r]
    BY <1>8, <1>9
  <2> HIDE DEF r
  <2> QED BY <1>2, <1>4, <2>1, <2>2
<1> QED BY <1>1, <1>3, <1>5, <1>6, <1>7, <1>8, <1>9,
           <1>4 DEF Outside, BecomesUnreachable, Returns, Restarts, Fault

-----------------------------------------------------------------------------
(* Types *)

LEMMA TypedStep == Typed /\ [Next]_vars => Typed'
<1> SUFFICES ASSUME Typed, [Next]_vars
             PROVE  Typed'
  OBVIOUS
<1>1. ASSUME NEW s \in Servers, RefreshServer(s)
      PROVE  Typed'
  <2>1. list' \subseteq Entry
    <3>1. CASE list' = {Refreshed(e, s) : e \in list}
      BY <3>1, RefreshedFacts DEF Typed, TypeOK
    <3> QED BY <1>1, <3>1 DEF RefreshServer, Typed, TypeOK
  <2>2. /\ UNCHANGED <<pc, selected, srv, started, faults>>
        /\ batch' = batch \ {s}
        /\ proc' \in {proc, "crashed"}
    BY <1>1 DEF RefreshServer
  <2> QED BY <2>1, <2>2 DEF Typed, TypeOK, RunningHaveIds
<1>2. ASSUME NEW s \in Servers, ExecOnServer(s)
      PROVE  Typed'
  <2>1. /\ UNCHANGED <<pc, selected, faults>>
        /\ proc' \in {proc, "crashed"}
        /\ batch' \in {batch, batch \ {s}}
        /\ list' \in {list, list \union {NewEntry(s)}}
        /\ started' \in {started, started \union {TaskOf(NewEntry(s))}}
        /\ Serve(s) \/ UNCHANGED srv
    BY <1>2 DEF ExecOnServer
  <2>2. srv' \in [Servers -> Server] /\ RunningHaveIds'
    BY <2>1, ServeFacts DEF Typed, TypeOK, RunningHaveIds
  <2>3. /\ list' \subseteq Entry
        /\ started' \subseteq [at : Servers, inc : Nat, id : Nat]
    BY <2>1, NewEntryType DEF Typed, TypeOK
  <2> QED BY <2>1, <2>2, <2>3 DEF Typed, TypeOK
<1>3. ASSUME NEW s \in Servers, KillOnServer(s)
      PROVE  Typed'
  BY <1>3 DEF KillOnServer, Typed, TypeOK, RunningHaveIds
<1>4. ASSUME NEW s \in Servers, Outside(s)
      PROVE  Typed'
  BY <1>4, OutsideFacts DEF Typed, TypeOK, ctlVars
<1>5. CASE BeginRefresh \/ EndRefresh \/ DrawMain \/ EndExec \/ EndKill
  BY <1>5 DEF BeginRefresh, EndRefresh, DrawMain, EndExec, EndKill, Typed,
     TypeOK, RunningHaveIds, Pcs
<1>6. CASE Key
  <2>1. CASE OtherKey \/ EscapeKey \/ RefreshKey \/ RunCommand
    BY <2>1 DEF OtherKey, EscapeKey, RefreshKey, RunCommand, Typed, TypeOK,
       RunningHaveIds, Pcs
  <2>2. ASSUME NEW s \in Servers, ToggleServer(s)
        PROVE  Typed'
    BY <2>2 DEF ToggleServer, Typed, TypeOK, RunningHaveIds, Pcs
  <2>3. ASSUME NEW e \in list, KillTask(e)
        PROVE  Typed'
    BY <2>3 DEF KillTask, Typed, TypeOK, RunningHaveIds, Pcs
  <2> QED BY <1>6, <2>1, <2>2, <2>3 DEF Key
<1>7. CASE UNCHANGED vars
  BY <1>7 DEF vars, ctlVars, Typed, TypeOK, RunningHaveIds
<1> QED BY <1>1, <1>2, <1>3, <1>4, <1>5, <1>6, <1>7 DEF Next, Loop, Gone

\* Every variable always has its type, and servers only run tasks they gave an
\* id to.
THEOREM TypeCorrect == Spec => [](TypeOK /\ RunningHaveIds)
<1>1. Init => Typed
  BY TypedInit
<1>2. Typed /\ [Next]_vars => Typed'
  BY TypedStep
<1>3. Typed => TypeOK /\ RunningHaveIds
  BY DEF Typed
<1> QED BY <1>1, <1>2, <1>3, PTL DEF Spec

-----------------------------------------------------------------------------
(* The list agrees with the servers *)

Inv == /\ Typed
       /\ EntriesAreOld
       /\ StartedIsListed
       /\ FinishedIsTrue

LEMMA InvInit == Init => Inv
  BY TypedInit DEF Init, Inv, EntriesAreOld, StartedIsListed, FinishedIsTrue

\* What the type invariant says of an entry and its server.
LEMMA EntryTypes ==
    ASSUME Typed, NEW e \in list
    PROVE  /\ e \in Entry
           /\ e.at \in Servers /\ e.inc \in Nat /\ e.id \in Nat
           /\ srv[e.at].inc \in Nat /\ srv[e.at].count \in Nat
           /\ srv[e.at].running \subseteq 1..srv[e.at].count
<1>1. e \in Entry /\ e.at \in Servers /\ e.inc \in Nat /\ e.id \in Nat
  BY DEF Typed, TypeOK, Entry
<1>2. srv[e.at] \in Server
  BY <1>1 DEF Typed, TypeOK
<1> QED BY <1>1, <1>2 DEF Typed, RunningHaveIds, Server

LEMMA InvRefresh ==
    ASSUME Inv, Typed', NEW s \in Servers, RefreshServer(s)
    PROVE  Inv'
<1>1. UNCHANGED <<srv, started>>
  BY DEF RefreshServer
<1>2. CASE list' = list
  BY <1>1, <1>2 DEF RefreshServer, Inv, EntriesAreOld, StartedIsListed,
     FinishedIsTrue, TaskOf
<1>3. CASE list' = {Refreshed(e, s) : e \in list} /\ proc' = proc
  <2>1. \A e \in list : /\ TaskOf(Refreshed(e, s)) = TaskOf(e)
                        /\ Refreshed(e, s).server = e.server
                        /\ Refreshed(e, s).at = e.at
                        /\ Refreshed(e, s).inc = e.inc
                        /\ Refreshed(e, s).id = e.id
    BY EntryTypes, RefreshedFacts DEF Inv
  <2>2. EntriesAreOld'
    <3> SUFFICES ASSUME NEW e \in list
                 PROVE  LET f == Refreshed(e, s)
                        IN  /\ f.server = Name[f.at]
                            /\ f.inc <= srv[f.at].inc
                            /\ f.inc = srv[f.at].inc => f.id <= srv[f.at].count
      BY <1>1, <1>3 DEF EntriesAreOld
    <3> QED BY <2>1 DEF Inv, EntriesAreOld
  <2>3. StartedIsListed'
    <3> SUFFICES ASSUME proc = "runs"
                 PROVE  /\ started = {TaskOf(e) : e \in list'}
                        /\ \A e, f \in list' : TaskOf(e) = TaskOf(f) => e = f
      BY <1>1, <1>3 DEF StartedIsListed, TaskOf
    <3>1. /\ started = {TaskOf(e) : e \in list}
          /\ \A e, f \in list : TaskOf(e) = TaskOf(f) => e = f
      BY DEF Inv, StartedIsListed
    <3>2. {TaskOf(e) : e \in list'} = {TaskOf(e) : e \in list}
      BY <1>3, <2>1
    <3>3. \A e, f \in list : TaskOf(Refreshed(e, s)) = TaskOf(Refreshed(f, s))
                                => Refreshed(e, s) = Refreshed(f, s)
      BY <2>1, <3>1
    <3>4. ASSUME NEW e \in list', NEW f \in list', TaskOf(e) = TaskOf(f)
          PROVE  e = f
      <4>1. PICK g \in list : e = Refreshed(g, s)
        BY <1>3
      <4>2. PICK h \in list : f = Refreshed(h, s)
        BY <1>3
      <4> QED BY <3>3, <3>4, <4>1, <4>2
    <3> QED BY <3>1, <3>2, <3>4
  <2>4. FinishedIsTrue'
    <3> SUFFICES ASSUME NEW e \in list,
                        Refreshed(e, s).state = "FINISHED",
                        e.inc = srv[e.at].inc, OwnName(e)
                 PROVE  e.id \notin srv[e.at].running
      BY <1>1, <1>3, <2>1 DEF FinishedIsTrue, OwnName
    <3>1. CASE e.server = Name[s] /\ e.id \in 1..srv[s].count
      <4>1. e.at = s
        BY <3>1 DEF OwnName
      <4>2. CASE e.id \in srv[s].running
        <5>1. Refreshed(e, s) = [e EXCEPT !.state = "RUNNING"]
          BY <3>1, <4>2 DEF Refreshed
        <5>2. Refreshed(e, s).state = "RUNNING"
          BY <5>1, EntryTypes DEF Inv, Entry
        <5> QED BY <5>2
      <4> QED BY <4>1, <4>2
    <3>2. CASE ~(e.server = Name[s] /\ e.id \in 1..srv[s].count)
      <4>1. Refreshed(e, s) = e
        BY <3>2 DEF Refreshed
      <4> QED BY <4>1 DEF Inv, FinishedIsTrue
    <3> QED BY <3>1, <3>2
  <2> QED BY <2>2, <2>3, <2>4 DEF Inv
<1> QED BY <1>2, <1>3 DEF RefreshServer

\* A server that carries out a command leaves the entries true.
LEMMA ServeKeeps ==
    ASSUME Inv, NEW s \in Servers, Serve(s), NEW e \in list
    PROVE  /\ e.inc <= srv'[e.at].inc
           /\ e.inc = srv'[e.at].inc => e.id <= srv'[e.at].count
           /\ e.state = "FINISHED" /\ e.inc = srv'[e.at].inc /\ OwnName(e)
                 => e.id \notin srv'[e.at].running
           /\ TaskOf(e) # TaskOf(NewEntry(s))
<1>1. /\ e.at \in Servers /\ e.inc \in Nat /\ e.id \in Nat
      /\ srv[e.at].inc \in Nat /\ srv[e.at].count \in Nat
  BY EntryTypes DEF Inv
<1>2. /\ e.inc <= srv[e.at].inc
      /\ e.inc = srv[e.at].inc => e.id <= srv[e.at].count
      /\ e.state = "FINISHED" /\ e.inc = srv[e.at].inc /\ OwnName(e)
            => e.id \notin srv[e.at].running
  BY DEF Inv, EntriesAreOld, FinishedIsTrue
<1>3. /\ srv'[s].inc = srv[s].inc
      /\ srv'[s].count = srv[s].count + 1
      /\ srv'[s].running = srv[s].running \union {srv[s].count + 1}
      /\ \A t \in Servers : t # s => srv'[t] = srv[t]
  BY ServeFacts DEF Inv
<1>4. CASE e.at = s
  <2>1. e.inc = srv[s].inc => e.id # srv[s].count + 1
    BY <1>1, <1>2, <1>4
  <2>2. TaskOf(e) # TaskOf(NewEntry(s))
    BY <2>1 DEF TaskOf, NewEntry
  <2> QED BY <1>1, <1>2, <1>3, <1>4, <2>1, <2>2
<1>5. CASE e.at # s
  <2>1. TaskOf(e) # TaskOf(NewEntry(s))
    BY <1>5 DEF TaskOf, NewEntry
  <2> QED BY <1>1, <1>2, <1>3, <1>5, <2>1
<1> QED BY <1>4, <1>5

LEMMA InvExec ==
    ASSUME Inv, Typed', NEW s \in Servers, ExecOnServer(s)
    PROVE  Inv'
<1>1. CASE UNCHANGED srv
  <2>1. UNCHANGED list /\ proc' = "crashed"
    BY <1>1, ServeFacts DEF ExecOnServer, Inv, Typed, TypeOK, Server
  <2> QED BY <1>1, <2>1 DEF Inv, EntriesAreOld, StartedIsListed,
          FinishedIsTrue
<1>2. CASE Serve(s)
  <2>1. \/ /\ list' = list \union {NewEntry(s)}
           /\ started' = started \union {TaskOf(NewEntry(s))}
           /\ proc' = proc
        \/ list' = list /\ proc' = "crashed"
    BY DEF ExecOnServer
  <2>2. /\ NewEntry(s).server = Name[NewEntry(s).at]
        /\ NewEntry(s).at = s
        /\ NewEntry(s).inc = srv'[s].inc
        /\ NewEntry(s).id = srv'[s].count
        /\ NewEntry(s).state = "RUNNING"
    BY <1>2, ServeFacts DEF Inv, NewEntry
  <2>3. srv'[s].inc \in Nat /\ srv'[s].count \in Nat
    BY DEF Typed, TypeOK, Server
  <2>4. EntriesAreOld'
    BY <1>2, <2>1, <2>2, <2>3, ServeKeeps DEF Inv, EntriesAreOld
  <2>5. FinishedIsTrue'
    BY <1>2, <2>1, <2>2, ServeKeeps DEF Inv, FinishedIsTrue
  <2>6. StartedIsListed'
    <3>1. CASE /\ list' = list \union {NewEntry(s)}
               /\ started' = started \union {TaskOf(NewEntry(s))}
               /\ proc' = proc
      <4>1. \A e \in list : TaskOf(e) # TaskOf(NewEntry(s))
        BY <1>2, ServeKeeps
      <4> QED BY <3>1, <4>1 DEF Inv, StartedIsListed
    <3>2. CASE proc' = "crashed"
      BY <3>2 DEF StartedIsListed
    <3> QED BY <2>1, <3>1, <3>2
  <2> QED BY <2>4, <2>5, <2>6 DEF Inv
<1> QED BY <1>1, <1>2 DEF ExecOnServer

LEMMA InvOutside ==
    ASSUME Inv, Typed', NEW s \in Servers, Outside(s)
    PROVE  Inv'
<1>1. UNCHANGED <<proc, list, started>>
  BY OutsideFacts DEF Inv, ctlVars
<1>2. ASSUME NEW e \in list
      PROVE  /\ e.inc <= srv'[e.at].inc
             /\ e.inc = srv'[e.at].inc => e.id <= srv'[e.at].count
             /\ e.state = "FINISHED" /\ e.inc = srv'[e.at].inc /\ OwnName(e)
                   => e.id \notin srv'[e.at].running
  <2>1. /\ e.at \in Servers /\ e.inc \in Nat /\ e.id \in Nat
        /\ srv[e.at].inc \in Nat /\ srv[e.at].count \in Nat
        /\ srv'[e.at].inc \in Nat /\ srv'[e.at].count \in Nat
        /\ srv'[e.at].running \subseteq 1..srv'[e.at].count
    BY <1>1, EntryTypes DEF Inv, Typed, TypeOK, Server, RunningHaveIds
  <2>2. /\ e.inc <= srv[e.at].inc
        /\ e.inc = srv[e.at].inc => e.id <= srv[e.at].count
        /\ e.state = "FINISHED" /\ e.inc = srv[e.at].inc /\ OwnName(e)
              => e.id \notin srv[e.at].running
    BY DEF Inv, EntriesAreOld, FinishedIsTrue
  <2>3. CASE srv'[e.at] = srv[e.at]
    BY <2>2, <2>3
  <2>4. CASE /\ srv'[e.at].inc = srv[e.at].inc
             /\ srv[e.at].count <= srv'[e.at].count
             /\ srv'[e.at].running \intersect 1..srv[e.at].count
                   \subseteq srv[e.at].running
    <3>1. e.inc = srv'[e.at].inc => e.id <= srv'[e.at].count
      BY <2>1, <2>2, <2>4
    <3>2. e.id \in srv'[e.at].running => 1 <= e.id
      BY <2>1
    <3> QED BY <2>1, <2>2, <2>4, <3>1, <3>2
  <2>5. CASE srv'[e.at].inc = srv[e.at].inc + 1
    BY <2>1, <2>2, <2>5
  <2> QED BY <2>1, <2>3, <2>4, <2>5, OutsideFacts DEF Inv
<1>3. EntriesAreOld' /\ FinishedIsTrue'
  BY <1>1, <1>2 DEF Inv, EntriesAreOld, FinishedIsTrue
<1>4. StartedIsListed'
  BY <1>1 DEF Inv, StartedIsListed, TaskOf
<1> QED BY <1>3, <1>4 DEF Inv

LEMMA InvStep == Inv /\ [Next]_vars => Inv'
<1> SUFFICES ASSUME Inv, [Next]_vars
             PROVE  Inv'
  OBVIOUS
<1>1. Typed'
  BY TypedStep DEF Inv
<1>2. ASSUME UNCHANGED <<list, srv, started>>, proc' = proc \/ proc' = "quit"
      PROVE  Inv'
  BY <1>1, <1>2 DEF Inv, EntriesAreOld, StartedIsListed, FinishedIsTrue,
     TaskOf
<1>3. ASSUME NEW s \in Servers, Loop(s)
      PROVE  Inv'
  BY <1>1, <1>2, <1>3, InvRefresh, InvExec DEF Loop, KillOnServer
<1>4. CASE BeginRefresh \/ EndRefresh \/ DrawMain \/ EndExec \/ EndKill
  BY <1>2, <1>4 DEF BeginRefresh, EndRefresh, DrawMain, EndExec, EndKill
<1>5. CASE Key
  BY <1>2, <1>5 DEF Key, OtherKey, EscapeKey, RefreshKey, RunCommand,
     ToggleServer, KillTask
<1>6. CASE UNCHANGED vars
  BY <1>2, <1>6 DEF vars, ctlVars
<1> QED BY <1>1, <1>3, <1>4, <1>5, <1>6, InvOutside DEF Next, Gone

LEMMA InvAlways == Spec => []Inv
<1>1. Init => Inv
  BY InvInit
<1>2. Inv /\ [Next]_vars => Inv'
  BY InvStep
<1> QED BY <1>1, <1>2, PTL DEF Spec

\* A task that is shown as FINISHED is not running in this incarnation of its
\* server, if no other server reports the server's host name.
THEOREM FinishedTasksStopped == Spec => []FinishedIsTrue
<1>1. Inv => FinishedIsTrue
  BY DEF Inv
<1> QED BY <1>1, InvAlways, PTL

\* ... and as long as the controller runs, the tasks it started are the tasks
\* it lists, whatever names the servers have.
THEOREM StartedTasksListed == Spec => []StartedIsListed
<1>1. Inv => StartedIsListed
  BY DEF Inv
<1> QED BY <1>1, InvAlways, PTL

-----------------------------------------------------------------------------
(* States that are final *)

\* A task is listed once, also after the controller has crashed.
ListedOnce == Inv /\ \A e, f \in list : TaskOf(e) = TaskOf(f) => e = f

LEMMA RefreshMaps ==
    ASSUME Inv, NEW s \in Servers, RefreshServer(s)
    PROVE  list' = list \/ list' = {Refreshed(e, s) : e \in list}
  BY DEF RefreshServer

\* A refreshed entry is the refreshed one of the task's entry.
LEMMA RefreshedOnce ==
    ASSUME ListedOnce, NEW s \in Servers, list' = {Refreshed(e, s) : e \in list},
           NEW e \in list, NEW f \in list', TaskOf(f) = TaskOf(e)
    PROVE  f = Refreshed(e, s)
<1>1. PICK g \in list : f = Refreshed(g, s)
  OBVIOUS
<1>2. TaskOf(f) = TaskOf(g)
  BY <1>1, EntryTypes, RefreshedFacts DEF ListedOnce, Inv
<1>3. g = e
  BY <1>2 DEF ListedOnce
<1> QED BY <1>1, <1>3

LEMMA OnceStep == ListedOnce /\ [Next]_vars => ListedOnce'
<1> SUFFICES ASSUME ListedOnce, [Next]_vars
             PROVE  ListedOnce'
  OBVIOUS
<1>1. Inv'
  BY InvStep DEF ListedOnce
<1>2. ASSUME UNCHANGED list
      PROVE  ListedOnce'
  BY <1>1, <1>2 DEF ListedOnce
<1>3. ASSUME NEW s \in Servers, RefreshServer(s)
      PROVE  ListedOnce'
  <2>1. CASE list' = {Refreshed(e, s) : e \in list}
    <3>1. ASSUME NEW e \in list', NEW f \in list', TaskOf(e) = TaskOf(f)
          PROVE  e = f
      <4>1. PICK g \in list : f = Refreshed(g, s)
        BY <2>1
      <4>2. TaskOf(f) = TaskOf(g)
        BY <4>1, EntryTypes, RefreshedFacts DEF ListedOnce, Inv
      <4>3. e = Refreshed(g, s)
        BY <2>1, <3>1, <4>2, RefreshedOnce
      <4> QED BY <4>1, <4>3
    <3> QED BY <1>1, <3>1 DEF ListedOnce
  <2> QED BY <1>2, <1>3, <2>1, RefreshMaps DEF ListedOnce
<1>4. ASSUME NEW s \in Servers, ExecOnServer(s)
      PROVE  ListedOnce'
  <2>1. CASE Serve(s) /\ list' = list \union {NewEntry(s)}
    <3>1. \A e \in list : TaskOf(e) # TaskOf(NewEntry(s))
      BY <2>1, ServeKeeps DEF ListedOnce
    <3>2. \A e, f \in list' : TaskOf(e) = TaskOf(f) => e = f
      BY <2>1, <3>1 DEF ListedOnce
    <3> QED BY <1>1, <3>2 DEF ListedOnce
  <2> QED BY <1>2, <1>4, <2>1 DEF ExecOnServer
<1>5. ASSUME NEW s \in Servers, KillOnServer(s) \/ Outside(s)
      PROVE  ListedOnce'
  BY <1>2, <1>5, OutsideFacts DEF KillOnServer, ListedOnce, Inv, ctlVars
<1>6. CASE \/ BeginRefresh \/ EndRefresh \/ DrawMain \/ EndExec \/ EndKill
           \/ Key \/ UNCHANGED vars
  BY <1>2, <1>6 DEF BeginRefresh, EndRefresh, DrawMain, EndExec, EndKill, Key,
     OtherKey, EscapeKey, RefreshKey, RunCommand, ToggleServer, KillTask, vars,
     ctlVars
<1> QED BY <1>3, <1>4, <1>5, <1>6 DEF Next, Loop, Gone

LEMMA OnceAlways == Spec => []ListedOnce
<1>1. Init => ListedOnce
  BY InvInit DEF Init, ListedOnce
<1>2. ListedOnce /\ [Next]_vars => ListedOnce'
  BY OnceStep
<1> QED BY <1>1, <1>2, PTL DEF Spec

\* An entry that is FINISHED is still so after a reply of its own server, and
\* replies of others, new tasks and faults leave it alone.
LEMMA FinishedStays ==
    ASSUME ListedOnce, [Next]_vars,
           NEW e \in list, e.state = "FINISHED", e.inc = srv[e.at].inc,
           OwnName(e), NEW f \in list', TaskOf(f) = TaskOf(e)
    PROVE  f.state = "FINISHED"
<1>1. ASSUME list' = list PROVE f.state = "FINISHED"
  BY <1>1 DEF ListedOnce
<1>2. ASSUME NEW s \in Servers, RefreshServer(s)
      PROVE  f.state = "FINISHED"
  <2>1. CASE list' = {Refreshed(g, s) : g \in list}
    <3>1. f = Refreshed(e, s)
      BY <2>1, RefreshedOnce
    <3>2. CASE e.server = Name[s] /\ e.id \in 1..srv[s].count
      <4>1. e.at = s
        BY <3>2 DEF OwnName
      <4>2. e.id \notin srv[s].running
        BY <4>1 DEF ListedOnce, Inv, FinishedIsTrue
      <4>3. f = [e EXCEPT !.state = "FINISHED"]
        BY <3>1, <3>2, <4>2 DEF Refreshed
      <4> QED BY <4>3, EntryTypes DEF ListedOnce, Inv, Entry
    <3>3. CASE ~(e.server = Name[s] /\ e.id \in 1..srv[s].count)
      BY <3>1, <3>3 DEF Refreshed
    <3> QED BY <3>2, <3>3
  <2> QED BY <1>1, <1>2, <2>1, RefreshMaps DEF ListedOnce
<1>3. ASSUME NEW s \in Servers, ExecOnServer(s)
      PROVE  f.state = "FINISHED"
  <2>1. CASE Serve(s) /\ list' = list \union {NewEntry(s)}
    <3>1. TaskOf(e) # TaskOf(NewEntry(s))
      BY <2>1, ServeKeeps DEF ListedOnce
    <3> QED BY <2>1, <3>1 DEF ListedOnce
  <2> QED BY <1>1, <1>3, <2>1 DEF ExecOnServer
<1>4. ASSUME NEW s \in Servers, KillOnServer(s) \/ Outside(s)
      PROVE  f.state = "FINISHED"
  BY <1>1, <1>4, OutsideFacts DEF KillOnServer, ListedOnce, Inv, ctlVars
<1>5. CASE \/ BeginRefresh \/ EndRefresh \/ DrawMain \/ EndExec \/ EndKill
           \/ Key \/ UNCHANGED vars
  BY <1>1, <1>5 DEF BeginRefresh, EndRefresh, DrawMain, EndExec, EndKill, Key,
     OtherKey, EscapeKey, RefreshKey, RunCommand, ToggleServer, KillTask, vars,
     ctlVars
<1> QED BY <1>2, <1>3, <1>4, <1>5 DEF Next, Loop, Gone

\* ... and a task shown as FINISHED is not shown as RUNNING again by any reply,
\* as long as its server has not restarted, if the server's name is its own.
THEOREM FinishedTasksStay == Spec => FinishedIsFinal
<1> DEFINE Final ==
        \A e \in list :
           e.state = "FINISHED" /\ e.inc = srv[e.at].inc /\ OwnName(e)
              => \A f \in list' : TaskOf(f) = TaskOf(e) => f.state = "FINISHED"
<1>1. ListedOnce /\ [Next]_vars => [Final]_vars
  BY FinishedStays
<1> QED BY <1>1, OnceAlways, PTL DEF Spec, FinishedIsFinal

-----------------------------------------------------------------------------
(* The file screen of the controller's user interface: FileScreen, of the same *)
(* servers                                                                     *)

CONSTANTS Order, CopyName(_), NewName, Bodies, NoLines, Worlds, Rows, MaxCursor

VARIABLES world, files, mode, server, cursor, view, step, target, clip, buffer,
          edit, home

UI == INSTANCE FileScreen

\* A copy has another name than what it is a copy of: of what FileScreen assumes of
\* its constants, the part that the proofs need.
CopiesAreOther == \A n \in UI!Names : CopyName(n) # n

\* A text that is there and that /files/read can send.
Readable(t) == t # UI!NoText /\ t.body \notin world.binary

\* The cursor, the editor and the clipboard are where the mode says.
InMode ==
    /\ server \in Servers
    /\ DOMAIN files = Servers /\ \A s \in Servers : DOMAIN files[s] = UI!Names
    /\ clip # UI!NoClip => clip.name \in UI!Names
    /\ step \notin {"draw", "key"} => mode = "files"

\* The editor is open for the file it saves.
EditorAtHome == mode = "editor" => home = [server |-> server, name |-> edit.name]

\* With no one else about, a paste has read the text there is, and the first half
\* of a cut has written it to another name.
PasteIsSound ==
    /\ step \in {"pasteRead", "pasteWrite", "pasteDelete"}
          => clip.name \in UI!Names /\ CopyName(clip.name) \in UI!Names
    /\ step = "pasteWrite" /\ UI!Calm /\ Readable(files[server][clip.name])
          => buffer = files[server][clip.name]
    /\ step = "pasteDelete" /\ UI!Calm /\ Readable(files[server][clip.name])
          => files[server][CopyName(clip.name)] = files[server][clip.name]

\* With no one else about, the screen shows what a key is going to list.
ShownIsThere ==
    /\ cursor \in Nat
    /\ UI!Calm /\ mode = "files" /\ step = "key" => view = UI!Drawn(UI!Listing(server))

ScreenInv == InMode /\ EditorAtHome /\ PasteIsSound

LEMMA ScreenInit == UI!Init => ScreenInv
<1> SUFFICES ASSUME UI!Init PROVE ScreenInv
  OBVIOUS
<1>1. /\ files \in [Servers -> [UI!Names -> UI!Text \union {UI!NoText}]]
      /\ server \in Servers
      /\ mode = "main" /\ step = "draw" /\ clip = UI!NoClip
  BY DEF UI!Init
<1> QED BY <1>1 DEF ScreenInv, InMode, EditorAtHome, PasteIsSound

\* One file changes at most, on the server selected now.
LEMMA ChangeOne ==
    ASSUME InMode, NEW n, NEW t, UI!Change(n, t)
    PROVE  /\ DOMAIN files' = Servers /\ \A s \in Servers : DOMAIN files'[s] = UI!Names
           /\ \A s \in Servers, m \in UI!Names :
                 files'[s][m] # files[s][m] => s = server /\ m = n
           /\ ~world.failing /\ n \in UI!Names => files'[server][n] = t
<1>1. CASE files' = [files EXCEPT ![server][n] = t]
  BY <1>1 DEF InMode
<1>2. CASE world.failing /\ UNCHANGED files
  BY <1>2 DEF InMode
<1> QED BY <1>1, <1>2 DEF UI!Change

LEMMA ScreenStep == ASSUME CopiesAreOther PROVE
    ScreenInv /\ [UI!Next]_(UI!vars) => ScreenInv'
<1> SUFFICES ASSUME ScreenInv, [UI!Next]_(UI!vars) PROVE ScreenInv'
  OBVIOUS
<1> USE DEF ScreenInv
<1>1. CASE UNCHANGED UI!vars
  BY <1>1 DEF UI!vars, UI!ui, InMode, EditorAtHome, PasteIsSound, UI!Calm, Readable
<1>2. CASE \/ UI!Draw \/ UI!NoKey \/ UI!MoveServer \/ UI!OpenMenu
              \/ UI!LeaveMenu \/ UI!OpenFiles \/ UI!LeaveFiles
  <2>1. /\ UNCHANGED <<world, files, clip, home, edit>> /\ server' \in Servers
        /\ step' \in {"draw", "key"} /\ step \in {"draw", "key"}
        /\ (mode' = mode /\ server' = server) \/ mode' # "editor"
    BY <1>2 DEF UI!Draw, UI!NoKey, UI!MoveServer, UI!OpenMenu, UI!LeaveMenu, UI!OpenFiles,
                UI!LeaveFiles, UI!At, UI!Key, UI!To, InMode
  <2> QED BY <2>1 DEF InMode, EditorAtHome, PasteIsSound
<1>3. CASE \/ UI!CursorUp \/ UI!CursorDown \/ UI!NewFile \/ UI!EditFile
              \/ UI!DeleteFile \/ UI!CopyOrCut
  <2>1. /\ UNCHANGED <<world, files, server>>
        /\ step' \in {"draw", "load", "delete"}
        /\ step' # "draw" => mode' = "files"
    BY <1>3 DEF UI!CursorUp, UI!CursorDown, UI!NewFile, UI!EditFile, UI!DeleteFile,
                UI!CopyOrCut, UI!FilesKey, UI!At
  <2>2. clip' # UI!NoClip => clip'.name \in UI!Names
    BY <1>3 DEF UI!CursorUp, UI!CursorDown, UI!NewFile, UI!EditFile, UI!DeleteFile,
                UI!CopyOrCut, UI!Pointed, InMode
  <2>3. EditorAtHome'
    BY <1>3 DEF UI!CursorUp, UI!CursorDown, UI!NewFile, UI!EditFile, UI!DeleteFile,
                UI!CopyOrCut, UI!FilesKey, EditorAtHome, UI!NewFileText
  <2> QED BY <2>1, <2>2, <2>3 DEF InMode, PasteIsSound
<1>4. CASE UI!Paste
  BY <1>4 DEF UI!Paste, UI!FilesKey, UI!At, InMode, EditorAtHome, PasteIsSound
<1>5. CASE UI!Load
  <2>1. /\ UNCHANGED <<world, files, server, clip>> /\ step' = "draw"
        /\ home' = [server |-> server, name |-> target] /\ edit'.name = target
    BY <1>5 DEF UI!Load, UI!At
  <2> QED BY <2>1 DEF InMode, EditorAtHome, PasteIsSound
<1>6. CASE UI!Delete
  <2>1. /\ UNCHANGED <<world, mode, server, clip, edit, home>> /\ step' = "draw"
        /\ UI!Change(target, UI!NoText)
    BY <1>6 DEF UI!Delete, UI!At
  <2> QED BY <2>1, ChangeOne DEF InMode, EditorAtHome, PasteIsSound
<1>7. CASE UI!PasteRead
  <2>1. /\ UNCHANGED <<world, files, mode, server, clip, edit, home>>
        /\ step = "pasteRead" /\ step' = "pasteWrite"
        /\ buffer' \in UI!Readings(clip.name)
    BY <1>7 DEF UI!PasteRead, UI!At
  <2>2. UI!Calm /\ Readable(files[server][clip.name])
           => buffer' = files[server][clip.name]
    BY <2>1 DEF UI!Calm, Readable, UI!Readings
  <2> QED BY <2>1, <2>2 DEF InMode, EditorAtHome, PasteIsSound, UI!Calm, Readable
<1>8. CASE UI!PasteWrite
  <2> DEFINE n == clip.name
             k == CopyName(clip.name)
  <2>1. /\ UNCHANGED <<world, mode, server, clip, edit, home>>
        /\ step = "pasteWrite" /\ step' \in {"pasteDelete", "draw"}
        /\ UI!Change(k, buffer)
    BY <1>8 DEF UI!PasteWrite, UI!At
  <2>2. n \in UI!Names /\ k \in UI!Names /\ n # k /\ server \in Servers
    BY <2>1, CopiesAreOther DEF CopiesAreOther, PasteIsSound, InMode
  <2>3. files'[server][n] = files[server][n]
    BY <2>1, <2>2, ChangeOne
  <2>4. UI!Calm => files'[server][k] = buffer
    BY <2>1, <2>2, ChangeOne DEF UI!Calm
  <2>5. UI!Calm /\ Readable(files'[server][n]) => files'[server][k] = files'[server][n]
    BY <2>1, <2>3, <2>4 DEF PasteIsSound
  <2>6. InMode'
    BY <2>1, ChangeOne DEF InMode
  <2> QED BY <2>1, <2>2, <2>5, <2>6 DEF InMode, EditorAtHome, PasteIsSound, UI!Calm,
                                        Readable
<1>9. CASE UI!PasteDelete
  <2>1. /\ UNCHANGED <<world, mode, server, edit, home>> /\ step' = "draw"
        /\ clip' = UI!NoClip /\ UI!Change(clip.name, UI!NoText)
    BY <1>9 DEF UI!PasteDelete, UI!At
  <2> QED BY <2>1, ChangeOne DEF InMode, EditorAtHome, PasteIsSound
<1>10. CASE UI!TypeText
  <2>1. edit'.name = edit.name
    BY <1>10 DEF UI!TypeText
  <2> QED BY <1>10, <2>1 DEF UI!TypeText, UI!Key, UI!At, InMode, EditorAtHome,
                              PasteIsSound
<1>11. CASE UI!Save
  <2>1. /\ UNCHANGED <<world, server, clip>> /\ step' = "draw" /\ mode' = "files"
        /\ UI!Change(edit.name, [body |-> edit.body, ended |-> TRUE])
    BY <1>11 DEF UI!Save, UI!Key, UI!At
  <2> QED BY <2>1, ChangeOne DEF InMode, EditorAtHome, PasteIsSound
<1>12. CASE UI!LeaveEditor
  BY <1>12 DEF UI!LeaveEditor, UI!Key, UI!At, InMode, EditorAtHome, PasteIsSound
<1>13. CASE UI!SomebodyElse
  <2>1. UNCHANGED <<world, mode, server, step, clip, buffer, edit, home>> /\ ~UI!Calm
    BY <1>13 DEF UI!SomebodyElse, UI!ui, UI!Calm
  <2>2. DOMAIN files' = Servers /\ \A s \in Servers : DOMAIN files'[s] = UI!Names
    BY <1>13 DEF UI!SomebodyElse, InMode
  <2> QED BY <2>1, <2>2 DEF InMode, EditorAtHome, PasteIsSound, UI!Calm
<1> QED BY <1>1, <1>2, <1>3, <1>4, <1>5, <1>6, <1>7, <1>8, <1>9, <1>10,
           <1>11, <1>12, <1>13
           DEF UI!Next

\* Which steps lead from the editor to the list, and on from the requests of a paste.
LEMMA WhichStep ==
    ASSUME UI!Next
    PROVE  /\ mode = "editor" /\ mode' = "files" => UI!Save \/ UI!LeaveEditor
           /\ step = "pasteWrite" /\ UI!Calm => UI!PasteWrite
           /\ step = "pasteDelete" /\ UI!Calm => UI!PasteDelete
  BY DEF UI!Next, UI!Draw, UI!NoKey, UI!MoveServer, UI!OpenMenu, UI!LeaveMenu,
         UI!OpenFiles, UI!LeaveFiles, UI!At, UI!Key, UI!To, UI!CursorUp, UI!CursorDown,
         UI!NewFile, UI!EditFile, UI!DeleteFile, UI!CopyOrCut, UI!Paste, UI!FilesKey,
         UI!Load, UI!Delete, UI!PasteRead, UI!PasteWrite, UI!PasteDelete, UI!TypeText,
         UI!Save, UI!LeaveEditor, UI!SomebodyElse, UI!ui, UI!Calm

\* Only a draw leads to the next key, and then nothing has changed the files yet.
LEMMA ShownStep == ShownIsThere /\ [UI!Next]_(UI!vars) => ShownIsThere'
<1> SUFFICES ASSUME ShownIsThere, [UI!Next]_(UI!vars) PROVE ShownIsThere'
  OBVIOUS
<1>1. CASE UNCHANGED UI!vars
  BY <1>1 DEF UI!vars, UI!ui, ShownIsThere, UI!Calm, UI!Drawn, UI!Listing
<1>2. CASE UI!Draw
  <2>1. UNCHANGED <<world, files, mode, server, cursor>>
    BY <1>2 DEF UI!Draw, UI!At
  <2>2. UI!Calm /\ mode = "files" => view' = UI!Drawn(UI!Listing(server))
    BY <1>2 DEF UI!Draw, UI!Listings, UI!Calm
  <2> QED BY <2>1, <2>2 DEF ShownIsThere, UI!Calm, UI!Drawn, UI!Listing
<1>3. CASE UI!SomebodyElse
  BY <1>3 DEF UI!SomebodyElse, UI!ui, ShownIsThere, UI!Calm
<1>4. CASE UI!Next /\ ~UI!Draw /\ ~UI!SomebodyElse
  <2>1. step' # "key" /\ cursor' \in Nat
    BY <1>4 DEF UI!Next, UI!NoKey, UI!MoveServer, UI!OpenMenu, UI!LeaveMenu,
         UI!OpenFiles, UI!LeaveFiles, UI!At, UI!Key, UI!To, UI!CursorUp, UI!CursorDown,
         UI!NewFile, UI!EditFile, UI!DeleteFile, UI!CopyOrCut, UI!Paste, UI!FilesKey,
         UI!Load, UI!Delete, UI!PasteRead, UI!PasteWrite, UI!PasteDelete, UI!TypeText,
         UI!Save, UI!LeaveEditor, ShownIsThere
  <2> QED BY <2>1 DEF ShownIsThere
<1> QED BY <1>1, <1>2, <1>3, <1>4

\* A key acts on a position of the listing it fetches.
LEMMA ActsOnListing ==
    ASSUME UI!Next, step = "key", UI!Calm
    PROVE  /\ step' \in {"delete", "load"} =>
                 mode = "files" /\ target' \in UI!Pointed(UI!Listing(server))
           /\ clip' \notin {clip, UI!NoClip} =>
                 mode = "files" /\ clip'.name \in UI!Pointed(UI!Listing(server))
  BY DEF UI!Next, UI!Draw, UI!NoKey, UI!MoveServer, UI!OpenMenu, UI!LeaveMenu,
         UI!OpenFiles, UI!LeaveFiles, UI!At, UI!Key, UI!To, UI!CursorUp, UI!CursorDown,
         UI!NewFile, UI!EditFile, UI!DeleteFile, UI!CopyOrCut, UI!Paste, UI!FilesKey,
         UI!Load, UI!Delete, UI!PasteRead, UI!PasteWrite, UI!PasteDelete, UI!TypeText,
         UI!Save, UI!LeaveEditor, UI!SomebodyElse, UI!Calm, UI!Listings

\* With no one else about and no request failing, whatever was done before, what is
\* deleted, opened, copied or cut is the file the user saw highlighted.
THEOREM ShownIsMeant == ASSUME Rows \in Nat PROVE UI!Spec => UI!ActsOnWhatIsShown
<1>1. ShownIsThere /\ [UI!Next]_(UI!vars) =>
        [step = "key" /\ UI!Calm /\ cursor < Rows
          => /\ step' \in {"delete", "load"} => target' \in UI!Highlighted
             /\ clip' \notin {clip, UI!NoClip} => clip'.name \in UI!Highlighted]_(UI!vars)
  <2> SUFFICES ASSUME ShownIsThere, UI!Next, step = "key", UI!Calm, cursor < Rows
               PROVE  /\ step' \in {"delete", "load"} => target' \in UI!Highlighted
                      /\ clip' \notin {clip, UI!NoClip} => clip'.name \in UI!Highlighted
    OBVIOUS
  <2>1. ASSUME mode = "files", NEW n \in UI!Pointed(UI!Listing(server))
        PROVE  n \in UI!Highlighted
    <3>1. /\ view = UI!Drawn(UI!Listing(server)) /\ cursor + 1 \in 1..Rows
          /\ cursor + 1 \in DOMAIN UI!Listing(server)
          /\ n = UI!Listing(server)[cursor + 1]
      BY <2>1 DEF ShownIsThere, UI!Pointed
    <3>2. cursor + 1 \in DOMAIN view /\ view[cursor + 1] = n
      BY <3>1 DEF UI!Drawn
    <3> QED BY <3>2 DEF UI!Highlighted
  <2> QED BY <2>1, ActsOnListing
<1>2. UI!Init => ShownIsThere
  BY DEF UI!Init, ShownIsThere
<1> QED BY <1>1, <1>2, ShownStep, PTL DEF UI!Spec, UI!ActsOnWhatIsShown

\* A save goes to the server and the file the editor was opened for.
THEOREM SavesGoHome == ASSUME CopiesAreOther PROVE UI!Spec => UI!SaveGoesHome
<1>1. ScreenInv /\ [UI!Next]_(UI!vars) =>
        [mode = "editor" /\ mode' = "files"
          => \A s \in Servers, n \in UI!Names :
                files'[s][n] # files[s][n]
                   => s = home.server /\ n = home.name]_(UI!vars)
  <2> SUFFICES ASSUME ScreenInv, UI!Next, mode = "editor", mode' = "files",
                      NEW s \in Servers, NEW n \in UI!Names, files'[s][n] # files[s][n]
               PROVE  s = home.server /\ n = home.name
    OBVIOUS
  <2>1. UI!Save
    BY WhichStep DEF UI!LeaveEditor
  <2>2. s = server /\ n = edit.name
    BY <2>1, ChangeOne DEF UI!Save, ScreenInv
  <2> QED BY <2>2 DEF ScreenInv, EditorAtHome
<1> QED BY <1>1, ScreenInit, ScreenStep, PTL DEF UI!Spec, UI!SaveGoesHome

\* On the server it was copied or cut on, with no one else about, a paste writes
\* the text the file has.
THEOREM PastesAreCopies == ASSUME CopiesAreOther PROVE UI!Spec => UI!PasteIsTheCopied
<1>1. ScreenInv /\ [UI!Next]_(UI!vars) =>
        [step = "pasteWrite" /\ UI!Calm /\ server = clip.from
          => LET t == files[server][clip.name]
             IN  t # UI!NoText /\ t.body \notin world.binary
                    => files'[server][CopyName(clip.name)] = t]_(UI!vars)
  <2> DEFINE t == files[server][clip.name]
  <2> SUFFICES ASSUME ScreenInv, UI!Next, step = "pasteWrite", UI!Calm, Readable(t)
               PROVE  files'[server][CopyName(clip.name)] = t
    BY DEF Readable
  <2>1. UI!PasteWrite
    BY WhichStep
  <2>2. buffer = t /\ CopyName(clip.name) \in UI!Names
    BY DEF ScreenInv, PasteIsSound
  <2>3. InMode /\ ~world.failing /\ UI!Change(CopyName(clip.name), buffer)
    BY <2>1 DEF UI!PasteWrite, ScreenInv, UI!Calm
  <2> HIDE DEF t
  <2> QED BY <2>2, <2>3, ChangeOne
<1> QED BY <1>1, ScreenInit, ScreenStep, PTL DEF UI!Spec, UI!PasteIsTheCopied

\* With no one else about, the second half of a cut does not destroy the last copy
\* of a text that /files/read can send.
THEOREM CutsLoseNothing == ASSUME CopiesAreOther PROVE UI!Spec => UI!CutKeepsText
<1>1. ScreenInv /\ [UI!Next]_(UI!vars) =>
        [step = "pasteDelete" /\ UI!Calm
          => LET t == files[server][clip.name]
             IN  t # UI!NoText /\ t.body \notin world.binary
                    => \E n \in UI!Names \ {clip.name} : files'[server][n] = t]_(UI!vars)
  <2> DEFINE t == files[server][clip.name]
             k == CopyName(clip.name)
  <2> SUFFICES ASSUME ScreenInv, UI!Next, step = "pasteDelete", UI!Calm, Readable(t)
               PROVE  \E n \in UI!Names \ {clip.name} : files'[server][n] = t
    BY DEF Readable
  <2>1. UI!PasteDelete
    BY WhichStep
  <2>2. /\ clip.name \in UI!Names /\ k \in UI!Names /\ server \in Servers
        /\ files[server][k] = t
    BY DEF ScreenInv, PasteIsSound, InMode
  <2>3. k # clip.name
    BY <2>2, CopiesAreOther DEF CopiesAreOther
  <2>4. InMode /\ UI!Change(clip.name, UI!NoText)
    BY <2>1 DEF UI!PasteDelete, ScreenInv
  <2>5. files'[server][k] = t
    BY <2>2, <2>3, <2>4, ChangeOne
  <2> QED BY <2>2, <2>3, <2>5
<1> QED BY <1>1, ScreenInit, ScreenStep, PTL DEF UI!Spec, UI!CutKeepsText
=============================================================================
