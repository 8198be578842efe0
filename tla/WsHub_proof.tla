---------------------------- MODULE WsHub_proof ----------------------------
(***************************************************************************)
(* Proofs about the WebSocket hub of server/main.cpp, for any number of    *)
(* publishers, connections, broadcasts and pings.                          *)
(***************************************************************************)
EXTENDS WsHub, TLAPS

-----------------------------------------------------------------------------
(* Type correctness *)

\* A publisher inside broadcast_ws has begun at least one broadcast.
HolderSends == mutex # NoOne => sent[mutex] > 0

Typed == TypeOK /\ HolderSends

LEMMA TypedInit == Init => Typed
  BY HubAssumption DEF Init, Typed, TypeOK, HolderSends, SockStates, Messages

LEMMA TypedBroadcast ==
    ASSUME Typed, NEW p \in Publishers, Broadcast(p)
    PROVE  Typed'
<1> USE HubAssumption DEF Typed, TypeOK, HolderSends, pingVars, history
<1>1. CASE BeginBroadcast(p)
  <2>1. sent[p] + 1 \in 1..MaxSends
    BY <1>1 DEF BeginBroadcast
  <2>2. log' \in Seq(Messages)
    BY <1>1, <2>1 DEF BeginBroadcast, Messages
  <2> QED BY <1>1, <2>1, <2>2 DEF BeginBroadcast
<1>2. ASSUME NEW c \in Clients, SendOne(p, c) PROVE Typed'
  <2>1. <<p, sent[p]>> \in Messages
    BY <1>2 DEF SendOne, Messages
  <2>2. queue' \in [Clients -> Seq(Messages)]
    BY <1>2, <2>1 DEF SendOne
  <2> QED BY <1>2, <2>2 DEF SendOne
<1>3. CASE EndBroadcast(p)
  BY <1>3 DEF EndBroadcast
<1> QED BY <1>1, <1>2, <1>3 DEF Broadcast

LEMMA TypedWsThread ==
    ASSUME Typed, NEW c \in Clients, WsThread(c) \/ ClientPing(c)
    PROVE  Typed'
<1> USE DEF Typed, TypeOK, HolderSends, lockVars, pingVars, history, SockStates
<1>1. CASE Handshake(c)
  BY <1>1 DEF Handshake
<1>2. CASE on_ws_open(c)
  BY <1>2 DEF on_ws_open
<1>3. CASE Disconnect(c)
  BY <1>3 DEF Disconnect
<1>4. CASE on_ws_close(c)
  BY <1>4 DEF on_ws_close
<1>5. CASE on_ws_message(c)
  BY <1>5 DEF on_ws_message
<1>6. CASE ClientPing(c)
  BY <1>6 DEF ClientPing
<1> QED BY <1>1, <1>2, <1>3, <1>4, <1>5, <1>6 DEF WsThread

LEMMA TypedStep == Typed /\ [Next]_vars => Typed'
<1> SUFFICES ASSUME Typed, [Next]_vars PROVE Typed'
  OBVIOUS
<1>1. CASE UNCHANGED vars
  BY <1>1 DEF vars, Typed, TypeOK, HolderSends
<1> QED BY <1>1, TypedBroadcast, TypedWsThread DEF Next, Finished

\* Every variable always has its type.
THEOREM TypeCorrect == Spec => []TypeOK
<1>1. Init => Typed
  BY TypedInit
<1>2. Typed /\ [Next]_vars => Typed'
  BY TypedStep
<1> QED BY <1>1, <1>2, PTL DEF Spec, Typed

-----------------------------------------------------------------------------
(* What a connection has been sent *)

\* The lock invariant.  Outside broadcast_ws nothing is owed; the message being
\* sent is the last of the log; a connection is owed it only if it registered,
\* and registered connections are open, or closing behind the lock.
LockInv ==
    /\ mutex = NoOne => todo = {}
    /\ mutex # NoOne => Len(log) > 0 /\ log[Len(log)] = <<mutex, sent[mutex]>>
    /\ todo \subseteq registered
    /\ \A c \in registered : sock[c] \in {"open", "closing"}
    /\ \A c \in Clients : sock[c] = "open" => c \in registered

\* Before it registers a connection has been sent nothing.
NothingBefore == \A c \in Clients : sock[c] \in {"new", "opening"}
                                        => queue[c] = <<>> /\ since[c] = 0

Inv == Typed /\ LockInv /\ NothingBefore /\ ContiguousView /\ OpenMissesNothing

\* The lengths ContiguousView and OpenMissesNothing compare are numbers.
LEMMA Lengths ==
    ASSUME TypeOK
    PROVE  /\ Len(log) \in Nat
           /\ \A c \in Clients : since[c] \in Nat /\ Len(queue[c]) \in Nat
<1> SUFFICES ASSUME NEW c \in Clients
             PROVE  Len(log) \in Nat /\ since[c] \in Nat /\ Len(queue[c]) \in Nat
  BY DEF TypeOK
<1>1. log \in Seq(Messages) /\ queue[c] \in Seq(Messages) /\ since[c] \in Nat
  BY DEF TypeOK
<1> QED BY <1>1

LEMMA InvInit == Init => Inv
<1> SUFFICES ASSUME Init PROVE Inv
  OBVIOUS
<1>1. Typed
  BY TypedInit
<1>2. LockInv /\ NothingBefore /\ ContiguousView /\ OpenMissesNothing
  BY DEF Init, LockInv, NothingBefore, ContiguousView, OpenMissesNothing
<1> QED BY <1>1, <1>2 DEF Inv

\* A broadcast begins with the lock free, so nothing was owed: now every
\* registered connection is owed the new last message of the log.
LEMMA InvBegin ==
    ASSUME Inv, Typed', NEW p \in Publishers, BeginBroadcast(p)
    PROVE  Inv'
<1>1. /\ todo = {}
      /\ todo' = registered
      /\ UNCHANGED <<sock, registered, queue, since>>
  BY DEF BeginBroadcast, Inv, LockInv
<1>2. /\ Len(log') = Len(log) + 1
      /\ log'[Len(log')] = <<p, sent[p] + 1>>
      /\ \A i \in 1..Len(log) : log'[i] = log[i]
  BY DEF BeginBroadcast, Inv, Typed, TypeOK
<1>3. LockInv'
  <2>1. mutex' = p /\ sent'[p] = sent[p] + 1 /\ p # NoOne
    BY HubAssumption DEF BeginBroadcast, Inv, Typed, TypeOK
  <2>2. Len(log) \in Nat
    BY Lengths DEF Inv, Typed
  <2> QED BY <1>1, <1>2, <2>1, <2>2 DEF Inv, LockInv
<1>4. NothingBefore'
  BY <1>1 DEF Inv, NothingBefore
<1>5. ContiguousView'
  <2> SUFFICES ASSUME NEW d \in Clients
               PROVE  /\ since[d] + Len(queue[d]) <= Len(log')
                      /\ \A i \in 1..Len(queue[d]) :
                            queue[d][i] = log'[since[d] + i]
    BY <1>1 DEF ContiguousView
  <2>1. /\ since[d] + Len(queue[d]) <= Len(log)
        /\ \A i \in 1..Len(queue[d]) : queue[d][i] = log[since[d] + i]
    BY DEF Inv, ContiguousView
  <2>2. Len(log) \in Nat /\ since[d] \in Nat /\ Len(queue[d]) \in Nat
    BY Lengths DEF Inv, Typed
  <2>3. \A i \in 1..Len(queue[d]) : since[d] + i \in 1..Len(log)
    BY <2>1, <2>2
  <2>4. \A i \in 1..Len(queue[d]) : log'[since[d] + i] = log[since[d] + i]
    BY <1>2, <2>3
  <2>5. since[d] + Len(queue[d]) <= Len(log')
    BY <1>2, <2>1, <2>2
  <2> QED BY <2>1, <2>4, <2>5
<1>6. OpenMissesNothing'
  BY <1>1, <1>2 DEF Inv, Typed, TypeOK, LockInv, OpenMissesNothing, Owed
<1> QED BY <1>3, <1>4, <1>5, <1>6 DEF Inv

\* What a step of the loop does to the connection it reaches.
LEMMA SendFacts ==
    ASSUME Inv, NEW p \in Publishers, NEW c \in Clients, SendOne(p, c)
    PROVE  /\ mutex = p /\ c \in todo /\ c \in registered
           /\ UNCHANGED <<sock, registered, mutex, sent, log, since>>
           /\ todo' = todo \ {c}
           /\ \A d \in Clients : d # c => queue'[d] = queue[d]
           /\ sock[c] # "open" => queue' = queue
           /\ sock[c] = "open" =>
                /\ since[c] + Len(queue[c]) + 1 = Len(log)
                /\ queue' = [queue EXCEPT ![c] = Append(@, log[Len(log)])]
                /\ Len(queue'[c]) = Len(queue[c]) + 1
                /\ queue'[c][Len(queue[c]) + 1] = log[Len(log)]
                /\ \A i \in 1..Len(queue[c]) : queue'[c][i] = queue[c][i]
<1>1. /\ mutex = p /\ c \in todo /\ c \in registered
      /\ sock[c] \in {"open", "closing"}
      /\ UNCHANGED <<sock, registered, mutex, sent, log, since>>
      /\ todo' = todo \ {c}
      /\ sock[c] # "open" => queue' = queue
      /\ sock[c] = "open" => queue' = [queue EXCEPT ![c] =
                                          Append(@, <<p, sent[p]>>)]
  BY DEF SendOne, Sendable, history, Inv, LockInv
<1>2. log[Len(log)] = <<p, sent[p]>>
  BY <1>1, HubAssumption DEF Inv, LockInv
<1>3. CASE sock[c] = "open"
  <2>1. since[c] + Len(queue[c]) + 1 = Len(log)
    BY <1>1, <1>3 DEF Inv, OpenMissesNothing, Owed
  <2>2. queue[c] \in Seq(Messages)
    BY DEF Inv, Typed, TypeOK
  <2>3. queue'[c] = Append(queue[c], log[Len(log)])
    BY <1>1, <1>2, <1>3 DEF Inv, Typed, TypeOK
  <2>4. \A d \in Clients : d # c => queue'[d] = queue[d]
    BY <1>1, <1>3 DEF Inv, Typed, TypeOK
  <2> QED BY <1>1, <1>2, <1>3, <2>1, <2>2, <2>3, <2>4
<1>4. CASE sock[c] # "open"
  BY <1>1, <1>4
<1> QED BY <1>3, <1>4

LEMMA InvSend ==
    ASSUME Inv, Typed', NEW p \in Publishers, NEW c \in Clients, SendOne(p, c)
    PROVE  Inv'
<1>1. LockInv'
  BY SendFacts, HubAssumption DEF Inv, LockInv
<1>2. NothingBefore'
  BY SendFacts DEF Inv, LockInv, NothingBefore
<1>3. ContiguousView'
  <2> SUFFICES ASSUME NEW d \in Clients
               PROVE  /\ since'[d] + Len(queue'[d]) <= Len(log')
                      /\ \A i \in 1..Len(queue'[d]) :
                            queue'[d][i] = log'[since'[d] + i]
    BY DEF ContiguousView
  <2>1. since[d] \in Nat /\ Len(queue[d]) \in Nat /\ Len(log) \in Nat
    BY Lengths DEF Inv, Typed
  <2>2. CASE d = c /\ sock[c] = "open"
    <3>1. /\ UNCHANGED <<log, since>>
          /\ since[c] + Len(queue[c]) + 1 = Len(log)
          /\ Len(queue'[c]) = Len(queue[c]) + 1
          /\ queue'[c][Len(queue[c]) + 1] = log[Len(log)]
          /\ \A i \in 1..Len(queue[c]) : queue'[c][i] = queue[c][i]
      BY <2>2, SendFacts
    <3>2. \A i \in 1..Len(queue[c]) : queue[c][i] = log[since[c] + i]
      BY DEF Inv, ContiguousView
    <3>3. ASSUME NEW i \in 1..Len(queue'[c])
          PROVE  queue'[c][i] = log[since[c] + i]
      <4>1. CASE i \in 1..Len(queue[c])
        BY <3>1, <3>2, <4>1
      <4>2. CASE i = Len(queue[c]) + 1
        <5>1. since[c] + i = Len(log)
          BY <2>1, <2>2, <3>1, <4>2
        <5> QED BY <3>1, <4>2, <5>1
      <4> QED BY <2>1, <2>2, <3>1, <4>1, <4>2
    <3>4. since[c] + Len(queue'[c]) <= Len(log)
      BY <2>1, <2>2, <3>1
    <3> QED BY <2>2, <3>1, <3>3, <3>4
  <2>3. CASE ~(d = c /\ sock[c] = "open")
    BY <2>3, SendFacts DEF Inv, ContiguousView
  <2> QED BY <2>2, <2>3
<1>4. OpenMissesNothing'
  <2> SUFFICES ASSUME NEW d \in Clients, sock'[d] = "open"
               PROVE  since'[d] + Len(queue'[d]) + Owed(d)' = Len(log')
    BY DEF OpenMissesNothing
  <2>1. since[d] \in Nat /\ Len(queue[d]) \in Nat /\ Len(log) \in Nat
    BY Lengths DEF Inv, Typed
  <2>2. CASE d = c
    BY <2>1, <2>2, SendFacts DEF Owed
  <2>3. CASE d # c
    BY <2>3, SendFacts DEF Inv, OpenMissesNothing, Owed
  <2> QED BY <2>2, <2>3
<1> QED BY <1>1, <1>2, <1>3, <1>4 DEF Inv

\* The ws thread registers and removes connections with the lock free, when
\* nothing is owed.
LEMMA InvWsThread ==
    ASSUME Inv, Typed', NEW c \in Clients, WsThread(c) \/ ClientPing(c)
    PROVE  Inv'
<1>0. registered \subseteq Clients
  BY DEF Inv, Typed, TypeOK
<1>1. /\ UNCHANGED <<mutex, todo, sent, queue, log>>
      /\ \A d \in Clients : d # c => sock'[d] = sock[d] /\ since'[d] = since[d]
  BY DEF WsThread, Handshake, on_ws_open, Disconnect, on_ws_close,
     on_ws_message, ClientPing, lockVars, pingVars, history, Inv, Typed, TypeOK
<1>2. CASE on_ws_open(c)
  <2>1. /\ mutex = NoOne /\ todo = {}
        /\ sock[c] = "opening" /\ sock'[c] = "open"
        /\ registered' = registered \union {c}
        /\ since'[c] = Len(log) /\ queue[c] = <<>>
    BY <1>2 DEF on_ws_open, Inv, Typed, TypeOK, LockInv, NothingBefore
  <2>2. LockInv'
    BY <1>1, <1>0, <2>1 DEF Inv, LockInv
  <2>3. NothingBefore'
    BY <1>1, <2>1 DEF Inv, NothingBefore
  <2>4. Len(log) \in Nat /\ Len(queue[c]) = 0
    BY <2>1, Lengths DEF Inv, Typed
  <2>5. ContiguousView'
    <3> SUFFICES ASSUME NEW d \in Clients
                 PROVE  /\ since'[d] + Len(queue[d]) <= Len(log)
                        /\ \A i \in 1..Len(queue[d]) :
                              queue[d][i] = log[since'[d] + i]
      BY <1>1 DEF ContiguousView
    <3>1. CASE d = c
      BY <2>1, <2>4, <3>1
    <3>2. CASE d # c
      BY <1>1, <3>2 DEF Inv, ContiguousView
    <3> QED BY <3>1, <3>2
  <2>6. OpenMissesNothing'
    <3> SUFFICES ASSUME NEW d \in Clients, sock'[d] = "open"
                 PROVE  since'[d] + Len(queue[d]) + Owed(d)' = Len(log)
      BY <1>1 DEF OpenMissesNothing
    <3>1. CASE d = c
      BY <1>1, <2>1, <2>4, <3>1 DEF Owed
    <3>2. CASE d # c
      BY <1>1, <3>2 DEF Inv, OpenMissesNothing, Owed
    <3> QED BY <3>1, <3>2
  <2> QED BY <2>2, <2>3, <2>5, <2>6 DEF Inv
<1>3. CASE on_ws_close(c)
  <2>1. /\ mutex = NoOne /\ todo = {}
        /\ sock[c] = "closing" /\ sock'[c] = "closed"
        /\ registered' = registered \ {c}
        /\ UNCHANGED since
    BY <1>3 DEF on_ws_close, history, Inv, Typed, TypeOK, LockInv
  <2>2. LockInv'
    BY <1>1, <1>0, <2>1 DEF Inv, LockInv
  <2>3. NothingBefore'
    BY <1>1, <2>1 DEF Inv, NothingBefore
  <2>4. ContiguousView'
    BY <1>1, <2>1 DEF Inv, ContiguousView
  <2>5. OpenMissesNothing'
    BY <1>1, <2>1 DEF Inv, OpenMissesNothing, Owed
  <2> QED BY <2>2, <2>3, <2>4, <2>5 DEF Inv
<1>4. CASE Handshake(c) \/ Disconnect(c) \/ on_ws_message(c) \/ ClientPing(c)
  <2>1. /\ UNCHANGED <<registered, since>>
        /\ \/ sock' = sock
           \/ sock[c] = "new" /\ sock'[c] = "opening"
           \/ sock[c] = "open" /\ sock'[c] = "closing"
    BY <1>4 DEF Handshake, Disconnect, on_ws_message, ClientPing, lockVars,
       pingVars, history, Inv, Typed, TypeOK
  <2>2. LockInv'
    BY <1>1, <1>0, <2>1 DEF Inv, LockInv
  <2>3. NothingBefore'
    BY <1>1, <2>1 DEF Inv, NothingBefore
  <2>4. ContiguousView'
    BY <1>1, <2>1 DEF Inv, ContiguousView
  <2>5. OpenMissesNothing'
    BY <1>1, <2>1 DEF Inv, OpenMissesNothing, Owed
  <2> QED BY <2>2, <2>3, <2>4, <2>5 DEF Inv
<1> QED BY <1>2, <1>3, <1>4 DEF WsThread

LEMMA InvStep == Inv /\ [Next]_vars => Inv'
<1> SUFFICES ASSUME Inv, [Next]_vars PROVE Inv'
  OBVIOUS
<1>1. Typed'
  BY TypedStep DEF Inv
<1>2. CASE UNCHANGED vars
  BY <1>1, <1>2 DEF vars, Inv, LockInv, NothingBefore, ContiguousView,
     OpenMissesNothing, Owed
<1>3. ASSUME NEW p \in Publishers, EndBroadcast(p) PROVE Inv'
  BY <1>1, <1>3 DEF EndBroadcast, history, Inv, LockInv, NothingBefore,
     ContiguousView, OpenMissesNothing, Owed
<1> QED BY <1>1, <1>2, <1>3, InvBegin, InvSend, InvWsThread
        DEF Next, Finished, Broadcast

LEMMA InvAlways == Spec => []Inv
<1>1. Init => Inv
  BY InvInit
<1>2. Inv /\ [Next]_vars => Inv'
  BY InvStep
<1> QED BY <1>1, <1>2, PTL DEF Spec

\* What a WebSocket client was sent is always a contiguous piece of the
\* sequence of all broadcasts, from where on_ws_open registered it.
THEOREM ViewsAreContiguous == Spec => []ContiguousView
<1>1. Inv => ContiguousView
  BY DEF Inv
<1> QED BY <1>1, InvAlways, PTL

\* An open connection has been sent every broadcast since it registered, but
\* for the one in progress: a send that throws for one connection costs no
\* other connection a message.
THEOREM NothingIsMissed == Spec => []OpenMissesNothing
<1>1. Inv => OpenMissesNothing
  BY DEF Inv
<1> QED BY <1>1, InvAlways, PTL

-----------------------------------------------------------------------------
(* The hub implements the event stream *)

LEMMA StreamInit == Init => Stream!Init
  BY DEF Init, Stream!Init, streamStatus

\* Taking the lock publishes, an iteration that sends delivers, on_ws_open
\* joins, and losing the connection leaves; the rest is invisible.
LEMMA StreamStep ==
    ASSUME Inv, Inv', [Next]_vars
    PROVE  [Stream!Next]_Stream!vars
<1>1. CASE UNCHANGED vars
  BY <1>1 DEF vars, Stream!vars, streamStatus
<1>2. ASSUME NEW p \in Publishers, BeginBroadcast(p)
      PROVE  Stream!Next
  <2>1. <<p, sent[p] + 1>> \in Messages
    BY <1>2, HubAssumption DEF BeginBroadcast, Messages, Inv, Typed, TypeOK
  <2>2. Stream!Publish(<<p, sent[p] + 1>>)
    BY <1>2 DEF BeginBroadcast, Stream!Publish, streamStatus
  <2> QED BY <2>1, <2>2 DEF Stream!Next
<1>3. ASSUME NEW p \in Publishers, NEW c \in Clients, SendOne(p, c)
      PROVE  [Stream!Next]_Stream!vars
  <2>1. UNCHANGED <<log, streamStatus, since>>
    BY <1>3, SendFacts DEF streamStatus
  <2>2. CASE sock[c] = "open"
    <3>1. /\ since[c] + Len(queue[c]) + 1 = Len(log)
          /\ queue' = [queue EXCEPT ![c] = Append(@, log[Len(log)])]
      BY <1>3, <2>2, SendFacts
    <3>2. Len(log) \in Nat /\ since[c] \in Nat /\ Len(queue[c]) \in Nat
      BY Lengths DEF Inv, Typed
    <3>3. streamStatus[c] = "in" /\ since[c] + Len(queue[c]) < Len(log)
      BY <2>2, <3>1, <3>2 DEF streamStatus
    <3>4. queue' = [queue EXCEPT ![c] =
                       Append(@, log[since[c] + Len(@) + 1])]
      BY <3>1
    <3>5. Stream!Deliver(c)
      BY <2>1, <3>3, <3>4 DEF Stream!Deliver
    <3> QED BY <3>5 DEF Stream!Next
  <2>3. CASE sock[c] # "open"
    BY <1>3, <2>1, <2>3, SendFacts DEF Stream!vars
  <2> QED BY <2>2, <2>3
<1>4. ASSUME NEW p \in Publishers, EndBroadcast(p)
      PROVE  UNCHANGED Stream!vars
  BY <1>4 DEF EndBroadcast, history, Stream!vars, streamStatus
<1>5. ASSUME NEW c \in Clients, on_ws_open(c) PROVE Stream!Next
  <2>1. Stream!Join(c)
    BY <1>5 DEF on_ws_open, Stream!Join, streamStatus, Inv, Typed, TypeOK
  <2> QED BY <2>1 DEF Stream!Next
<1>6. ASSUME NEW c \in Clients, Disconnect(c) PROVE Stream!Next
  <2>1. Stream!Leave(c)
    BY <1>6 DEF Disconnect, Stream!Leave, history, streamStatus, Inv, Typed,
       TypeOK
  <2> QED BY <2>1 DEF Stream!Next
<1>7. ASSUME NEW c \in Clients,
             Handshake(c) \/ on_ws_close(c) \/ on_ws_message(c) \/ ClientPing(c)
      PROVE  UNCHANGED Stream!vars
  BY <1>7 DEF Handshake, on_ws_close, on_ws_message, ClientPing, lockVars,
     pingVars, history, Stream!vars, streamStatus, Inv, Typed, TypeOK
<1> QED BY <1>1, <1>2, <1>3, <1>4, <1>5, <1>6, <1>7
        DEF Next, Finished, Broadcast, WsThread

\* broadcast_ws, on_ws_open and on_ws_close implement the abstract event
\* stream: one order of messages for all clients, and no gap for any of them.
THEOREM HubImplementsStream == Spec => StreamSpec
<1>1. Inv /\ Inv' /\ [Next]_vars => [Stream!Next]_Stream!vars
  BY StreamStep
<1> QED BY <1>1, StreamInit, InvAlways, PTL DEF Spec, StreamSpec, Stream!Spec

=============================================================================
