------------------------------- MODULE WsHub -------------------------------
(***************************************************************************)
(* The WebSocket hub of server/main.cpp: the set ws_connections, its mutex *)
(* ws_connections_mtx, broadcast_ws called from any publisher thread (one  *)
(* per running task, plus cpu_monitor), and the handlers on_ws_open,       *)
(* on_ws_close and on_ws_message, which all run on the one thread that     *)
(* called ws_server.run().                                                 *)
(*                                                                         *)
(* The websocketpp library is external: a connection is "opening" from the *)
(* end of the handshake until on_ws_open has returned, "closing" from the  *)
(* moment the library marks it closed until on_ws_close has returned, and  *)
(* send() on a connection that is not open throws.                         *)
(***************************************************************************)
EXTENDS Naturals, Sequences, FiniteSets

CONSTANTS Clients,      \* WebSocket connections
          Publishers,   \* threads that call broadcast_ws
          MaxSends,     \* bound: broadcasts per publisher
          MaxPings,     \* bound: pings per connection
          NoOne         \* the mutex is free

ASSUME HubAssumption == /\ MaxSends \in Nat
                        /\ MaxPings \in Nat
                        /\ NoOne \notin Publishers

VARIABLES
  sock,         \* state of each connection, as the library sees it
  registered,   \* ws_connections
  mutex,        \* the publisher inside broadcast_ws, or NoOne
  todo,         \* connections its loop has not reached yet
  sent,         \* broadcasts begun by each publisher
  queue,        \* broadcast messages accepted by send() for each connection
  pinged,       \* pings a connection has received and not handled
  ponged,       \* pongs sent to each connection
  log,          \* history: every broadcast, in the order the mutex was taken
  since         \* history: the length of log when the connection registered

lockVars == <<mutex, todo>>
pingVars == <<pinged, ponged>>
history  == <<log, since>>
vars == <<sock, registered, mutex, todo, sent, queue, pinged, ponged, log,
          since>>

Messages == Publishers \X (1..MaxSends)

\* The thread of ws_server.run() is between two handlers.
WsThreadIdle == \A c \in Clients : sock[c] \notin {"opening", "closing"}

\* send() does not throw on a connection in one of these states.
Sendable == {"opening", "open"}

Init == /\ sock = [c \in Clients |-> "new"]
        /\ registered = {}
        /\ mutex = NoOne
        /\ todo = {}
        /\ sent = [p \in Publishers |-> 0]
        /\ queue = [c \in Clients |-> <<>>]
        /\ pinged = [c \in Clients |-> 0]
        /\ ponged = [c \in Clients |-> 0]
        /\ log = <<>>
        /\ since = [c \in Clients |-> 0]

-----------------------------------------------------------------------------
(* broadcast_ws *)

\* A broadcast that forgets the lock_guard (a mutant).
BeginUnlocked(p) == /\ sent[p] < MaxSends
                    /\ mutex' = p
                    /\ todo' = registered
                    /\ sent' = [sent EXCEPT ![p] = @ + 1]
                    /\ log' = Append(log, <<p, sent[p] + 1>>)
                    /\ UNCHANGED <<sock, registered, queue, pingVars, since>>

\* The lock_guard of broadcast_ws, and the start of its loop.
BeginBroadcast(p) == /\ mutex = NoOne
                     /\ sent[p] < MaxSends
                     /\ mutex' = p
                     /\ todo' = registered
                     /\ sent' = [sent EXCEPT ![p] = @ + 1]
                     /\ log' = Append(log, <<p, sent[p] + 1>>)
                     /\ UNCHANGED <<sock, registered, queue, pingVars, since>>

\* An exception of send() ends the loop instead of one iteration (a mutant).
SendOneNoCatch(p, c) ==
    /\ mutex = p
    /\ c \in todo
    /\ todo' = IF sock[c] \in Sendable THEN todo \ {c} ELSE {}
    /\ queue' = IF sock[c] \in Sendable
                THEN [queue EXCEPT ![c] = Append(@, <<p, sent[p]>>)]
                ELSE queue
    /\ UNCHANGED <<sock, registered, mutex, sent, pingVars, history>>

\* One iteration: send() accepts the message or throws, and catch (...) drops
\* the exception.
SendOne(p, c) ==
    /\ mutex = p
    /\ c \in todo
    /\ todo' = todo \ {c}
    /\ queue' = IF sock[c] \in Sendable
                THEN [queue EXCEPT ![c] = Append(@, <<p, sent[p]>>)]
                ELSE queue
    /\ UNCHANGED <<sock, registered, mutex, sent, pingVars, history>>

\* The lock is left held when a connection closed under the loop (a mutant).
EndBroadcastLeak(p) == /\ mutex = p
                       /\ todo = {}
                       /\ \A c \in registered : sock[c] \in Sendable
                       /\ mutex' = NoOne
                       /\ UNCHANGED <<sock, registered, todo, sent, queue,
                                      pingVars, history>>

EndBroadcast(p) == /\ mutex = p
                   /\ todo = {}
                   /\ mutex' = NoOne
                   /\ UNCHANGED <<sock, registered, todo, sent, queue,
                                  pingVars, history>>

-----------------------------------------------------------------------------
(* The thread of ws_server.run() *)

Handshake(c) == /\ WsThreadIdle
                /\ sock[c] = "new"
                /\ sock' = [sock EXCEPT ![c] = "opening"]
                /\ UNCHANGED <<registered, lockVars, sent, queue, pingVars,
                               history>>

\* A handler that inserts without the lock_guard: a loop in progress may visit
\* the new element of the set or not (a mutant).
OnOpenUnlocked(c) == /\ sock[c] = "opening"
                     /\ sock' = [sock EXCEPT ![c] = "open"]
                     /\ registered' = registered \union {c}
                     /\ since' = [since EXCEPT ![c] = Len(log)]
                     /\ todo' \in {todo, IF mutex = NoOne THEN todo
                                         ELSE todo \union {c}}
                     /\ UNCHANGED <<mutex, sent, queue, pingVars, log>>

on_ws_open(c) == /\ sock[c] = "opening"
                 /\ mutex = NoOne
                 /\ sock' = [sock EXCEPT ![c] = "open"]
                 /\ registered' = registered \union {c}
                 /\ since' = [since EXCEPT ![c] = Len(log)]
                 /\ UNCHANGED <<lockVars, sent, queue, pingVars, log>>

\* The peer goes away, or the library gives it up: also while broadcast_ws is
\* in its loop, since the library does not take ws_connections_mtx.
Disconnect(c) == /\ WsThreadIdle
                 /\ sock[c] = "open"
                 /\ sock' = [sock EXCEPT ![c] = "closing"]
                 /\ UNCHANGED <<registered, lockVars, sent, queue, pingVars,
                                history>>

on_ws_close(c) == /\ sock[c] = "closing"
                  /\ mutex = NoOne
                  /\ sock' = [sock EXCEPT ![c] = "closed"]
                  /\ registered' = registered \ {c}
                  /\ UNCHANGED <<lockVars, sent, queue, pingVars, history>>

\* A client sends {"type": "ping"}.
ClientPing(c) == /\ sock[c] \in Sendable
                 /\ pinged[c] + ponged[c] < MaxPings
                 /\ pinged' = [pinged EXCEPT ![c] = @ + 1]
                 /\ UNCHANGED <<sock, registered, lockVars, sent, queue,
                                ponged, history>>

\* A pong is sent without ws_connections_mtx: also in the middle of a loop.
on_ws_message(c) == /\ WsThreadIdle
                    /\ sock[c] = "open"
                    /\ pinged[c] > 0
                    /\ pinged' = [pinged EXCEPT ![c] = @ - 1]
                    /\ ponged' = [ponged EXCEPT ![c] = @ + 1]
                    /\ UNCHANGED <<sock, registered, lockVars, sent, queue,
                                   history>>

-----------------------------------------------------------------------------
Broadcast(p) == \/ BeginBroadcast(p)
                \/ \E c \in Clients : SendOne(p, c)
                \/ EndBroadcast(p)

WsThread(c) == \/ Handshake(c)
               \/ on_ws_open(c)
               \/ Disconnect(c)
               \/ on_ws_close(c)
               \/ on_ws_message(c)

\* Every broadcast was made and every connection is over or quiet.
Finished == /\ mutex = NoOne
            /\ \A p \in Publishers : sent[p] = MaxSends
            /\ \A c \in Clients : sock[c] = "closed"
            /\ UNCHANGED vars

Next == \/ \E p \in Publishers : Broadcast(p)
        \/ \E c \in Clients : WsThread(c) \/ ClientPing(c)
        \/ Finished

(* A publisher inside broadcast_ws keeps running (the loop does not block), *)
(* and a handler waiting for a mutex that becomes free again and again gets *)
(* it.  Nothing is assumed of clients, and no publisher has to publish.     *)
Fairness ==
    /\ \A p \in Publishers : /\ WF_vars(\E c \in Clients : SendOne(p, c))
                             /\ WF_vars(EndBroadcast(p))
    /\ \A c \in Clients : /\ SF_vars(on_ws_open(c))
                          /\ SF_vars(on_ws_close(c))
                          /\ SF_vars(on_ws_message(c))

Spec == Init /\ [][Next]_vars /\ Fairness

-----------------------------------------------------------------------------
(* Properties *)

SockStates == {"new", "opening", "open", "closing", "closed"}

\* Every variable has its type; the mutex's holder is a publisher, and only
\* connections that registered are ever in the loop of broadcast_ws.
TypeOK == /\ sock \in [Clients -> SockStates]
          /\ registered \subseteq Clients
          /\ mutex \in Publishers \union {NoOne}
          /\ todo \subseteq Clients
          /\ sent \in [Publishers -> 0..MaxSends]
          /\ queue \in [Clients -> Seq(Messages)]
          /\ pinged \in [Clients -> Nat]
          /\ ponged \in [Clients -> Nat]
          /\ log \in Seq(Messages)
          /\ since \in [Clients -> Nat]

\* How many broadcasts a connection is still owed by the loop in progress.
Owed(c) == IF c \in todo THEN 1 ELSE 0

\* What was sent to a connection is the piece of the log that starts where it
\* registered: broadcast_ws and on_ws_open exclude one another, so no message
\* is skipped, repeated or reordered, whatever other connections do.
ContiguousView ==
    \A c \in Clients :
        /\ since[c] + Len(queue[c]) <= Len(log)
        /\ \A i \in 1..Len(queue[c]) : queue[c][i] = log[since[c] + i]

\* A connection that is open and registered has been sent everything that was
\* broadcast since it registered, except at most the message whose loop has
\* not reached it: one dead connection does not cost the others a message.
OpenMissesNothing ==
    \A c \in Clients :
        sock[c] = "open" => since[c] + Len(queue[c]) + Owed(c) = Len(log)

\* The hub implements the abstract event stream: a client has joined once
\* on_ws_open registered it, and leaves when its connection closes.
streamStatus == [c \in Clients |->
                    IF sock[c] = "open" THEN "in"
                    ELSE IF sock[c] \in {"new", "opening"} THEN "out"
                    ELSE "gone"]

Stream == INSTANCE EventStream WITH status <- streamStatus, view <- queue

StreamSpec == Stream!Spec

\* The ws thread always gets out of on_ws_open and on_ws_close, because the
\* lock is released whatever send() throws in broadcast_ws; and so a ping on a
\* connection that stays open is answered, however many clients open, close or
\* are being broadcast to meanwhile.
HandlersReturn ==
    \A c \in Clients :
        /\ sock[c] \in {"opening", "closing"} ~> sock[c] \in {"open", "closed"}
        /\ pinged[c] > 0 ~> pinged[c] = 0 \/ sock[c] \in {"closing", "closed"}

=============================================================================
