---------------------------- MODULE EventStream ----------------------------
(***************************************************************************)
(* What a WebSocket hub promises, whatever its locks look like: there is   *)
(* one global sequence of broadcast messages, and a client that joined     *)
(* receives a contiguous piece of it, starting where it joined.  Two       *)
(* clients therefore never disagree on the order of what both received,    *)
(* and a client never misses a message between two it received.            *)
(***************************************************************************)
EXTENDS Naturals, Sequences

CONSTANTS Clients,      \* the WebSocket connections
          Messages      \* what publishers may broadcast

VARIABLES log,          \* every message broadcast so far, in order
          status,       \* each client is "out", "in" or "gone"
          since,        \* the length of the log when the client joined
          view          \* what has been sent to the client

vars == <<log, status, since, view>>

Init == /\ log = <<>>
        /\ status = [c \in Clients |-> "out"]
        /\ since = [c \in Clients |-> 0]
        /\ view = [c \in Clients |-> <<>>]

Publish(m) == /\ log' = Append(log, m)
              /\ UNCHANGED <<status, since, view>>

Join(c) == /\ status[c] = "out"
           /\ status' = [status EXCEPT ![c] = "in"]
           /\ since' = [since EXCEPT ![c] = Len(log)]
           /\ UNCHANGED <<log, view>>

Deliver(c) == /\ status[c] = "in"
              /\ since[c] + Len(view[c]) < Len(log)
              /\ view' = [view EXCEPT ![c] =
                            Append(@, log[since[c] + Len(@) + 1])]
              /\ UNCHANGED <<log, status, since>>

Leave(c) == /\ status[c] = "in"
            /\ status' = [status EXCEPT ![c] = "gone"]
            /\ UNCHANGED <<log, since, view>>

Next == \/ \E m \in Messages : Publish(m)
        \/ \E c \in Clients : Join(c) \/ Deliver(c) \/ Leave(c)

Spec == Init /\ [][Next]_vars

=============================================================================
