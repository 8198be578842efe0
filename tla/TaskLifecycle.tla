--------------------------- MODULE TaskLifecycle ---------------------------
(***************************************************************************)
(* What a task service promises its clients: a command that is accepted    *)
(* gets an identifier nobody had before and keeps it, the task under that  *)
(* identifier is reported running until it stops, stops once, and its end  *)
(* is announced once, after it has stopped.                                *)
(***************************************************************************)
EXTENDS Naturals

CONSTANTS Requests      \* the commands clients submit, each of them once

VARIABLES owner,        \* task identifier -> the request it was given to
          life          \* task identifier -> "running", "stopped", "announced"

vars == <<owner, life>>

Ids == DOMAIN owner

Init == /\ owner = [i \in {} |-> "none"]
        /\ life = [i \in {} |-> "running"]

\* A request that has no task is given one, under a fresh identifier: the one
\* the step adds.
Begin(r) ==
    /\ \A j \in Ids : owner[j] # r
    /\ \E i \in Ids' \ Ids :
          /\ owner' = [j \in Ids \union {i} |-> IF j = i THEN r ELSE owner[j]]
          /\ life' = [j \in Ids \union {i} |-> IF j = i THEN "running"
                                                        ELSE life[j]]

Stop(i) == /\ life[i] = "running"
           /\ life' = [life EXCEPT ![i] = "stopped"]
           /\ UNCHANGED owner

Announce(i) == /\ life[i] = "stopped"
               /\ life' = [life EXCEPT ![i] = "announced"]
               /\ UNCHANGED owner

Next == \/ \E r \in Requests : Begin(r)
        \/ \E i \in Ids : Stop(i) \/ Announce(i)

Spec == Init /\ [][Next]_vars

=============================================================================
