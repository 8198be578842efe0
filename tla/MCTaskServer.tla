---------------------------- MODULE MCTaskServer ----------------------------
(* The task service with a few connections for TLC. *)
EXTENDS TaskServer, TLC

CONSTANTS h1, h2

TwoHandlers == {h1, h2}

\* Everything a client can ask, and smaller choices.
AllRequests == Request
ExecAndKill == {r \in Request : r.op \in {"exec", "kill"} /\ r.cmd = "run"}
OnlyExec == {r \in Request : r.op = "exec"}

\* Connections are interchangeable; for safety runs only.
Symmetry == Permutations(Handlers)
=============================================================================
