--------------------------- MODULE MCTaskExecutor ---------------------------
(* Tasks::Manager with three calls of Execute for TLC. *)
EXTENDS TaskExecutor

CONSTANTS r1, r2, r3

MCRequests == {r1, r2, r3}
=============================================================================
