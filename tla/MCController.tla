---------------------------- MODULE MCController ----------------------------
(* The controller with three servers for TLC, two of which share a name. *)
EXTENDS Controller

ThreeServers == {1, 2, 3}
SharedName == [s \in {1, 2, 3} |-> IF s = 1 THEN "own" ELSE "shared"]
=============================================================================
