------------------------------ MODULE MCWsHub ------------------------------
(* The hub with 2 publishers and 2 clients for TLC. *)
EXTENDS WsHub

CONSTANTS p1, p2, c1, c2

MCPublishers == {p1, p2}
MCClients == {c1, c2}
=============================================================================
