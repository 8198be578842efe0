---------------------------- MODULE MCDiscovery ----------------------------
(* A host nearby in one of six worlds, and one in the scanned subnet behind *)
(* a router whose ports are all free.                                       *)
EXTENDS Discovery

CONSTANTS s1, s2

MCServers == {s1, s2}
MCScanned == {s2}
MCNearby == {s1}

Host(b, h, n) == [build |-> b, held |-> h, named |-> n]

Hosts == {Host("monolith", {}, FALSE), Host("monolith", {2032}, TRUE),
          Host("monolith", {2031, 2032, 2033}, TRUE),
          Host("modular", {2030}, TRUE), Host("modular", {2040, 2041}, TRUE),
          Host("modular", {2041}, TRUE)}

MCWorlds == {[s \in MCServers |-> IF s = s1 THEN h
                                  ELSE Host("monolith", {}, TRUE)] : h \in Hosts}
=============================================================================
