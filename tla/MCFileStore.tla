---------------------------- MODULE MCFileStore ----------------------------
(* The file store for TLC: two names, a short and a long text, and one that *)
(* is not UTF-8; two seconds.                                               *)
EXTENDS FileStore, TLC

CONSTANTS c1, c2, f, g, x, y, z, hole, s1, s2

TwoClients == {c1, c2}
TwoNames == {f, g}
WithBinary == {<<x, x>>, <<y>>, <<z>>}
OneBinary == {z}
CalmOrWild == {[apart |-> TRUE, failing |-> FALSE],
               [apart |-> FALSE, failing |-> TRUE]}

TwoFiles == [n \in {f, g} |-> IF n = f THEN <<x, x>> ELSE <<y>>]

TwoSeconds == {s1, s2}
TwoScripts == {<<x, x>>, <<y>>}

Symmetry == Permutations(Clients) \union Permutations(Stamps)
=============================================================================
