---------------------------- MODULE MCFileScreen ----------------------------
(* The file screen for TLC: the name a new file gets and its copy's; copies *)
(* of copies are beyond the bound.                                          *)
EXTENDS FileScreen, TLC

CONSTANTS new, copy, none, b1, b2

TwoNames == <<copy, new>>
Copies(n) == IF n = new THEN copy ELSE none
TwoBodies == {b1, b2}
TwoServers == {0, 1}

\* Alone, with and without a text that is not UTF-8, and not alone.
Quiet == {[others |-> FALSE, failing |-> FALSE, binary |-> b] : b \in {{}, {b2}}}
QuietOrWild == Quiet \union {[others |-> TRUE, failing |-> TRUE, binary |-> {}]}
=============================================================================
