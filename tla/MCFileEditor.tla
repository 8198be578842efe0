---------------------------- MODULE MCFileEditor ----------------------------
(* The editor for TLC: two characters, an empty file and one of two lines. *)
EXTENDS FileEditor

CONSTANTS a, b

TwoChars == {a, b}
SomeFiles == {<<<<>>>>, <<<<a, b>>, <<b>>>>}
=============================================================================
