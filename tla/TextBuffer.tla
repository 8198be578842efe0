----------------------------- MODULE TextBuffer -----------------------------
(***************************************************************************)
(* What a text editor promises: a text and a cursor in it.  A key inserts  *)
(* at the cursor, erases what is before it, or moves it; nothing else in   *)
(* the text ever changes.                                                  *)
(***************************************************************************)
EXTENDS Naturals, Sequences

CONSTANTS Chars,        \* what can be typed
          Newline       \* what ENTER inserts

VARIABLES text, cursor

vars == <<text, cursor>>

Left(n) == SubSeq(text, 1, n)
Right(n) == SubSeq(text, n + 1, Len(text))

Init == text \in Seq(Chars \union {Newline}) /\ cursor = 0

Insert(x) == /\ text' = Left(cursor) \o <<x>> \o Right(cursor)
             /\ cursor' = cursor + 1

Erase == /\ cursor > 0
         /\ text' = Left(cursor - 1) \o Right(cursor)
         /\ cursor' = cursor - 1

Move == /\ cursor' \in 0..Len(text)
        /\ UNCHANGED text

Next == Erase \/ Move \/ \E x \in Chars \union {Newline} : Insert(x)

Spec == Init /\ [][Next]_vars

=============================================================================
