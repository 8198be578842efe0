----------------------------- MODULE FileEditor -----------------------------
(***************************************************************************)
(* The editor of control/ui/UI.cpp, mode FILE_EDITOR of handleInput: the   *)
(* lines and the cursor between loading a file and leaving.  The line the  *)
(* screen starts at is display only and left out; loading and saving are   *)
(* in FileScreen.                                                          *)
(***************************************************************************)
EXTENDS Naturals, Sequences, SequencesExt

CONSTANTS Chars,        \* what isprint accepts
          Newline,
          Files,        \* the lines of the files that can be opened
          MaxChars      \* bound: characters in the editor, line ends included

VARIABLES
  running,   \* FALSE once an exception has left handleInput
  lines,     \* fileEditorLines
  row,       \* editorCursorRow, from 0
  col        \* editorCursorCol, from 0

vars == <<running, lines, row, col>>

Init == /\ running = TRUE
        /\ lines \in Files
        /\ row = 0
        /\ col = 0

Line == lines[row + 1]

Flat(ls) == FoldLeft(LAMBDA t, l : t \o <<Newline>> \o l, Head(ls), Tail(ls))

Fits == Len(Flat(lines)) < MaxChars

\* std::string throws out_of_range for a position beyond the end, and nothing
\* catches it.
Throws == /\ running' = FALSE
          /\ UNCHANGED <<lines, row, col>>

Before(l, n) == SubSeq(l, 1, n)
After(l, n) == SubSeq(l, n + 1, Len(l))

\* The column is left as it is.
Up == /\ running
      /\ row > 0
      /\ row' = row - 1
      /\ UNCHANGED <<running, lines, col>>

Down == /\ running
        /\ row < Len(lines) - 1
        /\ row' = row + 1
        /\ UNCHANGED <<running, lines, col>>

\* What was after the cursor is copied, not moved (a mutant).
EnterCopies == /\ running /\ Fits
               /\ col <= Len(Line)
               /\ lines' = InsertAt(lines, row + 2, After(Line, col))
               /\ row' = row + 1
               /\ col' = 0
               /\ UNCHANGED running

Enter == /\ running /\ Fits
         /\ IF col > Len(Line)
            THEN Throws
            ELSE /\ lines' = InsertAt([lines EXCEPT ![row + 1] =
                                          Before(@, col)],
                                      row + 2, After(Line, col))
                 /\ row' = row + 1
                 /\ col' = 0
                 /\ UNCHANGED running

\* erase(col - 1, 1) takes nothing when col - 1 is the end of the line.
EraseInLine == /\ running
               /\ col > 0
               /\ IF col - 1 > Len(Line)
                  THEN Throws
                  ELSE /\ lines' = [lines EXCEPT ![row + 1] =
                                       Before(@, col - 1) \o After(@, col)]
                       /\ col' = col - 1
                       /\ UNCHANGED <<running, row>>

JoinLines == /\ running
             /\ col = 0
             /\ row > 0
             /\ lines' = RemoveAt([lines EXCEPT ![row] = @ \o Line], row + 1)
             /\ row' = row - 1
             /\ col' = Len(lines[row])
             /\ UNCHANGED running

Type(x) == /\ running /\ Fits
           /\ IF col > Len(Line)
              THEN Throws
              ELSE /\ lines' = [lines EXCEPT ![row + 1] = InsertAt(@, col + 1, x)]
                   /\ col' = col + 1
                   /\ UNCHANGED <<running, row>>

Gone == ~running /\ UNCHANGED vars

Next == \/ Up \/ Down \/ Enter \/ EraseInLine \/ JoinLines
        \/ \E x \in Chars : Type(x)
        \/ Gone

Spec == Init /\ [][Next]_vars

-----------------------------------------------------------------------------
(* Properties *)

\* A column beyond the end of its line counts as the end.
Offset == Len(Flat(SubSeq(lines, 1, row + 1))) - Len(Line)
             + (IF col > Len(Line) THEN Len(Line) ELSE col)

Buffer == INSTANCE TextBuffer WITH text <- Flat(lines), cursor <- Offset

\* The lines and the cursor are a text and a place in it: a key inserts or
\* erases at that place and changes nothing else, whatever line was split or
\* joined before.
TextBufferSpec == Buffer!Spec

=============================================================================
