----------------------------- MODULE FileScreen -----------------------------
(***************************************************************************)
(* The file screen of control/ui/UI.cpp with the modes around it: drawing  *)
(* lists the files, the next key lists them again and acts on the position *)
(* under the cursor, with the clipboard, on the server selected now.       *)
(*                                                                         *)
(* A request is one step, as FileMap promises of requests that keep apart. *)
(* Other clients change files between any two of them.  What is typed in   *)
(* the editor is FileEditor.                                               *)
(***************************************************************************)
EXTENDS Naturals, Sequences

CONSTANTS Servers,      \* indices of TaskManager::servers
          Order,        \* the names of files, as directories list them
          CopyName(_),  \* "copy_of_" and the name
          NewName,      \* "newfile.txt"
          Bodies,       \* the lines of a text
          NoLines,      \* those of an empty one
          Worlds,       \* surroundings to choose from, see world
          Rows,         \* how many names fit on the screen
          MaxCursor     \* bound: the position of the cursor

Names == {Order[i] : i \in DOMAIN Order}

\* Lines, and whether the last one is ended.
Text == [body : Bodies, ended : BOOLEAN]
Empty == [body |-> NoLines, ended |-> FALSE]
NoText == [body |-> "no file"]

ASSUME ScreenAssumption == /\ Servers \subseteq Nat
                           /\ NewName \in Names
                           /\ \A n \in Names : CopyName(n) # n
                           /\ NoLines \in Bodies
                           /\ Worlds \subseteq [others : BOOLEAN, failing : BOOLEAN,
                                             binary : SUBSET Bodies]
                           /\ Rows \in Nat \ {0}
                           /\ MaxCursor \in Nat

VARIABLES
  world,     \* never changes: whether other clients change files, whether
             \* requests and answers may be lost, and which bodies are not
             \* UTF-8, so that /files/read cannot send them
  files,     \* server -> name -> text or NoText
  mode,      \* MAIN, SERVER_MENU, SERVER_FILES, FILE_EDITOR
  server,    \* selectedServer
  cursor,    \* selectedFile
  view,      \* the names the last draw showed
  step,      \* what is done next: draw, a key, or a request a key asked for
  target,    \* the file a request is for, NewName when there is none
  clip,      \* clipboardFile and clipboardIsCut
  buffer,    \* what a paste has read, Empty when none is under way
  edit,      \* currentEditFile and fileEditorLines; forgotten when the editor
             \* is left, for opening it sets both anew
  home       \* history: what the editor is open for

ui == <<mode, server, cursor, view, step, target, clip, buffer, edit, home>>
vars == <<world, files, ui>>

NoClip == [name |-> "none", cut |-> FALSE, from |-> 0]
NoHome == [server |-> 0, name |-> "none"]
NewFileText == [name |-> NewName, body |-> NoLines]

Init == /\ world \in Worlds
        /\ files \in [Servers -> [Names -> Text \union {NoText}]]
        /\ mode = "main"
        /\ server \in Servers
        /\ cursor = 0
        /\ view = <<>>
        /\ step = "draw"
        /\ target = NewName
        /\ clip = NoClip
        /\ buffer = Empty
        /\ edit = NewFileText
        /\ home = NoHome

Entries(dir) == SelectSeq(Order, LAMBDA n : dir[n] # NoText)

Listing(s) == Entries(files[s])

\* listFiles: no answer is an empty list.
Listings == {Listing(server)} \union (IF world.failing THEN {<<>>} ELSE {})

\* readFile: everything that goes wrong reads as an empty text.
Readings(n) == LET t == files[server][n]
               IN  {IF t = NoText \/ t.body \in world.binary THEN Empty ELSE t}
                     \union (IF world.failing THEN {Empty} ELSE {})

\* writeFile, deleteFile: nobody looks at the answer.
Change(n, t) == \/ files' = [files EXCEPT ![server][n] = t]
                \/ world.failing /\ UNCHANGED files

-----------------------------------------------------------------------------
(* draw, and the modes around the file screen *)

At(s) == step = s /\ UNCHANGED world

\* The rows after the last one that fits are not drawn.
Drawn(l) == [i \in DOMAIN l \intersect 1..Rows |-> l[i]]

\* The names shown last time are shown again (a mutant).
DrawCached == /\ At("draw")
              /\ step' = "key"
              /\ view' \in IF mode # "files" THEN {<<>>}
                           ELSE IF view # <<>> THEN {view}
                           ELSE {Drawn(l) : l \in Listings}
              /\ UNCHANGED <<files, mode, server, cursor, target, clip, buffer,
                             edit, home>>

Draw == /\ At("draw")
        /\ step' = "key"
        /\ view' \in IF mode = "files" THEN {Drawn(l) : l \in Listings} ELSE {<<>>}
        /\ UNCHANGED <<files, mode, server, cursor, target, clip, buffer, edit,
                       home>>

Key(m) == At("key") /\ mode = m /\ step' = "draw"

\* getch has timed out.
NoKey == /\ At("key")
         /\ step' = "draw"
         /\ UNCHANGED <<files, mode, server, cursor, view, target, clip, buffer,
                        edit, home>>

To(m) == mode' = m /\ UNCHANGED <<files, view, target, clip, buffer, edit, home>>

\* The arrow keys are tested in every mode (a mutant).
MoveServerAnywhere == /\ At("key") /\ step' = "draw"
                      /\ server' \in Servers
                      /\ server' = server + 1 \/ server = server' + 1
                      /\ To(mode)
                      /\ UNCHANGED cursor

MoveServer == /\ Key("main")
              /\ server' \in Servers
              /\ server' = server + 1 \/ server = server' + 1
              /\ To("main")
              /\ UNCHANGED cursor

OpenMenu == Key("main") /\ To("menu") /\ UNCHANGED <<server, cursor>>
LeaveMenu == Key("menu") /\ To("main") /\ UNCHANGED <<server, cursor>>
OpenFiles == Key("menu") /\ To("files") /\ cursor' = 0 /\ UNCHANGED server
LeaveFiles == Key("files") /\ To("menu") /\ UNCHANGED <<server, cursor>>

-----------------------------------------------------------------------------
(* Keys of the file screen *)

FilesKey(next) == /\ At("key") /\ mode = "files"
                  /\ step' = next
                  /\ UNCHANGED <<files, server, view, buffer>>

\* if (selectedFile < files.size()): the name the cursor points at, if any.
Pointed(l) == {n \in Names : cursor + 1 \in DOMAIN l /\ n = l[cursor + 1]}

CursorUp == /\ FilesKey("draw")
            /\ cursor > 0
            /\ cursor' = cursor - 1
            /\ UNCHANGED <<mode, target, clip, edit, home>>

\* files.size() - 1 is unsigned: an empty list does not stop the cursor.
CursorDown == /\ FilesKey("draw")
              /\ cursor < MaxCursor
              /\ \E l \in Listings : l = <<>> \/ cursor < Len(l) - 1
              /\ cursor' = cursor + 1
              /\ UNCHANGED <<mode, target, clip, edit, home>>

NewFile == /\ FilesKey("draw")
           /\ mode' = "editor"
           /\ edit' = NewFileText
           /\ home' = [server |-> server, name |-> NewName]
           /\ UNCHANGED <<cursor, target, clip>>

\* E and D: a request for the file under the cursor.
EditFile == /\ FilesKey("load")
            /\ \E l \in Listings : target' \in Pointed(l)
            /\ UNCHANGED <<mode, cursor, clip, edit, home>>

DeleteFile == /\ FilesKey("delete")
              /\ \E l \in Listings : target' \in Pointed(l)
              /\ UNCHANGED <<mode, cursor, clip, edit, home>>

\* C and X.  The server is not kept: only properties read "from".
CopyOrCut == /\ FilesKey("draw")
             /\ \E l \in Listings, cut \in BOOLEAN : \E n \in Pointed(l) :
                   clip' = [name |-> n, cut |-> cut, from |-> server]
             /\ UNCHANGED <<mode, cursor, target, edit, home>>

Paste == /\ FilesKey("pasteRead")
         /\ clip # NoClip
         /\ CopyName(clip.name) \in Names
         /\ UNCHANGED <<mode, cursor, target, clip, edit, home>>

-----------------------------------------------------------------------------
(* The requests they make *)

Load == /\ At("load")
        /\ step' = "draw"
        /\ mode' = "editor"
        /\ \E t \in Readings(target) : edit' = [name |-> target, body |-> t.body]
        /\ home' = [server |-> server, name |-> target]
        /\ target' = NewName
        /\ UNCHANGED <<files, server, cursor, view, clip, buffer>>

Delete == /\ At("delete")
          /\ step' = "draw"
          /\ Change(target, NoText)
          /\ target' = NewName
          /\ UNCHANGED <<mode, server, cursor, view, clip, buffer, edit, home>>

\* The text is read into lines, as the editor does (a mutant).
PasteReadLines ==
    /\ At("pasteRead")
    /\ step' = "pasteWrite"
    /\ \E t \in Readings(clip.name) : buffer' = [t EXCEPT !.ended = TRUE]
    /\ UNCHANGED <<files, mode, server, cursor, view, target, clip, edit, home>>

PasteRead == /\ At("pasteRead")
             /\ step' = "pasteWrite"
             /\ buffer' \in Readings(clip.name)
             /\ UNCHANGED <<files, mode, server, cursor, view, target, clip,
                            edit, home>>

\* The copy has the name of the file (a mutant).
PasteWriteInPlace ==
    /\ At("pasteWrite")
    /\ step' = IF clip.cut THEN "pasteDelete" ELSE "draw"
    /\ Change(clip.name, buffer)
    /\ buffer' = Empty
    /\ UNCHANGED <<mode, server, cursor, view, target, clip, edit, home>>

PasteWrite == /\ At("pasteWrite")
              /\ step' = IF clip.cut THEN "pasteDelete" ELSE "draw"
              /\ Change(CopyName(clip.name), buffer)
              /\ buffer' = Empty
              /\ UNCHANGED <<mode, server, cursor, view, target, clip, edit,
                             home>>

PasteDelete == /\ At("pasteDelete")
               /\ step' = "draw"
               /\ Change(clip.name, NoText)
               /\ clip' = NoClip
               /\ UNCHANGED <<mode, server, cursor, view, target, buffer, edit,
                              home>>

-----------------------------------------------------------------------------
(* The editor *)

TypeText == /\ Key("editor")
            /\ \E b \in Bodies \ world.binary : edit' = [edit EXCEPT !.body = b]
            /\ UNCHANGED <<files, mode, server, cursor, view, target, clip,
                           buffer, home>>

\* Every line is saved with its end.
Save == /\ Key("editor")
        /\ mode' = "files"
        /\ Change(edit.name, [body |-> edit.body, ended |-> TRUE])
        /\ edit' = NewFileText
        /\ home' = NoHome
        /\ UNCHANGED <<server, cursor, view, target, clip, buffer>>

LeaveEditor == /\ Key("editor")
               /\ mode' = "files"
               /\ edit' = NewFileText
               /\ home' = NoHome
               /\ UNCHANGED <<files, server, cursor, view, target, clip, buffer>>

-----------------------------------------------------------------------------
SomebodyElse == /\ world.others
                /\ \E s \in Servers, n \in Names, t \in Text \union {NoText} :
                      files' = [files EXCEPT ![s][n] = t]
                /\ UNCHANGED <<world, ui>>

Next == \/ Draw \/ NoKey
        \/ MoveServer \/ OpenMenu \/ LeaveMenu \/ OpenFiles \/ LeaveFiles
        \/ CursorUp \/ CursorDown \/ NewFile \/ EditFile \/ DeleteFile
        \/ CopyOrCut \/ Paste
        \/ Load \/ Delete \/ PasteRead \/ PasteWrite \/ PasteDelete
        \/ TypeText \/ Save \/ LeaveEditor
        \/ SomebodyElse

Spec == Init /\ [][Next]_vars

-----------------------------------------------------------------------------
(* Properties *)

Calm == ~world.others /\ ~world.failing

\* The file under the highlighted line of the screen.
Highlighted == {view[i] : i \in {cursor + 1} \intersect DOMAIN view}

\* The listing a key fetches is the one the screen shows: with no one else about
\* and no request failing, whatever was pasted, cut, saved or deleted before,
\* what is deleted, opened, copied or cut is the file the user saw highlighted.
\* Below the last row of the screen nothing is highlighted, and the keys act all
\* the same.
ActsOnWhatIsShown ==
    [][step = "key" /\ Calm /\ cursor < Rows
          => /\ step' \in {"delete", "load"} => target' \in Highlighted
             /\ clip' \notin {clip, NoClip} => clip'.name \in Highlighted]_vars

\* A save goes to the server and the file the editor was opened for, whatever
\* happened since.
SaveGoesHome ==
    [][mode = "editor" /\ mode' = "files"
          => \A s \in Servers, n \in Names :
                files'[s][n] # files[s][n]
                   => s = home.server /\ n = home.name]_vars

\* On the server it was copied or cut on, with no one else about, a paste
\* writes the text the file has.
PasteIsTheCopied ==
    [][step = "pasteWrite" /\ Calm /\ server = clip.from
          => LET t == files[server][clip.name]
             IN  t # NoText /\ t.body \notin world.binary
                    => files'[server][CopyName(clip.name)] = t]_vars

\* With no one else about, the second half of a cut does not destroy the last
\* copy of a text that /files/read can send.
CutKeepsText ==
    [][step = "pasteDelete" /\ Calm
          => LET t == files[server][clip.name]
             IN  t # NoText /\ t.body \notin world.binary
                    => \E n \in Names \ {clip.name} : files'[server][n] = t]_vars

=============================================================================
