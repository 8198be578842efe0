----------------------------- MODULE FileStore -----------------------------
(***************************************************************************)
(* The /files requests of server/main.cpp, and /system/execute-script,     *)
(* which keeps its script in a file named for the second.  Each request    *)
(* runs in a thread of its own with no lock: what keeps two apart is the   *)
(* file system, whose calls are the steps here.  A name leads to an inode; *)
(* an open file is an inode and a position, and outlives its name.         *)
(*                                                                         *)
(* /files/upload writes as /files/write does (the install task it may      *)
(* start is in TaskServer).  Storage holds regular files, and names have   *)
(* neither separators nor blanks.                                          *)
(***************************************************************************)
EXTENDS Naturals, Sequences

CONSTANTS Clients,      \* connections, one request at a time each
          Names,        \* names of files
          Contents,     \* texts of files: sequences of chunks, a chunk being
                        \* what one call transfers
          Binary,       \* chunks that are not UTF-8
          Hole,         \* what a file holds where nothing was written
          Initial,      \* name -> text of the files there are at first
          Stamps,       \* seconds, as names of script files
          Scripts,      \* the scripts among Contents
          Worlds,       \* surroundings to choose from, see world
          MaxCalls      \* bound: requests

Chunks == (UNION {{t[i] : i \in DOMAIN t} : t \in Contents}) \union {Hole}

ASSUME StoreAssumption ==
    /\ \A t \in Contents : t \in Seq(Chunks)
    /\ DOMAIN Initial \subseteq Names
    /\ Initial \in [DOMAIN Initial -> Contents]
    /\ Names \intersect Nat = {} /\ Stamps \intersect (Names \union Nat) = {}
    /\ Scripts \subseteq Contents
    /\ \A t \in Scripts : \A i \in DOMAIN t : t[i] \notin Binary
    /\ Worlds \subseteq [apart : BOOLEAN, failing : BOOLEAN]
    /\ MaxCalls \in Nat

VARIABLES
  up,        \* the server process is there
  world,     \* never changes: whether clients keep off names somebody is
             \* changing, and whether opening for writing, writing and popen
             \* may fail
  dir,       \* ./storage and the scripts in /tmp: name -> inode
  runnable,  \* the inodes that chmod made executable
  data,      \* inode -> text
  req,       \* the last request of each client
  reply,     \* its answer
  pc,        \* where its handler is
  fd,        \* the inode its handler has open
  pos,       \* and the position there
  got,       \* what a read or a list has collected
  todo,      \* the names a list has not come to
  num,       \* history: the number of the request, and of an inode it makes
  before,    \* history: what the name held when a write opened it
  calls      \* history: how many requests were made

thread == <<fd, pos, got, todo>>
rest == <<world, dir, runnable, data, req, reply, pc, thread, num, before, calls>>
vars == <<up, rest>>

Sendable(t) == \A i \in DOMAIN t : t[i] \notin Binary

\* What the store promises, and the requests and answers it speaks of.
FM == INSTANCE FileMap WITH files <- dir

Failed == [is |-> "failed"]

Uses(r) == CASE r.op = "rename" -> {r.name, r.to}
             [] r.op = "list" -> Names
             [] r.op = "none" -> {}
             [] OTHER -> {r.name}

Changes(r) == IF r.op \in {"write", "delete", "rename", "script"} THEN Uses(r) ELSE {}

Collide(r, s) == \/ Uses(r) \intersect Changes(s) # {}
                 \/ Uses(s) \intersect Changes(r) # {}

\* The inodes of the first files go by the names of those files.
Init == /\ up = TRUE
        /\ world \in Worlds
        /\ dir = [n \in DOMAIN Initial |-> n]
        /\ runnable = {}
        /\ data = Initial
        /\ req = [c \in Clients |-> FM!NoRequest]
        /\ reply = [c \in Clients |-> FM!Missing]
        /\ pc = [c \in Clients |-> "idle"]
        /\ fd = [c \in Clients |-> 0]
        /\ pos = [c \in Clients |-> 0]
        /\ got = [c \in Clients |-> <<>>]
        /\ todo = [c \in Clients |-> {}]
        /\ num = [c \in Clients |-> 0]
        /\ before = [c \in Clients |-> FM!Missing]
        /\ calls = 0

FirstStep(op) == CASE op \in {"write", "script"} -> "open"
                   [] op = "list" -> "opendir"
                   [] OTHER -> "look"

Call(c, r) ==
    /\ up
    /\ pc[c] = "idle"
    /\ calls < MaxCalls
    /\ world.apart => \A d \in Clients : pc[d] = "idle" \/ ~Collide(r, req[d])
    /\ calls' = calls + 1
    /\ num' = [num EXCEPT ![c] = calls + 1]
    /\ req' = [req EXCEPT ![c] = r]
    /\ reply' = [reply EXCEPT ![c] = FM!Pending]
    /\ pc' = [pc EXCEPT ![c] = FirstStep(r.op)]
    /\ UNCHANGED <<up, world, dir, runnable, data, thread, before>>

At(c, p) == up /\ pc[c] = p /\ UNCHANGED <<up, world, req, num, calls>>

Go(c, p) == pc' = [pc EXCEPT ![c] = p] /\ UNCHANGED reply

\* The file is closed and the handler goes on.
Release(c) == /\ fd' = [fd EXCEPT ![c] = 0]
              /\ pos' = [pos EXCEPT ![c] = 0]
              /\ before' = [before EXCEPT ![c] = FM!Missing]

\* The handler answers and forgets what it held.
Finish(c, a) == /\ pc' = [pc EXCEPT ![c] = "idle"]
                /\ reply' = [reply EXCEPT ![c] = a]
                /\ Release(c)
                /\ got' = [got EXCEPT ![c] = <<>>]
                /\ todo' = [todo EXCEPT ![c] = {}]

Found(n) == n \in DOMAIN dir
Under(n) == IF Found(n) THEN FM!Text(data[dir[n]]) ELSE FM!Missing

-----------------------------------------------------------------------------
(* /files/write, /files/upload *)

\* The file is not truncated (a mutant).
OpenToWriteKeeps(c) ==
    /\ At(c, "open")
    /\ Go(c, "put")
    /\ LET n == req[c].name
           i == IF Found(n) THEN dir[n] ELSE num[c]
       IN  /\ before' = [before EXCEPT ![c] = Under(n)]
           /\ fd' = [fd EXCEPT ![c] = i]
           /\ dir' = FM!Put(dir, n, i)
           /\ data' = IF Found(n) THEN data ELSE FM!Put(data, i, <<>>)
    /\ UNCHANGED <<runnable, pos, got, todo>>

\* std::ofstream file(filepath): empties the file, or makes one.
OpenToWrite(c) ==
    /\ At(c, "open")
    /\ Go(c, "put")
    /\ LET n == req[c].name
           i == IF Found(n) THEN dir[n] ELSE num[c]
       IN  /\ before' = [before EXCEPT ![c] = Under(n)]
           /\ fd' = [fd EXCEPT ![c] = i]
           /\ dir' = FM!Put(dir, n, i)
           /\ data' = FM!Put(data, i, <<>>)
    /\ UNCHANGED <<runnable, pos, got, todo>>

\* Bytes go to the position of this open file, also when another request has
\* emptied it since: what lies before them is then a hole.
Written(t, i, x) == [j \in 1..(IF i > Len(t) THEN i ELSE Len(t)) |->
                        IF j = i THEN x ELSE IF j <= Len(t) THEN t[j] ELSE Hole]

PutChunk(c) ==
    /\ At(c, "put")
    /\ Go(c, "put")
    /\ pos[c] < Len(req[c].text)
    /\ pos' = [pos EXCEPT ![c] = @ + 1]
    /\ data' = [data EXCEPT ![fd[c]] =
                   Written(@, pos[c] + 1, req[c].text[pos[c] + 1])]
    /\ UNCHANGED <<dir, runnable, fd, got, todo, before>>

\* What follows the writing of the file.
AfterWrite(c) == IF req[c].op = "script"
                 THEN Go(c, "chmod") /\ Release(c) /\ UNCHANGED <<got, todo>>
                 ELSE Finish(c, FM!Ok)

Close(c) == /\ At(c, "put")
            /\ pos[c] = Len(req[c].text)
            /\ AfterWrite(c)
            /\ UNCHANGED <<dir, runnable, data>>

\* The stream's state is not tested, neither after opening nor after writing.
WriteFails(c) == /\ world.failing
                 /\ At(c, "open") \/ At(c, "put")
                 /\ AfterWrite(c)
                 /\ UNCHANGED <<dir, runnable, data>>

-----------------------------------------------------------------------------
(* /files/read, /files/download; fs::exists of the others *)

Look(c) ==
    /\ At(c, "look")
    /\ IF Found(req[c].name)
       THEN /\ Go(c, IF req[c].op \in {"read", "download"} THEN "openread"
                                                           ELSE "act")
            /\ UNCHANGED <<thread, before>>
       ELSE Finish(c, FM!Missing)
    /\ UNCHANGED <<dir, runnable, data>>

\* A file that is gone by now reads as an empty one.
OpenToRead(c) ==
    /\ At(c, "openread")
    /\ IF Found(req[c].name)
       THEN /\ Go(c, "get")
            /\ fd' = [fd EXCEPT ![c] = dir[req[c].name]]
            /\ UNCHANGED <<pos, got, todo, before>>
       ELSE Finish(c, FM!Text(<<>>))
    /\ UNCHANGED <<dir, runnable, data>>

GetChunk(c) ==
    /\ At(c, "get")
    /\ Go(c, "get")
    /\ pos[c] < Len(data[fd[c]])
    /\ pos' = [pos EXCEPT ![c] = @ + 1]
    /\ got' = [got EXCEPT ![c] = Append(@, data[fd[c]][pos[c] + 1])]
    /\ UNCHANGED <<dir, runnable, data, fd, todo, before>>

GotAll(c) == /\ At(c, "get")
             /\ pos[c] >= Len(data[fd[c]])
             /\ IF req[c].op = "script"
                THEN Go(c, "unlink") /\ Release(c) /\ UNCHANGED <<got, todo>>
                ELSE Finish(c, FM!Told(req[c], got[c]))
             /\ UNCHANGED <<dir, runnable, data>>

-----------------------------------------------------------------------------
(* /files/delete, /files/rename *)

\* fs::remove does not mind a file that is gone.
Remove(c) == /\ At(c, "act")
             /\ req[c].op = "delete"
             /\ dir' = FM!Without(dir, req[c].name)
             /\ Finish(c, FM!Ok)
             /\ UNCHANGED <<runnable, data>>

\* The old name is not given up, as with create_hard_link (a mutant).
MoveKeepsOld(c) == /\ At(c, "act")
                   /\ req[c].op = "rename"
                   /\ IF Found(req[c].name)
                      THEN /\ dir' = FM!Put(dir, req[c].to, dir[req[c].name])
                           /\ Finish(c, FM!Ok)
                      ELSE /\ Finish(c, Failed)
                           /\ UNCHANGED dir
                   /\ UNCHANGED <<runnable, data>>

\* fs::rename does: it throws.
Move(c) == /\ At(c, "act")
           /\ req[c].op = "rename"
           /\ IF Found(req[c].name)
              THEN /\ dir' = FM!Moved(dir, req[c].name, req[c].to)
                   /\ Finish(c, FM!Ok)
              ELSE /\ Finish(c, Failed)
                   /\ UNCHANGED dir
           /\ UNCHANGED <<runnable, data>>

-----------------------------------------------------------------------------
(* /files/list *)

OpenDir(c) == /\ At(c, "opendir")
              /\ Go(c, "list")
              /\ todo' = [todo EXCEPT ![c] = DOMAIN dir \intersect Names]
              /\ got' = [got EXCEPT ![c] = {}]
              /\ UNCHANGED <<dir, runnable, data, fd, pos, before>>

\* file_size throws for a file that is gone, nothing answers (a mutant).
ListEntryEscapes(c) ==
    /\ At(c, "list")
    /\ \E n \in todo[c] :
          \/ /\ Found(n)
             /\ Go(c, "list")
             /\ todo' = [todo EXCEPT ![c] = @ \ {n}]
             /\ got' = [got EXCEPT ![c] = @ \union {n}]
             /\ UNCHANGED <<fd, pos, before>>
          \/ /\ ~Found(n)
             /\ Finish(c, FM!Pending)
    /\ UNCHANGED <<dir, runnable, data>>

\* file_size throws for a file that is gone: the names so far are the answer.
ListEntry(c) ==
    /\ At(c, "list")
    /\ \E n \in todo[c] :
          \/ /\ Found(n)
             /\ Go(c, "list")
             /\ todo' = [todo EXCEPT ![c] = @ \ {n}]
             /\ got' = [got EXCEPT ![c] = @ \union {n}]
             /\ UNCHANGED <<fd, pos, before>>
          \/ /\ ~Found(n)
             /\ Finish(c, FM!Listing(got[c]))
    /\ UNCHANGED <<dir, runnable, data>>

EndList(c) == /\ At(c, "list")
              /\ todo[c] = {}
              /\ Finish(c, FM!Listing(got[c]))
              /\ UNCHANGED <<dir, runnable, data>>

-----------------------------------------------------------------------------
(* /system/execute-script, once its script is written *)

Chmod(c) == /\ At(c, "chmod")
            /\ Go(c, "exec")
            /\ runnable' = runnable \union {dir[n] : n \in {req[c].name} \intersect
                                                         DOMAIN dir}
            /\ UNCHANGED <<dir, data, thread, before>>

\* A file that is open for writing is busy: it cannot be executed.
Busy(i) == \E d \in Clients : pc[d] = "put" /\ fd[d] = i

Executable(n) == Found(n) /\ dir[n] \in runnable /\ ~Busy(dir[n])

\* popen: the shell takes the file that has the name by now and reads it as it
\* runs it, or says why it cannot.
Exec(c) ==
    /\ At(c, "exec")
    /\ IF Executable(req[c].name)
       THEN Go(c, "get") /\ fd' = [fd EXCEPT ![c] = dir[req[c].name]]
       ELSE Go(c, "unlink") /\ UNCHANGED fd
    /\ UNCHANGED <<dir, runnable, data, pos, got, todo, before>>

\* popen may return NULL, which fgets does not survive: the server ends here,
\* with every request it was about.
PopenFails(c) == /\ up
                 /\ world.failing
                 /\ pc[c] = "exec"
                 /\ up' = FALSE
                 /\ UNCHANGED rest

\* The name is made again, in another second (a mutant).
UnlinkByClock(c) == /\ At(c, "unlink")
                    /\ \E s \in Stamps : dir' = FM!Without(dir, s)
                    /\ Finish(c, FM!Ran(got[c]))
                    /\ UNCHANGED <<runnable, data>>

Unlink(c) == /\ At(c, "unlink")
             /\ dir' = FM!Without(dir, req[c].name)
             /\ Finish(c, FM!Ran(got[c]))
             /\ UNCHANGED <<runnable, data>>

-----------------------------------------------------------------------------
Handler(c) == \/ OpenToWrite(c) \/ PutChunk(c) \/ Close(c) \/ WriteFails(c)
              \/ Look(c) \/ OpenToRead(c) \/ GetChunk(c) \/ GotAll(c)
              \/ Remove(c) \/ Move(c)
              \/ OpenDir(c) \/ ListEntry(c) \/ EndList(c)
              \/ Chmod(c) \/ Exec(c) \/ Unlink(c)

AllIdle == \A c \in Clients : pc[c] = "idle"

Done == ((calls = MaxCalls /\ AllIdle) \/ ~up) /\ UNCHANGED vars

Next == \/ \E c \in Clients : \/ Handler(c)
                               \/ PopenFails(c)
                               \/ \E r \in FM!Request : Call(c, r)
        \/ Done

Spec == Init /\ [][Next]_vars

-----------------------------------------------------------------------------
(* Properties *)

Texts == Seq(Chunks)

\* Every variable has its type: an open file is an inode, and no handler reads
\* or writes further than a text can reach.
TypeOK ==
    /\ up \in BOOLEAN
    /\ world \in Worlds
    /\ dir \in [DOMAIN dir -> DOMAIN data] /\ DOMAIN dir \subseteq Names \union Stamps
    /\ runnable \subseteq Nat
    /\ DOMAIN data \subseteq Names \union Nat
    /\ \A i \in DOMAIN data : data[i] \in Texts
    /\ req \in [Clients -> FM!Request \union {FM!NoRequest}]
    /\ pc \in [Clients -> {"idle", "open", "put", "look", "openread", "get",
                           "act", "opendir", "list", "chmod", "exec", "unlink"}]
    /\ fd \in [Clients -> DOMAIN data \union {0}]
    /\ pos \in [Clients -> Nat]
    /\ \A c \in Clients :
          /\ pc[c] \in {"put", "get"} => fd[c] \in DOMAIN data
          /\ pc[c] = "put" => pos[c] <= Len(req[c].text)
          /\ pc[c] = "get" => \E t \in Contents : pos[c] <= Len(t)
          /\ todo[c] \subseteq Names
    /\ num \in [Clients -> 0..calls]
    /\ calls \in 0..MaxCalls

\* Two names never lead to one file at one moment, however renames, deletions
\* and writes overlap.  (Over time they may: a writer that opened f writes on
\* under g once f is renamed to g.)
NoAlias == \A n, m \in DOMAIN dir : dir[n] = dir[m] => n = m

\* No handler leaves its client without an answer, whatever others do to the
\* file in the meantime.  Two exceptions: the connection of a text that is not
\* UTF-8 is dropped, and when popen returns NULL the server ends under every
\* request that is not over.
Answered == \A c \in Clients : pc[c] = "idle" => reply[c] # FM!Pending

\* No script stays behind in /tmp while the server is up: also of requests in
\* the same second, which share a file and run and remove each other's, the
\* last one cleans up.
NoLitter == up => \A s \in DOMAIN dir \intersect Stamps :
               \E c \in Clients : req[c].op = "script" /\ req[c].name = s
                                 /\ pc[c] # "idle"

(* Requests that keep apart are atomic: a write has not happened until its    *)
(* file is closed.                                                            *)
WritersOf(n) == {c \in Clients : pc[c] = "put" /\ req[c].name = n}

Seen(n) == IF WritersOf(n) = {} THEN Under(n)
           ELSE before[CHOOSE c \in WritersOf(n) : TRUE]

Files == [n \in {k \in Names : Seen(k) # FM!Missing} |-> Seen(n).text]

\* Elsewhere the store promises nothing: there the map stands still.
Map(real, still) == IF world.apart /\ ~world.failing THEN real ELSE still

Promise == INSTANCE FileMap
           WITH files <- Map(Files, Initial),
                req <- Map(req, [c \in Clients |-> FM!NoRequest]),
                reply <- Map(reply, [c \in Clients |-> FM!Missing])

\* Requests that do not fail, none of which changes a name that another one
\* uses, behave as if each took place at one moment: FileStore implements
\* FileMap.
FileMapSpec == Promise!Spec

=============================================================================
