-------------------------- MODULE FileStore_proof --------------------------
(***************************************************************************)
(* Proofs about the /files requests and /system/execute-script of          *)
(* server/main.cpp, for any number of connections, names, texts and        *)
(* requests, and whatever opens and writes fail.                           *)
(***************************************************************************)
EXTENDS FileStore, TLAPS

-----------------------------------------------------------------------------
(* Requests *)

\* A step that leaves everything as it is, or ends the server.
Still == UNCHANGED rest /\ (up' = up \/ up' = FALSE)

LEMMA StillOrNot ==
    ASSUME [Next]_vars
    PROVE  \/ Still
           \/ \E c \in Clients : Handler(c)
           \/ \E c \in Clients : \E r \in FM!Request : Call(c, r)
  BY DEF Next, Done, PopenFails, vars, Still

Writes == {"write", "script"}
Reads == {"read", "download"}

\* What each kind of request carries.
LEMMA RequestFields ==
    ASSUME NEW r \in FM!Request
    PROVE  /\ r.op \in Writes \union Reads \union {"delete", "rename", "list"}
           /\ r.op \in Writes => r.text \in Contents
           /\ r.op = "script" => r.name \in Stamps
           /\ r.op \in {"write", "read", "download", "delete", "rename"}
                 => r.name \in Names
           /\ r.op = "rename" => r.to \in Names
  BY StoreAssumption DEF FM!Request, Writes, Reads

LEMMA WrittenText ==
    ASSUME NEW t \in Texts, NEW i \in Nat \ {0}, NEW x \in Chunks
    PROVE  /\ Written(t, i, x) \in Texts
           /\ Len(Written(t, i, x)) = IF i > Len(t) THEN i ELSE Len(t)
<1>1. Len(t) \in Nat /\ \A j \in 1..Len(t) : t[j] \in Chunks
  BY DEF Texts
<1>2. Hole \in Chunks
  BY DEF Chunks
<1> DEFINE n == IF i > Len(t) THEN i ELSE Len(t)
<1>3. n \in Nat
  BY <1>1
<1>4. \A j \in 1..n : (IF j = i THEN x ELSE IF j <= Len(t) THEN t[j] ELSE Hole)
                         \in Chunks
  BY <1>1, <1>2, <1>3
<1> QED BY <1>3, <1>4 DEF Written, Texts

-----------------------------------------------------------------------------
(* Type correctness *)

\* A handler is where its request takes it, and its position is 0 unless it is
\* writing or reading.
InPlace ==
    \A c \in Clients :
        /\ pc[c] # "idle" => req[c] \in FM!Request
        /\ pc[c] \in {"open", "put"} => req[c].op \in Writes
        /\ pc[c] = "look" => req[c].op \in Reads \union {"delete", "rename"}
        /\ pc[c] = "openread" => req[c].op \in Reads
        /\ pc[c] = "act" => req[c].op \in {"delete", "rename"}
        /\ pc[c] = "get" => req[c].op \in Reads \union {"script"}
        /\ pc[c] \in {"chmod", "exec", "unlink"} => req[c].op = "script"
        /\ pc[c] \in {"opendir", "list"} => req[c].op = "list"
        /\ pc[c] \notin {"put", "get"} => pos[c] = 0

\* No file is longer than some text that can be sent.
NoneTooLong == \A i \in DOMAIN data : \E t \in Contents : Len(data[i]) <= Len(t)

\* The names of scripts lead to inodes that requests have made.
ScriptsAreNew == \A s \in DOMAIN dir \intersect Stamps : dir[s] \in Nat

Typed == TypeOK /\ InPlace /\ NoneTooLong /\ ScriptsAreNew

LEMMA TypedInit == Init => Typed
<1> SUFFICES ASSUME Init PROVE Typed
  OBVIOUS
<1>1. \A i \in DOMAIN data : data[i] \in Contents /\ data[i] \in Texts
  BY StoreAssumption DEF Init, Texts
<1>2. TypeOK
  BY <1>1, StoreAssumption DEF Init, TypeOK
<1>3. InPlace
  BY DEF Init, InPlace
<1>4. NoneTooLong
  <2>1. \A i \in DOMAIN data : Len(data[i]) \in Nat
    BY <1>1 DEF Texts
  <2> QED BY <1>1, <2>1 DEF NoneTooLong
<1>5. ScriptsAreNew
  BY StoreAssumption DEF Init, ScriptsAreNew
<1> QED BY <1>2, <1>3, <1>4, <1>5 DEF Typed

LEMMA TypedCall ==
    ASSUME Typed, NEW c \in Clients, NEW r \in FM!Request, Call(c, r)
    PROVE  Typed'
<1>1. r.op \in Writes \union Reads \union {"delete", "rename", "list"}
  BY RequestFields
<1>2. calls + 1 \in 0..MaxCalls
  BY StoreAssumption DEF Call, Typed, TypeOK
<1>3. TypeOK'
  BY <1>1, <1>2 DEF Call, FirstStep, thread, Typed, TypeOK, Writes, Reads
<1>4. InPlace'
  BY <1>1 DEF Call, FirstStep, thread, Typed, TypeOK, InPlace, Writes, Reads
<1> QED BY <1>3, <1>4 DEF Call, Typed, NoneTooLong, ScriptsAreNew

\* A handler that answers lets go of everything.
LEMMA TypedFinish ==
    ASSUME Typed, NEW c \in Clients, NEW a, Finish(c, a),
           UNCHANGED <<up, world, runnable, data, req, num, calls>>,
           dir' \in [DOMAIN dir' -> DOMAIN data],
           DOMAIN dir' \subseteq Names \union Stamps,
           ScriptsAreNew'
    PROVE  Typed'
<1>1. TypeOK'
  BY DEF Finish, Release, Typed, TypeOK
<1>2. InPlace'
  BY DEF Finish, Release, Typed, TypeOK, InPlace
<1> QED BY <1>1, <1>2 DEF Typed, NoneTooLong

\* The same, when the directory stays as it is.
LEMMA TypedAnswer ==
    ASSUME Typed, NEW c \in Clients, NEW a, Finish(c, a),
           UNCHANGED <<up, world, dir, runnable, data, req, num, calls>>
    PROVE  Typed'
<1>1. dir' \in [DOMAIN dir' -> DOMAIN data] /\ DOMAIN dir' \subseteq Names \union Stamps
  BY DEF Typed, TypeOK
<1>2. ScriptsAreNew'
  BY DEF Typed, ScriptsAreNew
<1> QED BY <1>1, <1>2, TypedFinish

\* A script's handler goes on when its file is written, the others answer.
LEMMA TypedAfterWrite ==
    ASSUME Typed, NEW c \in Clients, pc[c] \in {"open", "put"}, AfterWrite(c),
           UNCHANGED <<up, world, dir, runnable, data, req, num, calls>>
    PROVE  Typed'
<1>1. CASE req[c].op = "script"
  <2>1. /\ pc' = [pc EXCEPT ![c] = "chmod"]
        /\ fd' = [fd EXCEPT ![c] = 0]
        /\ pos' = [pos EXCEPT ![c] = 0]
        /\ UNCHANGED todo
    BY <1>1 DEF AfterWrite, Go, Release
  <2>2. TypeOK'
    BY <2>1 DEF Typed, TypeOK
  <2>3. InPlace'
    BY <1>1, <2>1 DEF Typed, TypeOK, InPlace
  <2> QED BY <2>2, <2>3 DEF Typed, NoneTooLong, ScriptsAreNew
<1>2. CASE req[c].op # "script"
  BY <1>2, TypedAnswer DEF AfterWrite
<1> QED BY <1>1, <1>2

LEMMA TypedOpenToWrite ==
    ASSUME Typed, NEW c \in Clients, OpenToWrite(c)
    PROVE  Typed'
<1> DEFINE n == req[c].name
           i == IF Found(n) THEN dir[n] ELSE num[c]
<1>1. /\ n \in Names \union Stamps
      /\ req[c].op = "script" => n \in Stamps
      /\ req[c].text \in Contents
  BY RequestFields DEF OpenToWrite, At, Typed, InPlace, Writes
<1>2. i \in Names \union Nat /\ (n \in Stamps => i \in Nat)
  BY <1>1 DEF Found, Typed, TypeOK, ScriptsAreNew
<1>3. /\ dir' = FM!Put(dir, n, i)
      /\ data' = FM!Put(data, i, <<>>)
      /\ fd' = [fd EXCEPT ![c] = i]
      /\ pc' = [pc EXCEPT ![c] = "put"]
      /\ UNCHANGED <<up, world, req, num, calls, runnable, pos, got, todo>>
  BY DEF OpenToWrite, At, Go
<1>4. pos[c] = 0 /\ pc[c] = "open"
  BY DEF OpenToWrite, At, Typed, InPlace
<1>5. DOMAIN dir' = DOMAIN dir \union {n} /\ DOMAIN data' = DOMAIN data \union {i}
  BY <1>3 DEF FM!Put
<1>6. \A j \in DOMAIN data' : data'[j] = IF j = i THEN <<>> ELSE data[j]
  BY <1>3, <1>5 DEF FM!Put
<1>7. \A k \in DOMAIN dir' : dir'[k] = IF k = n THEN i ELSE dir[k]
  BY <1>3, <1>5 DEF FM!Put
<1> HIDE DEF n, i
<1>8. TypeOK'
  <2>1. dir' \in [DOMAIN dir' -> DOMAIN data']
    BY <1>3, <1>5, <1>7 DEF Typed, TypeOK, FM!Put
  <2>2. DOMAIN dir' \subseteq Names \union Stamps
    BY <1>1, <1>5 DEF Typed, TypeOK
  <2>3. DOMAIN data' \subseteq Names \union Nat
    BY <1>2, <1>5 DEF Typed, TypeOK
  <2>4. \A j \in DOMAIN data' : data'[j] \in Texts
    <3>1. <<>> \in Texts
      BY DEF Texts
    <3> QED BY <1>5, <1>6, <3>1 DEF Typed, TypeOK
  <2>5. fd' \in [Clients -> DOMAIN data' \union {0}]
    BY <1>3, <1>5 DEF Typed, TypeOK
  <2>6. 0 <= Len(req[c].text)
    BY <1>1, StoreAssumption
  <2>7. \A d \in Clients :
          /\ pc'[d] \in {"put", "get"} => fd'[d] \in DOMAIN data'
          /\ pc'[d] = "put" => pos'[d] <= Len(req'[d].text)
          /\ pc'[d] = "get" => \E t \in Contents : pos'[d] <= Len(t)
          /\ todo'[d] \subseteq Names
    BY <1>3, <1>4, <1>5, <2>6 DEF Typed, TypeOK
  <2> QED BY <1>3, <2>1, <2>2, <2>3, <2>4, <2>5, <2>7 DEF Typed, TypeOK
<1>9. InPlace'
  BY <1>3, <1>4 DEF Typed, TypeOK, InPlace
<1>10. NoneTooLong'
  <2>1. Len(req[c].text) \in Nat
    BY <1>1, StoreAssumption
  <2> QED BY <1>1, <1>5, <1>6, <2>1 DEF Typed, NoneTooLong
<1>11. ScriptsAreNew'
  BY <1>2, <1>5, <1>7 DEF Typed, ScriptsAreNew
<1> QED BY <1>8, <1>9, <1>10, <1>11 DEF Typed

LEMMA TypedPutChunk ==
    ASSUME Typed, NEW c \in Clients, PutChunk(c)
    PROVE  Typed'
<1> DEFINE i == fd[c]
           t == data[i]
           s == req[c].text
           p == pos[c] + 1
<1>1. s \in Contents /\ s \in Texts
  BY RequestFields, StoreAssumption DEF PutChunk, At, Typed, InPlace, Writes, Texts
<1>2. i \in DOMAIN data /\ t \in Texts
  BY DEF PutChunk, At, Typed, TypeOK
<1>3. p \in 1..Len(s) /\ Len(s) \in Nat
  BY <1>1 DEF PutChunk, Typed, TypeOK, Texts
<1>4. s[p] \in Chunks
  BY <1>1, <1>3 DEF Texts
<1>5. p \in Nat \ {0}
  BY <1>3
<1>6. /\ Written(t, p, s[p]) \in Texts
      /\ Len(Written(t, p, s[p])) = IF p > Len(t) THEN p ELSE Len(t)
  <2> HIDE DEF t, s, p
  <2> QED BY <1>2, <1>4, <1>5, WrittenText
<1>7. /\ data' = [data EXCEPT ![i] = Written(t, p, s[p])]
      /\ pos' = [pos EXCEPT ![c] = p]
      /\ pc' = [pc EXCEPT ![c] = "put"] /\ pc[c] = "put"
      /\ UNCHANGED <<up, world, dir, runnable, fd, todo, req, num, calls>>
  BY DEF PutChunk, At, Go
<1>8. TypeOK'
  <2>1. DOMAIN data' = DOMAIN data
    BY <1>7
  <2>2. \A j \in DOMAIN data' : data'[j] \in Texts
    BY <1>2, <1>6, <1>7 DEF Typed, TypeOK
  <2>3. pos' \in [Clients -> Nat]
    BY <1>3, <1>7 DEF Typed, TypeOK
  <2>4. \A d \in Clients :
          /\ pc'[d] \in {"put", "get"} => fd'[d] \in DOMAIN data'
          /\ pc'[d] = "put" => pos'[d] <= Len(req'[d].text)
          /\ pc'[d] = "get" => \E u \in Contents : pos'[d] <= Len(u)
          /\ todo'[d] \subseteq Names
    BY <1>3, <1>7, <2>1 DEF Typed, TypeOK
  <2> QED BY <1>7, <2>1, <2>2, <2>3, <2>4 DEF Typed, TypeOK
<1>9. InPlace'
  BY <1>7 DEF Typed, TypeOK, InPlace
<1>10. NoneTooLong'
  <2>1. \E u \in Contents : Len(t) <= Len(u)
    BY <1>2 DEF Typed, NoneTooLong
  <2>2. \E u \in Contents : Len(Written(t, p, s[p])) <= Len(u)
    BY <1>1, <1>3, <1>6, <2>1
  <2> QED BY <1>2, <1>7, <2>2 DEF Typed, NoneTooLong
<1>11. ScriptsAreNew'
  BY <1>7 DEF Typed, ScriptsAreNew
<1> QED BY <1>8, <1>9, <1>10, <1>11 DEF Typed

LEMMA TypedRead ==
    ASSUME Typed, NEW c \in Clients,
           Look(c) \/ OpenToRead(c) \/ GetChunk(c) \/ GotAll(c)
    PROVE  Typed'
<1>1. CASE Look(c)
  <2>1. CASE Found(req[c].name)
    <3>1. TypeOK'
      BY <1>1, <2>1 DEF Look, At, Go, thread, Typed, TypeOK
    <3>2. InPlace'
      BY <1>1, <2>1 DEF Look, At, Go, thread, Typed, TypeOK, InPlace, Reads
    <3> QED BY <1>1, <3>1, <3>2 DEF Look, At, Typed, NoneTooLong, ScriptsAreNew
  <2>2. CASE ~Found(req[c].name)
    BY <1>1, <2>2, TypedAnswer DEF Look, At
  <2> QED BY <2>1, <2>2
<1>2. CASE OpenToRead(c)
  <2>1. CASE Found(req[c].name)
    <3>1. dir[req[c].name] \in DOMAIN data /\ pos[c] = 0
      BY <1>2, <2>1 DEF OpenToRead, At, Found, Typed, TypeOK, InPlace
    <3>2. /\ pc' = [pc EXCEPT ![c] = "get"] /\ pc[c] = "openread"
          /\ fd' = [fd EXCEPT ![c] = dir[req[c].name]]
          /\ UNCHANGED <<up, world, dir, runnable, data, req, pos, todo, num, calls>>
      BY <1>2, <2>1 DEF OpenToRead, At, Go
    <3>3. \E t \in Contents : 0 <= Len(t)
      <4>1. \E t \in Contents : Len(data[dir[req[c].name]]) <= Len(t)
        BY <3>1 DEF Typed, NoneTooLong
      <4> QED BY <4>1, StoreAssumption
    <3>4. TypeOK'
      BY <3>1, <3>2, <3>3 DEF Typed, TypeOK
    <3>5. InPlace'
      BY <3>2 DEF Typed, TypeOK, InPlace
    <3> QED BY <3>2, <3>4, <3>5 DEF Typed, NoneTooLong, ScriptsAreNew
  <2>2. CASE ~Found(req[c].name)
    BY <1>2, <2>2, TypedAnswer DEF OpenToRead, At
  <2> QED BY <2>1, <2>2
<1>3. CASE GetChunk(c)
  <2>1. /\ pc' = [pc EXCEPT ![c] = "get"] /\ pc[c] = "get"
        /\ pos' = [pos EXCEPT ![c] = pos[c] + 1]
        /\ pos[c] < Len(data[fd[c]])
        /\ UNCHANGED <<up, world, dir, runnable, data, req, fd, todo, num, calls>>
    BY <1>3 DEF GetChunk, At, Go
  <2>2. \E t \in Contents : pos[c] + 1 <= Len(t)
    <3>1. fd[c] \in DOMAIN data /\ pos[c] \in Nat /\ data[fd[c]] \in Texts
      BY <2>1 DEF Typed, TypeOK
    <3>2. PICK t \in Contents : Len(data[fd[c]]) <= Len(t)
      BY <3>1 DEF Typed, NoneTooLong
    <3>3. Len(t) \in Nat /\ Len(data[fd[c]]) \in Nat
      BY <3>1, StoreAssumption DEF Texts
    <3> QED BY <2>1, <3>1, <3>2, <3>3
  <2>3. TypeOK'
    BY <2>1, <2>2 DEF Typed, TypeOK
  <2>4. InPlace'
    BY <2>1 DEF Typed, TypeOK, InPlace
  <2> QED BY <2>1, <2>3, <2>4 DEF Typed, NoneTooLong, ScriptsAreNew
<1>4. CASE GotAll(c)
  <2>1. CASE req[c].op = "script"
    <3>1. /\ pc' = [pc EXCEPT ![c] = "unlink"] /\ pc[c] = "get"
          /\ fd' = [fd EXCEPT ![c] = 0]
          /\ pos' = [pos EXCEPT ![c] = 0]
          /\ UNCHANGED <<up, world, dir, runnable, data, req, todo, num, calls>>
      BY <1>4, <2>1 DEF GotAll, At, Go, Release
    <3>2. TypeOK'
      BY <3>1 DEF Typed, TypeOK
    <3>3. InPlace'
      BY <2>1, <3>1 DEF Typed, TypeOK, InPlace
    <3> QED BY <3>1, <3>2, <3>3 DEF Typed, NoneTooLong, ScriptsAreNew
  <2>2. CASE req[c].op # "script"
    BY <1>4, <2>2, TypedAnswer DEF GotAll, At
  <2> QED BY <2>1, <2>2
<1> QED BY <1>1, <1>2, <1>3, <1>4

\* A directory without a name, or with a name moved, is a directory.
LEMMA DirWithout ==
    ASSUME Typed, NEW n, dir' = FM!Without(dir, n)
    PROVE  /\ dir' \in [DOMAIN dir' -> DOMAIN data]
           /\ DOMAIN dir' \subseteq Names \union Stamps
           /\ ScriptsAreNew'
  BY DEF Typed, TypeOK, ScriptsAreNew, FM!Without

LEMMA DirMoved ==
    ASSUME Typed, NEW n \in DOMAIN dir, NEW k \in Names,
           dir' = FM!Moved(dir, n, k)
    PROVE  /\ dir' \in [DOMAIN dir' -> DOMAIN data]
           /\ DOMAIN dir' \subseteq Names \union Stamps
           /\ ScriptsAreNew'
<1>1. CASE n = k
  BY <1>1 DEF FM!Moved, Typed, TypeOK, ScriptsAreNew
<1>2. CASE n # k
  <2>1. /\ DOMAIN dir' = (DOMAIN dir \ {n}) \union {k}
        /\ \A m \in DOMAIN dir' : dir'[m] = IF m = k THEN dir[n] ELSE dir[m]
        /\ dir' = [m \in DOMAIN dir' |-> dir'[m]]
    BY <1>2 DEF FM!Moved, FM!Put, FM!Without
  <2>2. k \notin Stamps
    BY StoreAssumption
  <2> QED BY <2>1, <2>2 DEF Typed, TypeOK, ScriptsAreNew
<1> QED BY <1>1, <1>2

LEMMA TypedChange ==
    ASSUME Typed, NEW c \in Clients, Remove(c) \/ Move(c) \/ Unlink(c)
    PROVE  Typed'
<1>1. CASE Remove(c)
  BY <1>1, DirWithout, TypedFinish DEF Remove, At
<1>2. CASE Move(c)
  <2>1. CASE Found(req[c].name)
    <3>1. req[c].to \in Names
      BY <1>2, RequestFields DEF Move, At, Typed, InPlace
    <3> QED BY <1>2, <2>1, <3>1, DirMoved, TypedFinish DEF Move, At, Found
  <2>2. CASE ~Found(req[c].name)
    BY <1>2, <2>2, TypedAnswer DEF Move, At
  <2> QED BY <2>1, <2>2
<1>3. CASE Unlink(c)
  BY <1>3, DirWithout, TypedFinish DEF Unlink, At
<1> QED BY <1>1, <1>2, <1>3

LEMMA TypedList ==
    ASSUME Typed, NEW c \in Clients, OpenDir(c) \/ ListEntry(c) \/ EndList(c)
    PROVE  Typed'
<1>1. CASE OpenDir(c)
  <2>1. TypeOK'
    BY <1>1 DEF OpenDir, At, Go, Typed, TypeOK
  <2>2. InPlace'
    BY <1>1 DEF OpenDir, At, Go, Typed, TypeOK, InPlace
  <2> QED BY <1>1, <2>1, <2>2 DEF OpenDir, At, Typed, NoneTooLong, ScriptsAreNew
<1>2. CASE ListEntry(c)
  <2>1. PICK n \in todo[c] :
          \/ Go(c, "list") /\ todo' = [todo EXCEPT ![c] = @ \ {n}]
                /\ UNCHANGED <<fd, pos>>
          \/ Finish(c, FM!Listing(got[c]))
    BY <1>2 DEF ListEntry
  <2>2. CASE Finish(c, FM!Listing(got[c]))
    BY <1>2, <2>2, TypedAnswer DEF ListEntry, At
  <2>3. CASE /\ Go(c, "list") /\ todo' = [todo EXCEPT ![c] = @ \ {n}]
             /\ UNCHANGED <<fd, pos>>
    <3>1. TypeOK'
      BY <1>2, <2>3 DEF ListEntry, At, Go, Typed, TypeOK
    <3>2. InPlace'
      BY <1>2, <2>3 DEF ListEntry, At, Go, Typed, TypeOK, InPlace
    <3> QED BY <1>2, <3>1, <3>2 DEF ListEntry, At, Typed, NoneTooLong, ScriptsAreNew
  <2> QED BY <2>1, <2>2, <2>3
<1>3. CASE EndList(c)
  BY <1>3, TypedAnswer DEF EndList, At
<1> QED BY <1>1, <1>2, <1>3

LEMMA TypedScript ==
    ASSUME Typed, NEW c \in Clients, Chmod(c) \/ Exec(c)
    PROVE  Typed'
<1>1. CASE Chmod(c)
  <2>1. req[c].name \in Stamps
    BY <1>1, RequestFields DEF Chmod, At, Typed, InPlace
  <2>2. runnable' \subseteq Nat
    BY <1>1, <2>1 DEF Chmod, Typed, TypeOK, ScriptsAreNew
  <2>3. TypeOK'
    BY <1>1, <2>2 DEF Chmod, At, Go, thread, Typed, TypeOK
  <2>4. InPlace'
    BY <1>1 DEF Chmod, At, Go, thread, Typed, TypeOK, InPlace
  <2> QED BY <1>1, <2>3, <2>4 DEF Chmod, At, Typed, NoneTooLong, ScriptsAreNew
<1>2. CASE Exec(c)
  <2>1. /\ pos[c] = 0 /\ req[c].op = "script" /\ pc[c] = "exec"
        /\ UNCHANGED <<up, world, dir, runnable, data, req, pos, todo, num, calls>>
    BY <1>2 DEF Exec, At, Typed, InPlace
  <2>2. CASE Executable(req[c].name)
    <3>1. /\ pc' = [pc EXCEPT ![c] = "get"]
          /\ fd' = [fd EXCEPT ![c] = dir[req[c].name]]
          /\ dir[req[c].name] \in DOMAIN data
      BY <1>2, <2>2 DEF Exec, Go, Executable, Found, Typed, TypeOK
    <3>2. \E t \in Contents : 0 <= Len(t)
      <4>1. \E t \in Contents : Len(data[dir[req[c].name]]) <= Len(t)
        BY <3>1 DEF Typed, NoneTooLong
      <4> QED BY <4>1, StoreAssumption
    <3>3. TypeOK'
      BY <2>1, <3>1, <3>2 DEF Typed, TypeOK
    <3>4. InPlace'
      BY <2>1, <3>1 DEF Typed, TypeOK, InPlace
    <3> QED BY <2>1, <3>3, <3>4 DEF Typed, NoneTooLong, ScriptsAreNew
  <2>3. CASE ~Executable(req[c].name)
    <3>1. pc' = [pc EXCEPT ![c] = "unlink"] /\ UNCHANGED fd
      BY <1>2, <2>3 DEF Exec, Go
    <3>2. TypeOK'
      BY <2>1, <3>1 DEF Typed, TypeOK
    <3>3. InPlace'
      BY <2>1, <3>1 DEF Typed, TypeOK, InPlace
    <3> QED BY <2>1, <3>2, <3>3 DEF Typed, NoneTooLong, ScriptsAreNew
  <2> QED BY <2>2, <2>3
<1> QED BY <1>1, <1>2

LEMMA TypedHandler ==
    ASSUME Typed, NEW c \in Clients, Handler(c)
    PROVE  Typed'
<1>1. CASE Close(c) \/ WriteFails(c)
  BY <1>1, TypedAfterWrite DEF Close, WriteFails, At
<1> QED BY <1>1, TypedOpenToWrite, TypedPutChunk, TypedRead, TypedChange,
           TypedList, TypedScript DEF Handler

LEMMA TypedStep == Typed /\ [Next]_vars => Typed'
<1> SUFFICES ASSUME Typed, [Next]_vars PROVE Typed'
  OBVIOUS
<1>1. CASE Still
  BY <1>1 DEF Still, rest, thread, Typed, TypeOK, InPlace, NoneTooLong, ScriptsAreNew
<1> QED BY StillOrNot, <1>1, TypedHandler, TypedCall

\* Every variable of the store always has its type: no handler uses a file that
\* is not open, or reads or writes beyond what a text can reach.
THEOREM TypeCorrect == Spec => []TypeOK
<1>1. Init => Typed
  BY TypedInit
<1>2. Typed /\ [Next]_vars => Typed'
  BY TypedStep
<1> QED BY <1>1, <1>2, PTL DEF Spec, Typed

-----------------------------------------------------------------------------
(* No two names for one file *)

\* A number belongs to one request, and no inode has the number of a request
\* that is still to make its file.
NumbersAreFresh ==
    /\ \A c, d \in Clients : num[c] = num[d] /\ num[c] # 0 => c = d
    /\ \A c \in Clients : pc[c] = "open" => num[c] # 0 /\ num[c] \notin DOMAIN data
    /\ \A i \in DOMAIN data : i \in Nat => i <= calls

AliasInv == Typed /\ NumbersAreFresh /\ NoAlias

LEMMA AliasInit == Init => AliasInv
<1> SUFFICES ASSUME Init PROVE AliasInv
  OBVIOUS
<1>1. Typed
  BY TypedInit
<1>2. NumbersAreFresh
  BY StoreAssumption DEF Init, NumbersAreFresh
<1>3. NoAlias
  BY DEF Init, NoAlias
<1> QED BY <1>1, <1>2, <1>3 DEF AliasInv

LEMMA AliasCall ==
    ASSUME AliasInv, NEW c \in Clients, NEW r \in FM!Request, Call(c, r)
    PROVE  NumbersAreFresh' /\ NoAlias'
<1>1. /\ num' = [num EXCEPT ![c] = calls + 1]
      /\ calls' = calls + 1
      /\ UNCHANGED <<dir, data>>
      /\ \A d \in Clients \ {c} : pc'[d] = pc[d]
  BY DEF Call, AliasInv, Typed, TypeOK
<1>2. calls \in Nat /\ \A d \in Clients : num[d] \in 0..calls
  BY StoreAssumption DEF AliasInv, Typed, TypeOK
<1>3. calls + 1 \notin DOMAIN data
  BY <1>2 DEF AliasInv, NumbersAreFresh
<1>4. \A d \in Clients : num'[d] = IF d = c THEN calls + 1 ELSE num[d]
  BY <1>1 DEF AliasInv, Typed, TypeOK
<1>5. NumbersAreFresh'
  BY <1>1, <1>2, <1>3, <1>4 DEF AliasInv, NumbersAreFresh
<1> QED BY <1>1, <1>5 DEF AliasInv, NoAlias

\* A file that is opened for writing keeps the inode its name has, or gets one
\* that nobody has.
LEMMA AliasOpen ==
    ASSUME AliasInv, NEW c \in Clients, OpenToWrite(c)
    PROVE  NumbersAreFresh' /\ NoAlias'
<1> DEFINE n == req[c].name
           i == IF Found(n) THEN dir[n] ELSE num[c]
<1>1. /\ DOMAIN dir' = DOMAIN dir \union {n}
      /\ \A k \in DOMAIN dir' : dir'[k] = IF k = n THEN i ELSE dir[k]
      /\ DOMAIN data' = DOMAIN data \union {i}
      /\ UNCHANGED <<num, calls>>
  BY DEF OpenToWrite, At, FM!Put
<1>2. /\ pc[c] = "open" /\ pc'[c] # "open"
      /\ \A d \in Clients \ {c} : pc'[d] = pc[d]
  BY DEF OpenToWrite, At, Go, AliasInv, Typed, TypeOK
<1>3. num[c] # 0 /\ num[c] \notin DOMAIN data /\ num[c] <= calls
  BY <1>2, StoreAssumption DEF AliasInv, NumbersAreFresh, Typed, TypeOK
<1>4. \A k \in DOMAIN dir : dir[k] \in DOMAIN data
  BY DEF AliasInv, Typed, TypeOK
<1>5. NumbersAreFresh'
  <2>1. CASE Found(n)
    <3>1. DOMAIN data' = DOMAIN data
      BY <1>1, <1>4, <2>1 DEF Found
    <3> QED BY <1>1, <1>2, <3>1 DEF AliasInv, NumbersAreFresh
  <2>2. CASE ~Found(n)
    BY <1>1, <1>2, <1>3, <2>2 DEF AliasInv, NumbersAreFresh
  <2> QED BY <2>1, <2>2
<1>6. NoAlias'
  <2>1. CASE Found(n)
    BY <1>1, <2>1 DEF Found, AliasInv, NoAlias
  <2>2. CASE ~Found(n)
    BY <1>1, <1>3, <1>4, <2>2 DEF AliasInv, NoAlias
  <2> QED BY <2>1, <2>2
<1> QED BY <1>5, <1>6

\* A name that goes takes nothing with it; one that moves takes its inode away
\* from the name it had.
LEMMA AliasChange ==
    ASSUME AliasInv, NEW c \in Clients, Remove(c) \/ Move(c) \/ Unlink(c)
    PROVE  NumbersAreFresh' /\ NoAlias'
<1>1. /\ UNCHANGED <<num, calls, data>>
      /\ pc' = [pc EXCEPT ![c] = "idle"]
  BY DEF Remove, Move, Unlink, Finish, At
<1>2. NumbersAreFresh'
  BY <1>1 DEF AliasInv, NumbersAreFresh, Typed, TypeOK
<1>3. CASE Remove(c) \/ Unlink(c)
  BY <1>2, <1>3 DEF Remove, Unlink, FM!Without, AliasInv, NoAlias
<1>4. CASE Move(c)
  <2> DEFINE n == req[c].name
             k == req[c].to
  <2>1. CASE Found(n) /\ n # k
    <3>1. /\ DOMAIN dir' = (DOMAIN dir \ {n}) \union {k}
          /\ \A m \in DOMAIN dir' : dir'[m] = IF m = k THEN dir[n] ELSE dir[m]
      BY <1>4, <2>1 DEF Move, FM!Moved, FM!Put, FM!Without
    <3> QED BY <1>2, <2>1, <3>1 DEF Found, AliasInv, NoAlias
  <2>2. CASE ~(Found(n) /\ n # k)
    <3>1. dir' = dir
      BY <1>4, <2>2 DEF Move, FM!Moved
    <3> QED BY <1>2, <3>1 DEF AliasInv, NoAlias
  <2> QED BY <2>1, <2>2
<1> QED BY <1>3, <1>4

\* The other steps neither touch the directory nor make an inode.
Elsewhere(c) == \/ PutChunk(c) \/ Close(c) \/ WriteFails(c)
                \/ Look(c) \/ OpenToRead(c) \/ GetChunk(c) \/ GotAll(c)
                \/ OpenDir(c) \/ ListEntry(c) \/ EndList(c)
                \/ Chmod(c) \/ Exec(c)

LEMMA ElsewhereKeeps ==
    ASSUME Typed, NEW c \in Clients, Elsewhere(c)
    PROVE  /\ UNCHANGED <<dir, num, calls, req>>
           /\ DOMAIN data' = DOMAIN data
           /\ \E p : p # "open" /\ pc' = [pc EXCEPT ![c] = p]
<1>1. CASE PutChunk(c)
  BY <1>1 DEF PutChunk, At, Go
<1>2. CASE Close(c) \/ WriteFails(c)
  BY <1>2 DEF Close, WriteFails, AfterWrite, Finish, At, Go
<1>3. CASE Look(c)
  BY <1>3 DEF Look, Finish, At, Go
<1>4. CASE OpenToRead(c)
  BY <1>4 DEF OpenToRead, Finish, At, Go
<1>5. CASE GetChunk(c) \/ GotAll(c)
  BY <1>5 DEF GetChunk, GotAll, Finish, At, Go
<1>6. CASE OpenDir(c) \/ ListEntry(c) \/ EndList(c)
  BY <1>6 DEF OpenDir, ListEntry, EndList, Finish, At, Go
<1>7. CASE Chmod(c)
  BY <1>7 DEF Chmod, At, Go
<1>8. CASE Exec(c)
  BY <1>8 DEF Exec, At, Go
<1> QED BY <1>1, <1>2, <1>3, <1>4, <1>5, <1>6, <1>7, <1>8 DEF Elsewhere

LEMMA AliasElsewhere ==
    ASSUME AliasInv, NEW c \in Clients, Elsewhere(c)
    PROVE  NumbersAreFresh' /\ NoAlias'
<1>1. Typed
  BY DEF AliasInv
<1>2. /\ UNCHANGED <<dir, num, calls>>
      /\ DOMAIN data' = DOMAIN data
      /\ \A d \in Clients : pc'[d] = "open" => pc[d] = "open"
  BY <1>1, ElsewhereKeeps DEF Typed, TypeOK
<1> QED BY <1>2 DEF AliasInv, NumbersAreFresh, NoAlias

LEMMA AliasStep == AliasInv /\ [Next]_vars => AliasInv'
<1> SUFFICES ASSUME AliasInv, [Next]_vars PROVE NumbersAreFresh' /\ NoAlias'
  BY TypedStep DEF AliasInv
<1>1. CASE Still
  BY <1>1 DEF Still, rest, AliasInv, NumbersAreFresh, NoAlias
<1>2. ASSUME NEW c \in Clients, Handler(c) PROVE NumbersAreFresh' /\ NoAlias'
  BY <1>2, AliasOpen, AliasChange, AliasElsewhere DEF Handler, Elsewhere
<1> QED BY StillOrNot, <1>1, <1>2, AliasCall

\* Whatever renames, writes, deletions and scripts overlap, two names never lead
\* to one file.
THEOREM NamesShareNoFile == Spec => []NoAlias
<1>1. Init => AliasInv
  BY AliasInit
<1>2. AliasInv /\ [Next]_vars => AliasInv'
  BY AliasStep
<1> QED BY <1>1, <1>2, PTL DEF Spec, AliasInv

-----------------------------------------------------------------------------
(* No script stays behind *)

\* The handler of a script ends with Unlink and in no other way.
LEMMA ScriptsEndInUnlink ==
    ASSUME Typed, NEW c \in Clients, Handler(c)
    PROVE  /\ UNCHANGED req
           /\ \A d \in Clients \ {c} : pc'[d] = pc[d]
           /\ req[c].op = "script" => pc'[c] # "idle" \/ Unlink(c)
<1> USE DEF Typed, TypeOK
<1>1. CASE OpenToWrite(c) \/ PutChunk(c) \/ GetChunk(c) \/ OpenDir(c)
  BY <1>1 DEF OpenToWrite, PutChunk, GetChunk, OpenDir, At, Go
<1>2. CASE Close(c) \/ WriteFails(c)
  BY <1>2 DEF Close, WriteFails, AfterWrite, Finish, At, Go
<1>3. CASE Look(c) \/ OpenToRead(c)
  <2>1. req[c].op # "script"
    BY <1>3 DEF Look, OpenToRead, At, InPlace, Reads
  <2> QED BY <1>3, <2>1 DEF Look, OpenToRead, Finish, At, Go
<1>4. CASE Remove(c) \/ Move(c)
  BY <1>4 DEF Remove, Move, Finish, At
<1>5. CASE ListEntry(c) \/ EndList(c)
  <2>1. req[c].op # "script"
    BY <1>5 DEF ListEntry, EndList, At, InPlace
  <2> QED BY <1>5, <2>1 DEF ListEntry, EndList, Finish, At, Go
<1>6. CASE GotAll(c)
  BY <1>6 DEF GotAll, Finish, At, Go
<1>7. CASE Chmod(c) \/ Exec(c)
  BY <1>7 DEF Chmod, Exec, At, Go
<1>8. CASE Unlink(c)
  BY <1>8 DEF Unlink, Finish, At
<1> QED BY <1>1, <1>2, <1>3, <1>4, <1>5, <1>6, <1>7, <1>8 DEF Handler

\* Only a script puts a name into /tmp, and is there to take it away.
LEMMA ScriptsMakeTheirNames ==
    ASSUME Typed, NEW c \in Clients, Handler(c)
    PROVE  \A s \in DOMAIN dir' \intersect Stamps :
              \/ s \in DOMAIN dir
              \/ s = req[c].name /\ req[c].op = "script" /\ pc'[c] = "put"
<1>1. CASE OpenToWrite(c)
  <2>1. /\ DOMAIN dir' = DOMAIN dir \union {req[c].name}
        /\ pc'[c] = "put"
        /\ req[c] \in FM!Request /\ req[c].op \in Writes
    BY <1>1 DEF OpenToWrite, At, Go, FM!Put, Typed, TypeOK, InPlace
  <2>2. req[c].op = "write" => req[c].name \notin Stamps
    BY <2>1, RequestFields, StoreAssumption
  <2> QED BY <2>1, <2>2 DEF Writes
<1>2. CASE Remove(c) \/ Unlink(c)
  BY <1>2 DEF Remove, Unlink, FM!Without
<1>3. CASE Move(c)
  <2>1. req[c].to \in Names
    BY <1>3, RequestFields DEF Move, At, Typed, InPlace
  <2>2. DOMAIN dir' \subseteq DOMAIN dir \union {req[c].to}
    BY <1>3 DEF Move, FM!Moved, FM!Put, FM!Without
  <2> QED BY <2>1, <2>2, StoreAssumption
<1>4. CASE Elsewhere(c)
  BY <1>4, ElsewhereKeeps
<1> QED BY <1>1, <1>2, <1>3, <1>4 DEF Handler, Elsewhere

\* A server that has ended does not come back.
LEMMA UpBefore ==
    ASSUME Typed, [Next]_vars
    PROVE  up' => up
<1>1. ASSUME NEW c \in Clients, NEW r \in FM!Request, Call(c, r) PROVE up
  BY <1>1 DEF Call
<1>2. ASSUME NEW c \in Clients, Handler(c) PROVE up
  BY <1>2 DEF Handler, OpenToWrite, PutChunk, Close, WriteFails, Look, OpenToRead,
              GetChunk, GotAll, Remove, Move, OpenDir, ListEntry, EndList, Chmod, Exec,
              Unlink, At
<1> QED BY <1>1, <1>2, StillOrNot DEF Still

LEMMA LitterStep == Typed /\ NoLitter /\ [Next]_vars => NoLitter'
<1> SUFFICES ASSUME Typed, NoLitter, [Next]_vars, up,
                    NEW s \in DOMAIN dir' \intersect Stamps
             PROVE  \E c \in Clients : req'[c].op = "script" /\ req'[c].name = s
                                         /\ pc'[c] # "idle"
  BY UpBefore DEF NoLitter
<1>1. CASE Still
  BY <1>1 DEF Still, rest, NoLitter
<1>2. ASSUME NEW c \in Clients, NEW r \in FM!Request, Call(c, r)
      PROVE  \E d \in Clients : req'[d].op = "script" /\ req'[d].name = s
                                  /\ pc'[d] # "idle"
  <2>1. PICK d \in Clients : req[d].op = "script" /\ req[d].name = s
                               /\ pc[d] # "idle"
    BY <1>2 DEF Call, NoLitter
  <2>2. d # c /\ req'[d] = req[d] /\ pc'[d] = pc[d]
    BY <1>2, <2>1 DEF Call, Typed, TypeOK
  <2> QED BY <2>1, <2>2
<1>3. ASSUME NEW c \in Clients, Handler(c)
      PROVE  \E d \in Clients : req'[d].op = "script" /\ req'[d].name = s
                                  /\ pc'[d] # "idle"
  <2>1. CASE s = req[c].name /\ req[c].op = "script" /\ pc'[c] = "put"
    BY <1>3, <2>1, ScriptsEndInUnlink
  <2>2. CASE s \in DOMAIN dir
    <3>1. PICK d \in Clients : req[d].op = "script" /\ req[d].name = s
                                 /\ pc[d] # "idle"
      BY <2>2 DEF NoLitter
    <3>2. ~(d = c /\ Unlink(c))
      BY <3>1 DEF Unlink, FM!Without
    <3> QED BY <1>3, <3>1, <3>2, ScriptsEndInUnlink
  <2> QED BY <1>3, <2>1, <2>2, ScriptsMakeTheirNames
<1> QED BY StillOrNot, <1>1, <1>2, <1>3

\* Whichever scripts share a second and whatever fails, a script in /tmp belongs
\* to a request that is not over.
THEOREM ScriptsLeaveNoLitter == Spec => []NoLitter
<1>1. Init => Typed /\ NoLitter
  <2>1. Init => NoLitter
    BY StoreAssumption DEF Init, NoLitter
  <2> QED BY <2>1, TypedInit
<1>2. Typed /\ NoLitter /\ [Next]_vars => (Typed /\ NoLitter)'
  BY TypedStep, LitterStep
<1> QED BY <1>1, <1>2, PTL DEF Spec

-----------------------------------------------------------------------------
(* Answers *)

\* Every client has an answer, or is told that it is pending.
AnswerInv == Typed /\ reply = [c \in Clients |-> reply[c]] /\ Answered

LEMMA AnswerStep == AnswerInv /\ [Next]_vars => AnswerInv'
<1> SUFFICES ASSUME AnswerInv, [Next]_vars
             PROVE  /\ reply' = [c \in Clients |-> reply'[c]]
                    /\ \A d \in Clients : pc'[d] = "idle" => reply'[d] # FM!Pending
  BY TypedStep DEF AnswerInv, Answered
<1>1. pc = [c \in Clients |-> pc[c]]
  BY DEF AnswerInv, Typed, TypeOK
<1>2. CASE Still
  BY <1>2 DEF Still, rest, AnswerInv, Answered
<1>3. ASSUME NEW c \in Clients, NEW r \in FM!Request, Call(c, r)
      PROVE  /\ reply' = [d \in Clients |-> reply'[d]]
             /\ \A d \in Clients : pc'[d] = "idle" => reply'[d] # FM!Pending
  BY <1>1, <1>3 DEF Call, FirstStep, AnswerInv, Answered
<1>4. ASSUME NEW c \in Clients, Handler(c)
      PROVE  /\ reply' = [d \in Clients |-> reply'[d]]
             /\ \A d \in Clients : pc'[d] = "idle" => reply'[d] # FM!Pending
  <2>1. \/ \E a : a # FM!Pending /\ Finish(c, a)
        \/ \E p : p # "idle" /\ Go(c, p)
    BY <1>4 DEF Handler, OpenToWrite, PutChunk, Close, WriteFails, AfterWrite, Look,
                OpenToRead, GetChunk, GotAll, Remove, Move, OpenDir, ListEntry,
                EndList, Chmod, Exec, Unlink, Failed, FM!Pending, FM!Ok, FM!Missing,
                FM!Dropped, FM!Text, FM!Ran, FM!Listing, FM!Told
  <2>2. CASE \E a : a # FM!Pending /\ Finish(c, a)
    BY <1>1, <2>2 DEF Finish, AnswerInv, Answered
  <2>3. CASE \E p : p # "idle" /\ Go(c, p)
    BY <1>1, <2>3 DEF Go, AnswerInv, Answered
  <2> QED BY <2>1, <2>2, <2>3
<1> QED BY StillOrNot, <1>2, <1>3, <1>4

\* No client is left without an answer, whatever others do to the file it asked
\* for between two calls of the file system.
THEOREM EveryRequestIsAnswered == Spec => []Answered
<1>1. Init => AnswerInv
  BY TypedInit DEF Init, AnswerInv, Answered, FM!Pending, FM!Missing
<1>2. AnswerInv /\ [Next]_vars => AnswerInv'
  BY AnswerStep
<1> QED BY <1>1, <1>2, PTL DEF Spec, AnswerInv

-----------------------------------------------------------------------------
(* Requests that keep apart: where each handler stands *)

Calm == world.apart /\ ~world.failing

\* The first n chunks of a text.
Beginning(t, n) == [i \in 1..n |-> t[i]]

\* No two requests under way get in each other's way.
Apart == \A c, d \in Clients :
            c # d /\ pc[c] # "idle" /\ pc[d] # "idle" => ~Collide(req[c], req[d])

\* What a handler has found out or done so far is still so.
Footing(c) ==
    LET n == req[c].name
        t == req[c].text
    IN  /\ pc[c] \in {"put", "openread", "act", "get", "chmod", "exec"}
              => n \in DOMAIN dir
        /\ pc[c] \in {"put", "get"} => fd[c] = dir[n]
        /\ pc[c] = "put" => data[dir[n]] = Beginning(t, pos[c])
        /\ pc[c] = "get" => /\ pos[c] <= Len(data[dir[n]])
                            /\ got[c] = Beginning(data[dir[n]], pos[c])
        /\ pc[c] \notin {"get", "unlink", "list"} => got[c] = <<>>
        /\ pc[c] = "exec" => dir[n] \in runnable
        /\ pc[c] \in {"chmod", "exec"} \/ (pc[c] = "get" /\ req[c].op = "script")
              => data[dir[n]] = t
        /\ pc[c] = "unlink" => got[c] = t
        /\ pc[c] = "list" => got[c] \union todo[c] = DOMAIN dir \intersect Names

\* Every client has its place in what handlers keep, and is answered at the end.
Shaped == /\ DOMAIN before = Clients /\ DOMAIN got = Clients /\ DOMAIN todo = Clients
          /\ \A c \in Clients : pc[c] # "idle" => reply[c] = FM!Pending

CalmInv == /\ AliasInv /\ AnswerInv /\ Shaped
           /\ Calm => Apart /\ \A c \in Clients : Footing(c)

\* The names a request uses and changes.
LEMMA UsesOf ==
    ASSUME NEW r \in FM!Request
    PROVE  /\ r.op \in Reads => Uses(r) = {r.name} /\ Changes(r) = {}
           /\ r.op \in Writes \union {"delete"}
                 => Uses(r) = {r.name} /\ Changes(r) = {r.name}
           /\ r.op = "rename" => Uses(r) = {r.name, r.to} /\ Changes(r) = {r.name, r.to}
           /\ r.op = "list" => Uses(r) = Names /\ Changes(r) = {}
           /\ Uses(r) \subseteq Names \union Stamps
<1>1. r.op \in Reads \union Writes \union {"delete", "rename", "list"}
  BY RequestFields
<1>2. /\ r.op \in Reads => Uses(r) = {r.name} /\ Changes(r) = {}
      /\ r.op \in Writes \union {"delete"}
            => Uses(r) = {r.name} /\ Changes(r) = {r.name}
      /\ r.op = "rename" => Uses(r) = {r.name, r.to} /\ Changes(r) = {r.name, r.to}
      /\ r.op = "list" => Uses(r) = Names /\ Changes(r) = {}
  BY DEF Uses, Changes, Reads, Writes
<1>3. Uses(r) \subseteq Names \union Stamps
  BY <1>1, <1>2, RequestFields DEF Reads, Writes
<1> QED BY <1>2, <1>3

LEMMA BeginningGrows ==
    ASSUME NEW t \in Texts, NEW p \in Nat, p < Len(t)
    PROVE  /\ Beginning(t, p) \in Seq(Chunks)
           /\ Len(Beginning(t, p)) = p
           /\ Written(Beginning(t, p), p + 1, t[p + 1]) = Beginning(t, p + 1)
           /\ Append(Beginning(t, p), t[p + 1]) = Beginning(t, p + 1)
<1>1. \A i \in 1..p : t[i] \in Chunks
  BY DEF Texts
<1>2. Beginning(t, p) \in Seq(Chunks) /\ Len(Beginning(t, p)) = p
  BY <1>1 DEF Beginning
<1>3. Written(Beginning(t, p), p + 1, t[p + 1]) = Beginning(t, p + 1)
  <2>1. (IF p + 1 > p THEN p + 1 ELSE p) = p + 1
    OBVIOUS
  <2>2. \A j \in 1..(p + 1) :
           (IF j = p + 1 THEN t[p + 1] ELSE IF j <= p THEN Beginning(t, p)[j] ELSE Hole)
              = t[j]
    BY DEF Beginning
  <2> QED BY <1>2, <2>1, <2>2 DEF Written, Beginning
<1>4. Append(Beginning(t, p), t[p + 1]) = Beginning(t, p + 1)
  BY <1>2 DEF Beginning
<1> QED BY <1>2, <1>3, <1>4

LEMMA BeginningEnds ==
    ASSUME NEW t \in Texts
    PROVE  Beginning(t, 0) = <<>> /\ Beginning(t, Len(t)) = t
  BY DEF Beginning, Texts

\* A handler's step is its own: others keep what they hold.
LEMMA OthersHold ==
    ASSUME Typed, Shaped, NEW c \in Clients, Handler(c), NEW d \in Clients \ {c}
    PROVE  /\ pc'[d] = pc[d] /\ fd'[d] = fd[d] /\ pos'[d] = pos[d]
           /\ got'[d] = got[d] /\ todo'[d] = todo[d] /\ before'[d] = before[d]
<1>1. DOMAIN pc = Clients /\ DOMAIN fd = Clients /\ DOMAIN pos = Clients
  BY DEF Typed, TypeOK
<1>2. CASE OpenToWrite(c) \/ PutChunk(c) \/ GetChunk(c)
  BY <1>1, <1>2 DEF OpenToWrite, PutChunk, GetChunk, Go, Shaped
<1>3. CASE Close(c) \/ WriteFails(c)
  BY <1>1, <1>3 DEF Close, WriteFails, AfterWrite, Finish, Release, Go, Shaped
<1>4. CASE Look(c) \/ OpenToRead(c) \/ GotAll(c)
  BY <1>1, <1>4 DEF Look, OpenToRead, GotAll, Finish, Release, Go, Shaped, thread
<1>5. CASE Remove(c) \/ Move(c) \/ Unlink(c)
  BY <1>1, <1>5 DEF Remove, Move, Unlink, Finish, Release, Shaped
<1>6. CASE OpenDir(c) \/ ListEntry(c) \/ EndList(c)
  BY <1>1, <1>6 DEF OpenDir, ListEntry, EndList, Finish, Release, Go, Shaped
<1>7. CASE Chmod(c) \/ Exec(c)
  BY <1>1, <1>7 DEF Chmod, Exec, Go, Shaped, thread
<1> QED BY <1>2, <1>3, <1>4, <1>5, <1>6, <1>7 DEF Handler

LEMMA HandlerFrame ==
    ASSUME NEW c \in Clients, Handler(c)
    PROVE  UNCHANGED <<up, world, req, num, calls>> /\ runnable \subseteq runnable'
  BY DEF Handler, OpenToWrite, PutChunk, Close, WriteFails, Look, OpenToRead, GetChunk,
         GotAll, Remove, Move, OpenDir, ListEntry, EndList, Chmod, Exec, Unlink, At

LEMMA WorldStays ==
    ASSUME [Next]_vars
    PROVE  world' = world
<1>1. ASSUME NEW c \in Clients, NEW r \in FM!Request, Call(c, r) PROVE world' = world
  BY <1>1 DEF Call
<1> QED BY <1>1, StillOrNot, HandlerFrame DEF Still, rest

\* Name m leads where it did, to the same text.
Kept(m) == /\ m \in DOMAIN dir' <=> m \in DOMAIN dir
           /\ m \in DOMAIN dir => dir'[m] = dir[m] /\ data'[dir[m]] = data[dir[m]]

\* A handler changes what its request is about, and nothing else.
LEMMA Footprint ==
    ASSUME AliasInv, NEW c \in Clients, Footing(c), Handler(c),
           NEW m \in (Names \union Stamps) \ Changes(req[c])
    PROVE  Kept(m)
<1>1. /\ pc[c] # "idle" /\ req[c] \in FM!Request
      /\ \A k \in DOMAIN dir : dir[k] \in DOMAIN data
  <2>1. pc[c] # "idle"
    BY DEF Handler, OpenToWrite, PutChunk, Close, WriteFails, Look, OpenToRead, GetChunk,
           GotAll, Remove, Move, OpenDir, ListEntry, EndList, Chmod, Exec, Unlink, At
  <2> QED BY <2>1 DEF AliasInv, Typed, TypeOK, InPlace
<1>2. CASE OpenToWrite(c)
  <2> DEFINE n == req[c].name
             i == IF Found(n) THEN dir[n] ELSE num[c]
  <2>1. m # n /\ pc[c] = "open"
    BY <1>1, <1>2, UsesOf DEF OpenToWrite, At, AliasInv, Typed, InPlace
  <2>2. /\ DOMAIN dir' = DOMAIN dir \union {n}
        /\ \A k \in DOMAIN dir' : dir'[k] = IF k = n THEN i ELSE dir[k]
        /\ \A j \in DOMAIN data : data'[j] = IF j = i THEN <<>> ELSE data[j]
    BY <1>2 DEF OpenToWrite, FM!Put
  <2>3. num[c] \notin DOMAIN data
    BY <2>1 DEF AliasInv, NumbersAreFresh
  <2>4. m \in DOMAIN dir => dir[m] # i
    BY <1>1, <2>1, <2>3 DEF Found, AliasInv, NoAlias
  <2> HIDE DEF n, i
  <2> QED BY <1>1, <2>1, <2>2, <2>4 DEF Kept
<1>3. CASE PutChunk(c)
  <2>1. m # req[c].name /\ pc[c] = "put"
    BY <1>1, <1>3, UsesOf DEF PutChunk, At, AliasInv, Typed, InPlace
  <2>2. m \in DOMAIN dir => dir[m] # fd[c]
    BY <2>1 DEF Footing, AliasInv, NoAlias
  <2> QED BY <1>1, <1>3, <2>2 DEF PutChunk, Kept
<1>4. CASE Remove(c) \/ Unlink(c)
  <2>1. m # req[c].name
    BY <1>1, <1>4, UsesOf DEF Remove, Unlink, At, AliasInv, Typed, InPlace, Writes
  <2> QED BY <1>4, <2>1 DEF Remove, Unlink, FM!Without, Kept
<1>5. CASE Move(c)
  <2>1. m # req[c].name /\ m # req[c].to
    BY <1>1, <1>5, UsesOf DEF Move, At
  <2>2. CASE Found(req[c].name) /\ req[c].name # req[c].to
    <3>1. /\ DOMAIN dir' = (DOMAIN dir \ {req[c].name}) \union {req[c].to}
          /\ \A k \in DOMAIN dir' : k # req[c].to => dir'[k] = dir[k]
          /\ data' = data
      <4>1. /\ dir' = FM!Put(FM!Without(dir, req[c].name), req[c].to, dir[req[c].name])
            /\ data' = data
        BY <1>5, <2>2 DEF Move, FM!Moved
      <4> QED BY <2>2, <4>1 DEF FM!Put, FM!Without
    <3> QED BY <2>1, <3>1 DEF Kept
  <2>3. CASE ~(Found(req[c].name) /\ req[c].name # req[c].to)
    BY <1>5, <2>3 DEF Move, FM!Moved, Kept
  <2> QED BY <2>2, <2>3
<1>6. CASE Elsewhere(c) /\ ~PutChunk(c)
  BY <1>6 DEF Elsewhere, Close, WriteFails, Look, OpenToRead, GetChunk, GotAll, OpenDir,
              ListEntry, EndList, Chmod, Exec, Kept
<1> QED BY <1>2, <1>3, <1>4, <1>5, <1>6 DEF Handler, Elsewhere

\* So every other request under way stands where it stood.
LEMMA OthersStand ==
    ASSUME CalmInv, Calm, NEW c \in Clients, Handler(c), NEW d \in Clients \ {c}
    PROVE  Footing(d)'
<1>1. /\ pc'[d] = pc[d] /\ fd'[d] = fd[d] /\ pos'[d] = pos[d]
      /\ got'[d] = got[d] /\ todo'[d] = todo[d]
      /\ req'[d] = req[d] /\ runnable \subseteq runnable'
  BY OthersHold, HandlerFrame DEF CalmInv, AliasInv
<1>2. Footing(d) /\ Footing(c) /\ AliasInv
  BY DEF CalmInv
<1>3. pc[c] # "idle"
  BY DEF Handler, OpenToWrite, PutChunk, Close, WriteFails, Look, OpenToRead, GetChunk,
         GotAll, Remove, Move, OpenDir, ListEntry, EndList, Chmod, Exec, Unlink, At
<1>4. CASE pc[d] = "idle"
  BY <1>1, <1>2, <1>4 DEF Footing
<1>5. CASE pc[d] # "idle"
  <2>1. req[d] \in FM!Request
    BY <1>5 DEF CalmInv, AliasInv, Typed, InPlace
  <2>2. Uses(req[d]) \intersect Changes(req[c]) = {}
    BY <1>3, <1>5 DEF CalmInv, Apart, Collide
  <2>3. \A m \in Uses(req[d]) : Kept(m)
    BY <1>2, <2>1, <2>2, Footprint, UsesOf
  <2>4. CASE pc[d] = "list"
    <3>1. Uses(req[d]) = Names
      BY <2>1, <2>4, UsesOf DEF CalmInv, AliasInv, Typed, InPlace
    <3>2. DOMAIN dir' \intersect Names = DOMAIN dir \intersect Names
      BY <2>3, <3>1 DEF Kept
    <3> QED BY <1>1, <1>2, <2>4, <3>2 DEF Footing
  <2>5. CASE pc[d] \notin {"opendir", "list"}
    <3>1. Kept(req[d].name)
      <4>1. req[d].op \in Reads \union Writes \union {"delete", "rename"}
        BY <1>5, <2>5 DEF CalmInv, AliasInv, Typed, TypeOK, InPlace, Reads, Writes
      <4>2. req[d].name \in Uses(req[d])
        BY <2>1, <4>1, UsesOf
      <4> QED BY <2>3, <4>2
    <3>2. pc[d] \in {"put", "openread", "act", "get", "chmod", "exec"} =>
             /\ req[d].name \in DOMAIN dir /\ req[d].name \in DOMAIN dir'
             /\ dir'[req[d].name] = dir[req[d].name]
             /\ data'[dir'[req[d].name]] = data[dir[req[d].name]]
      BY <1>2, <3>1 DEF Footing, Kept
    <3> QED BY <1>1, <1>2, <2>5, <3>2 DEF Footing, Beginning
  <2>6. CASE pc[d] = "opendir"
    BY <1>1, <1>2, <2>6 DEF Footing
  <2> QED BY <2>4, <2>5, <2>6
<1> QED BY <1>4, <1>5

LEMMA ShapedStep == CalmInv /\ [Next]_vars => Shaped'
<1> SUFFICES ASSUME CalmInv, [Next]_vars PROVE Shaped'
  OBVIOUS
<1>1. /\ DOMAIN before = Clients /\ DOMAIN got = Clients /\ DOMAIN todo = Clients
      /\ DOMAIN pc = Clients /\ DOMAIN reply = Clients
      /\ \A c \in Clients : pc[c] # "idle" => reply[c] = FM!Pending
  BY DEF CalmInv, Shaped, AnswerInv, AliasInv, Typed, TypeOK
<1>2. CASE Still
  BY <1>1, <1>2 DEF Still, rest, thread, Shaped
<1>3. ASSUME NEW c \in Clients, NEW r \in FM!Request, Call(c, r) PROVE Shaped'
  BY <1>1, <1>3 DEF Call, thread, Shaped
<1>4. ASSUME NEW c \in Clients, Handler(c) PROVE Shaped'
  <2>1. /\ DOMAIN before' = Clients /\ DOMAIN got' = Clients /\ DOMAIN todo' = Clients
    BY <1>1, <1>4
       DEF Handler, OpenToWrite, PutChunk, Close, WriteFails, AfterWrite, Look, OpenToRead,
           GetChunk, GotAll, Remove, Move, OpenDir, ListEntry, EndList, Chmod, Exec, Unlink,
           Finish, Release, thread
  <2>2. \/ \E a : pc' = [pc EXCEPT ![c] = "idle"] /\ reply' = [reply EXCEPT ![c] = a]
        \/ \E p : pc' = [pc EXCEPT ![c] = p] /\ reply' = reply
    BY <1>4
       DEF Handler, OpenToWrite, PutChunk, Close, WriteFails, AfterWrite, Look, OpenToRead,
           GetChunk, GotAll, Remove, Move, OpenDir, ListEntry, EndList, Chmod, Exec, Unlink,
           Finish, Go
  <2>3. pc[c] # "idle"
    BY <1>4
       DEF Handler, OpenToWrite, PutChunk, Close, WriteFails, Look, OpenToRead, GetChunk,
           GotAll, Remove, Move, OpenDir, ListEntry, EndList, Chmod, Exec, Unlink, At
  <2> QED BY <1>1, <2>1, <2>2, <2>3 DEF Shaped
<1> QED BY StillOrNot, <1>2, <1>3, <1>4

\* A handler that has answered holds nothing.
LEMMA StandFinish ==
    ASSUME CalmInv, NEW c \in Clients, NEW a, Finish(c, a)
    PROVE  Footing(c)'
  BY DEF Finish, Footing, CalmInv, Shaped, AliasInv, Typed, TypeOK

LEMMA StandWrite ==
    ASSUME CalmInv, Calm, NEW c \in Clients, OpenToWrite(c) \/ PutChunk(c) \/ Close(c)
    PROVE  Footing(c)'
<1> DEFINE n == req[c].name
           t == req[c].text
<1>1. /\ pc[c] \in {"open", "put"} /\ UNCHANGED req
      /\ DOMAIN got = Clients /\ DOMAIN fd = Clients /\ DOMAIN pos = Clients
      /\ DOMAIN pc = Clients /\ Footing(c)
  BY DEF OpenToWrite, PutChunk, Close, At, CalmInv, Shaped, AliasInv, Typed, TypeOK
<1>2. t \in Texts /\ pos[c] \in Nat /\ (pc[c] = "put" => pos[c] <= Len(t))
  BY <1>1, RequestFields, StoreAssumption
     DEF CalmInv, AliasInv, Typed, TypeOK, InPlace, Writes, Texts
<1>3. CASE OpenToWrite(c)
  <2> DEFINE i == IF Found(n) THEN dir[n] ELSE num[c]
  <2>1. /\ n \in DOMAIN dir' /\ dir'[n] = i
        /\ data'[i] = <<>> /\ fd'[c] = i /\ pc'[c] = "put"
        /\ pos'[c] = pos[c] /\ got'[c] = got[c] /\ pc[c] = "open"
    BY <1>1, <1>3 DEF OpenToWrite, At, Go, FM!Put
  <2>2. pos[c] = 0 /\ got[c] = <<>>
    BY <1>1, <2>1 DEF CalmInv, AliasInv, Typed, InPlace, Footing
  <2>3. Beginning(t, 0) = <<>>
    BY <1>2, BeginningEnds
  <2> HIDE DEF i
  <2> QED BY <1>1, <2>1, <2>2, <2>3 DEF Footing, Beginning
<1>4. CASE PutChunk(c)
  <2>1. /\ pc[c] = "put" /\ pc'[c] = "put" /\ pos'[c] = pos[c] + 1 /\ pos[c] < Len(t)
        /\ fd[c] = dir[n] /\ n \in DOMAIN dir /\ fd[c] \in DOMAIN data
        /\ data[fd[c]] = Beginning(t, pos[c]) /\ got[c] = <<>>
        /\ UNCHANGED <<dir, fd, got>>
    BY <1>1, <1>4 DEF PutChunk, At, Go, Footing, CalmInv, AliasInv, Typed, TypeOK
  <2>2. data'[fd[c]] = Written(data[fd[c]], pos[c] + 1, t[pos[c] + 1])
    BY <1>4, <2>1 DEF PutChunk
  <2>3. data'[fd[c]] = Beginning(t, pos[c] + 1)
    BY <1>2, <2>1, <2>2, BeginningGrows
  <2> QED BY <1>1, <2>1, <2>3 DEF Footing, Beginning
<1>5. CASE Close(c)
  <2>1. CASE req[c].op = "script"
    <3>1. /\ pc[c] = "put" /\ pc'[c] = "chmod" /\ pos[c] = Len(t)
          /\ UNCHANGED <<dir, data, got>>
      BY <1>1, <1>5, <2>1 DEF Close, At, AfterWrite, Go
    <3>2. data[dir[n]] = t /\ n \in DOMAIN dir /\ got[c] = <<>>
      BY <1>1, <1>2, <3>1, BeginningEnds DEF Footing
    <3> QED BY <1>1, <3>1, <3>2 DEF Footing
  <2>2. CASE req[c].op # "script"
    BY <1>5, <2>2, StandFinish DEF Close, AfterWrite
  <2> QED BY <2>1, <2>2
<1> QED BY <1>3, <1>4, <1>5

LEMMA StandRead ==
    ASSUME CalmInv, Calm, NEW c \in Clients,
           Look(c) \/ OpenToRead(c) \/ GetChunk(c) \/ GotAll(c)
    PROVE  Footing(c)'
<1> DEFINE n == req[c].name
           t == data[dir[n]]
<1>1. /\ UNCHANGED <<req, dir, data>>
      /\ DOMAIN got = Clients /\ DOMAIN fd = Clients /\ DOMAIN pos = Clients
      /\ DOMAIN pc = Clients /\ Footing(c) /\ pos[c] \in Nat
  BY DEF Look, OpenToRead, GetChunk, GotAll, At, CalmInv, Shaped, AliasInv, Typed, TypeOK
<1>2. n \in DOMAIN dir => t \in Texts
  BY DEF CalmInv, AliasInv, Typed, TypeOK
<1>3. CASE Look(c)
  <2>1. CASE Found(n)
    <3>1. pc'[c] \in {"openread", "act"} /\ got'[c] = got[c] /\ pc[c] = "look"
      BY <1>1, <1>3, <2>1 DEF Look, At, Go, thread
    <3> QED BY <1>1, <2>1, <3>1 DEF Footing, Found
  <2>2. CASE ~Found(n)
    BY <1>3, <2>2, StandFinish DEF Look
  <2> QED BY <2>1, <2>2
<1>4. CASE OpenToRead(c)
  <2>1. pc[c] = "openread" /\ n \in DOMAIN dir /\ got[c] = <<>>
    BY <1>1, <1>4 DEF OpenToRead, At, Footing
  <2>2. /\ pc'[c] = "get" /\ fd'[c] = dir[n] /\ pos'[c] = 0 /\ got'[c] = <<>>
        /\ req[c].op # "script"
    BY <1>1, <1>4, <2>1 DEF OpenToRead, Go, Found, CalmInv, AliasInv, Typed, InPlace, Reads
  <2>3. Beginning(t, 0) = <<>> /\ Len(t) \in Nat
    BY <1>2, <2>1, BeginningEnds DEF Texts
  <2> QED BY <1>1, <2>1, <2>2, <2>3 DEF Footing, Beginning
<1>5. CASE GetChunk(c)
  <2>1. /\ pc[c] = "get" /\ fd[c] = dir[n] /\ n \in DOMAIN dir
        /\ pos[c] <= Len(t) /\ got[c] = Beginning(t, pos[c])
        /\ req[c].op = "script" => t = req[c].text
    BY <1>1, <1>5 DEF GetChunk, At, Footing
  <2>2. /\ pc'[c] = "get" /\ fd'[c] = fd[c] /\ pos'[c] = pos[c] + 1 /\ pos[c] < Len(t)
        /\ got'[c] = Append(got[c], t[pos[c] + 1])
    BY <1>1, <1>5, <2>1 DEF GetChunk, Go
  <2>3. got'[c] = Beginning(t, pos[c] + 1) /\ pos[c] + 1 <= Len(t)
    BY <1>1, <1>2, <2>1, <2>2, BeginningGrows DEF Texts
  <2> QED BY <1>1, <2>1, <2>2, <2>3 DEF Footing, Beginning
<1>6. CASE GotAll(c)
  <2>1. CASE req[c].op = "script"
    <3>1. /\ pc[c] = "get" /\ fd[c] = dir[n] /\ n \in DOMAIN dir
          /\ pos[c] <= Len(t) /\ got[c] = Beginning(t, pos[c]) /\ t = req[c].text
          /\ pos[c] >= Len(data[fd[c]])
      BY <1>1, <1>6, <2>1 DEF GotAll, At, Footing
    <3>2. pos[c] = Len(t)
      BY <1>1, <1>2, <3>1 DEF Texts
    <3>3. got[c] = req[c].text
      BY <1>2, <3>1, <3>2, BeginningEnds
    <3>4. pc'[c] = "unlink" /\ got' = got
      BY <1>1, <1>6, <2>1 DEF GotAll, Go
    <3> QED BY <1>1, <3>3, <3>4 DEF Footing
  <2>2. CASE req[c].op # "script"
    BY <1>6, <2>2, StandFinish DEF GotAll
  <2> QED BY <2>1, <2>2
<1> QED BY <1>3, <1>4, <1>5, <1>6

LEMMA StandList ==
    ASSUME CalmInv, Calm, NEW c \in Clients, OpenDir(c) \/ ListEntry(c) \/ EndList(c)
    PROVE  Footing(c)'
<1>1. /\ UNCHANGED <<req, dir, data>>
      /\ DOMAIN got = Clients /\ DOMAIN todo = Clients /\ DOMAIN pc = Clients
      /\ Footing(c)
  BY DEF OpenDir, ListEntry, EndList, At, CalmInv, Shaped, AliasInv, Typed, TypeOK
<1>2. CASE OpenDir(c)
  BY <1>1, <1>2 DEF OpenDir, Go, Footing
<1>3. CASE ListEntry(c)
  <2>1. PICK m \in todo[c] :
          \/ Go(c, "list") /\ todo' = [todo EXCEPT ![c] = @ \ {m}]
                /\ got' = [got EXCEPT ![c] = @ \union {m}]
          \/ Finish(c, FM!Listing(got[c]))
    BY <1>3 DEF ListEntry
  <2>2. CASE Go(c, "list") /\ todo' = [todo EXCEPT ![c] = @ \ {m}]
                /\ got' = [got EXCEPT ![c] = @ \union {m}]
    BY <1>1, <1>3, <2>2 DEF ListEntry, At, Go, Footing
  <2> QED BY <2>1, <2>2, StandFinish
<1>4. CASE EndList(c)
  BY <1>4, StandFinish DEF EndList
<1> QED BY <1>2, <1>3, <1>4

\* A script that nobody else touches is there when the shell comes, and nobody
\* has it open for writing.
LEMMA StandScript ==
    ASSUME CalmInv, Calm, NEW c \in Clients, Chmod(c) \/ Exec(c)
    PROVE  Footing(c)'
<1> DEFINE n == req[c].name
<1>1. /\ UNCHANGED <<req, dir, data, got>> /\ pc[c] \in {"chmod", "exec"}
      /\ DOMAIN fd = Clients /\ DOMAIN pc = Clients /\ Footing(c)
      /\ n \in DOMAIN dir /\ data[dir[n]] = req[c].text /\ got[c] = <<>>
      /\ req[c] \in FM!Request /\ req[c].op = "script"
  BY DEF Chmod, Exec, At, thread, CalmInv, AliasInv, Typed, TypeOK, InPlace, Footing
<1>2. CASE Chmod(c)
  BY <1>1, <1>2 DEF Chmod, Go, Footing
<1>3. CASE Exec(c)
  <2>1. ~Busy(dir[n])
    <3> SUFFICES ASSUME NEW d \in Clients, pc[d] = "put", fd[d] = dir[n] PROVE FALSE
      BY DEF Busy
    <3>1. d # c /\ pc[c] = "exec"
      BY <1>3 DEF Exec, At
    <3>2. fd[d] = dir[req[d].name] /\ req[d].name \in DOMAIN dir
      BY DEF CalmInv, Footing
    <3>3. req[d].name = n
      BY <1>1, <3>2 DEF CalmInv, AliasInv, NoAlias
    <3>4. n \in Uses(req[c]) /\ req[d].name \in Changes(req[d])
      BY <1>1, UsesOf DEF CalmInv, AliasInv, Typed, InPlace, Writes
    <3> QED BY <1>1, <3>1, <3>3, <3>4 DEF CalmInv, Apart, Collide
  <2>2. pc[c] = "exec" /\ Executable(n)
    BY <1>1, <1>3, <2>1 DEF Exec, At, Executable, Found, Footing
  <2>3. /\ pc'[c] = "get" /\ fd'[c] = dir[n] /\ pos'[c] = 0
    BY <1>1, <1>3, <2>2 DEF Exec, At, Go, CalmInv, AliasInv, Typed, InPlace
  <2>4. /\ Beginning(data[dir[n]], 0) = <<>> /\ Len(data[dir[n]]) \in Nat
    <3>1. data[dir[n]] \in Texts
      BY <1>1 DEF CalmInv, AliasInv, Typed, TypeOK
    <3> QED BY <3>1, BeginningEnds DEF Texts
  <2> QED BY <1>1, <2>3, <2>4 DEF Footing, Beginning
<1> QED BY <1>2, <1>3

LEMMA CalmInit == Init => CalmInv
<1> SUFFICES ASSUME Init PROVE CalmInv
  OBVIOUS
<1>1. AliasInv
  BY AliasInit
<1>2. AnswerInv
  BY TypedInit DEF Init, AnswerInv, Answered, FM!Pending, FM!Missing
<1>3. Shaped
  BY DEF Init, Shaped
<1>4. Apart /\ \A c \in Clients : Footing(c)
  BY DEF Init, Apart, Footing
<1> QED BY <1>1, <1>2, <1>3, <1>4 DEF CalmInv

LEMMA CalmStep == CalmInv /\ [Next]_vars => CalmInv'
<1> SUFFICES ASSUME CalmInv, [Next]_vars, Calm'
             PROVE  Apart' /\ \A d \in Clients : Footing(d)'
  BY AliasStep, AnswerStep, ShapedStep DEF CalmInv
<1>1. world' = world
  BY WorldStays
<1>2. Calm /\ Apart /\ (\A d \in Clients : Footing(d)) /\ DOMAIN pc = Clients
  BY <1>1 DEF Calm, CalmInv, AliasInv, Typed, TypeOK
<1>3. CASE Still
  BY <1>2, <1>3 DEF Still, rest, thread, Apart, Collide, Footing
<1>4. ASSUME NEW c \in Clients, NEW r \in FM!Request, Call(c, r)
      PROVE  Apart' /\ \A d \in Clients : Footing(d)'
  <2>1. /\ pc[c] = "idle" /\ pc'[c] \in {"open", "opendir", "look"}
        /\ req'[c] = r
        /\ \A d \in Clients \ {c} : pc'[d] = pc[d] /\ req'[d] = req[d]
        /\ UNCHANGED <<dir, runnable, data, fd, pos, got, todo>>
    BY <1>2, <1>4 DEF Call, FirstStep, thread, CalmInv, AliasInv, Typed, TypeOK
  <2>2. \A d \in Clients : pc[d] # "idle" => ~Collide(r, req[d])
    BY <1>2, <1>4 DEF Call, Calm
  <2>3. Apart'
    <3> SUFFICES ASSUME NEW d \in Clients, NEW e \in Clients, d # e,
                        pc'[d] # "idle", pc'[e] # "idle", Collide(req'[d], req'[e])
                 PROVE  FALSE
      BY DEF Apart, Collide
    <3>1. CASE d # c /\ e # c
      BY <1>2, <2>1, <3>1 DEF Apart
    <3>2. CASE d = c \/ e = c
      BY <2>1, <2>2, <3>2 DEF Collide
    <3> QED BY <3>1, <3>2
  <2>4. \A d \in Clients : Footing(d)'
    BY <1>2, <2>1 DEF Footing
  <2> QED BY <2>3, <2>4
<1>5. ASSUME NEW c \in Clients, Handler(c)
      PROVE  Apart' /\ \A d \in Clients : Footing(d)'
  <2>1. Apart'
    <3>1. /\ req' = req
          /\ \A d \in Clients : pc'[d] # "idle" => pc[d] # "idle"
      <4>1. pc[c] # "idle"
        BY <1>5
           DEF Handler, OpenToWrite, PutChunk, Close, WriteFails, Look, OpenToRead,
               GetChunk, GotAll, Remove, Move, OpenDir, ListEntry, EndList, Chmod, Exec,
               Unlink, At
      <4> QED BY <1>5, <4>1, HandlerFrame, OthersHold DEF CalmInv, AliasInv
    <3> QED BY <1>2, <3>1 DEF Apart, Collide
  <2>2. Footing(c)'
    <3>1. ~WriteFails(c)
      BY <1>2 DEF Calm, WriteFails
    <3>2. CASE Remove(c) \/ Move(c) \/ Unlink(c)
      BY <3>2, StandFinish DEF Remove, Move, Unlink
    <3> QED BY <1>2, <1>5, <3>1, <3>2, StandWrite, StandRead, StandList, StandScript
            DEF Handler
  <2>3. \A d \in Clients \ {c} : Footing(d)'
    BY <1>2, <1>5, OthersStand
  <2> QED BY <2>1, <2>2, <2>3
<1> QED BY StillOrNot, <1>3, <1>4, <1>5

-----------------------------------------------------------------------------
(* Requests that keep apart: what clients see *)

\* One request writes a name at most, and until it is done the old text is seen.
SeenIs == \A n \in Names :
             /\ WritersOf(n) = {} => Seen(n) = Under(n)
             /\ \A c \in WritersOf(n) : WritersOf(n) = {c} /\ Seen(n) = before[c]

LEMMA SeenRight == CalmInv /\ Calm => SeenIs
<1> SUFFICES ASSUME CalmInv, Calm, NEW n \in Names, NEW c \in WritersOf(n)
             PROVE  WritersOf(n) = {c}
  BY DEF SeenIs, Seen
<1> SUFFICES ASSUME NEW d \in WritersOf(n), d # c PROVE FALSE
  OBVIOUS
<1>1. /\ c \in Clients /\ pc[c] = "put" /\ req[c].name = n
      /\ d \in Clients /\ pc[d] = "put" /\ req[d].name = n
  BY DEF WritersOf
<1>2. n \in Uses(req[c]) /\ n \in Changes(req[d])
  BY <1>1, UsesOf DEF CalmInv, AliasInv, Typed, InPlace
<1> QED BY <1>1, <1>2 DEF CalmInv, Apart, Collide

\* No other request writes a name that this one uses.
LEMMA SoleWriter ==
    ASSUME CalmInv, Calm, NEW c \in Clients, pc[c] # "idle", pc[c] # "put",
           NEW n \in Names, n \in Uses(req[c])
    PROVE  WritersOf(n) = {} /\ Seen(n) = Under(n)
<1>1. WritersOf(n) = {}
  <2> SUFFICES ASSUME NEW d \in WritersOf(n) PROVE FALSE
    OBVIOUS
  <2>1. d \in Clients /\ pc[d] = "put" /\ req[d].name = n /\ d # c
    BY DEF WritersOf
  <2>2. n \in Changes(req[d])
    BY <2>1, UsesOf DEF CalmInv, AliasInv, Typed, InPlace
  <2> QED BY <2>1, <2>2 DEF CalmInv, Apart, Collide
<1> QED BY <1>1 DEF Seen

\* A request is seen to change what it is about, and nothing else.
LEMMA SeenElsewhere ==
    ASSUME CalmInv, CalmInv', Calm, Calm', NEW c \in Clients, Handler(c),
           NEW m \in Names \ Changes(req[c])
    PROVE  Seen(m)' = Seen(m)
<1>1. Kept(m)
  BY Footprint DEF CalmInv
<1>2. Under(m)' = Under(m)
  BY <1>1 DEF Kept, Under, Found
<1>3. req' = req /\ \A d \in Clients \ {c} : pc'[d] = pc[d] /\ before'[d] = before[d]
  BY HandlerFrame, OthersHold DEF CalmInv, AliasInv
<1>4. c \notin WritersOf(m) /\ c \notin WritersOf(m)'
  <2> SUFFICES ASSUME req[c].name = m, pc[c] = "put" \/ pc'[c] = "put" PROVE FALSE
    BY <1>3 DEF WritersOf
  <2>1. req[c] \in FM!Request /\ req[c].op \in Writes
    BY <1>3 DEF CalmInv, AliasInv, Typed, InPlace
  <2> QED BY <2>1, UsesOf
<1>5. WritersOf(m)' = WritersOf(m)
  BY <1>3, <1>4 DEF WritersOf
<1>6. SeenIs /\ SeenIs'
  BY SeenRight, PTL
<1>7. CASE WritersOf(m) = {}
  BY <1>2, <1>5, <1>6, <1>7 DEF SeenIs
<1>8. CASE WritersOf(m) # {}
  <2>1. PICK d \in WritersOf(m) : TRUE
    BY <1>8
  <2>2. d \in Clients \ {c}
    BY <1>4, <2>1 DEF WritersOf
  <2> QED BY <1>3, <1>5, <1>6, <2>1, <2>2 DEF SeenIs
<1> QED BY <1>7, <1>8

LEMMA FilesSame ==
    ASSUME \A m \in Names : Seen(m)' = Seen(m)
    PROVE  Files' = Files
  BY DEF Files

LEMMA FilesPut ==
    ASSUME NEW n \in Names, NEW t, Seen(n)' = FM!Text(t),
           \A m \in Names \ {n} : Seen(m)' = Seen(m)
    PROVE  Files' = FM!Put(Files, n, t)
<1>1. DOMAIN Files = {m \in Names : Seen(m) # FM!Missing}
  BY DEF Files
<1>2. FM!Text(t) # FM!Missing /\ FM!Text(t).text = t
  BY DEF FM!Text, FM!Missing
<1>3. {m \in Names : Seen(m)' # FM!Missing} = DOMAIN Files \union {n}
  BY <1>1, <1>2
<1>4. \A m \in DOMAIN Files \union {n} :
         Seen(m)'.text = IF m = n THEN t ELSE Files[m]
  BY <1>1, <1>2 DEF Files
<1>5. Files' = [m \in {k \in Names : Seen(k)' # FM!Missing} |-> Seen(m)'.text]
  BY DEF Files, FM!Missing
<1> QED BY <1>3, <1>4, <1>5 DEF FM!Put

LEMMA FilesWithout ==
    ASSUME NEW n \in Names, Seen(n)' = FM!Missing,
           \A m \in Names \ {n} : Seen(m)' = Seen(m)
    PROVE  Files' = FM!Without(Files, n)
<1>1. DOMAIN Files = {m \in Names : Seen(m) # FM!Missing}
  BY DEF Files
<1>2. {m \in Names : Seen(m)' # FM!Missing} = DOMAIN Files \ {n}
  BY <1>1
<1>3. \A m \in DOMAIN Files \ {n} : Seen(m)'.text = Files[m]
  BY <1>1 DEF Files
<1>4. Files' = [m \in {k \in Names : Seen(k)' # FM!Missing} |-> Seen(m)'.text]
  BY DEF Files, FM!Missing
<1> QED BY <1>2, <1>3, <1>4 DEF FM!Without

LEMMA FilesMoved ==
    ASSUME NEW n \in Names, NEW k \in Names, n # k, NEW t, Seen(n)' = FM!Missing,
           Seen(k)' = FM!Text(t), \A m \in Names \ {n, k} : Seen(m)' = Seen(m)
    PROVE  Files' = FM!Put(FM!Without(Files, n), k, t)
<1>1. DOMAIN Files = {m \in Names : Seen(m) # FM!Missing}
  BY DEF Files
<1>2. FM!Text(t) # FM!Missing /\ FM!Text(t).text = t
  BY DEF FM!Text, FM!Missing
<1>3. {m \in Names : Seen(m)' # FM!Missing} = (DOMAIN Files \ {n}) \union {k}
  BY <1>1, <1>2
<1>4. \A m \in (DOMAIN Files \ {n}) \union {k} :
         Seen(m)'.text = IF m = k THEN t ELSE Files[m]
  BY <1>1, <1>2 DEF Files
<1>5. Files' = [m \in {j \in Names : Seen(j)' # FM!Missing} |-> Seen(m)'.text]
  BY DEF Files, FM!Missing
<1>6. /\ DOMAIN FM!Without(Files, n) = DOMAIN Files \ {n}
      /\ \A m \in DOMAIN Files \ {n} : FM!Without(Files, n)[m] = Files[m]
  BY DEF FM!Without
<1> QED BY <1>3, <1>4, <1>5, <1>6 DEF FM!Put

\* What a client is told is there is what the name leads to.
LEMMA FilesUnder ==
    ASSUME NEW n \in Names, Seen(n) = Under(n)
    PROVE  /\ n \in DOMAIN Files <=> n \in DOMAIN dir
           /\ n \in DOMAIN Files => Files[n] = data[dir[n]]
  BY DEF Files, Under, Found, FM!Text, FM!Missing

\* A step that changes nothing clients see.
LEMMA Unseen ==
    ASSUME Files' = Files, UNCHANGED <<world, req, reply>>
    PROVE  UNCHANGED Promise!vars
  BY DEF Promise!vars, Map

\* An answer.
LEMMA Answers ==
    ASSUME Calm, NEW c \in Clients, NEW a,
           reply' = [reply EXCEPT ![c] = a], UNCHANGED <<up, world, req>>,
           reply[c] = FM!Pending,
           \/ /\ req[c].op = "write" /\ a = FM!Ok
              /\ Files' = FM!Put(Files, req[c].name, req[c].text)
           \/ /\ req[c].op \in {"read", "download"} /\ req[c].name \in DOMAIN Files
              /\ a = FM!Told(req[c], Files[req[c].name])
              /\ Files' = Files
           \/ /\ req[c].op = "delete" /\ req[c].name \in DOMAIN Files /\ a = FM!Ok
              /\ Files' = FM!Without(Files, req[c].name)
           \/ /\ req[c].op = "rename" /\ req[c].name \in DOMAIN Files /\ a = FM!Ok
              /\ Files' = FM!Moved(Files, req[c].name, req[c].to)
           \/ /\ req[c].op \in {"read", "download", "delete", "rename"}
              /\ req[c].name \notin DOMAIN Files /\ a = FM!Missing /\ Files' = Files
           \/ /\ req[c].op = "list" /\ a = FM!Listing(DOMAIN Files) /\ Files' = Files
           \/ /\ req[c].op = "script" /\ a = FM!Ran(req[c].text) /\ Files' = Files
    PROVE  Promise!Next
<1>1. /\ world.apart /\ ~world.failing /\ world'.apart /\ ~world'.failing
  BY DEF Calm
<1>2. Promise!Apply(c)
  BY <1>1 DEF Promise!Apply, Promise!Write, Promise!Read, Promise!Delete, Promise!Rename,
              Promise!NotFound, Promise!List, Promise!Script, Promise!Answer,
              Promise!Pending, Promise!Ok, Promise!Missing, Promise!Listing, Promise!Ran,
              Promise!Told, Promise!Text, Promise!Dropped, Promise!Put, Promise!Without,
              Promise!Moved, FM!Pending, FM!Ok, FM!Missing, FM!Listing, FM!Ran, FM!Told,
              FM!Text, FM!Dropped, FM!Put, FM!Without, FM!Moved, Map
<1> QED BY <1>2 DEF Promise!Next

\* What a request has done to the names of files is seen when it answers.
LEMMA SimulateCall ==
    ASSUME CalmInv, CalmInv', Calm, Calm', NEW c \in Clients, NEW r \in FM!Request,
           Call(c, r)
    PROVE  Promise!Next
<1>1. Files' = Files
  <2>1. \A m \in Names : WritersOf(m)' = WritersOf(m)
    BY DEF Call, FirstStep, WritersOf, CalmInv, AliasInv, Typed, TypeOK
  <2>2. \A m \in Names : Under(m)' = Under(m)
    BY DEF Call, Under, Found
  <2>3. \A m \in Names : Seen(m)' = Seen(m)
    <3>1. SeenIs /\ SeenIs'
      BY SeenRight, PTL
    <3> QED BY <2>1, <2>2, <3>1 DEF SeenIs, Call
  <2> QED BY <2>3, FilesSame
<1>2. /\ reply[c] # FM!Pending
      /\ req' = [req EXCEPT ![c] = r] /\ reply' = [reply EXCEPT ![c] = FM!Pending]
      /\ world' = world
  BY DEF Call, CalmInv, AnswerInv, Answered
<1>3. Promise!Call(c)
  BY <1>1, <1>2 DEF Calm, Promise!Call, Promise!Pending, Promise!Request, FM!Pending,
                    FM!Request, Map
<1> QED BY <1>3 DEF Promise!Next

LEMMA SimulateWrite ==
    ASSUME CalmInv, CalmInv', Calm, Calm', NEW c \in Clients,
           OpenToWrite(c) \/ PutChunk(c) \/ Close(c)
    PROVE  Promise!Next \/ UNCHANGED Promise!vars
<1>0. PICK n, t : n = req[c].name /\ t = req[c].text
  OBVIOUS
<1>1. /\ UNCHANGED <<up, world, req>> /\ pc[c] \in {"open", "put"} /\ Handler(c)
      /\ req[c] \in FM!Request /\ req[c].op \in Writes
      /\ DOMAIN pc = Clients /\ DOMAIN before = Clients /\ Footing(c)
      /\ reply[c] = FM!Pending
  BY DEF OpenToWrite, PutChunk, Close, At, Handler, CalmInv, Shaped, AliasInv, Typed,
         TypeOK, InPlace
<1>2. \A m \in Names \ {n} : Seen(m)' = Seen(m)
  BY <1>0, <1>1, SeenElsewhere, UsesOf
<1>3. req[c].op = "script" => n \notin Names
  BY <1>0, <1>1, RequestFields, StoreAssumption
<1>4. req[c].op # "script" => n \in Names /\ req[c].op = "write" /\ n \in Uses(req[c])
  BY <1>0, <1>1, RequestFields, UsesOf DEF Writes
<1>5. SeenIs /\ SeenIs'
  BY SeenRight, PTL
<1>6. CASE OpenToWrite(c) \/ PutChunk(c)
  <2>1. UNCHANGED reply /\ pc'[c] = "put"
    BY <1>0, <1>1, <1>6 DEF OpenToWrite, PutChunk, Go
  <2>2. n \in Names => Seen(n)' = before'[c]
    BY <1>0, <1>1, <1>5, <2>1 DEF SeenIs, WritersOf
  <2>3. n \in Names => Seen(n) = before'[c]
    <3>1. CASE OpenToWrite(c)
      <4>1. pc[c] = "open" /\ before'[c] = Under(n)
        BY <1>0, <1>1, <3>1 DEF OpenToWrite, At
      <4>2. n \in Names => Seen(n) = Under(n)
        BY <1>0, <1>1, <1>3, <1>4, <4>1, SoleWriter
      <4> QED BY <1>0, <4>1, <4>2
    <3>2. CASE PutChunk(c)
      <4>1. pc[c] = "put" /\ before' = before
        BY <1>0, <3>2 DEF PutChunk, At
      <4> QED BY <1>0, <1>5, <4>1 DEF SeenIs, WritersOf
    <3> QED BY <1>0, <1>6, <3>1, <3>2
  <2>4. Files' = Files
    BY <1>0, <1>2, <2>2, <2>3, FilesSame
  <2> QED BY <1>0, <1>1, <2>1, <2>4, Unseen
<1>7. CASE Close(c)
  <2>1. CASE req[c].op = "script"
    <3>1. UNCHANGED reply
      BY <1>0, <1>7, <2>1 DEF Close, AfterWrite, Go
    <3>2. Files' = Files
      BY <1>0, <1>2, <1>3, <2>1, FilesSame
    <3> QED BY <1>0, <1>1, <3>1, <3>2, Unseen
  <2>2. CASE req[c].op # "script"
    <3>1. /\ reply' = [reply EXCEPT ![c] = FM!Ok] /\ pc'[c] = "idle"
          /\ UNCHANGED <<dir, data>> /\ pc[c] = "put" /\ pos[c] = Len(t)
      BY <1>0, <1>1, <1>7, <2>2 DEF Close, At, AfterWrite, Finish
    <3>2. n \in DOMAIN dir /\ data[dir[n]] = t
      <4>1. t \in Texts
        BY <1>0, <1>1, RequestFields, StoreAssumption DEF Texts
      <4> QED BY <1>0, <1>1, <3>1, <4>1, BeginningEnds DEF Footing
    <3>3. WritersOf(n)' = {}
      <4> SUFFICES ASSUME NEW d \in Clients, pc'[d] = "put", req[d].name = n PROVE FALSE
        BY <1>0, <1>1 DEF WritersOf
      <4>1. d # c /\ pc[d] = "put"
        BY <1>0, <1>1, <3>1, OthersHold DEF CalmInv, AliasInv
      <4>2. {c, d} \subseteq WritersOf(n)
        BY <1>0, <1>1, <3>1, <4>1 DEF WritersOf
      <4> QED BY <1>0, <1>4, <1>5, <2>2, <4>1, <4>2 DEF SeenIs
    <3>4. Seen(n)' = FM!Text(t)
      <4>1. Under(n)' = FM!Text(t)
        BY <1>0, <3>1, <3>2 DEF Under, Found, FM!Text
      <4> QED BY <1>0, <1>4, <1>5, <2>2, <3>3, <4>1 DEF SeenIs
    <3>5. Files' = FM!Put(Files, n, t)
      BY <1>0, <1>2, <1>4, <2>2, <3>4, FilesPut
    <3> QED BY <1>0, <1>1, <1>4, <2>2, <3>1, <3>5, Answers
  <2> QED BY <1>0, <2>1, <2>2
<1> QED BY <1>0, <1>6, <1>7

\* What changes no name of a file leaves everything as it is seen.
LEMMA SeenSame ==
    ASSUME CalmInv, CalmInv', Calm, Calm', NEW c \in Clients, Handler(c),
           Changes(req[c]) \intersect Names = {}
    PROVE  Files' = Files
  BY SeenElsewhere, FilesSame

LEMMA SimulateRead ==
    ASSUME CalmInv, CalmInv', Calm, Calm', NEW c \in Clients,
           Look(c) \/ OpenToRead(c) \/ GetChunk(c) \/ GotAll(c)
    PROVE  Promise!Next \/ UNCHANGED Promise!vars
<1> DEFINE n == req[c].name
<1>1. /\ UNCHANGED <<up, world, req, dir, data>> /\ Handler(c)
      /\ pc[c] \in {"look", "openread", "get"}
      /\ req[c] \in FM!Request
      /\ req[c].op \in Reads \union {"delete", "rename", "script"}
      /\ DOMAIN pc = Clients /\ Footing(c) /\ reply[c] = FM!Pending
  BY DEF Look, OpenToRead, GetChunk, GotAll, At, Handler, CalmInv, Shaped, AliasInv, Typed,
         TypeOK, InPlace
<1>2. req[c].op # "script" => n \in Names /\ n \in Uses(req[c])
  BY <1>1, RequestFields, UsesOf DEF Reads
<1>3. req[c].op # "script" =>
         /\ Seen(n) = Under(n)
         /\ n \in DOMAIN Files <=> n \in DOMAIN dir
         /\ n \in DOMAIN Files => Files[n] = data[dir[n]]
  BY <1>1, <1>2, SoleWriter, FilesUnder
<1>4. Files' = Files
  <2>1. \A m \in Names : m \notin Changes(req[c]) => Seen(m)' = Seen(m)
    BY <1>1, SeenElsewhere
  <2>2. \A m \in Names : m \in Changes(req[c]) => Seen(m)' = Seen(m)
    <3> SUFFICES ASSUME NEW m \in Names, m \in Changes(req[c]) PROVE Seen(m)' = Seen(m)
      OBVIOUS
    <3>1. pc[c] = "look" /\ m \in Uses(req[c])
      BY <1>1, RequestFields, UsesOf, StoreAssumption
         DEF Reads, Writes, CalmInv, AliasInv, Typed, InPlace
    <3>2. Seen(m) = Under(m) /\ WritersOf(m) = {}
      BY <1>1, <3>1, SoleWriter
    <3>3. WritersOf(m)' = {}
      <4>1. pc'[c] # "put" /\ \A d \in Clients \ {c} : pc'[d] = pc[d]
        BY <1>1, <3>1, OthersHold
           DEF Look, OpenToRead, GetChunk, GotAll, At, Go, Finish, CalmInv, AliasInv
      <4> QED BY <1>1, <3>2, <4>1 DEF WritersOf
    <3>4. SeenIs'
      BY SeenRight, PTL
    <3>5. Under(m)' = Under(m)
      BY <1>1 DEF Under, Found
    <3> QED BY <3>2, <3>3, <3>4, <3>5 DEF SeenIs
  <2> QED BY <2>1, <2>2, FilesSame
<1>5. CASE UNCHANGED reply
  BY <1>1, <1>4, <1>5, Unseen
<1>6. CASE Look(c) /\ ~Found(n)
  <2>1. reply' = [reply EXCEPT ![c] = FM!Missing] /\ req[c].op # "script"
    BY <1>1, <1>6 DEF Look, At, Finish, CalmInv, AliasInv, Typed, InPlace, Reads
  <2>2. n \notin DOMAIN Files
    BY <1>3, <1>6, <2>1 DEF Found
  <2> QED BY <1>1, <1>4, <2>1, <2>2, Answers DEF Reads
<1>7. CASE GotAll(c) /\ req[c].op # "script"
  <2>1. /\ pc[c] = "get" /\ pos[c] >= Len(data[fd[c]])
        /\ reply' = [reply EXCEPT ![c] = FM!Told(req[c], got[c])]
    BY <1>7 DEF GotAll, At, Finish
  <2>2. /\ n \in DOMAIN dir /\ fd[c] = dir[n]
        /\ pos[c] <= Len(data[dir[n]]) /\ got[c] = Beginning(data[dir[n]], pos[c])
    BY <1>1, <2>1 DEF Footing
  <2>3. data[dir[n]] \in Texts /\ pos[c] \in Nat
    BY <2>2 DEF CalmInv, AliasInv, Typed, TypeOK
  <2>4. pos[c] = Len(data[dir[n]])
    BY <2>1, <2>2, <2>3 DEF Texts
  <2>5. got[c] = Files[n] /\ n \in DOMAIN Files
    BY <1>3, <1>7, <2>2, <2>3, <2>4, BeginningEnds
  <2>6. req[c].op \in {"read", "download"}
    BY <1>1, <1>7, <2>1 DEF CalmInv, AliasInv, Typed, InPlace, Reads
  <2> QED BY <1>1, <1>4, <2>1, <2>5, <2>6, Answers
<1>8. CASE OpenToRead(c)
  BY <1>1, <1>5, <1>8 DEF OpenToRead, At, Go, Footing, Found
<1>9. CASE (Look(c) /\ Found(n)) \/ GetChunk(c) \/ (GotAll(c) /\ req[c].op = "script")
  BY <1>5, <1>9 DEF Look, GetChunk, GotAll, Go
<1> QED BY <1>6, <1>7, <1>8, <1>9

\* A name is given up, or another one takes its file over.
LEMMA SimulateChange ==
    ASSUME CalmInv, CalmInv', Calm, Calm', NEW c \in Clients, Remove(c) \/ Move(c)
    PROVE  Promise!Next
<1>0. PICK n, k : n = req[c].name /\ k = req[c].to
  OBVIOUS
<1>1. /\ UNCHANGED <<up, world, req, data>> /\ Handler(c) /\ pc[c] = "act"
      /\ pc'[c] = "idle" /\ (\A d \in Clients \ {c} : pc'[d] = pc[d])
      /\ req[c] \in FM!Request /\ Footing(c) /\ reply[c] = FM!Pending
  BY DEF Remove, Move, At, Finish, Handler, CalmInv, Shaped, AliasInv, Typed, TypeOK,
         InPlace
<1>2. n \in DOMAIN dir
  BY <1>0, <1>1 DEF Footing
<1>3. \A m \in Names : m \in Uses(req[c]) =>
          WritersOf(m)' = {} /\ Seen(m) = Under(m) /\ Seen(m)' = Under(m)'
  <2> SUFFICES ASSUME NEW m \in Names, m \in Uses(req[c])
               PROVE  WritersOf(m)' = {} /\ Seen(m) = Under(m) /\ Seen(m)' = Under(m)'
    OBVIOUS
  <2>1. WritersOf(m) = {} /\ Seen(m) = Under(m)
    BY <1>1, SoleWriter
  <2>2. WritersOf(m)' = {}
    BY <1>1, <2>1 DEF WritersOf
  <2>3. SeenIs'
    BY SeenRight, PTL
  <2> QED BY <2>1, <2>2, <2>3 DEF SeenIs
<1>4. CASE Remove(c)
  <2>1. /\ req[c].op = "delete" /\ dir' = FM!Without(dir, n)
        /\ reply' = [reply EXCEPT ![c] = FM!Ok]
    BY <1>0, <1>4 DEF Remove, Finish
  <2>2. n \in Names /\ n \in Uses(req[c]) /\ Changes(req[c]) = {n}
    BY <1>0, <1>1, <2>1, RequestFields, UsesOf
  <2>3. n \in DOMAIN Files
    BY <1>2, <1>3, <2>2, FilesUnder
  <2>4. Under(n)' = FM!Missing
    BY <2>1 DEF Under, Found, FM!Without, FM!Missing
  <2>5. Seen(n)' = FM!Missing
    BY <1>3, <2>2, <2>4
  <2>6. \A m \in Names \ {n} : Seen(m)' = Seen(m)
    BY <1>1, <2>2, SeenElsewhere
  <2>7. Files' = FM!Without(Files, n)
    BY <2>2, <2>5, <2>6, FilesWithout
  <2> QED BY <1>0, <1>1, <2>1, <2>3, <2>7, Answers
<1>5. CASE Move(c)
  <2>1. /\ req[c].op = "rename" /\ dir' = FM!Moved(dir, n, k)
        /\ reply' = [reply EXCEPT ![c] = FM!Ok]
    BY <1>0, <1>2, <1>5 DEF Move, Finish, Found
  <2>2. /\ n \in Names /\ k \in Names /\ n \in Uses(req[c]) /\ k \in Uses(req[c])
        /\ Changes(req[c]) = {n, k}
    BY <1>0, <1>1, <2>1, RequestFields, UsesOf
  <2>3. n \in DOMAIN Files /\ Files[n] = data[dir[n]]
    BY <1>2, <1>3, <2>2, FilesUnder
  <2>4. \A m \in Names \ {n, k} : Seen(m)' = Seen(m)
    BY <1>1, <2>2, SeenElsewhere
  <2>5. Files' = FM!Moved(Files, n, k)
    <3>1. CASE n = k
      <4>1. Under(n)' = Under(n)
        BY <1>1, <2>1, <3>1 DEF FM!Moved, Under, Found
      <4>2. Files' = Files
        BY <1>3, <2>2, <2>4, <3>1, <4>1, FilesSame
      <4> QED BY <3>1, <4>2 DEF FM!Moved
    <3>2. CASE n # k
      <4>1. /\ DOMAIN dir' = (DOMAIN dir \ {n}) \union {k}
            /\ dir'[k] = dir[n]
        BY <2>1, <3>2 DEF FM!Moved, FM!Put, FM!Without
      <4>2. Under(n)' = FM!Missing
        BY <3>2, <4>1 DEF Under, Found, FM!Missing
      <4>3. Under(k)' = FM!Text(Files[n])
        BY <1>1, <2>3, <4>1 DEF Under, Found, FM!Text
      <4>4. Seen(n)' = FM!Missing /\ Seen(k)' = FM!Text(Files[n])
        BY <1>3, <2>2, <4>2, <4>3
      <4>5. Files' = FM!Put(FM!Without(Files, n), k, Files[n])
        BY <2>2, <2>4, <3>2, <4>4, FilesMoved
      <4> QED BY <3>2, <4>5 DEF FM!Moved
    <3> QED BY <3>1, <3>2
  <2> QED BY <1>0, <1>1, <2>1, <2>3, <2>5, Answers
<1> QED BY <1>4, <1>5

LEMMA SimulateList ==
    ASSUME CalmInv, CalmInv', Calm, Calm', NEW c \in Clients,
           OpenDir(c) \/ ListEntry(c) \/ EndList(c)
    PROVE  Promise!Next \/ UNCHANGED Promise!vars
<1>1. /\ UNCHANGED <<up, world, req, dir, data>> /\ Handler(c)
      /\ pc[c] \in {"opendir", "list"}
      /\ req[c] \in FM!Request /\ req[c].op = "list"
      /\ Footing(c) /\ reply[c] = FM!Pending
  BY DEF OpenDir, ListEntry, EndList, At, Handler, CalmInv, Shaped, AliasInv, Typed,
         TypeOK, InPlace
<1>2. Files' = Files
  BY <1>1, UsesOf, SeenSame
<1>3. CASE UNCHANGED reply
  BY <1>1, <1>2, <1>3, Unseen
<1>4. CASE EndList(c)
  <2>1. /\ pc[c] = "list" /\ todo[c] = {}
        /\ reply' = [reply EXCEPT ![c] = FM!Listing(got[c])]
    BY <1>4 DEF EndList, At, Finish
  <2>2. got[c] = DOMAIN dir \intersect Names
    BY <1>1, <2>1 DEF Footing
  <2>3. \A m \in Names : m \in DOMAIN Files <=> m \in DOMAIN dir
    BY <1>1, UsesOf, SoleWriter, FilesUnder
  <2>4. got[c] = DOMAIN Files
    BY <2>2, <2>3 DEF Files
  <2> QED BY <1>1, <1>2, <2>1, <2>4, Answers
<1>5. CASE ListEntry(c)
  <2>1. \A m \in todo[c] : Found(m)
    BY <1>1, <1>5 DEF ListEntry, At, Footing, Found
  <2> QED BY <1>3, <1>5, <2>1 DEF ListEntry, Go
<1>6. CASE OpenDir(c)
  BY <1>3, <1>6 DEF OpenDir, Go
<1> QED BY <1>4, <1>5, <1>6

LEMMA SimulateScript ==
    ASSUME CalmInv, CalmInv', Calm, Calm', NEW c \in Clients,
           Chmod(c) \/ Exec(c) \/ Unlink(c)
    PROVE  Promise!Next \/ UNCHANGED Promise!vars
<1>1. /\ UNCHANGED <<up, world, req>> /\ Handler(c)
      /\ pc[c] \in {"chmod", "exec", "unlink"}
      /\ req[c] \in FM!Request /\ req[c].op = "script"
      /\ Footing(c) /\ reply[c] = FM!Pending
  BY DEF Chmod, Exec, Unlink, At, Handler, CalmInv, Shaped, AliasInv, Typed, TypeOK,
         InPlace
<1>2. Changes(req[c]) \intersect Names = {}
  BY <1>1, UsesOf, RequestFields, StoreAssumption DEF Writes
<1>3. Files' = Files
  BY <1>1, <1>2, SeenSame
<1>4. CASE Chmod(c) \/ Exec(c)
  BY <1>1, <1>3, <1>4, Unseen DEF Chmod, Exec, Go
<1>5. CASE Unlink(c)
  <2>1. pc[c] = "unlink" /\ reply' = [reply EXCEPT ![c] = FM!Ran(got[c])]
    BY <1>5 DEF Unlink, At, Finish
  <2>2. got[c] = req[c].text
    BY <1>1, <2>1 DEF Footing
  <2> QED BY <1>1, <1>3, <2>1, <2>2, Answers
<1> QED BY <1>4, <1>5

LEMMA SimulateInit == Init => Promise!Init
<1> SUFFICES ASSUME Init PROVE Promise!Init
  OBVIOUS
<1>1. \A n : WritersOf(n) = {}
  BY DEF Init, WritersOf
<1>2. \A n \in Names : Seen(n) = IF n \in DOMAIN Initial THEN FM!Text(Initial[n])
                                                      ELSE FM!Missing
  BY <1>1 DEF Init, Seen, Under, Found
<1>3. Files = Initial
  <2>1. \A n : FM!Text(Initial[n]) # FM!Missing /\ FM!Text(Initial[n]).text = Initial[n]
    BY DEF FM!Text, FM!Missing
  <2>2. {n \in Names : Seen(n) # FM!Missing} = DOMAIN Initial
    BY <1>2, <2>1, StoreAssumption
  <2>3. \A n \in DOMAIN Initial : Seen(n).text = Initial[n]
    BY <1>2, <2>1, StoreAssumption
  <2>4. Files = [n \in DOMAIN Initial |-> Initial[n]]
    BY <2>2, <2>3 DEF Files
  <2> QED BY <2>4, StoreAssumption
<1> QED BY <1>3 DEF Init, Promise!Init, Promise!NoRequest, Promise!Missing, FM!NoRequest,
                   FM!Missing, Map

LEMMA SimulateStep == CalmInv /\ [Next]_vars => [Promise!Next]_(Promise!vars)
<1> SUFFICES ASSUME CalmInv, [Next]_vars
             PROVE  Promise!Next \/ UNCHANGED Promise!vars
  BY DEF Promise!vars
<1>1. CalmInv'
  BY CalmStep
<1>2. world' = world
  BY WorldStays
<1>3. CASE ~Calm
  BY <1>2, <1>3 DEF Calm, Promise!vars, Map
<1>4. CASE Calm /\ Still
  <2>1. UNCHANGED <<world, req, reply, dir, data, pc, before>>
    BY <1>4 DEF Still, rest
  <2>2. Files' = Files
    BY <2>1 DEF Files, Seen, Under, Found, WritersOf
  <2> QED BY <2>1, <2>2, Unseen
<1>5. ASSUME Calm, NEW c \in Clients, NEW r \in FM!Request, Call(c, r)
      PROVE  Promise!Next
  BY <1>1, <1>2, <1>5, SimulateCall DEF Calm
<1>6. ASSUME Calm, NEW c \in Clients, Handler(c)
      PROVE  Promise!Next \/ UNCHANGED Promise!vars
  <2>1. Calm' /\ ~WriteFails(c)
    BY <1>2, <1>6 DEF Calm, WriteFails
  <2> QED BY <1>1, <1>6, <2>1, SimulateWrite, SimulateRead, SimulateChange, SimulateList,
             SimulateScript DEF Handler
<1> QED BY StillOrNot, <1>3, <1>4, <1>5, <1>6

\* Requests that do not fail, none of which changes a name that another one uses,
\* behave as if each took place at one moment, however their calls of the file
\* system interleave: the store implements FileMap.
THEOREM ApartIsAtomic == Spec => FileMapSpec
<1>1. Init => CalmInv
  BY CalmInit
<1>2. CalmInv /\ [Next]_vars => CalmInv'
  BY CalmStep
<1>3. Init => Promise!Init
  BY SimulateInit
<1>4. CalmInv /\ [Next]_vars => [Promise!Next]_(Promise!vars)
  BY SimulateStep
<1> QED BY <1>1, <1>2, <1>3, <1>4, PTL DEF Spec, FileMapSpec, Promise!Spec

=============================================================================
