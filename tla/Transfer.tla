------------------------------ MODULE Transfer -----------------------------
(***************************************************************************)
(* One file goes from the controller to a server or back: uploadFile and   *)
(* downloadFile of control/core/TaskManager.cpp, the request function of   *)
(* control/http/HttpClient.cpp, and what handle_client of server/main.cpp  *)
(* does with the two requests.                                             *)
(*                                                                         *)
(* A message is a sequence of characters: a head of two, which a cut may   *)
(* divide, and a body.  A body is an object in JSON: Open, what it says,   *)
(* Close.  TCP delivers a prefix of what was written, in pieces of any     *)
(* size.  Names, and how the requests of several controllers meet in one   *)
(* store, are the matter of FileStore.                                     *)
(***************************************************************************)
EXTENDS Base64

CONSTANTS Texts,      \* contents of files
          NoFile,
          MaxCalls,   \* bound: calls of uploadFile and downloadFile
          MaxFaults   \* bound: connections refused or broken, streams that fail

ASSUME TransferAssumption == /\ Texts \subseteq Seq(Byte)
                             /\ NoFile \notin Seq(Byte)
                             /\ MaxCalls \in Nat /\ MaxFaults \in Nat

Open == -2
Close == -3
Success == -4   \* {"success", true}
Content == -5   \* {"content", ...}
Headers == <<-6, -7>>

VARIABLES
  original,  \* history: the contents at first, [local, remote]
  local,     \* the controller's file
  remote,    \* the server's file of the same name
  spoilt,    \* history: a stream failed or two requests overlapped, unnoticed
  served,    \* history: what the server's file held when it was stored or sent
  uploads,   \* uploads the server works on, those of calls that gave up among them
  call,      \* the call in progress
  calls,     \* calls made
  faults,    \* connections refused or broken, streams that failed
  pc,        \* the controller's position
  request,   \* the request, on its way to the server
  wire,      \* what the server wrote and the controller has not read
  peer,      \* the server's end: none, open, closed (eof) or reset
  body,      \* what the controller has of the body
  failbit,   \* of the stream ss
  result     \* what the last call returned

files == <<original, local, remote, spoilt, served, uploads>>
conn == <<request, wire, peer>>
reading == <<body, failbit>>
vars == <<files, call, calls, faults, pc, conn, reading, result>>

Object(s) == <<Open>> \o s \o <<Close>>

\* Only the beginning is looked at (a mutant).
ParsesLoosely(b) == Len(b) >= 2 /\ b[1] = Open

\* json::parse takes a whole object and throws for anything else.
Parses(b) == Len(b) >= 2 /\ b[1] = Open /\ b[Len(b)] = Close

Said(b) == SubSeq(b, 2, Len(b) - 1)
Holds(b, mark) == Parses(b) /\ Said(b) # <<>> /\ Said(b)[1] = mark

\* What a write that fails in the midst may have written.
Prefixes(t) == {SubSeq(t, 1, k) : k \in 0..(Len(t) - 1)}

Init == /\ local \in Texts \union {NoFile}
        /\ remote \in Texts \union {NoFile}
        /\ original = [local |-> local, remote |-> remote]
        /\ spoilt = FALSE /\ served = NoFile /\ uploads = {}
        /\ call = "none" /\ calls = 0 /\ faults = 0 /\ pc = "idle"
        /\ request = <<>> /\ wire = <<>> /\ peer = "none"
        /\ body = <<>> /\ failbit = FALSE
        /\ result = "none"

-----------------------------------------------------------------------------
(* The controller: uploadFile, downloadFile *)

\* A file that cannot be opened is not uploaded.
Call(c) == /\ pc = "idle"
           /\ calls < MaxCalls
           /\ calls' = calls + 1
           /\ call' = c
           /\ IF c = "upload" /\ local = NoFile
              THEN pc' = "idle" /\ result' = "false" /\ UNCHANGED request
              ELSE /\ pc' = "connect" /\ result' = "none"
                   /\ request' = Headers \o (IF c = "upload" THEN Object(Encode(local))
                                          ELSE <<>>)
           /\ UNCHANGED <<files, faults, wire, peer, reading>>

\* What the caller makes of the text it gets, and the end of the call.  That the
\* local file cannot be opened is noticed, that it cannot be written is not.
Return(text) ==
    /\ \/ /\ ~Holds(text, IF call = "upload" THEN Success ELSE Content)
          /\ result' = "false"
          /\ UNCHANGED <<local, spoilt, faults>>
       \/ /\ call = "upload" /\ Holds(text, Success)
          /\ result' = "true"
          /\ UNCHANGED <<local, spoilt, faults>>
       \/ /\ call = "download" /\ Holds(text, Content)
          /\ \/ /\ local' = Decode(Tail(Said(text)))
                /\ result' = "true" /\ UNCHANGED <<spoilt, faults>>
             \/ /\ faults < MaxFaults /\ faults' = faults + 1
                /\ \/ result' = "false" /\ UNCHANGED <<local, spoilt>>
                   \/ /\ local' \in Prefixes(Decode(Tail(Said(text))))
                      /\ spoilt' = TRUE
                      /\ result' = "true"
    /\ pc' = "idle"
    /\ request' = <<>> /\ wire' = <<>> /\ peer' = "none"
    /\ body' = <<>> /\ failbit' = FALSE
    /\ UNCHANGED <<original, remote, served, uploads, call, calls>>

-----------------------------------------------------------------------------
(* The controller: request() *)

Connect == /\ pc = "connect"
           /\ pc' = "head"
           /\ peer' = "open"
           /\ UNCHANGED <<files, call, calls, faults, request, wire, reading,
                          result>>

\* connect or write throws: the caller gets "{}", which holds nothing.
Refused == /\ pc = "connect"
           /\ faults < MaxFaults
           /\ result' = "false"
           /\ pc' = "idle"
           /\ request' = <<>>
           /\ faults' = faults + 1
           /\ UNCHANGED <<files, call, calls, wire, peer, reading>>

\* read_until returns with the head and whatever came in the same piece; the
\* lines of the head are skipped.  Inserting an empty buffer into ss sets its
\* failbit, so that nothing can be inserted later.
ReadHead(k) ==
    /\ pc = "head"
    /\ k \in Len(Headers)..Len(wire)
    /\ pc' = "rest"
    /\ body' = SubSeq(wire, Len(Headers) + 1, k)
    /\ failbit' = (k = Len(Headers))
    /\ wire' = SubSeq(wire, k + 1, Len(wire))
    /\ UNCHANGED <<files, call, calls, faults, request, peer, result>>

\* The connection ends within the head: there is no line to stop at.
ReadNoHead == /\ pc = "head"
              /\ peer \in {"closed", "reset"}
              /\ Len(wire) < Len(Headers)
              /\ Return(<<>>)

\* Whatever is left until the server closes; it is dropped when the connection
\* breaks instead, and when ss has its failbit set.
ReadRest == /\ pc = "rest"
            /\ peer \in {"closed", "reset"}
            /\ Return(IF peer = "closed" /\ ~failbit THEN body \o wire ELSE body)

-----------------------------------------------------------------------------
(* The server: handle_client with /files/upload and /files/download *)

\* The socket stays open for another request (a mutant).
AnswerKeepAlive(said) == /\ wire' = Headers \o Object(said)
                         /\ request' = <<>>
                         /\ UNCHANGED peer

\* The reply is written and the socket closed with the handler.
Answer(said) == /\ wire' = Headers \o Object(said)
                /\ peer' = "closed"
                /\ request' = <<>>

\* The request has been read to the end of its head, and transfer_exactly the
\* rest of content_length.
Received(r) == SubSeq(r, Len(Headers) + 1, Len(r))

\* An upload is read and decoded.  From here on its handler goes on whatever
\* becomes of the connection.
Receive == /\ call = "upload" /\ peer = "open" /\ request # <<>>
           /\ uploads' = uploads \union {[of |-> calls, at |-> "come",
                                     text |-> Decode(Said(Received(request)))]}
           /\ request' = <<>>
           /\ UNCHANGED <<original, local, remote, spoilt, served, call, calls,
                          faults, pc, wire, peer, reading, result>>

\* A handler has truncated the file and has not written it.
Writing == \E u \in uploads : u.at = "open"

\* Opening truncates the file, which another handler may be writing.  Nobody asks
\* the stream whether it could be opened.
OpenToWrite(u) ==
    /\ u.at = "come"
    /\ \E at \in {"open", "failed"} :
          /\ uploads' = (uploads \ {u}) \union {[u EXCEPT !.at = at]}
          /\ IF at = "open"
             THEN /\ remote' = <<>>
                  /\ spoilt' = (spoilt \/ Writing)
                  /\ UNCHANGED faults
             ELSE /\ faults < MaxFaults /\ faults' = faults + 1
                  /\ spoilt' = TRUE
                  /\ UNCHANGED remote
    /\ UNCHANGED <<original, local, served, call, calls, pc, conn, reading, result>>

\* Each stream writes from the beginning of the file; what is beyond stays.
Overlay(text, file) == text \o SubSeq(file, Len(text) + 1, Len(file))

\* The file is written and closed, and success is answered whatever the stream
\* says, unless the caller has gone.
Write(u) ==
    /\ u.at \in {"open", "failed"}
    /\ \/ /\ remote' = IF u.at = "open" THEN Overlay(u.text, remote) ELSE remote
          /\ UNCHANGED <<spoilt, faults>>
       \/ /\ u.at = "open"
          /\ faults < MaxFaults /\ faults' = faults + 1
          /\ \E p \in Prefixes(u.text) : remote' = Overlay(p, remote)
          /\ spoilt' = TRUE
    /\ uploads' = uploads \ {u}
    /\ IF u.of = calls /\ peer = "open"
       THEN Answer(<<Success>>) /\ served' = remote'
       ELSE UNCHANGED <<served, conn>>
    /\ UNCHANGED <<original, local, call, calls, pc, reading, result>>

\* A file that is there is sent.  Nobody asks whether it could be opened after
\* exists(): if not, an empty content is sent.
ServeDownload ==
    /\ call = "download" /\ peer = "open" /\ request # <<>>
    /\ \/ /\ Answer(IF remote = NoFile THEN <<>>
                    ELSE <<Content>> \o Encode(remote))
          /\ spoilt' = (spoilt \/ Writing)
          /\ UNCHANGED faults
       \/ /\ remote # NoFile
          /\ Answer(<<Content>>)
          /\ faults < MaxFaults /\ faults' = faults + 1
          /\ spoilt' = TRUE
    /\ served' = remote
    /\ UNCHANGED <<original, local, remote, uploads, call, calls, pc, reading,
                   result>>

-----------------------------------------------------------------------------
(* The network *)

\* The connection breaks before the server has the whole request: its read
\* throws, and the handler ends without an answer.
BreakRequest == /\ peer = "open" /\ request # <<>>
                /\ faults < MaxFaults
                /\ faults' = faults + 1
                /\ request' = <<>>
                /\ peer' \in {"closed", "reset"}
                /\ UNCHANGED <<files, call, calls, pc, wire, reading, result>>

\* It breaks while the server works on the upload.
Orphan == /\ peer = "open" /\ request = <<>>
          /\ faults < MaxFaults
          /\ faults' = faults + 1
          /\ peer' = "reset"
          /\ UNCHANGED <<files, call, calls, pc, request, wire, reading, result>>

\* It breaks after a part of the answer, or the server dies writing it.
BreakAnswer == /\ peer = "closed" /\ wire # <<>>
               /\ faults < MaxFaults
               /\ faults' = faults + 1
               /\ \E k \in 0..(Len(wire) - 1) : wire' = SubSeq(wire, 1, k)
               /\ peer' \in {"closed", "reset"}
               /\ UNCHANGED <<files, call, calls, pc, request, reading, result>>

-----------------------------------------------------------------------------
Controller == \/ Connect \/ ReadNoHead \/ ReadRest
              \/ \E k \in Len(Headers)..Len(wire) : ReadHead(k)

Server == \/ Receive \/ ServeDownload
          \/ \E u \in uploads : OpenToWrite(u) \/ Write(u)

Finished == pc = "idle" /\ calls = MaxCalls /\ uploads = {} /\ UNCHANGED vars

Next == \/ \E c \in {"upload", "download"} : Call(c)
        \/ Controller \/ Refused \/ Server
        \/ BreakRequest \/ Orphan \/ BreakAnswer \/ Finished

\* The controller's thread goes on, and a server that got a request answers:
\* there is no timeout on either side.
Fairness == WF_vars(Controller) /\ WF_vars(Server)

Spec == Init /\ [][Next]_vars /\ Fairness

-----------------------------------------------------------------------------
(* Properties *)

File == Seq(Byte) \union {NoFile}

\* The type of the state: the files hold bytes whatever was cut, and between
\* calls the controller has no connection (request and HttpClient own nothing).
TypeOK == /\ original \in [local : File, remote : File]
          /\ local \in File /\ remote \in File /\ served \in File
          /\ spoilt \in BOOLEAN
          /\ uploads \subseteq [of : 1..MaxCalls, at : {"come", "open", "failed"},
                               text : Seq(Byte)]
          /\ call \in {"none", "upload", "download"}
          /\ calls \in 0..MaxCalls /\ faults \in 0..MaxFaults
          /\ pc \in {"idle", "connect", "head", "rest"}
          /\ peer \in {"none", "open", "closed", "reset"}
          /\ (pc \in {"idle", "connect"}) = (peer = "none")
          /\ failbit \in BOOLEAN
          /\ result \in {"none", "true", "false"}

\* However the messages are cut and whichever connections break, a file is one
\* of the two that were there at first, whole: neither side ever takes a part of
\* a message for a file, and a download that fails leaves the old file.  Excepted
\* are a file that a handler has truncated and not yet written, and all that
\* follows once a stream could not be opened or written, or a handler opened the
\* file while the late upload of an earlier call had it truncated: nobody notices
\* these (handle_client, downloadFile, request).
NeverHalf == ~spoilt => /\ local \in {original.local, original.remote}
                        /\ Writing \/ remote \in {original.local, original.remote}

\* A call that returns true has moved the file: the controller has the bytes that
\* the server's file held when it was stored or sent, through base64, JSON and the
\* pieces of the connection.  Excepted is what NeverHalf excepts: then an empty
\* or a mixed file may pass for a success (uploadFile, downloadFile).
ReportedTrue == pc = "idle" /\ result = "true" /\ ~spoilt => local = served

\* Every call returns, for all that a connection may do, as long as servers
\* answer: no answer leaves the controller waiting for more (request's
\* transfer_all ends because the server closes).
CallEnds == pc # "idle" ~> pc = "idle"
=============================================================================
