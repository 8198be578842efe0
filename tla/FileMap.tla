------------------------------ MODULE FileMap ------------------------------
(***************************************************************************)
(* What a file store promises its clients: a map from names to contents on *)
(* which every request acts at one moment between its call and its answer. *)
(***************************************************************************)
CONSTANTS Clients,      \* each has one request at a time
          Names,        \* the names of files
          Contents,     \* what a file may hold
          Sendable(_),  \* whether a text can be put into a JSON answer
          Initial,      \* the files there are at first
          Stamps,       \* the seconds that name files of scripts
          Scripts       \* texts of scripts

VARIABLES files,        \* the contents of the names that exist
          req,          \* the last request of each client
          reply         \* its answer, or Pending

vars == <<files, req, reply>>

Request == [op : {"write"}, name : Names, text : Contents]
             \union [op : {"read", "download", "delete"}, name : Names]
             \union [op : {"rename"}, name : Names, to : Names]
             \union [op : {"list"}]
             \union [op : {"script"}, name : Stamps, text : Scripts]

NoRequest == [op |-> "none"]

Pending == [is |-> "pending"]
Ok == [is |-> "ok"]
Missing == [is |-> "missing"]
Dropped == [is |-> "dropped"]           \* the connection ends unanswered
Text(t) == [is |-> "text", text |-> t]
Ran(t) == [is |-> "ran", text |-> t]    \* the output of a script
Listing(s) == [is |-> "names", names |-> s]

Init == /\ files = Initial
        /\ req = [c \in Clients |-> NoRequest]
        /\ reply = [c \in Clients |-> Missing]

Call(c) == /\ reply[c] # Pending
           /\ \E r \in Request : req' = [req EXCEPT ![c] = r]
           /\ reply' = [reply EXCEPT ![c] = Pending]
           /\ UNCHANGED files

Put(m, n, v) == [k \in DOMAIN m \union {n} |-> IF k = n THEN v ELSE m[k]]
Without(m, n) == [k \in DOMAIN m \ {n} |-> m[k]]

Answer(c, a) == reply' = [reply EXCEPT ![c] = a]

Write(c) == /\ req[c].op = "write"
            /\ files' = Put(files, req[c].name, req[c].text)
            /\ Answer(c, Ok)

\* A read sends the text as it is, a download encodes it.
Told(r, t) == IF r.op = "download" \/ Sendable(t) THEN Text(t) ELSE Dropped

Read(c) == /\ req[c].op \in {"read", "download"}
           /\ req[c].name \in DOMAIN files
           /\ Answer(c, Told(req[c], files[req[c].name]))
           /\ UNCHANGED files

Delete(c) == /\ req[c].op = "delete"
             /\ req[c].name \in DOMAIN files
             /\ files' = Without(files, req[c].name)
             /\ Answer(c, Ok)

Moved(m, n, k) == IF n = k THEN m ELSE Put(Without(m, n), k, m[n])

Rename(c) == /\ req[c].op = "rename"
             /\ req[c].name \in DOMAIN files
             /\ files' = Moved(files, req[c].name, req[c].to)
             /\ Answer(c, Ok)

NotFound(c) == /\ req[c].op \in {"read", "download", "delete", "rename"}
               /\ req[c].name \notin DOMAIN files
               /\ Answer(c, Missing)
               /\ UNCHANGED files

List(c) == /\ req[c].op = "list"
           /\ Answer(c, Listing(DOMAIN files))
           /\ UNCHANGED files

\* A script runs as it was sent, and leaves nothing.
Script(c) == /\ req[c].op = "script"
             /\ Answer(c, Ran(req[c].text))
             /\ UNCHANGED files

Apply(c) == /\ reply[c] = Pending
            /\ \/ Write(c) \/ Read(c) \/ Delete(c) \/ Rename(c)
               \/ NotFound(c) \/ List(c) \/ Script(c)
            /\ UNCHANGED req

Next == \E c \in Clients : Call(c) \/ Apply(c)

Spec == Init /\ [][Next]_vars

=============================================================================
