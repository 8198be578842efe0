# ServerControl: a TLA+ verification project

ServerControl (`src/`) is a remote-administration system in C++: a server
process that runs shell commands, streams their output to WebSocket clients,
reports CPU load and manages a file store; and an ncurses controller that finds
servers by UDP, sends them HTTP requests and shows the results.  This directory
holds TLA+ modules of its concurrent and stateful parts, the TLC configurations
that check them, and TLAPS proofs.

## 1. Inventory

There are two builds of the server.  `build.sh` compiles `server/main.cpp`, one
file with everything ("the monolith"; `server.cpp.old` is a byte-identical
copy).  `build_modular.sh` compiles `server/main_modular.cpp` with the classes
under `server/websocket`, `server/tasks`, `server/stats`, `server/platform`
("the modular server"); its HTTP handler is a stub.  No build passes `-O`.

| # | Component | State it keeps | Operations | Talks to |
|---|-----------|----------------|------------|----------|
| 1 | Task service, `server/main.cpp` (`handle_client` /exec, /tasks, /logs, /kill, upload auto-install; `runTask`) | `task_counter`, `tasks` map, `tasks_mtx`; per task `command`, `output`, `current_dir`, `running` | one thread per HTTP connection, one detached thread per task | `broadcast_ws` |
| 2 | WebSocket hub, `server/main.cpp` (`ws_connections`, `broadcast_ws`, `on_ws_open/close/message`, `run_websocket_server`) | set of connections, its mutex, `websocket_port` | open, close, ping, broadcast, listen with port fallback | every publisher thread |
| 3 | CPU monitor and sampler, `server/main.cpp` (`getStats`, `cpu_monitor`) | `lastTotal`, `lastIdle` (function statics, unlocked), `last_alert_time` | one tick a second; also sampled by /stats, /system/health-check | hub |
| 4 | Discovery, `server/main.cpp` `discovery_responder` with `control/config/Config.cpp` `Config::load` | ports; list of servers, set of seen addresses | UDP broadcast, 3 rounds of 500 ms, default entry | network |
| 5 | Startup and ports, `main()` of both servers | http / discovery / ws ports | bind, fall back, report | 2, 4 |
| 6 | File store, `server/main.cpp` /files/* | `./storage` on disk | list, download, upload, delete, rename, read, write; one thread each, no lock | 9 |
| 7 | System operations, `server/main.cpp` /system/*, /remote/* | temporary script and backup files named by the second | run a script, backup, kill-process, services, shutdown, reports | OS |
| 8 | Modular classes: `Tasks::Manager`, `WebSocket::Server/Manager`, `Stats::Monitor`, `Platform::API` | as 1-3, with locks placed differently, plus `running_` flags | Execute/Kill/...; Start/Stop; callbacks | each other through callbacks |
| 9 | Controller core, `control/core/TaskManager.cpp`, `control/http/HttpClient.cpp` | `servers`, `selected`, `tasks` with RUNNING/FINISHED | exec, joint exec, refresh, kill, logs, file calls | 1, 6, 7 over HTTP |
| 10 | Controller UI, `control/ui/UI.cpp` | mode, cursors, input buffers, editor buffer, clipboard, perf and alert rings | `handleInput`, `draw` | 9 |
| 11 | Codecs and names: `base64_encode/decode` (twice), `sanitize_filename`, `http_response` | none | pure | 6, 9 |
| 12 | `control/advanced/AdvancedFeatures.h`, `server/files/FileManager.h`, `control/network` | declarations only, no code | - | - |
| 13 | `include/` | vendored asio, websocketpp, nlohmann json, ncurses and system headers | - | external |


### How the parts meet

* Every HTTP connection of the monolith is a detached thread running
  `handle_client`; every task is another one running `runTask`.  They share
  `tasks` under `tasks_mtx`, `task_counter` under nothing, and publish through
  `broadcast_ws`, which holds `ws_connections_mtx` while it sends.
* All WebSocket handlers run on the one thread inside `ws_server.run()`.
* The file requests share nothing in memory; they meet in the file system.
* The controller is one thread.  It blocks in every HTTP request (there is no
  timeout), identifies tasks by id and host name, and files by name; it learns
  what servers do only by asking again.

### What makes each part correct, and what is hard about it

| Part | Correct means | Hard because |
|------|---------------|--------------|
| Task service | one id per command; a client that got an id finds its own command under it; each task's events tell one story that ends once, after it stopped; /logs and the stream agree; every request ends | an unlocked counter, a reference into a map that outlives the lock, `std::thread` and `dump()` that throw, writes to clients under the mutex |
| WebSocket hub | one global order of messages; a connection gets a contiguous piece of it; the handlers come back | connections open and close during the loop; `send` throws; publisher threads and the library thread share one lock |
| Modular task manager | as the task service, through callbacks | `running` is written without the lock by two threads; `Kill` does not kill |
| File store | a request takes place at one moment; no two names share a file; every request is answered | `exists` and `rename`, truncate and write, iterate and `file_size` are separate calls |
| Controller core | the list shows what was started; a finished task has stopped and stays finished; one dead server does not hide others | servers restart and count from 1 again; replies are lost or cut |
| File screen | keys act on the file drawn highlighted; a save goes home; a paste is what was copied; a cut loses nothing | listing at draw and listing at key differ; the clipboard has no server; failures look like empty files |
| Editor | lines and cursor are a text and a place in it | splitting, joining, a column beyond the end |
| CPU sampler, monitor | a load of a stretch of time that ends now; alerts a minute apart, and no load kept silent for longer | unlocked totals; a wall clock |
| Discovery, ports | who listens is found, once; a port that is told is the server's own or one it could not have; who is found serves or is gone | datagrams are lost and repeated; ports move while they are read; one failed send ends the thread; HTTP is bound last |
| Transfers | a file arrives whole or not at all; true means moved; the call returns | replies come in pieces and are cut; base64 and its last group; streams nobody asks; an upload whose caller has gone on to the next call |
| System operations | a script runs as sent and its file goes away | file names by the second |
| Modular WebSocket servers, stats monitor | Stop stops; Start again starts one thread | a detached thread; a flag read once a second |

## 2. Modules

| Module | Models | Composed with |
|--------|--------|---------------|
| `TaskLifecycle` | abstract: fresh ids, running, stopped, announced | implemented by `TaskServer` and `TaskExecutor` |
| `TaskServer` | component 1 | its `log` is what the publishers of `WsHub` send |
| `TaskServer_proof` | proofs about it | |
| `EventStream` | abstract: one log, contiguous views | implemented by `WsHub` |
| `WsHub`, `WsHub_proof` | component 2 | |
| `TaskExecutor`, `TaskExecutor_proof` | `Tasks::Manager` of component 8 | |
| `FileMap` | abstract: names and texts, one request at a moment | implemented by `FileStore`; `FileScreen` takes a request as one of its steps |
| `FileStore`, `FileStore_proof` | component 6, and /system/execute-script of 7 | |
| `Discovery`, `Discovery_proof` | components 4 and 5: a server that starts, the responder, the network, `Config::load`; the port search of `WebSocket::Server` of 8 | |
| `CpuMonitor`, `CpuMonitor_proof` | component 3, and `Stats::Monitor` of 8 | its publishes are broadcasts of `WsHub` |
| `Base64` | `base64_encode`, `base64_decode` of component 11 | used by `Transfer` |
| `Transfer`, `Transfer_proof` | `uploadFile`, `downloadFile` and `request` of component 9 with `handle_client`'s side of them | what `Controller` and `FileScreen` take as one step that may fail |
| `Controller`, `Controller_proof` | component 9, with the loop of 10 that drives it; servers as `TaskLifecycle` shows them, plus restarts | |
| `FileScreen` | file screen of component 10 with the file calls of 9 | `Controller_proof` holds its proofs |
| `TextBuffer` | abstract: a text and a place in it | implemented by `FileEditor` |
| `FileEditor` | mode FILE_EDITOR of component 10 | opened and saved by `FileScreen` |
| `MC*` | constants for TLC | |

Modules proved about declare no RECURSIVE operator.  Operators whose name says
what they do wrong (`LoadNoIncrement`, `TakeTwice`, ..., each marked "a
mutant") are plausible bugs: put in the place of the definition they stand
beside, each makes TLC find one property violated, which is how we know that
the property says something about the code.

### TaskServer

One connection (`h \in Handlers`) is one `handle_client` thread that serves one
request, and the `runTask` thread it may start; `conn[h]` and `thr[h]` are their
program counters.  A step is what happens between two places where another
thread can be seen:

* `++task_counter` and the `std::to_string(task_counter)` after it are `Load`,
  `Store`, `Reload`: the build has no `-O`, so these are three accesses.  A
  data race is undefined behaviour; the interleavings of the accesses are the
  outcomes this build produces.  Increments may overlap in every run.  `clash` is
  a history variable: an increment has found the counter changed in its hands, at
  its store or at its second load.  That ids are fresh, and what follows from it,
  is stated until there is a clash; `RepliedTaskIsOwn` also says what is left
  after one, and `tasks_live` and `tasks_race` assume nothing of it.
* `Insert` is the critical section of /exec (and of the auto-install of
  /files/upload), the failing `std::thread` included.  `TakeLock` ... `SendLocked`
  are /tasks, /logs, /kill: the reply is written with the mutex held, so holding
  it is a state of its own, and the write may fail.
* `Begin` reads the command through the reference (`ran[h]` is whose command it
  got); `ChangeDir`, `PublishDir`, `Popen`, `PublishStart`, `ReadChunk`,
  `AppendChunk`, `PublishChunk`, `ReadEof`, `PublishComplete` follow `runTask`
  line by line.  A publish is one append to `log`, which is what `WsHub`
  guarantees of `broadcast_ws`.
* Between `ReadChunk` and `AppendChunk` the output is being modified without the
  mutex; what a /logs copies in between (`copy`) may be torn.  `LogsMatchStream`
  compares every copy with what was streamed at that moment.
* `PublishChunk` may throw: `json::dump` refuses text that is not UTF-8, `fgets`
  cuts lines every 127 bytes, and a detached thread catches nothing, so the
  process ends (`up`).
* `Pkill` is `pkill -P <task id>`: it hits the children of the process whose pid
  the task id happens to be: the tasks' shells when that is the server, the
  server when it is the server's parent, otherwise nobody.

Left out: texts of commands, output and replies; the `current_dir` of a task.

### WsHub

`mutex` is `ws_connections_mtx` held by a publisher in `broadcast_ws`, `todo` the
connections its loop has not reached: `BeginBroadcast`, `SendOne` for each
connection in any order (the set is ordered by address), `EndBroadcast`.  The
handlers are one step each, since they do all they do under the mutex or touch
only their own connection.  `sock` is the library's view of a connection;
`send` throws unless that is open, and the code catches it per connection.
`log` and `since` are history variables.

### TaskExecutor

`Execute` and `Kill` of `Tasks::Manager` are one step each (they hold
`tasks_mutex_`), `RunTask` is a step per unlocked access or callback.  `out` says
that `task.output` has what the command printed, `moved` that `task.current_dir`
is where a cd leads; a cd leaves the output empty.  A second
`Execute` cannot overlap an increment, because the counter is under the mutex;
that is the difference to `TaskServer`.  `main_modular.cpp` sets the callbacks
but its HTTP stub calls neither `Execute` nor `Kill`: they are modelled as the
class offers them.

### Controller

`pc` is the place in `UI::run`: refresh, draw, wait a second for a key, carry it
out.  A loop over servers is a step per server (`batch` holds those to come),
because servers change in between.  A request that gets no reply is `"{}"`, a
reply that is cut is a `json::parse` that throws through `main`; `proc` is then
"crashed".  Servers restart with ids from 1 (`inc` counts incarnations and is
only read by properties).  `RunCommand` stands for `runCommand`,
`runJointCommand` and the multi-server prompt as the class offers them (the
prompts themselves take no letters, section 5).  `Name` is the host name each
server reported; servers may share one, and entries carry the name alone.
Properties about the match of an entry with its task are stated for entries whose
server has a name of its own (`OwnName`), whatever names the others share.
Left out: what is drawn, and
requests that return a report and keep nothing.

### FileStore

A step is a file system call; `dir` maps names to inodes, `data` inodes to
texts, `fd` and `pos` are an open file.  `OpenToWrite` truncates or creates,
`PutChunk` writes at the position, `Close` answers success without asking the
stream; `WriteFails` is an open or a write that failed.  `Look`, `OpenToRead`,
`GetChunk`, `GotAll` are /files/read and /files/download; `Remove` and `Move` are
`exists` followed, one step later, by the change; `OpenDir`, `ListEntry`,
`EndList` walk the directory, in any order and without a snapshot.  /files/upload
writes as /files/write does.  `world` is chosen at first and never changes:
whether clients keep off names somebody is changing (`apart`), and whether
opening for writing, writing and popen may fail (`failing`).  When `popen`
returns NULL, `fgets` does not survive it: `PopenFails` ends the server (`up`).

/system/execute-script writes its script like a file, under a name of its own in
/tmp: a second of the clock (`Stamps`).  `Chmod`, `Exec`, `Unlink` follow; the
shell reads the file, as it is by then, with the steps of a read.  The kernel
refuses to execute a file that somebody has open for writing (`Busy`) or has not
made executable (`runnable`); the handler then answers with no output and still
removes the name.  What a script prints is the text that was run.

### Discovery

`world` is what a server finds on its host: which build it is, which ports others
hold there, and whether the host's name resolves to an address of the network
(`named`; else HTTP is bound to 127.0.0.1 and `http` is "loopback").  `TryListen` is one of the ten
attempts of a WebSocket server (one of them in the monolith, on a thread of its
own; four in the modular build, one after the other before discovery starts),
`BindHttp` the end of `main`'s half second, whatever the threads have done by
then; when it fails `main` returns and everything ends.  `Receive` reads the
ports into the answer (`draft`) and `Send` sends it: the ports may move in
between.  A probe is one request and its answer; the network loses or repeats
it.  The controller is `Scan`, then `Broadcast`, `Take`, `EndRound` for each
round.  `Told` is what clients are told of a server's WebSocket
ports: the answers (`Answered`) and, of a modular server, what the controller
made of them; `Believed` is what its list says, which for a monolith is the
controller's own default, because the keys of the answer differ.  That an endpoint
can listen again after a failed attempt is what websocketpp does:
`clean_up_listen_after_error` closes the acceptor and leaves the state as it was.
The model is of Linux: `FindAvailableIP` and netsh are left out, and two
listeners never share a port.

### CpuMonitor

A sample is five steps, since `getStats` has no lock: `ReadStat`, the two reads
of the statics (`DiffTotal`, `DiffIdle`), and the two stores.  Time is in seconds, a second's load is 0 or 1, and a load is kept
as a fraction.  `stamp` is the moment a loop had its sample, as ticks and as
shifts of the wall clock, so that properties speak of real time while the code
compares wall clocks.  `world` says which build it is, and, for the class with
Start and Stop, whether its caller waits for the old loop (`patient`).
`main_modular.cpp` calls Start once and Stop never.  Time ends at `MaxTicks`: there
a loop that runs does not go to sleep again, and one that sleeps sleeps through a
tick like any other.

### Transfer, Base64

One file of each side, one call at a time.  A message is two characters of
headers and a body; `ReadHead(k)` is `read_until` that returns with `k`
characters, `failbit` what inserting an empty buffer does to the stream, `ReadRest`
`transfer_all` until the server closes.  `BreakRequest`, `Orphan` and
`BreakAnswer` are connections that break before, during and after the service of
a request.  `uploads` are the uploads a handler has read and not finished; one
whose caller has gone goes on beside the next call.  `OpenToWrite` truncates the
file, `Write` writes it from its beginning over whatever another handler has put
there (`Overlay`) and answers with success; either may fail without anybody
asking.  `ServeDownload` sends what the file holds, or an empty content when it
could not be opened; a file is read in one step, as one that fits a buffer of
the stream is.  `spoilt` is a history variable: a stream failed, or a handler
opened the file while another had it truncated.
`Encode` and `Decode` give each character of the result by its place instead of
looping; the npos that `find('\0')` gives for missing characters is the 255 it is
in a char.  `UI.cpp` calls neither function: they are modelled as the class
offers them, under a name `sanitize_filename` accepts.

### FileScreen

`step` is what the one thread does next: draw (which lists the directory), a key
(which lists it again), or a request that key asks for.  `world` says whether
other clients change files, whether requests and answers are lost, and which
texts are not UTF-8 (they cannot be read through /files/read and look empty).
`view` holds the entries that are drawn: the first `Rows` of the listing, for the
loop of `drawServerFiles` stops at the end of the screen, while the cursor does
not.
A text is its lines and whether the last one is ended: `getline` and the save
loop tell these apart.  `target`, `buffer` and `edit` go back to a fixed value
when the code no longer reads them.  Left out: directories in storage, names
with blanks (URLs are not encoded), the other screens.

### FileEditor

`lines`, `row`, `col` are the code's; an access beyond the end of a string is
`Throws`, after which the controller is gone (`running`).  `TextBuffer` sees the
lines joined by `Newline` and the offset of the cursor, a column beyond its line
counting as its end.

## 3. Runs

Eleven runs pass, one exhibits a disagreement between the code and a document.
Deadlock is checked in all of them; where the system may stop (all requests
over, process gone) a stuttering disjunct says so.  No run lists a module's
`TypeOK`: it is the theorem `TypeCorrect` of the module's proofs.

| Run | Instance | Distinct states | Shows |
|-----|----------|-----------------|-------|
| `hub` | 2 publishers x 1 broadcast, 2 connections, 1 ping each | 8 thousand | `ContiguousView`, `OpenMissesNothing`, refinement of `EventStream`, `HandlersReturn` |
| `tasks` | 2 connections, every request, 2 lines of output, server is pid 1 | 1.5 million | `UniqueUnlessClash`, `RepliedTaskIsOwn`, `StoryInOrder`, `LogsMatchStream`, refinement of `TaskLifecycle` |
| `tasks_live` | 2 connections, /exec and /kill, 1 line, server's parent is pid 1 | 147 thousand | `EveryRequestEnds`, `EndIsAnnounced` |
| `manager` | 3 calls of Execute, any kills | 97 thousand | `CompletionIsLast`, refinement of `TaskLifecycle`, `EndIsAnnounced` |
| `controller` | 3 servers, 2 of them of one name, 1 task an incarnation, 1 fault | 614 thousand | `FinishedIsTrue`, `StartedIsListed`, `FinishedIsFinal`, `StopIsShown` |
| `files` | 2 clients, 3 requests, 2 names, 2 seconds, 3 texts of 1 or 2 chunks, one not UTF-8; apart without failures, and overlapping with failures | 1.2 million | `NoAlias`, `Answered`, `NoLitter`, refinement of `FileMap` |
| `screen` | 2 servers, 2 names (a new file and its copy), 2 bodies, 1 row on the screen; alone, alone with a body that is not UTF-8, and with other clients and losses | 2.0 million | `ActsOnWhatIsShown`, `SaveGoesHome`, `PasteIsTheCopied`, `CutKeepsText` |
| `editor` | 2 characters, up to 6 in the text, two files to open | 13 thousand | refinement of `TextBuffer` |
| `discovery` | a host nearby of either build in six worlds, one in the scanned subnet behind a router; 3 WebSocket servers with 2 attempts, 2 broadcasts, 2 losses | 140 thousand | `WsInOrder`, `AdvertisedPorts`, `MissedOnlyIfUnheard`, `ListIsUsable`, `FoundServes` |
| `monitor` | 2 loops, 1 request, 3 seconds, cooldown of 1, the clock set once by 1; 3 worlds | 646 thousand | `HonestCpu`, `AlertsSpaced`, `SilenceBounded`, `StopStops` |
| `transfer` | 3 calls, 2 faults, files of 0 to 4 bytes or none | 267 thousand | `NeverHalf`, `ReportedTrue`, `CallEnds` |
| `tasks_race` | 2 /exec whose increments overlap | | violates `UniqueIds` |

### Bounds, and why they are enough

* Hub: what can go wrong is between one loop, one connection that joins or
  leaves during it, and a second publisher waiting for the mutex; two of each
  give all of these.  The safety properties are also proved for any number.
* Tasks: two connections let every pair of steps of two requests meet; two
  lines tell a first from a later one.  All of it is also proved for any number.
* Controller: three servers for one that has a name of its own, one of another
  name and one that shares that; one fault for a server that is away or restarts.
  One task an incarnation is enough for ids to be reused, since every incarnation
  counts from 1.  The safety properties are proved for any numbers and names.
* Files: a rename uses both names; two chunks make a write that is half done;
  three requests are one to set up and two to overlap.
* Discovery: two attempts let a server be pushed onto the next one's port, and
  fail; two broadcasts are a first and a last; two losses are fewer than the
  probes of a host nearby, so that it is still found.
* Monitor: two loops for one that is left over; three seconds are two samples of
  a loop and an alert that is or is not silenced by a cooldown of one; the clock
  set by one is the whole cooldown.
* Transfer: files of every length modulo 3; three calls for an upload that was
  cut off, another beside it, and a call that meets what they left; two faults for
  a break and a failed stream.
* Screen: two names leave no room for the copy of a copy (`Paste` is guarded by
  the copy's name being in `Names`); one row makes the second entry one that is
  never drawn, and `MaxCursor` lets the cursor run past the list.
* Editor: six characters are three lines with two characters to distribute:
  splits and joins at both ends, in the middle and with empty lines.

Symmetry is used for connections in the safety runs of `TaskServer` and for
clients in `files`; the runs with liveness use none.

### Fairness

* `WsHub`: a publisher inside `broadcast_ws` keeps running (WF; the loop calls
  nothing that blocks).  Getting a mutex that is free again and again is SF: a
  `std::mutex` promises no more and glibc's futex does not starve for ever.
  Nothing is assumed of clients, and no publisher has to publish.
* `TaskServer`: WF on the steps of each thread, SF on those that take
  `tasks_mtx`.  A client of /tasks, /logs or /kill reads its reply or hangs up,
  so that `asio::write` ends; one that does neither stops the service, which is
  the price of writing under the mutex.  No command has to end or print.
* `TaskExecutor`: WF on each thread; the command may go on for ever.
* `Controller`: WF on its one thread: requests come back (there is no timeout in
  `HttpClient`), `getch` returns after a second.  Nothing about the user or the
  servers.
* `Discovery`: WF on each thread of a server, on the controller's one thread and
  on a datagram nobody listens for.  Datagrams may all be lost: the rounds end by
  the clock.
* `CpuMonitor`: WF on time and on each loop; none on requests, Start and Stop.
* `Transfer`: WF on the controller and on the server: a server that has a request
  answers.  Without that a call never returns, since neither side has a timeout.

## 4. Proofs

TLAPS checks these for every value of the constants, under the ASSUMEs of the
modules (numbers are numbers, `NoOne` is nobody, offered requests are requests).

* `TaskServer_proof`.  `TypeCorrect`: the types need `ThreadHasTask`, that a
  thread's id is in the map, because `runTask` writes through a reference.
  `IdsAreUnique` and `RepliedTasksAreOwn` rest on two invariants.  `Always` holds
  whatever the increments do: an entry is under the id of the connection that made
  it (`StoredUnderOwnId`), a thread has read a command of that id (`RanUnderId`),
  and who is told an id has a thread (`RepliedHasThread`).  `Inv` holds until a
  clash: no id has been given that the counter has not passed, and what a
  connection has stored and will load again is nobody else's to be
  (`CounterIsAhead`), ids are unique, and a thread's entry is its own
  (`OwnThread`).  A step keeps `Inv` unless it clashes, so that a clash is the only
  way to `tasks_race`.
  `StoriesAreInOrder` and `LogsAgree` (also until a clash) are consequences of
  `StoryInv`:
  every event is of the task of the thread that published it (`EventsAreOwn`),
  where a thread is in `runTask` says which of its events are in the stream
  (`StorySoFar`) and whether its entry says running (`RunningShows`), and an
  entry has the lines streamed plus the one between `AppendChunk` and
  `PublishChunk` (`OutputShows`).  What /logs copies is the entry at that moment,
  torn only while its thread appends.  It is the lock-free ordering inside one thread
  that keeps the story, and `OwnThread` that keeps others out of it.
  `ServiceImplementsLifecycle` maps each step to one of `TaskLifecycle` or to a
  stutter with the same invariant.
* `WsHub_proof`.  `TypeCorrect`; `ViewsAreContiguous` and `NothingIsMissed` from
  a lock invariant: outside `broadcast_ws` nothing is owed, inside it the message
  being sent is the last of the log and is owed to registered connections only
  (`LockInv`), and a connection that is not registered yet has been sent nothing
  (`NothingBefore`).  `HubImplementsStream`: every step is a step of
  `EventStream` or a stutter.
* `TaskExecutor_proof`.  `TypeCorrect`, `CompletionComesLast`,
  `ManagerImplementsLifecycle`, from `Progress` (how far a thread has come shows
  in its entry) and `EntryIsOwn`.  `Kill` only helps `~running`, which is why it
  cannot break the order.
* `Controller_proof`.  `TypeCorrect`; `FinishedTasksStopped` and
  `StartedTasksListed`, whatever names servers have.  `EntriesAreOld` says
  that the id and incarnation of an entry have been given out on its server, so
  that neither a new task nor a restart can be mistaken for it.
  `FinishedTasksStay`, from `ListedOnce`: a task has one entry even after a crash
  in the middle of a refresh, and a reply of a server of another name leaves it
  alone.
* `Controller_proof`, second half, about `FileScreen` as an instance `UI`, for any
  servers, names and texts.  `ShownIsMeant`, `SavesGoHome`, `PastesAreCopies`,
  `CutsLoseNothing` state the four properties of the run `screen`, from
  `ScreenInv`: an open editor belongs to the server that is selected, since no
  key of the editor selects another (`EditorAtHome`), with no one else about the
  rows on the screen are those of the listing a key will fetch (`ShownIsThere`),
  and between the requests of
  a paste `buffer` is what the file holds, and the copy what `buffer` held
  (`PasteIsSound`).  The last three are given
  `CopiesAreOther`, the part of `ScreenAssumption` that says that a copy has
  another name: the code puts "copy_of_" before it.
* `FileStore_proof`.  `TypeCorrect`: a handler is where its request takes it
  (`InPlace`), no file is longer than some text that can be sent
  (`NoneTooLong`), and a script's name leads to an inode a request made
  (`ScriptsAreNew`).  `NamesShareNoFile`, which is about one moment, needs that a number belongs to one
  request and no inode has it before that request makes its file
  (`NumbersAreFresh`).  `ScriptsLeaveNoLitter`: while the server is up, a script
  that has made its file ends in `Unlink`, and only scripts make names of /tmp.
  `EveryRequestIsAnswered`.  `ApartIsAtomic`, the refinement of `FileMap`: while
  no two requests under way use a name that one of them changes (`Apart`), what
  a handler has found out or done so far stays so (`Footing`): the file it found
  is there, what it wrote or read is a beginning of the text, and what it listed
  and has yet to list is the directory.  A step keeps the footing of its own
  handler by itself and that of every other because it leaves their names and
  files alone (`Kept`), so that one step is the whole request (closing what
  was written, removing, moving, the end of a read) and the others are stutters
  (`SimulateWrite`, `SimulateRead`,
  `SimulateChange`, `SimulateList`, `SimulateScript`).
* `Discovery_proof`, for any number of servers, rounds, attempts and datagrams.
  `TypeCorrect` needs `ProbesInTurn`; `PortsNeverMeet` that each port a server
  has passed is held or heard by another (`PortsPassed`); `WhoListensIsFound`
  that every probe sent to a server not seen is under way, lost or unheard
  (`NoneForgotten`); `ListsAreUsable` that the list is the servers seen, each
  once (`ListGrows`); `ToldPortsAreReal` that a port told lies between the first
  and the present one (`ToldOnce`), and that the ports in between are not to be
  had (`PortsPassed`).
* `CpuMonitor_proof`.  `SamplesAreHonest`: a sample that none overlaps is the
  only one under way, and the statics belonged to one moment when it began
  (`HonestInv`).  `AlertsKeepApart`: one loop at most is alive, moments are in
  order, and `last` is the wall time of the last alert once the loop has taken it
  down (`AlertsInv`).  `LoadIsNotKeptSilent`: each sample since the last alert has
  a second of its own, because a loop sleeps into the next one (`SilenceInv`), so
  the silence is no longer than the time since, and the loop alerts once that
  exceeds the cooldown by its wall clock.
* `Transfer_proof`.  `RoundTrip`: `Decode(Encode(t)) = t` for every sequence of
  bytes, by the cases of a length modulo 3 (`Encode` and `Decode` give each
  character by its place, so no induction is needed).  `FilesAreWhole` and
  `TrueIsTrue` from it, from `Exchange` (what is on the wire begins the one
  answer to the one request), from `WholeOrNothing` (a beginning of an object
  parses only if it is the object) and from `Whole`: until something is spoilt,
  one handler at most has the file open and it is then empty, so that its write
  leaves one of the first two texts.

Only model-checked: liveness (`HandlersReturn`, `EveryRequestEnds`,
`EndIsAnnounced`, `StopIsShown`, `FoundServes`, `StopStops`, `CallEnds`), which is
out of TLAPS's reach, and the refinement of `TextBuffer` by `FileEditor`: its
mapping joins the lines by a fold, and what a fold gives for every sequence takes
an induction over data that none of the provers can do.  Every other property of
every passing run is a theorem.

## 5. Where the code and its documents disagree

With a run:

* `tasks_race`, `main.cpp:421`: two overlapping /exec get one `task_id`, and the
  second overwrites the entry the first thread works on.

Seen while modelling, visible in the models, without a run of their own:

* `main.cpp:249`: `fgets` cuts output every 127 bytes, `dump()` throws on a chunk
  that is not UTF-8 (a character cut in two is enough), nothing in the detached
  thread catches it and the server ends (`PublishChunk`); `WEBSOCKET_API.md:68`
  says task_output is "Sent for every chunk of output from the running task."
* `main.cpp:456`: /kill takes the task id for a process id and the task's command
  goes on (`Pkill`); `README.md:159` says "Terminate tasks".
* `UI.cpp:828`: the clipboard keeps no server, and a file copied on one and pasted
  on another arrives empty (`Paste` in `FileScreen`); `README.md:353` says "Copy
  files between servers:".
* `main.cpp:1168`: a `popen` that returns NULL is handed to `fgets`, and the server
  ends with the script left in /tmp (`PopenFails`).
* `main.cpp:1156`: scripts of one second share a file: one may run the other's
  text or none (`Exec`); backups (`main.cpp:1128`) share an archive the same way.
* `main.cpp:1439`, `main_modular.cpp:181`: where the first port is taken, the
  modular build advertises a port nobody listens on, and the monolith does while
  it moves (`Advertised`); `WEBSOCKET_API.md:14` says the port is "advertised via
  UDP discovery".  `Config.cpp:65` reads keys the monolith does not send, and so
  believes in 2040 to 2043 also on an undisturbed host (`Entry`; `AdvertisedPorts`
  says that this is wrong unless every port before is taken).
* `main.cpp:1334`: one answer that cannot be sent ends the discovery thread.
* `main.cpp:1466`: "This will select a non-loopback IP", and a host name that
  resolves to none gives 127.0.0.1: the server is found by a controller it never
  serves (`named`; `FoundServes` excepts it).
* `main_modular.cpp:152`: "All services started successfully!" is said before
  HTTP is bound; when it cannot be, the process ends.
* `main.cpp:172`: two samples at once mix their intervals, and a load may be
  negative or above 100 (`crossed`); a /stats in the same instant makes the
  monitor's a 0.
* `main.cpp:1369`: a clock set back silences alerts for as long (`SilenceBounded`
  says no longer), one set forward repeats them early.
* `StatsMonitor.cpp:14`: Start soon after Stop leaves two loops (world `hasty`).
* `HttpClient.cpp:31`: a reply whose headers come alone loses its body, and the
  call fails though the server did it (`failbit`).
* `HttpClient.cpp:34`, `TaskManager.cpp:303`: no timeout; and an upload that was
  reported as failed may be stored later (`uploads`).
* `main.cpp:567`: such an upload truncates and writes beside the next call, which
  may send an empty file as a success or leave a mixture (`spoilt`).
* `main.cpp:567`: an upload that could not be written is answered with success.
* `main.cpp:514`: a file that is gone after `exists()`, or cannot be opened, is
  sent with an empty content; `downloadFile` empties the local file and returns
  true (`ServeDownload`).
* `main.cpp:677`: a request that opened f writes on under g once f is renamed to
  g (`fd` holds an inode; `NoAlias` is about one moment).
* `main.cpp:456`: with a server whose parent is process 1, `kill?id=1` runs
  `pkill -P 1` and ends the server (`Pkill` clears `up`).
* `main.cpp:237`: /logs may copy a text that is being modified (`torn`); once
  task_complete was sent it never does (`LogsMatchStream`).
* `TaskExecutor.cpp:54`: after `Kill`, `IsRunning` is false and the command goes on.
* `main.cpp:733`: a read during a write sees an empty or half text; a write that
  failed is answered with "File saved successfully" (`Close`, `WriteFails`).
* `main.cpp:488`: a file deleted while the directory is listed ends the listing.
* `TaskManager.cpp:44`: a selected server that does not answer ends the
  controller before those after it are asked.
* `TaskManager.cpp:174`: a server that does not answer has a cpu of 0.0, so the
  branch at `UI.cpp:320`, "Offline - red", is never taken.
* `TaskManager.cpp:119` and `:151`: with equal host names, or after a restart, an
  entry follows another task of the same id, and a kill is posted to every server
  of the name, each of which takes the id for one of its own; the properties of `controller`
  about such matches are therefore stated for entries whose server has a name of
  its own, and for one incarnation.
* `UI.cpp:773`: the position is taken in a new listing, so with other clients about
  D and E may act on a file that was not highlighted; `ActsOnWhatIsShown` is stated
  for a user alone.
* `UI.cpp:134`: entries below the end of the screen are not drawn, the cursor goes
  there, and the keys act on them unseen.
* `UI.cpp:832`: the cut of a file that is not UTF-8 destroys it.
* `UI.cpp:857`: moving to a shorter line keeps the column; the next insert or
  split throws and the controller ends (`Throws`).
* `UI.cpp:737`, `:905`, `:918`: a dangling `else` keeps printable characters from
  the terminal, multi-server and assistant prompts.

## 6. Plan

Modelled and checked are the parts above.  What is left, most important first:

1. Proofs: how far `TextBufferSpec` goes without induction (steps that keep the
   number of lines), and what liveness rests on: that a step of the thread that
   is to come is always possible.
2. `Stop` of `WebSocket::Server`.  Only its destructor calls it, when the process
   ends and the detached thread inside `run()` uses what is being destroyed; and a
   server that was stopped cannot start again, since `init_asio` throws.
3. `UIInput`: the prompts of `handleInput`.  They take no letters as it is
   (section 5), so a model of them would be a model of cursor keys.

Not modelled: the reports of /system and /remote (they return what a command
prints and keep nothing), `Platform::API` but for `GetSystemStats` (calls of the
operating system), `sanitize_filename` (files have names it accepts),
`server/files/FileManager.h`, `control/network` and
`control/advanced/AdvancedFeatures.h` (declarations without code), `include/`
(vendored).
