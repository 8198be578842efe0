----------------------------- MODULE Discovery -----------------------------
(***************************************************************************)
(* How a server starts and how the controller finds it: main and           *)
(* discovery_responder of both builds (server/main.cpp,                    *)
(* server/main_modular.cpp), the search for WebSocket ports, and           *)
(* Config::load of the controller.                                         *)
(*                                                                         *)
(* A world is what a server finds on its host: which build it is, the      *)
(* ports other programs hold, and whether its host name resolves to an     *)
(* address of the network.  A probe <<s, i>> is the i-th request of one    *)
(* search to server s, and the answer to it: 0 is the one of the subnet    *)
(* scan, the others are the broadcasts.  A datagram may be lost, reordered *)
(* or duplicated; one that would come after the search counts as lost, and *)
(* so does an answer that is no JSON text.                                 *)
(***************************************************************************)
EXTENDS Naturals, Sequences, FiniteSets

CONSTANTS Servers,    \* the addresses of the servers
          Scanned,    \* those in 10.125.125.1 to 254
          Nearby,     \* those a broadcast reaches: no router forwards it
          Worlds,     \* for each server, the [build, held, named] of its host
          WsServers,  \* WebSocket servers of the modular build, 4 in the code
          Attempts,   \* ports one of them tries, 10 in the code
          Rounds,     \* broadcasts of one search, 3 in the code
          Local,      \* 127.0.0.1
          MaxLost     \* bound: probes lost

HttpPort == 2030
DiscoveryPort == 2031

Builds == {"monolith", "modular"}
PortsUsed == 2030..(2040 + WsServers + Attempts)

ASSUME DiscoveryAssumption ==
    /\ Scanned \subseteq Servers /\ Nearby \subseteq Servers
    /\ Worlds \subseteq [Servers -> [build : Builds, held : SUBSET PortsUsed,
                                     named : BOOLEAN]]
    /\ WsServers \in Nat \ {0} /\ Attempts \in Nat \ {0} /\ Rounds \in Nat \ {0}
    /\ Local \notin Servers
    /\ MaxLost \in Nat

VARIABLES
  world,    \* the world of each server
  main,     \* how far its main has got
  http,     \* where its HTTP acceptor listens
  port,     \* port each WebSocket server tries, or listens on
  ws,       \* state of each WebSocket server
  resp,     \* its discovery thread
  draft,    \* answers it has built and not sent
  requests, \* probes under way to servers
  answers,  \* [probe, ws] under way to the controller
  lost,     \* history: probes of which the request or the answer was lost
  unheard,  \* history: probes that reached a host without a listener
  stage,    \* the controller's position in Config::load
  round,    \* broadcasts sent
  found,    \* the list it builds
  seen      \* discovered_ips

serverVars == <<main, http, port, ws, resp>>
netVars == <<draft, requests, answers, lost, unheard>>
loadVars == <<stage, round, found, seen>>
vars == <<world, serverVars, netVars, loadVars>>

-----------------------------------------------------------------------------
(* Startup of a server *)

Modular(s) == world[s].build = "modular"
Kinds(s) == IF Modular(s) THEN 0..(WsServers - 1) ELSE {0}
FirstPort(s, k) == IF Modular(s) THEN 2040 + k ELSE 2032
Settled == {"up", "failed"}

\* set_reuse_addr lets two listening sockets share a port (a mutant).
FreeOfOthers(s, p) == p \notin world[s].held

\* The kernel refuses a port another program or another server listens on.
Free(s, p) == /\ p \notin world[s].held
              /\ \A k \in Kinds(s) : ws[s][k] = "up" => port[s][k] # p

\* The loop of ten attempts of one WebSocket server.  In the monolith it runs
\* on a thread of its own and moves the global websocket_port; StartAll of the
\* modular build goes through its four servers before main does anything else.
Listening(s, k) == /\ main[s] # "exited"
                   /\ ws[s][k] = "trying"
                   /\ \A j \in Kinds(s) : j < k => ws[s][j] \in Settled

\* The port is counted up before it is tried (a mutant).
TryListenNext(s, k) ==
    /\ Listening(s, k)
    /\ port' = [port EXCEPT ![s][k] = IF @ = FirstPort(s, k) + Attempts - 1
                                      THEN @ ELSE @ + 1]
    /\ ws' = [ws EXCEPT ![s][k] =
                 IF Free(s, port'[s][k]) THEN "up"
                 ELSE IF port[s][k] = port'[s][k] THEN "failed" ELSE @]
    /\ UNCHANGED <<world, main, http, resp, netVars, loadVars>>

TryListen(s, k) ==
    /\ Listening(s, k)
    /\ IF Free(s, port[s][k])
       THEN ws' = [ws EXCEPT ![s][k] = "up"] /\ UNCHANGED port
       ELSE IF port[s][k] < FirstPort(s, k) + Attempts - 1
       THEN port' = [port EXCEPT ![s][k] = @ + 1] /\ UNCHANGED ws
       ELSE ws' = [ws EXCEPT ![s][k] = "failed"] /\ UNCHANGED port
    /\ UNCHANGED <<world, main, http, resp, netVars, loadVars>>

\* The modular main starts its discovery thread after StartAll.
Spawn(s) == /\ main[s] = "starting"
            /\ \A k \in Kinds(s) : ws[s][k] \in Settled
            /\ main' = [main EXCEPT ![s] = "spawned"]
            /\ UNCHANGED <<world, http, port, ws, resp, netVars, loadVars>>

\* main does not leave when HTTP cannot be bound (a mutant).
BindHttpOrStay(s) ==
    /\ main[s] = "spawned"
    /\ main' = [main EXCEPT ![s] = "serving"]
    /\ http' = [http EXCEPT ![s] = IF HttpPort \in world[s].held THEN "none"
                                   ELSE IF world[s].named THEN "network"
                                   ELSE "loopback"]
    /\ UNCHANGED <<world, port, ws, resp, netVars, loadVars>>

\* After its half second of sleep, whatever the other threads have done, main
\* binds HTTP to the one address get_local_ip gave.  When it cannot, main
\* returns, and every thread ends with the process.
BindHttp(s) ==
    /\ main[s] = "spawned"
    /\ IF HttpPort \in world[s].held
       THEN /\ main' = [main EXCEPT ![s] = "exited"]
            /\ ws' = [ws EXCEPT ![s] = [k \in DOMAIN @ |-> "failed"]]
            /\ resp' = [resp EXCEPT ![s] = "ended"]
            /\ draft' = {a \in draft : a.probe[1] # s}
            /\ lost' = lost \union {a.probe : a \in draft \ draft'}
            /\ UNCHANGED http
       ELSE /\ main' = [main EXCEPT ![s] = "serving"]
            /\ http' = [http EXCEPT ![s] = IF world[s].named THEN "network"
                                           ELSE "loopback"]
            /\ UNCHANGED <<ws, resp, draft, lost>>
    /\ UNCHANGED <<world, port, requests, answers, unheard, loadVars>>

-----------------------------------------------------------------------------
(* discovery_responder *)

BindDiscovery(s) ==
    /\ main[s] \in {"spawned", "serving"}
    /\ resp[s] = "none"
    /\ resp' = [resp EXCEPT ![s] = IF DiscoveryPort \in world[s].held
                                   THEN "ended" ELSE "listening"]
    /\ UNCHANGED <<world, main, http, port, ws, netVars, loadVars>>

\* What the answer says of the WebSocket ports: the monolith reads the global
\* while the other thread moves it, the modular build repeats its base ports.
Advertised(s) == [k \in Kinds(s) |-> IF Modular(s) THEN FirstPort(s, k)
                                     ELSE port[s][k]]

Receive(s, i) ==
    /\ resp[s] = "listening"
    /\ \A a \in draft : a.probe[1] # s
    /\ <<s, i>> \in requests
    /\ requests' = requests \ {<<s, i>>}
    /\ draft' = draft \union {[probe |-> <<s, i>>, ws |-> Advertised(s)]}
    /\ UNCHANGED <<world, serverVars, answers, lost, unheard, loadVars>>

Send(a) == /\ a \in draft
           /\ draft' = draft \ {a}
           /\ answers' = answers \union {a}
           /\ UNCHANGED <<world, serverVars, requests, lost, unheard, loadVars>>

\* send_to throws: the handler is outside the loop, so the thread ends.
SendFails(a) == /\ a \in draft
                /\ Cardinality(lost) < MaxLost
                /\ draft' = draft \ {a}
                /\ lost' = lost \union {a.probe}
                /\ resp' = [resp EXCEPT ![a.probe[1]] = "ended"]
                /\ UNCHANGED <<world, main, http, port, ws, requests, answers,
                               unheard, loadVars>>

-----------------------------------------------------------------------------
(* The network *)

LoseRequest(q) == /\ q \in requests
                  /\ Cardinality(lost) < MaxLost
                  /\ requests' = requests \ {q}
                  /\ lost' = lost \union {q}
                  /\ UNCHANGED <<world, serverVars, draft, answers, unheard,
                                 loadVars>>

LoseAnswer(a) == /\ a \in answers
                 /\ Cardinality(lost) < MaxLost
                 /\ answers' = answers \ {a}
                 /\ lost' = lost \union {a.probe}
                 /\ UNCHANGED <<world, serverVars, draft, requests, unheard,
                                loadVars>>

\* No one listens on the port of discovery there.
Unheard(s, i) == /\ <<s, i>> \in requests
                 /\ resp[s] # "listening"
                 /\ requests' = requests \ {<<s, i>>}
                 /\ unheard' = unheard \union {<<s, i>>}
                 /\ UNCHANGED <<world, serverVars, draft, answers, lost,
                                loadVars>>

-----------------------------------------------------------------------------
(* Config::load *)

Default == [ip |-> Local, ws |-> [k \in 0..(WsServers - 1) |-> 2040 + k]]

\* An answer of the monolith has none of the keys that are read.
Entry(a) == [ip |-> a.probe[1], ws |-> IF Modular(a.probe[1]) THEN a.ws
                                       ELSE Default.ws]

\* The list may not be empty: the controller falls back on its own host.
Result(list) == IF list = <<>> THEN <<Default>> ELSE list

\* Each send has a handler of its own.
Scan == /\ stage = "scan"
        /\ stage' = "send"
        /\ requests' = requests \union {<<s, 0>> : s \in Scanned}
        /\ UNCHANGED <<world, serverVars, draft, answers, lost, unheard, round,
                       found, seen>>

Broadcast == /\ stage = "send"
             /\ stage' = "receive"
             /\ round' = round + 1
             /\ requests' = requests \union {<<s, round'>> : s \in Nearby}
             /\ UNCHANGED <<world, serverVars, draft, answers, lost, unheard,
                            found, seen>>

\* A broadcast cannot be sent: the handler around all ends the search and
\* keeps what was found.
Abort == /\ stage = "send"
         /\ stage' = "aborted"
         /\ found' = Result(found)
         /\ UNCHANGED <<world, serverVars, netVars, round, seen>>

\* discovered_ips is not asked (a mutant).
TakeTwice(a) == /\ stage = "receive"
                /\ a \in answers
                /\ found' = Append(found, Entry(a))
                /\ seen' = seen \union {a.probe[1]}
                /\ UNCHANGED <<world, serverVars, draft, requests, lost,
                               unheard, stage, round>>

\* The first answer of an address counts, the others are passed over.
Take(a) == /\ stage = "receive"
           /\ a \in answers
           /\ found' = IF a.probe[1] \in seen THEN found
                       ELSE Append(found, Entry(a))
           /\ seen' = seen \union {a.probe[1]}
           /\ UNCHANGED <<world, serverVars, draft, requests, lost, unheard,
                          stage, round>>

TakeOne(a) == Take(a) /\ answers' = answers \ {a}
TakeCopy(a) == Take(a) /\ UNCHANGED answers   \* the network duplicated it

\* What follows a round; the answers still under way after the last are lost,
\* and are counted so above.
TimeUp(again) ==
    /\ IF again
       THEN stage' = "send" /\ UNCHANGED found
       ELSE /\ round = Rounds => requests = {} /\ draft = {} /\ answers = {}
            /\ stage' = "done"
            /\ found' = Result(found)
    /\ UNCHANGED <<world, serverVars, netVars, round, seen>>

\* The search stops with the first server found (a mutant).
EndRoundEarly == /\ stage = "receive"
                 /\ TimeUp(round < Rounds /\ found = <<>>)

\* The half second of a round is over, however many answers came.
EndRound == /\ stage = "receive"
            /\ TimeUp(round < Rounds)

-----------------------------------------------------------------------------
Init == /\ world \in Worlds
        /\ main = [s \in Servers |-> IF Modular(s) THEN "starting" ELSE "spawned"]
        /\ http = [s \in Servers |-> "none"]
        /\ port = [s \in Servers |-> [k \in Kinds(s) |-> FirstPort(s, k)]]
        /\ ws = [s \in Servers |-> [k \in Kinds(s) |-> "trying"]]
        /\ resp = [s \in Servers |-> "none"]
        /\ draft = {} /\ requests = {} /\ answers = {}
        /\ lost = {} /\ unheard = {}
        /\ stage = "scan" /\ round = 0 /\ found = <<>> /\ seen = {}

Start(s) == \/ \E k \in Kinds(s) : TryListen(s, k)
            \/ Spawn(s)
            \/ BindHttp(s)
            \/ BindDiscovery(s)

Responder(s) == \/ \E i \in 0..Rounds : Receive(s, i)
                \/ \E a \in draft : a.probe[1] = s /\ Send(a)

Network == \/ \E q \in requests : LoseRequest(q)
           \/ \E s \in Servers, i \in 0..Rounds : Unheard(s, i)
           \/ \E a \in answers : LoseAnswer(a) \/ TakeCopy(a)
           \/ \E a \in draft : SendFails(a)

Load == Scan \/ Broadcast \/ EndRound \/ \E a \in answers : TakeOne(a)

\* The search is over and every server has started or exited.
Finished == /\ stage \in {"done", "aborted"}
            /\ \A s \in Servers : main[s] \in {"serving", "exited"}
            /\ UNCHANGED vars

Next == \/ \E s \in Servers : Start(s) \/ Responder(s)
        \/ Network \/ Load \/ Abort \/ Finished

\* Threads that can go on do, and so does a datagram that is not lost.
Fairness == /\ \A s \in Servers : WF_vars(Start(s)) /\ WF_vars(Responder(s))
            /\ WF_vars(Load)
            /\ WF_vars(\E s \in Servers, i \in 0..Rounds : Unheard(s, i))

Spec == Init /\ [][Next]_vars /\ Fairness

-----------------------------------------------------------------------------
(* Properties *)

Probes == Servers \X (0..Rounds)
AllKinds == 0..(WsServers - 1)

\* Every variable has its type; a thread of discovery builds one answer at a
\* time, and no probe is in two places.
TypeOK ==
    /\ world \in Worlds
    /\ main \in [Servers -> {"starting", "spawned", "serving", "exited"}]
    /\ http \in [Servers -> {"none", "network", "loopback"}]
    /\ \A s \in Servers : /\ port[s] \in [Kinds(s) -> Nat]
                          /\ ws[s] \in [Kinds(s) -> {"trying"} \union Settled]
    /\ resp \in [Servers -> {"none", "listening", "ended"}]
    /\ \A a \in draft \union answers : /\ a.probe \in Probes
                                       /\ DOMAIN a.ws = Kinds(a.probe[1])
    /\ requests \union lost \union unheard \subseteq Probes
    /\ \A a, b \in draft : a.probe[1] = b.probe[1] => a = b
    /\ requests \intersect {a.probe : a \in draft \union answers} = {}
    /\ stage \in {"scan", "send", "receive", "done", "aborted"}
    /\ round \in 0..Rounds
    /\ seen \subseteq Servers

\* The WebSocket servers of one host listen on ports in the order of their
\* kinds, so on different ones, however far taken ports push them along: each
\* that moves may take the port the next one starts from.
WsInOrder ==
    \A s \in Servers : \A j, k \in Kinds(s) :
        j < k /\ ws[s][j] = "up" /\ ws[s][k] = "up" => port[s][j] < port[s][k]

\* The ports in the answers of s, and those in the controller's list.
Answered(s) == {a.ws : a \in {b \in draft \union answers : b.probe[1] = s}}
Believed(s) == {found[i].ws : i \in {j \in DOMAIN found : found[j].ip = s}}

\* Of a modular server the list has what the answer said.
Told(s) == Answered(s) \union (IF Modular(s) THEN Believed(s) ELSE {})

\* What an answer says is stale or premature in two ways only: the port is the
\* one its server is at, though it may not listen yet or may have given up, or
\* the server has gone past it, because somebody else listens there.  What the
\* controller believes of a monolith is not what the answer said (the keys
\* differ) but its own default, which is wrong unless every port from 2032 on
\* up to it is taken.
AdvertisedPorts ==
    \A s \in Servers : main[s] # "exited" =>
        /\ \A t \in Told(s) : \A k \in Kinds(s) :
              t[k] = port[s][k] \/ ~Free(s, t[k])
        /\ ~Modular(s) => \A t \in Believed(s) : \A k \in AllKinds :
              \/ t[k] # port[s][0]
              \/ \A p \in FirstPort(s, 0)..(t[k] - 1) : ~Free(s, p)

\* A finished search has missed a server only if each of its probes was lost
\* or came before the server listened or after it ended: a server that listens
\* is found unless the probe of the scan and all three broadcasts are lost.
MissedOnlyIfUnheard ==
    stage = "done" =>
        \A s \in Servers \ seen :
            /\ s \in Nearby => \A i \in 1..Rounds : <<s, i>> \in lost \union unheard
            /\ s \in Scanned => <<s, 0>> \in lost \union unheard

\* However the search ends, the list is fit for the screens: not empty, every
\* address once, and the controller's own host only when no one answered.
ListIsUsable ==
    stage \in {"done", "aborted"} =>
        /\ found # <<>>
        /\ \A i, j \in DOMAIN found : found[i].ip = found[j].ip => i = j
        /\ {found[i].ip : i \in DOMAIN found} = IF seen = {} THEN {Local} ELSE seen

\* Discovery answers before HTTP is bound.  Who was found serves HTTP to the
\* network in the end, or its process is gone.  (Not where the name of the host
\* resolves to a loopback address only: that server stays in the list and serves
\* its own host alone.)
FoundServes == \A s \in Servers :
                    s \in seen /\ world[s].named
                        ~> http[s] = "network" \/ main[s] = "exited"

=============================================================================
