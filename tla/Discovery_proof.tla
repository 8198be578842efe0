-------------------------- MODULE Discovery_proof --------------------------
(***************************************************************************)
(* Proofs about the start of a server and its discovery: main and          *)
(* discovery_responder of both builds and Config::load, for any number of  *)
(* servers, any ports taken, any number of WebSocket servers, attempts and *)
(* broadcasts, and whatever datagrams are lost, repeated or reordered.     *)
(***************************************************************************)
EXTENDS Discovery, TLAPS

-----------------------------------------------------------------------------
(* Type correctness *)

\* Where a probe may be that is under way.
UnderWay == requests \union {a.probe : a \in draft \union answers}

\* The controller sends each probe once, in its turn.
ProbesInTurn ==
    /\ stage = "scan" => round = 0 /\ UnderWay = {}
    /\ stage = "send" => round < Rounds
    /\ \A q \in UnderWay : q[2] <= round

Typed == /\ TypeOK
         /\ port = [s \in Servers |-> port[s]] /\ ws = [s \in Servers |-> ws[s]]
         /\ ProbesInTurn

LEMMA KindsAreNumbers ==
    ASSUME NEW s, NEW k \in Kinds(s)
    PROVE  k \in Nat /\ FirstPort(s, k) \in Nat
  BY DiscoveryAssumption DEF Kinds, FirstPort

LEMMA TypedInit == Init => Typed
<1> SUFFICES ASSUME Init PROVE Typed
  OBVIOUS
<1>1. \A s \in Servers : /\ port[s] \in [Kinds(s) -> Nat]
                         /\ ws[s] \in [Kinds(s) -> {"trying"} \union Settled]
  BY KindsAreNumbers DEF Init
<1>2. TypeOK
  BY <1>1, DiscoveryAssumption DEF Init, TypeOK
<1>3. port = [s \in Servers |-> port[s]] /\ ws = [s \in Servers |-> ws[s]]
  BY DEF Init
<1>4. ProbesInTurn
  BY DEF Init, ProbesInTurn, UnderWay
<1> QED BY <1>2, <1>3, <1>4 DEF Typed

\* The world does not change, and with it the kinds of servers a host has.
LEMMA SameWorld ==
    ASSUME UNCHANGED world
    PROVE  \A s : /\ Modular(s)' = Modular(s)
                  /\ Kinds(s)' = Kinds(s)
                  /\ \A k : FirstPort(s, k)' = FirstPort(s, k)
  BY DEF Modular, Kinds, FirstPort

LEMMA TypedTryListen ==
    ASSUME Typed, NEW s \in Servers, NEW k \in Kinds(s), TryListen(s, k)
    PROVE  Typed'
<1>1. /\ port' = [port EXCEPT ![s][k] = port'[s][k]]
      /\ ws' = [ws EXCEPT ![s][k] = ws'[s][k]]
      /\ port'[s][k] \in Nat
      /\ ws'[s][k] \in {"trying"} \union Settled
      /\ UNCHANGED <<world, main, http, resp, netVars, loadVars>>
  <2>1. port[s] \in [Kinds(s) -> Nat] /\ ws[s] \in [Kinds(s) -> {"trying"} \union Settled]
    BY DEF Typed, TypeOK
  <2> QED BY <2>1 DEF TryListen, Typed, Settled
<1>2. \A r \in Servers : /\ port'[r] \in [Kinds(r) -> Nat]
                         /\ ws'[r] \in [Kinds(r) -> {"trying"} \union Settled]
  <2>1. /\ \A r \in Servers : port'[r] = IF r = s THEN [port[s] EXCEPT ![k] = port'[s][k]]
                                         ELSE port[r]
        /\ \A r \in Servers : ws'[r] = IF r = s THEN [ws[s] EXCEPT ![k] = ws'[s][k]]
                                       ELSE ws[r]
    BY <1>1 DEF Typed
  <2>2. \A r \in Servers : /\ port[r] \in [Kinds(r) -> Nat]
                           /\ ws[r] \in [Kinds(r) -> {"trying"} \union Settled]
    BY DEF Typed, TypeOK
  <2> QED BY <1>1, <2>1, <2>2
<1>3. TypeOK'
  BY <1>1, <1>2, SameWorld DEF netVars, loadVars, Typed, TypeOK, Probes
<1>4. ProbesInTurn'
  BY <1>1 DEF netVars, loadVars, Typed, ProbesInTurn, UnderWay
<1> QED BY <1>1, <1>3, <1>4 DEF Typed

LEMMA TypedMain ==
    ASSUME Typed, NEW s \in Servers, Spawn(s) \/ BindHttp(s) \/ BindDiscovery(s)
    PROVE  Typed'
<1>1. CASE Spawn(s)
  <2>1. TypeOK'
    BY <1>1, SameWorld DEF Spawn, netVars, loadVars, Typed, TypeOK, Probes
  <2> QED BY <1>1, <2>1 DEF Spawn, netVars, loadVars, Typed, ProbesInTurn, UnderWay
<1>2. CASE BindDiscovery(s)
  <2>1. TypeOK'
    BY <1>2, SameWorld DEF BindDiscovery, netVars, loadVars, Typed, TypeOK, Probes
  <2> QED BY <1>2, <2>1 DEF BindDiscovery, netVars, loadVars, Typed, ProbesInTurn,
                            UnderWay
<1>3. CASE BindHttp(s) /\ HttpPort \notin world[s].held
  <2>1. /\ main' = [main EXCEPT ![s] = "serving"]
        /\ \E h \in {"network", "loopback"} : http' = [http EXCEPT ![s] = h]
        /\ UNCHANGED <<world, ws, resp, port, netVars, loadVars>>
    BY <1>3 DEF BindHttp, netVars
  <2>2. TypeOK'
    BY <2>1, SameWorld DEF netVars, loadVars, Typed, TypeOK, Probes
  <2> QED BY <2>1, <2>2 DEF netVars, loadVars, Typed, ProbesInTurn, UnderWay
<1>4. CASE BindHttp(s) /\ HttpPort \in world[s].held
  <2>1. /\ main' = [main EXCEPT ![s] = "exited"]
        /\ ws' = [ws EXCEPT ![s] = [k \in DOMAIN ws[s] |-> "failed"]]
        /\ resp' = [resp EXCEPT ![s] = "ended"]
        /\ draft' \subseteq draft
        /\ lost' \subseteq lost \union {a.probe : a \in draft}
        /\ UNCHANGED <<world, http, port, requests, answers, unheard, loadVars>>
    BY <1>4 DEF BindHttp
  <2>2. \A r \in Servers : ws'[r] \in [Kinds(r) -> {"trying"} \union Settled]
    <3>1. \A r \in Servers : ws[r] \in [Kinds(r) -> {"trying"} \union Settled]
      BY DEF Typed, TypeOK
    <3> QED BY <2>1, <3>1 DEF Typed, Settled
  <2>3. requests \union lost' \union unheard \subseteq Probes
    BY <2>1 DEF Typed, TypeOK
  <2>4. UnderWay' \subseteq UnderWay
    BY <2>1 DEF UnderWay
  <2>5. TypeOK'
    BY <2>1, <2>2, <2>3, SameWorld DEF loadVars, Typed, TypeOK, Probes
  <2> QED BY <2>1, <2>4, <2>5 DEF loadVars, Typed, ProbesInTurn
<1> QED BY <1>1, <1>2, <1>3, <1>4

\* The network and the responder move what is under way, and lose it.
LEMMA TypedNet ==
    ASSUME Typed, UNCHANGED <<world, main, http, port, ws, loadVars>>,
           resp' \in [Servers -> {"none", "listening", "ended"}],
           UnderWay' \subseteq UnderWay,
           requests' \subseteq requests,
           lost' \union unheard' \subseteq Probes,
           \A a \in draft' \union answers' : DOMAIN a.ws = Kinds(a.probe[1])
                                             /\ a.probe \in Probes,
           \A a, b \in draft' : a.probe[1] = b.probe[1] => a = b,
           requests' \intersect {a.probe : a \in draft' \union answers'} = {}
    PROVE  Typed'
<1>1. TypeOK'
  BY SameWorld DEF loadVars, Typed, TypeOK, Probes
<1> QED BY <1>1 DEF loadVars, Typed, ProbesInTurn

LEMMA TypedResponder ==
    ASSUME Typed, NEW s \in Servers, NEW i \in 0..Rounds, Receive(s, i)
    PROVE  Typed'
<1> DEFINE new == [probe |-> <<s, i>>, ws |-> Advertised(s)]
<1>1. /\ draft' = draft \union {new}
      /\ requests' = requests \ {<<s, i>>}
      /\ <<s, i>> \in requests
      /\ \A a \in draft : a.probe[1] # s
      /\ UNCHANGED <<world, serverVars, answers, lost, unheard, loadVars>>
  BY DEF Receive
<1>2. /\ DOMAIN new.ws = Kinds(new.probe[1])
      /\ new.probe \in Probes /\ new.probe = <<s, i>> /\ new.probe[1] = s
  BY DEF Advertised, Probes
<1>3. UnderWay' \subseteq UnderWay
  BY <1>1, <1>2 DEF UnderWay
<1>4. requests' \intersect {a.probe : a \in draft' \union answers'} = {}
  BY <1>1, <1>2 DEF Typed, TypeOK
<1>5. \A a \in draft' \union answers' : DOMAIN a.ws = Kinds(a.probe[1])
                                        /\ a.probe \in Probes
  BY <1>1, <1>2 DEF Typed, TypeOK
<1>6. \A a, b \in draft' : a.probe[1] = b.probe[1] => a = b
  BY <1>1, <1>2 DEF Typed, TypeOK
<1>7. lost' \union unheard' \subseteq Probes /\ requests' \subseteq requests
  BY <1>1 DEF Typed, TypeOK
<1>8. resp' \in [Servers -> {"none", "listening", "ended"}]
  BY <1>1 DEF serverVars, Typed, TypeOK
<1> HIDE DEF new
<1> QED BY <1>1, <1>3, <1>4, <1>5, <1>6, <1>7, <1>8, TypedNet DEF serverVars

LEMMA TypedNetwork ==
    ASSUME Typed,
           \/ \E a \in draft : Send(a) \/ SendFails(a)
           \/ \E q \in requests : LoseRequest(q)
           \/ \E s \in Servers, i \in 0..Rounds : Unheard(s, i)
           \/ \E a \in answers : LoseAnswer(a)
    PROVE  Typed'
<1> USE DEF serverVars
<1>1. UNCHANGED <<world, main, http, port, ws, loadVars>>
  BY DEF Send, SendFails, LoseRequest, Unheard, LoseAnswer
<1>2. /\ requests' \subseteq requests
      /\ draft' \subseteq draft
      /\ draft' \union answers' \subseteq draft \union answers
      /\ lost' \union unheard' \subseteq lost \union unheard \union UnderWay
  BY DEF Send, SendFails, LoseRequest, Unheard, LoseAnswer, UnderWay
<1>3. UnderWay' \subseteq UnderWay
  BY <1>2 DEF UnderWay
<1>4. UnderWay \subseteq Probes
  BY DEF UnderWay, Typed, TypeOK
<1>5. resp' \in [Servers -> {"none", "listening", "ended"}]
  BY DEF Send, SendFails, LoseRequest, Unheard, LoseAnswer, Typed, TypeOK
<1>6. lost' \union unheard' \subseteq Probes
  BY <1>2, <1>4 DEF Typed, TypeOK
<1>7. requests' \intersect {a.probe : a \in draft' \union answers'} = {}
  BY <1>2 DEF Typed, TypeOK
<1>8. \A a \in draft' \union answers' : DOMAIN a.ws = Kinds(a.probe[1])
                                        /\ a.probe \in Probes
  BY <1>2 DEF Typed, TypeOK
<1>9. \A a, b \in draft' : a.probe[1] = b.probe[1] => a = b
  BY <1>2 DEF Typed, TypeOK
<1> QED BY <1>1, <1>2, <1>3, <1>5, <1>6, <1>7, <1>8, <1>9, TypedNet

LEMMA TypedSearch ==
    ASSUME Typed, Scan \/ Broadcast \/ Abort \/ EndRound
    PROVE  Typed'
<1> USE DEF netVars
<1>1. CASE Scan
  <2>1. UnderWay = {} /\ round = 0
    BY <1>1 DEF Scan, Typed, ProbesInTurn
  <2>2. UnderWay' = {<<s, 0>> : s \in Scanned} /\ draft \union answers = {}
    BY <1>1, <2>1 DEF Scan, UnderWay
  <2>3. {<<s, 0>> : s \in Scanned} \subseteq Probes
    BY DiscoveryAssumption DEF Probes
  <2>4. requests' \subseteq Probes /\ draft' = {} /\ answers' = {}
    BY <1>1, <2>1, <2>2, <2>3 DEF Scan, UnderWay
  <2>5. TypeOK'
    BY <1>1, <2>4, SameWorld DEF Scan, serverVars, Typed, TypeOK, Probes
  <2>6. ProbesInTurn'
    BY <1>1, <2>1, <2>2, DiscoveryAssumption DEF Scan, ProbesInTurn
  <2> QED BY <1>1, <2>5, <2>6 DEF Scan, serverVars, Typed
<1>2. CASE Broadcast
  <2>1. /\ round < Rounds /\ round \in 0..Rounds
        /\ round' = round + 1
        /\ stage' = "receive"
        /\ requests' = requests \union {<<s, round + 1>> : s \in Nearby}
        /\ UNCHANGED <<world, serverVars, draft, answers, lost, unheard, found, seen>>
    BY <1>2 DEF Broadcast, Typed, TypeOK, ProbesInTurn
  <2>2. {<<s, round + 1>> : s \in Nearby} \subseteq Probes
    BY <2>1, DiscoveryAssumption DEF Probes
  <2>3. \A a \in draft \union answers : a.probe[2] <= round
    BY DEF Typed, ProbesInTurn, UnderWay
  <2>4. requests' \intersect {a.probe : a \in draft \union answers} = {}
    BY <2>1, <2>3 DEF Typed, TypeOK
  <2>5. round' \in 0..Rounds
    BY <2>1, DiscoveryAssumption
  <2>6. requests' \subseteq Probes
    BY <2>1, <2>2 DEF Typed, TypeOK
  <2>7. TypeOK'
    BY <2>1, <2>4, <2>5, <2>6, SameWorld DEF serverVars, Typed, TypeOK, Probes
  <2>8. \A q \in UnderWay' : q[2] <= round'
    <3>1. \A q \in UnderWay : q[2] \in 0..Rounds /\ q[2] <= round
      BY DEF UnderWay, Probes, Typed, TypeOK, ProbesInTurn
    <3>2. UnderWay' = UnderWay \union {<<s, round + 1>> : s \in Nearby}
      BY <2>1 DEF UnderWay
    <3> QED BY <2>1, <3>1, <3>2
  <2> QED BY <2>1, <2>7, <2>8 DEF serverVars, Typed, ProbesInTurn
<1>3. CASE Abort \/ EndRound
  <2>1. /\ stage' \in {"aborted", "send", "done"}
        /\ stage' = "send" => round < Rounds
        /\ UNCHANGED <<world, serverVars, netVars, round, seen>>
    BY <1>3 DEF Abort, EndRound, TimeUp
  <2>2. TypeOK'
    BY <2>1, SameWorld DEF serverVars, Typed, TypeOK, Probes
  <2> QED BY <2>1, <2>2 DEF serverVars, Typed, ProbesInTurn, UnderWay
<1> QED BY <1>1, <1>2, <1>3

LEMMA TypedTake ==
    ASSUME Typed, NEW a \in answers, TakeOne(a) \/ TakeCopy(a)
    PROVE  Typed'
<1>1. /\ answers' \subseteq answers
      /\ seen' = seen \union {a.probe[1]}
      /\ UNCHANGED <<world, serverVars, draft, requests, lost, unheard, stage, round>>
  BY DEF TakeOne, TakeCopy, Take
<1>2. a.probe[1] \in Servers
  BY DEF Typed, TypeOK, Probes
<1>3. TypeOK'
  BY <1>1, <1>2, SameWorld DEF serverVars, Typed, TypeOK, Probes
<1>4. UnderWay' \subseteq UnderWay
  BY <1>1 DEF UnderWay
<1> QED BY <1>1, <1>3, <1>4 DEF serverVars, Typed, ProbesInTurn

LEMMA TypedStep == Typed /\ [Next]_vars => Typed'
<1> SUFFICES ASSUME Typed, [Next]_vars PROVE Typed'
  OBVIOUS
<1>1. CASE UNCHANGED vars
  <2>1. TypeOK'
    BY <1>1, SameWorld DEF vars, serverVars, netVars, loadVars, Typed, TypeOK, Probes
  <2> QED BY <1>1, <2>1 DEF vars, serverVars, netVars, loadVars, Typed, ProbesInTurn,
                            UnderWay
<1>2. ASSUME NEW s \in Servers, Start(s) \/ Responder(s) PROVE Typed'
  BY <1>2, TypedTryListen, TypedMain, TypedResponder, TypedNetwork
     DEF Start, Responder
<1>3. CASE Network
  BY <1>3, TypedNetwork, TypedTake DEF Network
<1>4. CASE Load \/ Abort
  BY <1>4, TypedSearch, TypedTake DEF Load
<1> QED BY <1>1, <1>2, <1>3, <1>4 DEF Next, Finished

\* Every variable always has its type; a responder builds one answer at a time,
\* and a probe is in one place.
THEOREM TypeCorrect == Spec => []TypeOK
<1>1. Init => Typed
  BY TypedInit
<1>2. Typed /\ [Next]_vars => Typed'
  BY TypedStep
<1> QED BY <1>1, <1>2, PTL DEF Spec, Typed

-----------------------------------------------------------------------------
(* WebSocket servers listen in order *)

\* A server that tries, with those after it, has not been settled; each port it
\* passed is held, or another server of the host listens there.
PortsPassed ==
    \A s \in Servers : \A k \in Kinds(s) :
        /\ port[s][k] >= FirstPort(s, k)
        /\ ws[s][k] = "trying" => \A j \in Kinds(s) : j > k => ws[s][j] = "trying"
        /\ main[s] # "exited" =>
              \A p \in FirstPort(s, k)..(port[s][k] - 1) : ~Free(s, p)

OrderInv == Typed /\ PortsPassed /\ WsInOrder

LEMMA OrderInit == Init => OrderInv
<1> SUFFICES ASSUME Init PROVE OrderInv
  OBVIOUS
<1>1. Typed
  BY TypedInit
<1>2. ASSUME NEW s \in Servers, NEW k \in Kinds(s)
      PROVE  /\ port[s][k] = FirstPort(s, k) /\ FirstPort(s, k) \in Nat
             /\ ws[s][k] = "trying"
  BY <1>2, KindsAreNumbers DEF Init
<1>3. PortsPassed
  BY <1>2 DEF PortsPassed
<1>4. WsInOrder
  BY <1>2 DEF WsInOrder
<1> QED BY <1>1, <1>3, <1>4 DEF OrderInv

\* What a server that moves or listens does to the ports of its host.
LEMMA OrderTryListen ==
    ASSUME OrderInv, NEW s \in Servers, NEW k \in Kinds(s), TryListen(s, k)
    PROVE  PortsPassed' /\ WsInOrder'
<1>1. port[s] \in [Kinds(s) -> Nat] /\ ws[s] \in [Kinds(s) -> {"trying"} \union Settled]
  BY DEF OrderInv, Typed, TypeOK
<1>2. /\ world' = world /\ main' = main
      /\ \A r \in Servers \ {s} : port'[r] = port[r] /\ ws'[r] = ws[r]
      /\ \A j \in Kinds(s) \ {k} : port'[s][j] = port[s][j] /\ ws'[s][j] = ws[s][j]
  BY <1>1 DEF TryListen, OrderInv, Typed
<1>3. \/ Free(s, port[s][k]) /\ port'[s][k] = port[s][k] /\ ws'[s][k] = "up"
      \/ /\ ~Free(s, port[s][k]) /\ port'[s][k] = port[s][k] + 1
         /\ ws'[s][k] = "trying"
      \/ port'[s][k] = port[s][k] /\ ws'[s][k] = "failed"
  BY <1>1 DEF TryListen, Listening, OrderInv, Typed
<1>4. /\ ws[s][k] = "trying" /\ main[s] # "exited"
      /\ \A j \in Kinds(s) : j < k => ws[s][j] # "trying"
      /\ \A j \in Kinds(s) : j > k => ws[s][j] = "trying"
  BY DEF TryListen, Listening, Settled, OrderInv, PortsPassed
<1>5. \A r \in Servers : Kinds(r)' = Kinds(r) /\ \A j : FirstPort(r, j)' = FirstPort(r, j)
  BY <1>2, SameWorld
<1>6. \A j \in Kinds(s) : j \in Nat /\ FirstPort(s, j) \in Nat
  BY KindsAreNumbers
<1>7. \A p : ~Free(s, p) => ~Free(s, p)'
  BY <1>2, <1>4, <1>5 DEF Free
<1>8. \A r \in Servers \ {s} : \A p : Free(r, p)' = Free(r, p)
  BY <1>2, <1>5 DEF Free
<1>9. PortsPassed'
  <2> SUFFICES ASSUME NEW r \in Servers, NEW j \in Kinds(r)
               PROVE  /\ port'[r][j] >= FirstPort(r, j)
                      /\ ws'[r][j] = "trying" =>
                            \A i \in Kinds(r) : i > j => ws'[r][i] = "trying"
                      /\ main[r] # "exited" =>
                            \A p \in FirstPort(r, j)..(port'[r][j] - 1) : ~Free(r, p)'
    BY <1>2, <1>5 DEF PortsPassed
  <2>1. /\ port[r][j] >= FirstPort(r, j)
        /\ ws[r][j] = "trying" => \A i \in Kinds(r) : i > j => ws[r][i] = "trying"
        /\ main[r] # "exited" =>
              \A p \in FirstPort(r, j)..(port[r][j] - 1) : ~Free(r, p)
    BY DEF OrderInv, PortsPassed
  <2>2. CASE r # s
    BY <1>2, <1>8, <2>1, <2>2
  <2>3. CASE r = s /\ j # k
    BY <1>2, <1>4, <1>6, <1>7, <2>1, <2>3
  <2>4. CASE r = s /\ j = k
    <3>1. \A i \in Kinds(s) : i > k => ws'[s][i] = "trying"
      BY <1>2, <1>4, <1>6
    <3>2. port'[s][k] >= FirstPort(s, k)
      BY <1>1, <1>3, <1>6, <2>1, <2>4
    <3>3. \A p \in FirstPort(s, k)..(port'[s][k] - 1) : ~Free(s, p)
      BY <1>1, <1>3, <1>4, <1>6, <2>1, <2>4
    <3> QED BY <1>7, <2>4, <3>1, <3>2, <3>3
  <2> QED BY <2>2, <2>3, <2>4
<1>10. WsInOrder'
  <2> SUFFICES ASSUME NEW r \in Servers, NEW i \in Kinds(r), NEW j \in Kinds(r),
                      i < j, ws'[r][i] = "up", ws'[r][j] = "up"
               PROVE  port'[r][i] < port'[r][j]
    BY <1>5 DEF WsInOrder
  <2>1. CASE r # s \/ (i # k /\ j # k)
    <3>1. /\ ws[r][i] = "up" /\ ws[r][j] = "up"
          /\ port'[r][i] = port[r][i] /\ port'[r][j] = port[r][j]
      BY <1>2, <2>1
    <3> QED BY <3>1 DEF OrderInv, WsInOrder
  <2>2. CASE r = s /\ i = k
    BY <1>2, <1>4, <1>6, <2>2
  <2>3. CASE r = s /\ j = k
    <3>1. /\ Free(s, port[s][k]) /\ port'[s][k] = port[s][k]
          /\ ws[s][i] = "up" /\ port'[s][i] = port[s][i]
      BY <1>2, <1>3, <1>6, <2>3
    <3>2. port[s][i] # port[s][k]
      BY <2>3, <3>1 DEF Free
    <3>3. FirstPort(s, i) < FirstPort(s, k)
      BY <1>6, <2>3 DEF FirstPort, Kinds
    <3>4. port[s][k] >= FirstPort(s, k)
      BY DEF OrderInv, PortsPassed
    <3>5. \A p \in FirstPort(s, i)..(port[s][i] - 1) : ~Free(s, p)
      BY <1>4, <2>3 DEF OrderInv, PortsPassed
    <3>6. port[s][k] \notin FirstPort(s, i)..(port[s][i] - 1)
      BY <3>1, <3>5
    <3> QED BY <1>1, <1>6, <2>3, <3>1, <3>2, <3>3, <3>4, <3>6
  <2> QED BY <2>1, <2>2, <2>3
<1> QED BY <1>9, <1>10

\* When its process exits all servers of a host are gone.
LEMMA OrderExit ==
    ASSUME OrderInv, NEW s \in Servers, BindHttp(s)
    PROVE  PortsPassed' /\ WsInOrder'
<1>1. UNCHANGED <<world, port>>
  BY DEF BindHttp
<1>2. \A r \in Servers : Kinds(r)' = Kinds(r) /\ \A j : FirstPort(r, j)' = FirstPort(r, j)
  BY <1>1, SameWorld
<1>3. main[s] = "spawned"
  BY DEF BindHttp
<1>4. \A r \in Servers : main'[r] # "exited" => ws'[r] = ws[r] /\ main[r] # "exited"
  BY <1>3 DEF BindHttp, OrderInv, Typed, TypeOK
<1>5. \A r \in Servers : main'[r] = "exited" =>
          ws'[r] = ws[r] \/ \A k \in Kinds(r) : ws'[r][k] = "failed"
  <2>1. \A r \in Servers : DOMAIN ws[r] = Kinds(r)
    BY DEF OrderInv, Typed, TypeOK
  <2> QED BY <2>1 DEF BindHttp, OrderInv, Typed
<1>6. \A r \in Servers : main'[r] # "exited" => \A p : Free(r, p)' = Free(r, p)
  BY <1>1, <1>2, <1>4 DEF Free
<1>7. \A r \in Servers : ws'[r] = ws[r] \/ \A k \in Kinds(r) : ws'[r][k] = "failed"
  BY <1>4, <1>5
<1>8. PortsPassed'
  BY <1>1, <1>2, <1>4, <1>6, <1>7 DEF OrderInv, PortsPassed
<1>9. WsInOrder'
  BY <1>1, <1>2, <1>7 DEF OrderInv, WsInOrder
<1> QED BY <1>8, <1>9

LEMMA OrderElsewhere ==
    ASSUME OrderInv, UNCHANGED <<world, port, ws>>,
           \A s \in Servers : main'[s] # "exited" => main[s] # "exited"
    PROVE  PortsPassed' /\ WsInOrder'
<1>1. \A r \in Servers : Kinds(r)' = Kinds(r) /\ \A j : FirstPort(r, j)' = FirstPort(r, j)
  BY SameWorld
<1>2. \A r \in Servers : \A p : Free(r, p)' = Free(r, p)
  BY <1>1 DEF Free
<1> QED BY <1>1, <1>2 DEF OrderInv, PortsPassed, WsInOrder

LEMMA OrderStep == OrderInv /\ [Next]_vars => OrderInv'
<1> SUFFICES ASSUME OrderInv, [Next]_vars PROVE PortsPassed' /\ WsInOrder'
  BY TypedStep DEF OrderInv
<1> USE DEF vars, serverVars
<1>1. CASE UNCHANGED vars
  BY <1>1, OrderElsewhere
<1>2. ASSUME NEW s \in Servers, Start(s) PROVE PortsPassed' /\ WsInOrder'
  <2>1. CASE Spawn(s)
    BY <2>1, OrderElsewhere DEF Spawn, OrderInv, Typed, TypeOK
  <2>2. CASE BindDiscovery(s)
    BY <2>2, OrderElsewhere DEF BindDiscovery
  <2> QED BY <1>2, <2>1, <2>2, OrderTryListen, OrderExit DEF Start
<1>3. ASSUME NEW s \in Servers, Responder(s) PROVE PortsPassed' /\ WsInOrder'
  BY <1>3, OrderElsewhere DEF Responder, Receive, Send
<1>4. CASE Network
  BY <1>4, OrderElsewhere DEF Network, LoseRequest, LoseAnswer, Unheard, SendFails,
                              TakeCopy, Take
<1>5. CASE Load \/ Abort
  BY <1>5, OrderElsewhere DEF Load, Scan, Broadcast, EndRound, TimeUp, TakeOne, Take,
                              Abort
<1> QED BY <1>1, <1>2, <1>3, <1>4, <1>5 DEF Next, Finished

\* Whatever ports are taken, the WebSocket servers of a host never meet, and
\* keep the order of their kinds.
THEOREM PortsNeverMeet == Spec => []WsInOrder
<1>1. Init => OrderInv
  BY OrderInit
<1>2. OrderInv /\ [Next]_vars => OrderInv'
  BY OrderStep
<1> QED BY <1>1, <1>2, PTL DEF Spec, OrderInv

-----------------------------------------------------------------------------
(* No server that listens is missed *)

Accounted == UnderWay \union lost \union unheard

\* Of a server that has not been seen every probe sent so far is accounted for,
\* and a search is done when no probe is under way.
NoneForgotten ==
    /\ \A s \in Servers \ seen :
          /\ s \in Nearby => \A i \in 1..round : <<s, i>> \in Accounted
          /\ s \in Scanned /\ stage # "scan" => <<s, 0>> \in Accounted
    /\ stage = "done" => round = Rounds /\ UnderWay = {}

\* Whatever the servers and the network do, no probe disappears.
LEMMA ForgottenByNone ==
    ASSUME NoneForgotten, UNCHANGED loadVars, Accounted \subseteq Accounted',
           UnderWay' \subseteq UnderWay
    PROVE  NoneForgotten'
  BY DEF NoneForgotten, loadVars

LEMMA AccountedStart ==
    ASSUME Typed, NEW s \in Servers, Start(s)
    PROVE  UNCHANGED loadVars /\ Accounted \subseteq Accounted'
              /\ UnderWay' \subseteq UnderWay
<1>1. CASE BindHttp(s)
  <2>1. /\ draft' \subseteq draft
        /\ lost' = lost \union {a.probe : a \in draft \ draft'}
        /\ UNCHANGED <<requests, answers, unheard, loadVars>>
    BY <1>1 DEF BindHttp
  <2> QED BY <2>1 DEF Accounted, UnderWay
<1> QED BY <1>1 DEF Start, TryListen, Spawn, BindDiscovery, netVars, loadVars,
                    Accounted, UnderWay

LEMMA AccountedNet ==
    ASSUME \/ \E s \in Servers, i \in 0..Rounds : Receive(s, i)
           \/ \E a \in draft : Send(a) \/ SendFails(a)
           \/ \E q \in requests : LoseRequest(q)
           \/ \E s \in Servers, i \in 0..Rounds : Unheard(s, i)
           \/ \E a \in answers : LoseAnswer(a)
    PROVE  UNCHANGED loadVars /\ Accounted \subseteq Accounted'
              /\ UnderWay' \subseteq UnderWay
<1> USE DEF loadVars, Accounted, UnderWay
<1>1. ASSUME NEW s \in Servers, NEW i \in 0..Rounds, Receive(s, i)
      PROVE  UNCHANGED loadVars /\ Accounted \subseteq Accounted'
                /\ UnderWay' \subseteq UnderWay
  <2> DEFINE new == [probe |-> <<s, i>>, ws |-> Advertised(s)]
  <2>1. /\ <<s, i>> \in requests
        /\ requests' = requests \ {<<s, i>>}
        /\ draft' = draft \union {new} /\ new.probe = <<s, i>>
        /\ UNCHANGED <<answers, lost, unheard, loadVars>>
    BY <1>1 DEF Receive
  <2> HIDE DEF new
  <2>2. {a.probe : a \in draft' \union answers'}
           = {a.probe : a \in draft \union answers} \union {<<s, i>>}
    BY <2>1
  <2> HIDE DEF loadVars
  <2> QED BY <2>1, <2>2
<1>2. ASSUME NEW a \in draft, Send(a) \/ SendFails(a)
      PROVE  UNCHANGED loadVars /\ Accounted \subseteq Accounted'
                /\ UnderWay' \subseteq UnderWay
  BY <1>2 DEF Send, SendFails
<1>3. ASSUME NEW q \in requests, LoseRequest(q)
      PROVE  UNCHANGED loadVars /\ Accounted \subseteq Accounted'
                /\ UnderWay' \subseteq UnderWay
  BY <1>3 DEF LoseRequest
<1>4. ASSUME NEW s \in Servers, NEW i \in 0..Rounds, Unheard(s, i)
      PROVE  UNCHANGED loadVars /\ Accounted \subseteq Accounted'
                /\ UnderWay' \subseteq UnderWay
  BY <1>4 DEF Unheard
<1>5. ASSUME NEW a \in answers, LoseAnswer(a)
      PROVE  UNCHANGED loadVars /\ Accounted \subseteq Accounted'
                /\ UnderWay' \subseteq UnderWay
  BY <1>5 DEF LoseAnswer
<1> QED BY <1>1, <1>2, <1>3, <1>4, <1>5

\* The answer that is taken is of a server that is seen from now on.
LEMMA ForgottenByTake ==
    ASSUME Typed, NoneForgotten, NEW a \in answers, TakeOne(a) \/ TakeCopy(a)
    PROVE  NoneForgotten'
<1>1. /\ seen' = seen \union {a.probe[1]}
      /\ answers' \subseteq answers /\ answers \ {a} \subseteq answers'
      /\ UNCHANGED <<draft, requests, lost, unheard, stage, round>>
  BY DEF TakeOne, TakeCopy, Take
<1>2. UnderWay' \subseteq UnderWay /\ UnderWay \ {a.probe} \subseteq UnderWay'
  BY <1>1 DEF UnderWay
<1>3. \A s \in Servers \ seen' : \A i : <<s, i>> # a.probe
  BY <1>1
<1>4. \A s \in Servers \ seen' : \A i : <<s, i>> \in Accounted => <<s, i>> \in Accounted'
  BY <1>1, <1>2, <1>3 DEF Accounted
<1> QED BY <1>1, <1>2, <1>4 DEF NoneForgotten

LEMMA ForgottenBySearch ==
    ASSUME Typed, NoneForgotten, Scan \/ Broadcast \/ Abort \/ EndRound
    PROVE  NoneForgotten'
<1>1. CASE Scan
  <2>1. /\ stage = "scan" /\ stage' = "send" /\ round = 0
        /\ requests' = requests \union {<<s, 0>> : s \in Scanned}
        /\ UNCHANGED <<draft, answers, lost, unheard, round, seen>>
    BY <1>1 DEF Scan, Typed, ProbesInTurn
  <2>2. \A s \in Scanned : <<s, 0>> \in Accounted'
    BY <2>1 DEF Accounted, UnderWay
  <2> QED BY <2>1, <2>2 DEF NoneForgotten
<1>2. CASE Broadcast
  <2>1. /\ stage = "send" /\ stage' = "receive"
        /\ round' = round + 1 /\ round \in Nat
        /\ requests' = requests \union {<<s, round + 1>> : s \in Nearby}
        /\ UNCHANGED <<draft, answers, lost, unheard, seen>>
    BY <1>2, DiscoveryAssumption DEF Broadcast, Typed, TypeOK
  <2>2. Accounted' = Accounted \union {<<s, round + 1>> : s \in Nearby}
    BY <2>1 DEF Accounted, UnderWay
  <2> QED BY <2>1, <2>2 DEF NoneForgotten
<1>3. CASE Abort \/ EndRound
  <2>1. /\ stage # "scan" /\ stage' \in {"aborted", "send", "done"}
        /\ UNCHANGED <<netVars, round, seen>>
    BY <1>3 DEF Abort, EndRound, TimeUp
  <2>2. ASSUME stage' = "done" PROVE round = Rounds /\ UnderWay = {}
    <3>1. EndRound
      BY <1>3, <2>2 DEF Abort
    <3>2. /\ ~(round < Rounds)
          /\ round = Rounds => requests = {} /\ draft = {} /\ answers = {}
      BY <2>2, <3>1 DEF EndRound, TimeUp
    <3>3. round \in 0..Rounds /\ Rounds \in Nat
      BY DiscoveryAssumption DEF Typed, TypeOK
    <3>4. round = Rounds
      BY <3>2, <3>3
    <3> QED BY <3>2, <3>4 DEF UnderWay
  <2>3. UnderWay' = UnderWay /\ Accounted' = Accounted
    BY <2>1 DEF netVars, UnderWay, Accounted
  <2> QED BY <2>1, <2>2, <2>3 DEF NoneForgotten
<1> QED BY <1>1, <1>2, <1>3

LEMMA ForgottenStep == Typed /\ NoneForgotten /\ [Next]_vars => NoneForgotten'
<1> SUFFICES ASSUME Typed, NoneForgotten, [Next]_vars PROVE NoneForgotten'
  OBVIOUS
<1>1. CASE UNCHANGED vars
  BY <1>1 DEF vars, netVars, loadVars, NoneForgotten, Accounted, UnderWay
<1>2. ASSUME NEW s \in Servers, Start(s) PROVE NoneForgotten'
  BY <1>2, AccountedStart, ForgottenByNone
<1>3. ASSUME NEW s \in Servers, Responder(s) PROVE NoneForgotten'
  BY <1>3, AccountedNet, ForgottenByNone DEF Responder
<1>4. CASE Network
  BY <1>4, AccountedNet, ForgottenByNone, ForgottenByTake DEF Network
<1>5. CASE Load \/ Abort
  BY <1>5, ForgottenBySearch, ForgottenByTake DEF Load
<1> QED BY <1>1, <1>2, <1>3, <1>4, <1>5 DEF Next, Finished

\* A search that is done misses a server only if every probe sent to it was lost
\* or found no one listening.
THEOREM WhoListensIsFound == Spec => []MissedOnlyIfUnheard
<1>1. Init => Typed /\ NoneForgotten
  <2>1. Init => NoneForgotten
    BY DEF Init, NoneForgotten
  <2> QED BY <2>1, TypedInit
<1>2. Typed /\ NoneForgotten /\ [Next]_vars => (Typed /\ NoneForgotten)'
  BY TypedStep, ForgottenStep
<1>3. NoneForgotten => MissedOnlyIfUnheard
  BY DEF NoneForgotten, Accounted, MissedOnlyIfUnheard
<1> QED BY <1>1, <1>2, <1>3, PTL DEF Spec

-----------------------------------------------------------------------------
(* The list and the ports it tells *)

AnyPorts == [{0} -> Nat] \union [AllKinds -> Nat]
Entries == [ip : Servers \union {Local}, ws : AnyPorts]

\* While the search goes on the list has the servers seen, each once.
ListGrows ==
    /\ \A a \in draft \union answers : a.ws \in AnyPorts
    /\ found \in Seq(Entries)
    /\ stage \notin {"done", "aborted"} =>
          /\ \A i, j \in DOMAIN found : found[i].ip = found[j].ip => i = j
          /\ {found[i].ip : i \in DOMAIN found} = seen

ListInv == Typed /\ ListGrows /\ ListIsUsable

LEMMA PortsAreAny ==
    ASSUME Typed, NEW s \in Servers
    PROVE  port[s] \in AnyPorts /\ Advertised(s) \in AnyPorts
<1>1. port[s] \in [Kinds(s) -> Nat]
  BY DEF Typed, TypeOK
<1>2. Kinds(s) \in {{0}, AllKinds}
  BY DEF Kinds, AllKinds
<1>3. Advertised(s) \in [Kinds(s) -> Nat]
  BY <1>1, KindsAreNumbers DEF Advertised
<1> QED BY <1>1, <1>2, <1>3 DEF AnyPorts

LEMMA DefaultIsEntry == Default \in Entries /\ Default.ip = Local
<1>1. Default.ws \in [AllKinds -> Nat]
  BY DiscoveryAssumption DEF Default, AllKinds
<1> QED BY <1>1 DEF Default, Entries, AnyPorts

LEMMA AnswerIsEntry ==
    ASSUME Typed, ListGrows, NEW a \in answers
    PROVE  Entry(a) \in Entries /\ Entry(a).ip = a.probe[1] /\ a.probe[1] \in Servers
<1>1. a.probe[1] \in Servers /\ a.ws \in AnyPorts
  BY DEF Typed, TypeOK, Probes, ListGrows
<1>2. Default.ws \in AnyPorts
  BY DefaultIsEntry DEF Entries
<1> QED BY <1>1, <1>2 DEF Entry, Entries

LEMMA ListInit == Init => ListInv
<1> SUFFICES ASSUME Init PROVE ListGrows /\ ListIsUsable
  BY TypedInit DEF ListInv
<1>1. found = <<>> /\ seen = {} /\ stage = "scan" /\ draft = {} /\ answers = {}
  BY DEF Init
<1> QED BY <1>1 DEF ListGrows, ListIsUsable

\* The answers that are built tell numbers.
LEMMA ListElsewhere ==
    ASSUME Typed, ListGrows, ListIsUsable, UNCHANGED <<stage, found, seen>>,
           \A a \in draft' \union answers' : a.ws \in AnyPorts
    PROVE  ListGrows' /\ ListIsUsable'
  BY DEF ListGrows, ListIsUsable

LEMMA ListTake ==
    ASSUME Typed, ListGrows, NEW a \in answers, TakeOne(a) \/ TakeCopy(a)
    PROVE  ListGrows' /\ ListIsUsable'
<1>1. /\ stage = "receive" /\ stage' = stage
      /\ answers' \subseteq answers /\ draft' = draft
      /\ found' = IF a.probe[1] \in seen THEN found ELSE Append(found, Entry(a))
      /\ seen' = seen \union {a.probe[1]}
  BY DEF TakeOne, TakeCopy, Take
<1>2. /\ found \in Seq(Entries)
      /\ \A i, j \in DOMAIN found : found[i].ip = found[j].ip => i = j
      /\ {found[i].ip : i \in DOMAIN found} = seen
  BY <1>1 DEF ListGrows
<1>3. Entry(a) \in Entries /\ Entry(a).ip = a.probe[1]
  BY AnswerIsEntry
<1>4. CASE a.probe[1] \in seen
  <2>1. found' = found /\ seen' = seen
    BY <1>1, <1>4
  <2> QED BY <1>1, <2>1 DEF ListGrows, ListIsUsable
<1>5. CASE a.probe[1] \notin seen
  <2> DEFINE n == Len(found) + 1
  <2>1. /\ found' \in Seq(Entries) /\ DOMAIN found' = 1..n
        /\ n \in Nat \ {0}
        /\ DOMAIN found = 1..(n - 1)
        /\ found'[n] = Entry(a)
        /\ \A i \in 1..(n - 1) : found'[i] = found[i]
    BY <1>1, <1>2, <1>3, <1>5
  <2> HIDE DEF n
  <2>2. \A i \in 1..(n - 1) : found'[i].ip # a.probe[1]
    BY <1>2, <1>5, <2>1
  <2>3. \A i, j \in DOMAIN found' : found'[i].ip = found'[j].ip => i = j
    <3>1. \A i \in DOMAIN found' : i = n \/ i \in DOMAIN found
      BY <2>1
    <3> QED BY <1>2, <1>3, <2>1, <2>2, <3>1
  <2>4. {found'[i].ip : i \in DOMAIN found'} = seen'
    <3>1. \A i : i \in DOMAIN found' <=> i \in DOMAIN found \/ i = n
      BY <2>1
    <3>2. \A i \in DOMAIN found : found'[i].ip = found[i].ip
      BY <2>1
    <3>3. found'[n].ip = a.probe[1]
      BY <1>3, <2>1
    <3>4. \A x : (\E i \in DOMAIN found' : found'[i].ip = x)
                   <=> (\E i \in DOMAIN found : found[i].ip = x) \/ x = a.probe[1]
      BY <3>1, <3>2, <3>3
    <3>5. \A x : x \in seen <=> \E i \in DOMAIN found : found[i].ip = x
      BY <1>2
    <3>6. \A x : x \in seen' <=> \E i \in DOMAIN found' : found'[i].ip = x
      BY <1>1, <3>4, <3>5
    <3> QED BY <3>6
  <2>5. \A b \in draft' \union answers' : b.ws \in AnyPorts
    BY <1>1 DEF ListGrows
  <2> QED BY <1>1, <2>1, <2>3, <2>4, <2>5 DEF ListGrows, ListIsUsable
<1> QED BY <1>4, <1>5

\* A search that ends puts the controller's own host into an empty list.
LEMMA ListEnd ==
    ASSUME Typed, ListGrows, stage \notin {"done", "aborted"},
           found' = Result(found), UNCHANGED <<draft, answers, seen>>,
           stage' \in {"done", "aborted"}
    PROVE  ListGrows' /\ ListIsUsable'
<1>1. /\ found \in Seq(Entries)
      /\ \A i, j \in DOMAIN found : found[i].ip = found[j].ip => i = j
      /\ {found[i].ip : i \in DOMAIN found} = seen
  BY DEF ListGrows
<1>2. CASE found = <<>>
  <2>1. found' = <<Default>> /\ seen = {}
    BY <1>1, <1>2 DEF Result
  <2>2. found' \in Seq(Entries) /\ DOMAIN found' = {1} /\ found'[1].ip = Local
    BY <2>1, DefaultIsEntry
  <2> QED BY <2>1, <2>2 DEF ListGrows, ListIsUsable
<1>3. CASE found # <<>>
  <2>1. found' = found
    BY <1>3 DEF Result
  <2>2. seen # {}
    <3>1. 1 \in DOMAIN found
      BY <1>1, <1>3
    <3> QED BY <1>1, <3>1
  <2> QED BY <1>1, <1>3, <2>1, <2>2 DEF ListGrows, ListIsUsable
<1> QED BY <1>2, <1>3

LEMMA ListStep == ListInv /\ [Next]_vars => ListInv'
<1> SUFFICES ASSUME ListInv, [Next]_vars PROVE ListGrows' /\ ListIsUsable'
  BY TypedStep DEF ListInv
<1>1. Typed /\ ListGrows /\ ListIsUsable
  BY DEF ListInv
<1>2. \A a \in draft \union answers : a.ws \in AnyPorts
  BY <1>1 DEF ListGrows
<1>3. CASE UNCHANGED vars
  BY <1>1, <1>2, <1>3, ListElsewhere DEF vars, netVars, loadVars
<1>4. ASSUME NEW s \in Servers, Start(s) PROVE ListGrows' /\ ListIsUsable'
  <2>1. /\ UNCHANGED <<stage, found, seen>>
        /\ draft' \union answers' \subseteq draft \union answers
    BY <1>4 DEF Start, TryListen, Spawn, BindHttp, BindDiscovery, netVars, loadVars
  <2> QED BY <1>1, <1>2, <2>1, ListElsewhere
<1>5. ASSUME NEW s \in Servers, Responder(s) PROVE ListGrows' /\ ListIsUsable'
  <2>1. UNCHANGED <<stage, found, seen>>
    BY <1>5 DEF Responder, Receive, Send, loadVars
  <2>2. \A a \in draft' \union answers' :
           a \in draft \union answers \/ a.ws = Advertised(s)
    <3>1. CASE \E i \in 0..Rounds : Receive(s, i)
      <4>1. PICK i \in 0..Rounds : Receive(s, i)
        BY <3>1
      <4> DEFINE new == [probe |-> <<s, i>>, ws |-> Advertised(s)]
      <4>2. new.ws = Advertised(s)
        OBVIOUS
      <4>3. draft' = draft \union {new} /\ answers' = answers
        BY <4>1 DEF Receive
      <4> HIDE DEF new
      <4> QED BY <4>2, <4>3
    <3>2. CASE \E a \in draft : Send(a)
      BY <3>2 DEF Send
    <3> QED BY <1>5, <3>1, <3>2 DEF Responder
  <2> QED BY <1>1, <1>2, <2>1, <2>2, PortsAreAny, ListElsewhere
<1>6. CASE \/ \E q \in requests : LoseRequest(q)
           \/ \E s \in Servers, i \in 0..Rounds : Unheard(s, i)
           \/ \E a \in answers : LoseAnswer(a)
           \/ \E a \in draft : SendFails(a)
  <2>1. /\ UNCHANGED <<stage, found, seen>>
        /\ draft' \union answers' \subseteq draft \union answers
    BY <1>6 DEF LoseRequest, Unheard, LoseAnswer, SendFails, loadVars
  <2> QED BY <1>1, <1>2, <2>1, ListElsewhere
<1>7. ASSUME NEW a \in answers, TakeOne(a) \/ TakeCopy(a)
      PROVE  ListGrows' /\ ListIsUsable'
  BY <1>1, <1>7, ListTake
<1>8. CASE Scan \/ Broadcast
  <2>1. /\ stage \notin {"done", "aborted"} /\ stage' \notin {"done", "aborted"}
        /\ UNCHANGED <<found, seen, draft, answers>>
    BY <1>8 DEF Scan, Broadcast
  <2> QED BY <1>1, <2>1 DEF ListGrows, ListIsUsable
<1>9. CASE Abort \/ EndRound
  <2>1. stage \notin {"done", "aborted"} /\ UNCHANGED <<draft, answers, seen>>
    BY <1>9 DEF Abort, EndRound, TimeUp, netVars
  <2>2. \/ stage' = "send" /\ found' = found
        \/ stage' \in {"done", "aborted"} /\ found' = Result(found)
    BY <1>9 DEF Abort, EndRound, TimeUp
  <2>3. CASE stage' = "send" /\ found' = found
    BY <1>1, <2>1, <2>3 DEF ListGrows, ListIsUsable
  <2> QED BY <1>1, <2>1, <2>2, <2>3, ListEnd
<1> QED BY <1>3, <1>4, <1>5, <1>6, <1>7, <1>8, <1>9 DEF Next, Network, Load, Finished,
                                                        vars

\* However the search ends, the list is not empty, has no address twice, and has
\* the servers that answered or else the controller's own host.
THEOREM ListsAreUsable == Spec => []ListIsUsable
<1>1. Init => ListInv
  BY ListInit
<1>2. ListInv /\ [Next]_vars => ListInv'
  BY ListStep
<1> QED BY <1>1, <1>2, PTL DEF Spec, ListInv

-----------------------------------------------------------------------------
(* The ports the controller is told *)

\* What is told of s was true once: ports only move up.
ToldOnce(s, t) == /\ t \in [Kinds(s) -> Nat]
                  /\ \A k \in Kinds(s) : FirstPort(s, k) <= t[k] /\ t[k] <= port[s][k]

PortsInv == /\ OrderInv /\ ListInv
            /\ \A s \in Servers : \A t \in Told(s) : ToldOnce(s, t)

LEMMA PortsInit == Init => PortsInv
<1> SUFFICES ASSUME Init
             PROVE  \A s \in Servers : Told(s) = {}
  BY OrderInit, ListInit DEF PortsInv
<1> QED BY DEF Init, Told, Answered, Believed

\* Ports move up, one server at a time.
LEMMA PortsMoveUp ==
    ASSUME PortsInv, [Next]_vars
    PROVE  /\ UNCHANGED world
           /\ \A s \in Servers : \A k \in Kinds(s) : port[s][k] <= port'[s][k]
<1>1. \A s \in Servers : \A k \in Kinds(s) : port[s][k] \in Nat
  BY DEF PortsInv, OrderInv, Typed, TypeOK
<1>2. CASE UNCHANGED <<world, port>>
  BY <1>1, <1>2
<1>3. ASSUME NEW s \in Servers, NEW k \in Kinds(s), TryListen(s, k)
      PROVE  /\ UNCHANGED world
             /\ \A r \in Servers : \A j \in Kinds(r) : port[r][j] <= port'[r][j]
  <2>1. port[s] \in [Kinds(s) -> Nat] /\ port = [r \in Servers |-> port[r]]
    BY DEF PortsInv, OrderInv, Typed, TypeOK
  <2>2. /\ \A r \in Servers \ {s} : port'[r] = port[r]
        /\ \A j \in Kinds(s) \ {k} : port'[s][j] = port[s][j]
        /\ port'[s][k] = port[s][k] \/ port'[s][k] = port[s][k] + 1
    BY <1>3, <2>1 DEF TryListen
  <2> QED BY <1>1, <1>3, <2>2 DEF TryListen
<1>4. \/ UNCHANGED <<world, port>>
      \/ \E s \in Servers : \E k \in Kinds(s) : TryListen(s, k)
  BY DEF Next, Start, Responder, Network, Load, Finished, vars, serverVars, Spawn,
         BindHttp, BindDiscovery, Receive, Send, SendFails, LoseRequest, LoseAnswer,
         Unheard, Scan, Broadcast, Abort, TakeOne, TakeCopy, Take, EndRound, TimeUp
<1> QED BY <1>2, <1>3, <1>4

\* Nothing is told that was not told before, or is so now.
LEMMA ToldStep ==
    ASSUME PortsInv, [Next]_vars, NEW s \in Servers
    PROVE  Told(s)' \subseteq Told(s) \union {Advertised(s)}
<1>1. Modular(s)' = Modular(s)
  BY PortsMoveUp, SameWorld
<1>2. CASE UNCHANGED <<draft, answers, found>>
  BY <1>1, <1>2 DEF Told, Answered, Believed
<1>3. CASE draft' \union answers' \subseteq draft \union answers /\ UNCHANGED found
  BY <1>1, <1>3 DEF Told, Answered, Believed
<1>4. ASSUME NEW r \in Servers, NEW i \in 0..Rounds, Receive(r, i)
      PROVE  Told(s)' \subseteq Told(s) \union {Advertised(s)}
  <2> DEFINE new == [probe |-> <<r, i>>, ws |-> Advertised(r)]
  <2>1. new.probe[1] = r /\ new.ws = Advertised(r)
    OBVIOUS
  <2>2. draft' = draft \union {new} /\ UNCHANGED <<answers, found>>
    BY <1>4 DEF Receive, loadVars
  <2> HIDE DEF new
  <2> QED BY <1>1, <2>1, <2>2 DEF Told, Answered, Believed
<1>5. ASSUME NEW a \in answers, TakeOne(a) \/ TakeCopy(a)
      PROVE  Told(s)' \subseteq Told(s) \union {Advertised(s)}
  <2>1. /\ draft' = draft /\ answers' \subseteq answers
        /\ found' = IF a.probe[1] \in seen THEN found ELSE Append(found, Entry(a))
    BY <1>5 DEF TakeOne, TakeCopy, Take
  <2>2. Entry(a) \in Entries /\ found \in Seq(Entries) /\ Entry(a).ip = a.probe[1]
    BY AnswerIsEntry DEF PortsInv, ListInv, ListGrows
  <2>3. \A i \in DOMAIN found' : \/ i \in DOMAIN found /\ found'[i] = found[i]
                                 \/ found'[i] = Entry(a)
    BY <2>1, <2>2
  <2>4. ASSUME Entry(a).ip = s, Modular(s) PROVE Entry(a).ws \in Told(s)
    BY <2>2, <2>4 DEF Entry, Told, Answered, Believed
  <2> QED BY <1>1, <2>1, <2>3, <2>4 DEF Told, Answered, Believed
<1>6. CASE found' = Result(found) /\ UNCHANGED <<draft, answers>>
  <2>1. \A i \in DOMAIN found' : \/ i \in DOMAIN found /\ found'[i] = found[i]
                                 \/ found'[i] = Default
    BY <1>6 DEF Result
  <2>2. Default.ip # s
    BY DefaultIsEntry, DiscoveryAssumption
  <2> QED BY <1>1, <1>6, <2>1, <2>2 DEF Told, Answered, Believed
<1>7. \/ UNCHANGED <<draft, answers, found>>
      \/ draft' \union answers' \subseteq draft \union answers /\ UNCHANGED found
      \/ \E r \in Servers, i \in 0..Rounds : Receive(r, i)
      \/ \E a \in answers : TakeOne(a) \/ TakeCopy(a)
      \/ found' = Result(found) /\ UNCHANGED <<draft, answers>>
  BY DEF Next, Start, Responder, Network, Load, Finished, vars, netVars, loadVars,
         TryListen, Spawn, BindHttp, BindDiscovery, Send, SendFails, LoseRequest,
         LoseAnswer, Unheard, Scan, Broadcast, Abort, EndRound, TimeUp
<1> QED BY <1>2, <1>3, <1>4, <1>5, <1>6, <1>7

LEMMA PortsStep == PortsInv /\ [Next]_vars => PortsInv'
<1> SUFFICES ASSUME PortsInv, [Next]_vars
             PROVE  \A s \in Servers : \A t \in Told(s)' : ToldOnce(s, t)'
  BY OrderStep, ListStep, PortsMoveUp DEF PortsInv
<1> TAKE s \in Servers
<1>1. /\ UNCHANGED world
      /\ \A k \in Kinds(s) : port[s][k] <= port'[s][k]
  BY PortsMoveUp
<1>2. Kinds(s)' = Kinds(s) /\ \A k : FirstPort(s, k)' = FirstPort(s, k)
  BY <1>1, SameWorld
<1>3. port[s] \in [Kinds(s) -> Nat] /\ port'[s] \in [Kinds(s) -> Nat]
  <2>1. Typed /\ Typed'
    BY TypedStep DEF PortsInv, OrderInv
  <2> QED BY <1>2, <2>1 DEF Typed, TypeOK
<1>4. ToldOnce(s, Advertised(s))
  <2>1. \A k \in Kinds(s) : /\ k \in Nat /\ FirstPort(s, k) \in Nat
                            /\ FirstPort(s, k) <= port[s][k]
    BY KindsAreNumbers DEF PortsInv, OrderInv, PortsPassed
  <2> QED BY <1>3, <2>1 DEF ToldOnce, Advertised
<1>5. \A t \in Told(s) \union {Advertised(s)} : ToldOnce(s, t)
  BY <1>4 DEF PortsInv
<1>6. \A t : ToldOnce(s, t) => ToldOnce(s, t)'
  <2>1. \A k \in Kinds(s) : FirstPort(s, k) \in Nat
    BY KindsAreNumbers
  <2> QED BY <1>1, <1>2, <1>3, <2>1 DEF ToldOnce
<1> QED BY <1>5, <1>6, ToldStep

\* Of a monolith the list has the default ports, whatever the answer said.
LEMMA MonolithPorts ==
    ASSUME PortsInv, NEW s \in Servers, main[s] # "exited", NEW q \in Nat,
           q = port[s][0], ~Modular(s)
    PROVE  \A p \in FirstPort(s, 0)..(q - 1) : ~Free(s, p)
  BY DEF PortsInv, OrderInv, PortsPassed, Kinds

\* Whatever ports are taken and whenever an answer is built, a port the controller is
\* told is the one its server is at, or somebody else listens there; and what it
\* believes of a monolith is wrong unless all ports before are taken.
THEOREM ToldPortsAreReal == Spec => []AdvertisedPorts
<1>1. Init => PortsInv
  BY PortsInit
<1>2. PortsInv /\ [Next]_vars => PortsInv'
  BY PortsStep
<1>3. PortsInv => AdvertisedPorts
  <2> SUFFICES ASSUME PortsInv, NEW s \in Servers, main[s] # "exited"
               PROVE  /\ \A t \in Told(s) : \A k \in Kinds(s) :
                            t[k] = port[s][k] \/ ~Free(s, t[k])
                      /\ ~Modular(s) => \A t \in Believed(s) : \A k \in AllKinds :
                            \/ t[k] # port[s][0]
                            \/ \A p \in FirstPort(s, 0)..(t[k] - 1) : ~Free(s, p)
    BY DEF AdvertisedPorts
  <2>1. port[s] \in [Kinds(s) -> Nat]
    BY DEF PortsInv, OrderInv, Typed, TypeOK
  <2>2. ASSUME NEW t \in Told(s), NEW k \in Kinds(s), t[k] # port[s][k]
        PROVE  ~Free(s, t[k])
    <3>1. ToldOnce(s, t)
      BY DEF PortsInv
    <3>2. t[k] \in FirstPort(s, k)..(port[s][k] - 1)
      BY <2>1, <2>2, <3>1, KindsAreNumbers DEF ToldOnce
    <3> QED BY <3>2 DEF PortsInv, OrderInv, PortsPassed
  <2>3. ASSUME ~Modular(s), NEW t \in Believed(s), NEW k \in AllKinds, t[k] = port[s][0]
        PROVE  \A p \in FirstPort(s, 0)..(t[k] - 1) : ~Free(s, p)
    BY <2>1, <2>3, MonolithPorts DEF Kinds
  <2> QED BY <2>2, <2>3
<1> QED BY <1>1, <1>2, <1>3, PTL DEF Spec
=============================================================================
