----------------------------- MODULE FleetProofs -----------------------------
(***************************************************************************)
(* What TLAPS proves about the fleet, for every number of servers and of   *)
(* players.                                                                *)
(***************************************************************************)
EXTENDS Fleet, WellFoundedInduction, TLAPS

\* The order of the numbers, as the relation that induction wants.
LEMMA NatOrder == \E R : IsWellFoundedOn(R, Nat) /\ \A y, z \in Nat : y < z => <<y, z>> \in R
<1> DEFINE R == OpToRel(<, Nat)
<1>1. IsWellFoundedOn(R, Nat)
  BY NatLessThanWellFounded, Zenon
<1>2. \A y, z \in Nat : y < z => <<y, z>> \in R
  BY DEF OpToRel
<1> HIDE DEF R
<1>3. QED BY <1>1, <1>2

\* A set of numbers with a member has a least one: Min finds it.
LEMMA Least ==
  ASSUME NEW S, S \subseteq Nat, S # {}
  PROVE  Min(S) \in S
<1>1. PICK R : IsWellFoundedOn(R, Nat) /\ \A y, z \in Nat : y < z => <<y, z>> \in R
  BY NatOrder
<1>2. IsWellFoundedOn(R, Nat)
  BY <1>1
<1>3. PICK x \in S : \A y \in S : ~(<<y, x>> \in R)
  BY <1>2, WFMin
<1>4. \A y \in S : x <= y
  <2> SUFFICES ASSUME NEW y \in S PROVE x <= y
    OBVIOUS
  <2>1. x \in Nat /\ y \in Nat
    OBVIOUS
  <2>2. ~(y < x)
    BY <1>1, <1>3, <2>1
  <2>3. QED BY <2>1, <2>2
<1>5. QED BY <1>4 DEF Min

-----------------------------------------------------------------------------
(* Types.                                                                  *)

Entry == [port : Nat, status : {"avaible", "full"}, ttl : Nat]

Places == {"out", "unauthorized", "unavailable", "login", "routed", "connected", "joining",
           "welcomed", "gone"}

Inbound == [type : {"Connected", "Disconnected"}, peer : Peers] \cup [type : {"Join"}, peer : Players]

RegistryTyped ==
  /\ DOMAIN redis \subseteq Servers
  /\ \A s \in DOMAIN redis : redis[s] \in Entry

Scalers ==
  [at : {"idle", "count", "scan"}, keys : SUBSET Servers, count : Nat, highest : Nat]

ControlTyped ==
  /\ orchestrator \in BOOLEAN
  /\ scaler \in Scalers
  /\ wait \in Nat
  /\ flight \subseteq Servers

ServersTyped ==
  /\ process \in [Servers -> {"none", "spawned", "bound", "up", "dead", "zombie"}]
  /\ port \in [Servers -> Nat]
  /\ linked \in [Servers -> BOOLEAN]
  /\ orch_addr \in [Servers -> Peers \cup {Nobody}]
  /\ players \in [Servers -> SUBSET Players]
  /\ inbox \in [Servers -> Seq(Inbound)]
  /\ due \in [Servers -> BOOLEAN]

ClientsTyped ==
  /\ client \in [Players -> Places]
  /\ keys \in [Players -> SUBSET Servers]
  /\ lasting \in [Players -> SUBSET Servers]
  /\ target \in [Players -> Nat]
  /\ server \in [Players -> Servers \cup {0}]
  \* A client that is on a server says so, and one that is not does not.
  /\ \A p \in Players : client[p] \in {"connected", "joining", "welcomed"} <=> server[p] \in Servers

Typed == RegistryTyped /\ ControlTyped /\ ServersTyped /\ ClientsTyped /\ left \in [Faults -> Nat]

\* The parameters that are numbers are numbers.
LEMMA Numbers ==
  /\ MaxServers \in Nat \ {0} /\ HotServersMin \in Nat \ {0} /\ ExpireSlots \in Nat \ {0}
  /\ PeriodSlots \in Nat \ {0} /\ max_players \in Nat \ {0}
  /\ Servers \subseteq Nat \ {0}
BY NumbersAssumption DEF Servers

\* What sequences of events do when one is added or taken.
LEMMA Queues ==
  /\ <<>> \in Seq(Inbound)
  /\ \A q \in Seq(Inbound), e \in Inbound : Append(q, e) \in Seq(Inbound)
  /\ \A q \in Seq(Inbound) : q # <<>> => Head(q) \in Inbound /\ Tail(q) \in Seq(Inbound)
<1>1. <<>> \in Seq(Inbound)
  OBVIOUS
<1>2. QED BY <1>1

\* The fleet starts with its types.
LEMMA FleetTypedAtFirst == Init => Typed
<1> SUFFICES ASSUME Init PROVE Typed
  OBVIOUS
<1>1. RegistryTyped
  BY DEF Init, RegistryTyped
<1>2. ControlTyped
  BY DEF Init, ControlTyped, Scalers, Idle, FirstPort
<1>3. ServersTyped
  BY Queues DEF Init, ServersTyped
<1>4. ClientsTyped
  BY Numbers DEF Init, ClientsTyped, Places
<1>5. left \in [Faults -> Nat]
  BY BudgetAssumption DEF Init
<1>6. QED BY <1>1, <1>2, <1>3, <1>4, <1>5 DEF Typed

\* A fault takes one from its budget, and from no other.
LEMMA FaultTyped ==
  ASSUME left \in [Faults -> Nat], NEW k \in Faults, Fault(k)
  PROVE  left' \in [Faults -> Nat] /\ \A j \in Faults : left'[j] <= left[j]
<1>1. left[k] - 1 \in Nat
  BY DEF Fault
<1>2. QED BY <1>1 DEF Fault

\* A round of the scaler starts from nothing.
LEMMA Rounds ==
  /\ Idle \in Scalers
  /\ \A at \in {"count", "scan"}, K \in SUBSET Servers :
       LET round == [Idle EXCEPT !.at = at, !.keys = K] IN
       round \in Scalers /\ round.at = at /\ round.keys = K /\ round.highest = FirstPort - 1
<1>1. Idle \in Scalers
  BY DEF Idle, Scalers, FirstPort
<1>2. ASSUME NEW at \in {"count", "scan"}, NEW K \in SUBSET Servers
      PROVE  /\ [Idle EXCEPT !.at = at, !.keys = K] \in Scalers
             /\ [Idle EXCEPT !.at = at, !.keys = K].at = at
             /\ [Idle EXCEPT !.at = at, !.keys = K].keys = K
             /\ [Idle EXCEPT !.at = at, !.keys = K].highest = FirstPort - 1
  <2>1. [Idle EXCEPT !.at = at, !.keys = K] \in Scalers
    BY <1>1 DEF Scalers
  <2>2. QED BY <2>1 DEF Idle
<1>3. QED BY <1>1, <1>2

\* The actions that leave the servers and the clients alone keep the types.
LEMMA ScalerKeepsTypes ==
  ASSUME Typed,
         \/ ScalerTick \/ CountDone \/ CountFails \/ ScanFails \/ SpawnFails \/ OrchestratorStarts
         \/ \E s \in Servers : CountServer(s) \/ ScanPort(s)
  PROVE  Typed'
<1> USE DEF Typed, RegistryTyped, ControlTyped, Entry, Scalers
<1>1. CASE ScalerTick
  <2>1. ControlTyped'
    <3>1. scaler' \in Scalers
      BY <1>1, Rounds DEF ScalerTick
    <3>2. QED BY <1>1, <3>1, Numbers DEF ScalerTick, Scalers
  <2>2. QED BY <1>1, <2>1 DEF ScalerTick, fleet, sessions, ServersTyped, ClientsTyped
<1>2. CASE CountDone
  <2>1. ControlTyped'
    <3>1. scaler' \in Scalers
      BY <1>2, Rounds DEF CountDone, CountEnds
    <3>2. QED BY <1>2, <3>1 DEF CountDone, CountEnds, Scalers
  <2>2. QED BY <1>2, <2>1 DEF CountDone, CountEnds, fleet, sessions, ServersTyped, ClientsTyped
<1>3. CASE CountFails
  <2>1. left' \in [Faults -> Nat]
    BY <1>3, FaultTyped DEF CountFails, Faults
  <2>2. ControlTyped'
    BY <1>3 DEF CountFails, Idle, FirstPort
  <2>3. QED BY <1>3, <2>1, <2>2 DEF CountFails, fleet, sessions, ServersTyped, ClientsTyped
<1>4. CASE ScanFails
  <2>1. left' \in [Faults -> Nat]
    BY <1>4, FaultTyped DEF ScanFails, Faults
  <2>2. ControlTyped'
    BY <1>4 DEF ScanFails
  <2>3. QED BY <1>4, <2>1, <2>2 DEF ScanFails, fleet, sessions, ServersTyped, ClientsTyped
<1>5. CASE OrchestratorStarts
  BY <1>5 DEF OrchestratorStarts, fleet, sessions, ServersTyped, ClientsTyped
<1>6. ASSUME NEW s \in Servers, CountServer(s) PROVE Typed'
  <2>1. ControlTyped'
    <3>1. scaler.count + 1 \in Nat
      OBVIOUS
    <3>2. scaler' = [scaler EXCEPT !.keys = @ \ {s}, !.count = scaler'.count]
      BY <1>6 DEF CountServer
    <3>3. scaler'.count \in Nat
      BY <1>6, <3>1 DEF CountServer
    <3>4. QED BY <1>6, <3>2, <3>3 DEF CountServer
  <2>2. QED BY <1>6, <2>1 DEF CountServer, fleet, sessions, ServersTyped, ClientsTyped
<1>7. ASSUME NEW s \in Servers, ScanPort(s) PROVE Typed'
  <2>1. ControlTyped'
    BY <1>7 DEF ScanPort
  <2>2. QED BY <1>7, <2>1 DEF ScanPort, fleet, sessions, ServersTyped, ClientsTyped
<1>8. CASE SpawnFails
  <2>1. left' \in [Faults -> Nat]
    BY <1>8, FaultTyped DEF SpawnFails, Faults
  <2>2. ControlTyped'
    BY <1>8 DEF SpawnFails, Idle, FirstPort
  <2>3. QED BY <1>8, <2>1, <2>2 DEF SpawnFails, fleet, sessions, ServersTyped, ClientsTyped
<1>9. QED BY <1>1, <1>2, <1>3, <1>4, <1>5, <1>6, <1>7, <1>8

\* Those of the registry and of the clock, too.
LEMMA RegistryKeepsTypes ==
  ASSUME Typed,
         \/ Tick
         \/ \E s \in Servers : Expire(s) \/ HandleHeartbeat(s) \/ LoseHeartbeat(s) \/ SendHeartbeat(s)
  PROVE  Typed'
<1> USE Numbers DEF Typed
<1>1. CASE Tick
  <2>1. ControlTyped'
    BY <1>1 DEF Tick, Settled, ControlTyped
  <2>2. RegistryTyped'
    <3> SUFFICES ASSUME NEW s \in DOMAIN redis PROVE redis'[s] \in Entry
      BY <1>1 DEF Tick, RegistryTyped
    <3>1. redis[s] \in Entry /\ redis[s].ttl > 0
      BY <1>1 DEF Tick, Settled, RegistryTyped
    <3>2. redis'[s] = [redis[s] EXCEPT !.ttl = @ - 1]
      BY <1>1 DEF Tick
    <3>3. QED BY <3>1, <3>2 DEF Entry
  <2>3. ServersTyped'
    BY <1>1 DEF Tick, ServersTyped, Listening
  <2>4. QED BY <1>1, <2>1, <2>2, <2>3 DEF Tick, sessions, ClientsTyped
<1>2. ASSUME NEW s \in Servers, Expire(s) PROVE Typed'
  <2>1. RegistryTyped'
    BY <1>2 DEF Expire, Without, RegistryTyped
  <2>2. ClientsTyped'
    BY <1>2 DEF Expire, ClientsTyped
  <2>3. QED BY <1>2, <2>1, <2>2 DEF Expire, control, fleet, ControlTyped, ServersTyped
<1>3. ASSUME NEW s \in Servers, HandleHeartbeat(s) PROVE Typed'
  <2>1. port[s] \in Nat /\ Status(player_count(s)) \in {"avaible", "full"}
    BY DEF ServersTyped, Status
  <2>2. RegistryTyped'
    BY <1>3, <2>1 DEF HandleHeartbeat, With, RegistryTyped, Entry
  <2>3. QED BY <1>3, <2>2
      DEF HandleHeartbeat, control, fleet, sessions, ControlTyped, ServersTyped, ClientsTyped
<1>4. ASSUME NEW s \in Servers, LoseHeartbeat(s) PROVE Typed'
  <2>1. left' \in [Faults -> Nat]
    BY <1>4, FaultTyped DEF LoseHeartbeat, Faults
  <2>2. QED BY <1>4, <2>1
      DEF LoseHeartbeat, control, fleet, sessions, RegistryTyped, ControlTyped, ServersTyped,
          ClientsTyped
<1>5. ASSUME NEW s \in Servers, SendHeartbeat(s) PROVE Typed'
  <2>1. ServersTyped'
    BY <1>5 DEF SendHeartbeat, ServersTyped
  <2>2. QED BY <1>5, <2>1
      DEF SendHeartbeat, control, sessions, RegistryTyped, ControlTyped, ClientsTyped
<1>6. QED BY <1>1, <1>2, <1>3, <1>4, <1>5

\* The identity a new process gets is a fresh one.
LEMMA NextIdentity ==
  ASSUME \E s \in Servers : Fresh(s)
  PROVE  Min({s \in Servers : Fresh(s)}) \in Servers /\ Fresh(Min({s \in Servers : Fresh(s)}))
<1> DEFINE S == {s \in Servers : Fresh(s)}
<1>1. S \subseteq Nat /\ S # {}
  BY Numbers
<1>2. Min(S) \in S
  BY <1>1, Least
<1>3. QED BY <1>2

\* What starting a process changes, the identity named.
Spawns(id) ==
  /\ id \in Servers /\ Fresh(id)
  /\ scaler.at = "scan" /\ scaler.keys = {}
  /\ process' = [process EXCEPT ![id] = "spawned"]
  /\ port' = [port EXCEPT ![id] = scaler.highest + 1]
  /\ orch_addr' = [orch_addr EXCEPT ![id] = Nobody]
  /\ players' = [players EXCEPT ![id] = {}]
  /\ inbox' = [inbox EXCEPT ![id] = <<>>]
  /\ due' = [due EXCEPT ![id] = FALSE]
  /\ scaler' = Idle
  /\ UNCHANGED <<redis, orchestrator, wait, flight, linked, sessions, left>>

\* To spawn is to spawn some server.
LEMMA SpawnsOne == SpawnServer => \E id \in Servers : Spawns(id)
<1> SUFFICES ASSUME SpawnServer PROVE \E id \in Servers : Spawns(id)
  OBVIOUS
<1> DEFINE id == Min({s \in Servers : Fresh(s)})
<1>1. id \in Servers /\ Fresh(id)
  BY NextIdentity DEF SpawnServer, SpawnOn, spawn_new_dedicated_server
<1>2. Spawns(id)
  BY <1>1 DEF SpawnServer, SpawnOn, spawn_new_dedicated_server, Spawns
<1>3. QED BY <1>1, <1>2

\* Starting a process, binding, connecting and dying keep the types.
LEMMA ProcessesKeepTypes ==
  ASSUME Typed,
         \/ OrchestratorEnds \/ SpawnServer
         \/ \E s \in Servers : Boot(s) \/ Crash(s)
  PROVE  Typed'
<1> USE DEF Typed
<1>1. CASE OrchestratorEnds
  <2>1. left' \in [Faults -> Nat]
    BY <1>1, FaultTyped DEF OrchestratorEnds, Faults
  <2>2. [type |-> "Disconnected", peer |-> Orchestrator] \in Inbound
    BY DEF Inbound, Peers
  <2>3. inbox' \in [Servers -> Seq(Inbound)]
    <3> SUFFICES ASSUME NEW s \in Servers PROVE inbox'[s] \in Seq(Inbound)
      BY <1>1 DEF OrchestratorEnds
    <3>1. inbox[s] \in Seq(Inbound)
      BY DEF ServersTyped
    <3>2. QED BY <1>1, <2>2, <3>1, Queues DEF OrchestratorEnds
  <2>4. linked' \in [Servers -> BOOLEAN]
    BY <1>1 DEF OrchestratorEnds
  <2>5. ServersTyped'
    BY <1>1, <2>3, <2>4 DEF OrchestratorEnds, ServersTyped
  <2>6. ControlTyped'
    BY <1>1, Rounds DEF OrchestratorEnds, ControlTyped
  <2>7. QED BY <1>1, <2>1, <2>5, <2>6 DEF OrchestratorEnds, sessions, RegistryTyped, ClientsTyped
<1>2. CASE SpawnServer
  <2>1. PICK id \in Servers : Spawns(id)
    BY <1>2, SpawnsOne
  <2>2. scaler.highest + 1 \in Nat
    BY DEF ControlTyped, Scalers
  <2>3. ServersTyped'
    BY <2>1, <2>2, Queues DEF Spawns, ServersTyped
  <2>4. ControlTyped'
    BY <2>1, Rounds DEF Spawns, ControlTyped
  <2>5. QED BY <2>1, <2>3, <2>4 DEF Spawns, sessions, RegistryTyped, ClientsTyped
<1>3. ASSUME NEW s \in Servers, BindSocket(s) PROVE Typed'
  <2>1. ServersTyped'
    BY <1>3 DEF BindSocket, ServersTyped
  <2>2. QED BY <1>3, <2>1 DEF BindSocket, control, sessions, RegistryTyped, ControlTyped, ClientsTyped
<1>4. ASSUME NEW s \in Servers, ConnectOrchestrator(s) PROVE Typed'
  <2>1. [type |-> "Connected", peer |-> Orchestrator] \in Inbound
    BY DEF Inbound, Peers
  <2>2. ServersTyped'
    BY <1>4, <2>1, Queues DEF ConnectOrchestrator, ServersTyped
  <2>3. QED BY <1>4, <2>2
      DEF ConnectOrchestrator, control, sessions, RegistryTyped, ControlTyped, ClientsTyped
<1>5. ASSUME NEW s \in Servers, Disconnects(s), UNCHANGED <<keys, lasting, target>>
      PROVE  ClientsTyped' /\ linked' \in [Servers -> BOOLEAN]
  <2>1. linked' \in [Servers -> BOOLEAN]
    BY <1>5 DEF Disconnects, ServersTyped
  <2>2. client' \in [Players -> Places] /\ server' \in [Players -> Servers \cup {0}]
    BY <1>5 DEF Disconnects, ClientsTyped, Places
  <2>3. \A p \in Players :
          client'[p] \in {"connected", "joining", "welcomed"} <=> server'[p] \in Servers
    BY <1>5, Numbers DEF Disconnects, ClientsTyped
  <2>4. QED BY <1>5, <2>1, <2>2, <2>3 DEF ClientsTyped
<1>6. ASSUME NEW s \in Servers, ConnectFails(s) PROVE Typed'
  <2>1. ClientsTyped' /\ linked' \in [Servers -> BOOLEAN]
    BY <1>5, <1>6 DEF ConnectFails
  <2>2. ServersTyped'
    BY <1>6, <2>1 DEF ConnectFails, ServersTyped
  <2>3. QED BY <1>6, <2>1, <2>2 DEF ConnectFails, control, RegistryTyped, ControlTyped
<1>7. ASSUME NEW s \in Servers, Crash(s) PROVE Typed'
  <2>1. ClientsTyped' /\ linked' \in [Servers -> BOOLEAN]
    BY <1>5, <1>7 DEF Crash
  <2>2. ServersTyped'
    BY <1>7, <2>1 DEF Crash, ServersTyped
  <2>3. left' \in [Faults -> Nat]
    BY <1>7, FaultTyped DEF Crash, Faults
  <2>4. QED BY <1>7, <2>1, <2>2, <2>3 DEF Crash, control, RegistryTyped, ControlTyped
<1>8. QED BY <1>1, <1>2, <1>3, <1>4, <1>6, <1>7 DEF Boot

\* What a server takes from its queue is an event, and its sender a peer.
LEMMA Received ==
  ASSUME Typed, NEW s \in Servers, NEW type, Receives(s, type)
  PROVE  /\ inbox[s] \in Seq(Inbound) /\ inbox[s] # <<>>
         /\ Head(inbox[s]) \in Inbound /\ Sender(s) \in Peers
         /\ type = "Join" => Sender(s) \in Players
         /\ inbox' \in [Servers -> Seq(Inbound)]
         /\ inbox'[s] = Tail(inbox[s]) /\ \A t \in Servers \ {s} : inbox'[t] = inbox[t]
<1>1. inbox \in [Servers -> Seq(Inbound)]
  BY DEF Typed, ServersTyped
<1>2. inbox[s] \in Seq(Inbound) /\ inbox[s] # <<>> /\ Head(inbox[s]).type = type
  BY <1>1 DEF Receives
<1>3. Head(inbox[s]) \in Inbound
  BY <1>2, Queues
<1>4. Sender(s) \in Peers /\ (type = "Join" => Sender(s) \in Players)
  BY <1>2, <1>3 DEF Sender, Inbound, Peers
<1>5. Tail(inbox[s]) \in Seq(Inbound)
  BY <1>2, Queues
<1>6. inbox' = [inbox EXCEPT ![s] = Tail(inbox[s])]
  BY DEF Receives
<1>7. QED BY <1>1, <1>2, <1>3, <1>4, <1>5, <1>6

\* A frame of a server keeps the types.
LEMMA FramesKeepTypes ==
  ASSUME Typed, NEW s \in Servers,
         HandleConnected(s) \/ HandleJoin(s) \/ HandleDisconnected(s)
  PROVE  Typed'
<1> USE DEF Typed
<1>1. ASSUME NEW peer \in Peers \cup {Nobody}, Takes(s, peer),
             inbox' \in [Servers -> Seq(Inbound)], players' \in [Servers -> SUBSET Players]
      PROVE  Typed'
  <2>1. ServersTyped'
    BY <1>1 DEF Takes, ServersTyped
  <2>2. QED BY <1>1, <2>1 DEF Takes, control, sessions, RegistryTyped, ControlTyped, ClientsTyped
<1>2. orch_addr[s] \in Peers \cup {Nobody} /\ players \in [Servers -> SUBSET Players]
  BY DEF ServersTyped
<1>3. CASE HandleConnected(s)
  <2> DEFINE peer == IF orch_addr[s] = Nobody THEN Sender(s) ELSE orch_addr[s]
  <2>1. peer \in Peers \cup {Nobody} /\ inbox' \in [Servers -> Seq(Inbound)]
    BY <1>2, <1>3, Received DEF HandleConnected
  <2>2. Takes(s, peer) /\ players' = players
    BY <1>3 DEF HandleConnected
  <2> HIDE DEF peer
  <2>3. QED BY <1>1, <1>2, <2>1, <2>2
<1>4. CASE HandleDisconnected(s)
  <2> DEFINE peer == IF orch_addr[s] = Sender(s) THEN Nobody ELSE orch_addr[s]
  <2>1. peer \in Peers \cup {Nobody} /\ inbox' \in [Servers -> Seq(Inbound)]
    BY <1>2, <1>4, Received DEF HandleDisconnected, Disconnected
  <2>2. Takes(s, peer)
    BY <1>4 DEF HandleDisconnected, Disconnected
  <2>3. players' \in [Servers -> SUBSET Players]
    BY <1>2, <1>4 DEF HandleDisconnected, despawn_player
  <2> HIDE DEF peer
  <2>4. QED BY <1>1, <2>1, <2>2, <2>3
<1>5. CASE HandleJoin(s)
  <2>1. Sender(s) \in Players /\ inbox' \in [Servers -> Seq(Inbound)]
    BY <1>5, Received DEF HandleJoin
  <2>2. players' \in [Servers -> SUBSET Players]
    BY <1>2, <1>5, <2>1 DEF HandleJoin, spawn_player
  <2>3. ServersTyped'
    BY <1>5, <2>1, <2>2 DEF HandleJoin, ServersTyped
  <2>4. \A p \in Players : client'[p] = client[p] \/ (server[p] \in Servers /\ client'[p] = "welcomed")
    BY <1>5, <2>1 DEF HandleJoin, ClientsTyped
  <2>5. client' \in [Players -> Places]
    BY <1>5, <2>1 DEF HandleJoin, ClientsTyped, Places
  <2>6. ClientsTyped'
    BY <1>5, <2>4, <2>5 DEF HandleJoin, ClientsTyped
  <2>7. QED BY <1>5, <2>3, <2>6 DEF HandleJoin, control, RegistryTyped, ControlTyped
<1>6. QED BY <1>3, <1>4, <1>5

\* A step of a client, or of the gatekeeper for it, keeps the types.
LEMMA SessionsKeepTypes ==
  ASSUME Typed, NEW p \in Players, GatekeeperStep(p) \/ ClientStep(p) \/ LoginFails(p)
  PROVE  Typed'
<1> USE Numbers DEF Typed
<1>1. ASSUME client' \in [Players -> Places], server' = server,
             client'[p] \notin {"connected", "joining", "welcomed"}, server[p] \notin Servers,
             \A q \in Players \ {p} : client'[q] = client[q],
             UNCHANGED <<redis, control, flight, fleet>>, left' \in [Faults -> Nat],
             keys' \in [Players -> SUBSET Servers], lasting' \in [Players -> SUBSET Servers],
             target' \in [Players -> Nat]
      PROVE  Typed'
  <2>1. ClientsTyped'
    BY <1>1 DEF ClientsTyped
  <2>2. QED BY <1>1, <2>1 DEF control, fleet, RegistryTyped, ControlTyped, ServersTyped
<1>2. CASE LoginRejected(p)
  BY <1>1, <1>2 DEF LoginRejected, ClientsTyped, Places
<1>3. CASE Login(p)
  BY <1>1, <1>3 DEF Login, ClientsTyped, Places, RegistryTyped
<1>4. CASE Start(p)
  BY <1>1, <1>4 DEF Start, ClientsTyped, Places, FirstPort
<1>5. CASE ConnectRefused(p)
  BY <1>1, <1>5 DEF ConnectRefused, ClientsTyped, Places
<1>6. CASE NoServerAvailable(p)
  BY <1>1, <1>6 DEF NoServerAvailable, ClientsTyped, Places
<1>7. CASE LoginFails(p)
  <2>1. left' \in [Faults -> Nat]
    BY <1>7, FaultTyped DEF LoginFails, Faults
  <2>2. QED BY <1>1, <1>7, <2>1 DEF LoginFails, ClientsTyped, Places
<1>8. ASSUME NEW s \in Servers, ProbeServer(p, s) PROVE Typed'
  <2>1. CASE Routed(p, s)
    <3>1. redis[s].port \in Nat
      BY <2>1 DEF Routed, Admits, RegistryTyped, Entry
    <3>2. QED BY <1>1, <1>8, <2>1, <3>1 DEF ProbeServer, Routed, ClientsTyped, Places
  <2>2. CASE ~Admits(s)
    BY <1>1, <1>8, <2>2 DEF ProbeServer, Routed, ClientsTyped, Places
  <2>3. QED BY <1>8, <2>1, <2>2 DEF ProbeServer
<1>9. ASSUME client' \in [Players -> Places], server' \in [Players -> Servers \cup {0}],
             client'[p] \in {"connected", "joining", "welcomed"} <=> server'[p] \in Servers,
             \A q \in Players \ {p} : client'[q] = client[q] /\ server'[q] = server[q],
             inbox' \in [Servers -> Seq(Inbound)],
             UNCHANGED <<redis, control, flight, process, port, linked, orch_addr, players, due,
                         keys, lasting, target, left>>
      PROVE  Typed'
  <2>1. ClientsTyped'
    BY <1>9 DEF ClientsTyped
  <2>2. QED BY <1>9, <2>1 DEF control, RegistryTyped, ControlTyped, ServersTyped
<1>10. inbox \in [Servers -> Seq(Inbound)]
  BY DEF ServersTyped
<1>11. \A type \in {"Connected", "Disconnected", "Join"} : [type |-> type, peer |-> p] \in Inbound
  BY DEF Inbound, Peers
<1>12. ASSUME NEW s \in Servers, NEW e \in Inbound
       PROVE  [inbox EXCEPT ![s] = Append(@, e)] \in [Servers -> Seq(Inbound)]
  BY <1>10, Queues
<1>13. CASE ConnectPlayer(p)
  <2>1. PICK s \in Servers : /\ client' = [client EXCEPT ![p] = "connected"]
                             /\ server' = [server EXCEPT ![p] = s]
                             /\ inbox' = [inbox EXCEPT ![s] =
                                            Append(@, [type |-> "Connected", peer |-> p])]
    BY <1>13 DEF ConnectPlayer
  <2>2. inbox' \in [Servers -> Seq(Inbound)]
    BY <1>11, <1>12, <2>1
  <2>3. QED BY <1>9, <1>13, <2>1, <2>2 DEF ConnectPlayer, ClientsTyped, Places
<1>14. CASE Join(p)
  <2>1. server[p] \in Servers
    BY <1>14 DEF Join, ClientsTyped
  <2>2. inbox' \in [Servers -> Seq(Inbound)]
    BY <1>11, <1>12, <1>14, <2>1 DEF Join
  <2>3. QED BY <1>9, <1>14, <2>1, <2>2 DEF Join, ClientsTyped, Places
<1>15. CASE Leave(p)
  <2>1. server[p] \in Servers
    BY <1>15 DEF Leave, ClientsTyped
  <2>2. inbox' \in [Servers -> Seq(Inbound)]
    BY <1>10, <1>11, <1>12, <1>15, <2>1 DEF Leave
  <2>3. QED BY <1>9, <1>15, <2>1, <2>2 DEF Leave, ClientsTyped, Places
<1>16. QED BY <1>2, <1>3, <1>4, <1>5, <1>6, <1>7, <1>8, <1>13, <1>14, <1>15
        DEF GatekeeperStep, ClientStep

\* Types hold throughout.
LEMMA FleetTypedKept ==
  ASSUME Typed, [Next]_vars
  PROVE  Typed'
<1>1. CASE UNCHANGED vars
  BY <1>1 DEF vars, control, fleet, sessions, Typed, RegistryTyped, ControlTyped, ServersTyped,
              ClientsTyped
<1>2. CASE Next
  BY <1>2, ScalerKeepsTypes, RegistryKeepsTypes, ProcessesKeepTypes, FramesKeepTypes,
     SessionsKeepTypes DEF Next, ScalerStep, FaultStep, Frame
<1>3. QED BY <1>1, <1>2

\* The types hold throughout.
LEMMA FleetTyped == Spec => []Typed
BY FleetTypedAtFirst, FleetTypedKept, PTL DEF Spec

\* What is in a queue after one event is added, or the first is taken.
LEMMA QueueMembers ==
  ASSUME NEW q \in Seq(Inbound)
  PROVE  /\ \A e \in Inbound :
              /\ DOMAIN Append(q, e) = 1 .. Len(q) + 1
              /\ \A i \in 1 .. Len(q) + 1 :
                   Append(q, e)[i] = IF i = Len(q) + 1 THEN e ELSE q[i]
         /\ q # <<>> =>
              /\ Len(q) > 0
              /\ Head(q) = q[1]
              /\ DOMAIN Tail(q) = 1 .. Len(q) - 1
              /\ \A i \in 1 .. Len(q) - 1 : Tail(q)[i] = q[i + 1]
         /\ DOMAIN q = 1 .. Len(q) /\ Len(q) \in Nat
OBVIOUS

\* An event that is not in a queue is not in it after another is added, nor after one is taken.
LEMMA StillAbsent ==
  ASSUME NEW q \in Seq(Inbound), NEW x, \A i \in DOMAIN q : q[i] # x
  PROVE  /\ \A e \in Inbound \ {x} : \A i \in DOMAIN Append(q, e) : Append(q, e)[i] # x
         /\ q # <<>> => \A i \in DOMAIN Tail(q) : Tail(q)[i] # x
<1>1. ASSUME NEW e \in Inbound \ {x}, NEW i \in DOMAIN Append(q, e)
      PROVE  Append(q, e)[i] # x
  <2>1. i \in 1 .. Len(q) + 1 /\ Len(q) \in Nat
    BY <1>1, QueueMembers
  <2>2. Append(q, e)[i] = IF i = Len(q) + 1 THEN e ELSE q[i]
    BY <1>1, <2>1, QueueMembers
  <2>3. i # Len(q) + 1 => i \in DOMAIN q
    BY <2>1, QueueMembers
  <2>4. QED BY <2>2, <2>3
<1>2. ASSUME q # <<>>, NEW i \in DOMAIN Tail(q)
      PROVE  Tail(q)[i] # x
  <2>1. i \in 1 .. Len(q) - 1 /\ Tail(q)[i] = q[i + 1] /\ Len(q) \in Nat
    BY <1>2, QueueMembers
  <2>2. i + 1 \in DOMAIN q
    BY <2>1, QueueMembers
  <2>3. QED BY <2>1, <2>2
<1>3. QED BY <1>1, <1>2

-----------------------------------------------------------------------------
(* A login is refused for a good reason: whatever it listed and has not      *)
(* read yet includes all that has stayed in the registry since.             *)

RefusalInv ==
  /\ \A s \in DOMAIN redis : redis[s].status = "avaible"
  /\ \A p \in Players :
       /\ lasting[p] \subseteq DOMAIN redis
       /\ client[p] = "login" => lasting[p] \subseteq keys[p]
       /\ client[p] = "unavailable" => lasting[p] = {}

\* Nobody is refused at first.
LEMMA RefusalAtFirst == Init => RefusalInv
BY DEF Init, RefusalInv

\* One step per action that touches a login or the registry.
LEMMA RefusalKept ==
  ASSUME Typed, RefusalInv, [Next]_vars
  PROVE  RefusalInv'
<1> USE DEF RefusalInv
<1>1. ASSUME UNCHANGED <<redis, client, keys, lasting>> PROVE RefusalInv'
  BY <1>1
<1>2. CASE \/ UNCHANGED vars \/ ScalerStep \/ OrchestratorStarts
           \/ OrchestratorEnds \/ CountFails \/ ScanFails \/ SpawnFails
  BY <1>1, <1>2
     DEF vars, sessions, ScalerStep, ScalerTick, CountDone, CountEnds, SpawnServer, SpawnOn,
         CountServer, ScanPort, OrchestratorStarts, OrchestratorEnds, CountFails, ScanFails, SpawnFails
<1>3. CASE Tick
  <2>1. /\ DOMAIN redis' = DOMAIN redis /\ UNCHANGED <<client, keys, lasting>>
        /\ \A s \in DOMAIN redis : redis'[s] = [redis[s] EXCEPT !.ttl = @ - 1]
    BY <1>3 DEF Tick, sessions
  <2>2. \A s \in DOMAIN redis : redis'[s].status = redis[s].status
    BY <2>1 DEF Typed, RegistryTyped, Entry
  <2>3. QED BY <2>1, <2>2
<1>4. ASSUME NEW s \in Servers,
             BindSocket(s) \/ ConnectOrchestrator(s) \/ HandleConnected(s) \/ HandleDisconnected(s)
               \/ SendHeartbeat(s) \/ LoseHeartbeat(s)
      PROVE  RefusalInv'
  BY <1>1, <1>4
     DEF sessions, BindSocket, ConnectOrchestrator, HandleConnected, HandleDisconnected,
         Disconnected, Takes, SendHeartbeat, LoseHeartbeat
<1>5. ASSUME UNCHANGED <<redis, keys, lasting>>,
             \A p \in Players : client'[p] = client[p] \/ client'[p] \notin {"login", "unavailable"}
      PROVE  RefusalInv'
  BY <1>5
<1>6. ASSUME NEW s \in Servers, ConnectFails(s) \/ Crash(s) \/ HandleJoin(s) PROVE RefusalInv'
  <2>1. client \in [Players -> Places]
    BY DEF Typed, ClientsTyped
  <2>2. \A p \in Players : client'[p] = client[p] \/ client'[p] \in {"gone", "welcomed"}
    BY <1>6, <2>1 DEF ConnectFails, Crash, Disconnects, HandleJoin
  <2>3. QED BY <1>5, <1>6, <2>2 DEF ConnectFails, Crash, HandleJoin
<1>7. ASSUME NEW s \in Servers, Expire(s) PROVE RefusalInv'
  BY <1>7 DEF Expire, Without
<1>8. ASSUME NEW s \in Servers, HandleHeartbeat(s) PROVE RefusalInv'
  <2>1. Status(player_count(s)) = "avaible"
    BY Numbers DEF Status, player_count
  <2>2. QED BY <1>8, <2>1 DEF HandleHeartbeat, With, sessions
<1>9. ASSUME NEW p \in Players,
             LoginRejected(p) \/ Start(p) \/ ConnectPlayer(p) \/ ConnectRefused(p) \/ Join(p) \/ Leave(p)
      PROVE  RefusalInv'
  <2>1. client \in [Players -> Places]
    BY DEF Typed, ClientsTyped
  <2>2. \A q \in Players :
          client'[q] = client[q] \/ client'[q] \in Places \ {"login", "unavailable"}
    BY <1>9, <2>1
       DEF LoginRejected, Start, ConnectPlayer, ConnectRefused, Join, Leave, Places
  <2>3. UNCHANGED <<redis, keys, lasting>>
    BY <1>9 DEF LoginRejected, Start, ConnectPlayer, ConnectRefused, Join, Leave
  <2>4. QED BY <1>5, <2>2, <2>3
<1>10. ASSUME NEW p \in Players,
              Login(p) \/ NoServerAvailable(p) \/ LoginFails(p) \/ (\E s \in Servers : ProbeServer(p, s))
       PROVE  RefusalInv'
  <2> USE DEF Typed, ClientsTyped, RegistryTyped
  <2>1. CASE Login(p)
    BY <1>10, <2>1 DEF Login
  <2>2. CASE NoServerAvailable(p)
    BY <1>10, <2>2 DEF NoServerAvailable
  <2>3. CASE LoginFails(p)
    BY <1>10, <2>3 DEF LoginFails
  <2>4. ASSUME NEW s \in Servers, ProbeServer(p, s) PROVE RefusalInv'
    <3>1. CASE Routed(p, s)
      BY <2>4, <3>1 DEF ProbeServer, Routed
    <3>2. CASE ~Admits(s)
      <4>1. s \notin DOMAIN redis
        BY <3>2 DEF Admits
      <4>2. QED BY <2>4, <3>2, <4>1 DEF ProbeServer, Routed
    <3>3. QED BY <2>4, <3>1, <3>2 DEF ProbeServer
  <2>5. QED BY <1>10, <2>1, <2>2, <2>3, <2>4
<1>11. QED BY <1>2, <1>3, <1>4, <1>6, <1>7, <1>8, <1>9, <1>10
       DEF Next, FaultStep, Boot, Frame, GatekeeperStep, ClientStep

\* A login is refused only when none of the available servers it listed has
\* stayed in the registry throughout (redis_pool lines 18-73).
THEOREM RefusalsAreFair == Spec => []RefusedForGoodReason
<1>1. Init => Typed /\ RefusalInv
  BY FleetTypedAtFirst, RefusalAtFirst
<1>2. Typed /\ RefusalInv /\ [Next]_vars => (Typed /\ RefusalInv)'
  BY FleetTypedKept, RefusalKept
<1>3. Typed /\ RefusalInv => RefusedForGoodReason
  BY DEF RefusalInv, RefusedForGoodReason
<1>4. QED BY <1>1, <1>2, <1>3, PTL DEF Spec

-----------------------------------------------------------------------------
(* A registered server knows its orchestrator: it is registered for a        *)
(* heartbeat that it sends because it knows it, and it forgets it only when  *)
(* its connection is lost.                                                  *)

Lost == [type |-> "Disconnected", peer |-> Orchestrator]

RegisteredInv ==
  \A s \in Servers :
    /\ linked[s] => process[s] = "up"
    /\ s \in DOMAIN redis \cup flight /\ linked[s] => orch_addr[s] = Orchestrator
    /\ linked[s] \/ process[s] \in {"spawned", "bound"} =>
         \A i \in DOMAIN inbox[s] : inbox[s][i] # Lost
    /\ process[s] \in {"spawned", "bound"} => s \notin DOMAIN redis \cup flight

\* Nothing is registered at first.
LEMMA RegisteredAtFirst == Init => RegisteredInv
BY DEF Init, RegisteredInv

\* One step per action that registers, connects or forgets.
LEMMA RegisteredKept ==
  ASSUME Typed, RegisteredInv, [Next]_vars
  PROVE  RegisteredInv'
<1> USE DEF RegisteredInv
<1>1. ASSUME UNCHANGED <<process, orch_addr, inbox, flight, linked>>, DOMAIN redis' \subseteq DOMAIN redis
      PROVE  RegisteredInv'
  BY <1>1
<1>2. CASE \/ UNCHANGED vars \/ Tick \/ OrchestratorStarts \/ CountFails \/ ScanFails \/ SpawnFails
           \/ ScalerTick \/ CountDone \/ \E s \in Servers : CountServer(s) \/ ScanPort(s)
  BY <1>1, <1>2
     DEF vars, fleet, sessions, Tick, ScalerTick, CountDone, CountEnds, CountServer, ScanPort,
         OrchestratorStarts, CountFails, ScanFails, SpawnFails
<1>3. ASSUME NEW s \in Servers, Expire(s) PROVE RegisteredInv'
  BY <1>1, <1>3 DEF Expire, Without, fleet
<1>4. ASSUME NEW p \in Players,
             \/ LoginRejected(p) \/ Login(p) \/ Start(p) \/ ConnectRefused(p)
             \/ NoServerAvailable(p) \/ LoginFails(p) \/ \E s \in Servers : ProbeServer(p, s)
      PROVE  RegisteredInv'
  BY <1>1, <1>4
     DEF fleet, LoginRejected, Login, Start, ConnectRefused, NoServerAvailable, LoginFails,
         ProbeServer
<1>5. inbox \in [Servers -> Seq(Inbound)]
  BY DEF Typed, ServersTyped
<1>6. Lost \in Inbound
  BY DEF Lost, Inbound, Peers
<1>7. ASSUME NEW s \in Servers, NEW e \in Inbound \ {Lost}, inbox' = [inbox EXCEPT ![s] = Append(@, e)],
             NEW t \in Servers, \A i \in DOMAIN inbox[t] : inbox[t][i] # Lost
      PROVE  \A i \in DOMAIN inbox'[t] : inbox'[t][i] # Lost
  <2>1. CASE t = s
    <3>1. inbox[s] \in Seq(Inbound) /\ inbox'[t] = Append(inbox[s], e)
      BY <1>5, <1>7, <2>1
    <3>2. \A i \in DOMAIN inbox[s] : inbox[s][i] # Lost
      BY <1>7, <2>1
    <3>3. \A i \in DOMAIN Append(inbox[s], e) : Append(inbox[s], e)[i] # Lost
      BY <3>1, <3>2, StillAbsent
    <3>4. QED BY <3>1, <3>3
  <2>2. CASE t # s
    <3>1. inbox'[t] = inbox[t]
      BY <1>5, <1>7, <2>2
    <3>2. QED BY <1>7, <3>1
  <2>3. QED BY <2>1, <2>2
<1>8. ASSUME NEW s \in Servers, NEW type, Receives(s, type),
             NEW t \in Servers, \A i \in DOMAIN inbox[t] : inbox[t][i] # Lost
      PROVE  \A i \in DOMAIN inbox'[t] : inbox'[t][i] # Lost
  <2>1. CASE t = s
    <3>1. inbox[s] \in Seq(Inbound) /\ inbox[s] # <<>> /\ inbox'[t] = Tail(inbox[s])
      BY <1>8, <2>1, Received
    <3>2. \A i \in DOMAIN inbox[s] : inbox[s][i] # Lost
      BY <1>8, <2>1
    <3>3. \A i \in DOMAIN Tail(inbox[s]) : Tail(inbox[s])[i] # Lost
      BY <3>1, <3>2, StillAbsent
    <3>4. QED BY <3>1, <3>3
  <2>2. CASE t # s
    <3>1. inbox'[t] = inbox[t]
      BY <1>8, <2>2, Received
    <3>2. QED BY <1>8, <3>1
  <2>3. QED BY <2>1, <2>2
<1>9. ASSUME NEW p \in Players,
             ConnectPlayer(p) \/ Join(p) \/ Leave(p)
      PROVE  RegisteredInv'
  <2>1. \A type \in {"Connected", "Disconnected", "Join"} : [type |-> type, peer |-> p] \in Inbound \ {Lost}
    BY PeersAssumption DEF Inbound, Peers, Lost
  <2>2. \/ inbox' = inbox
        \/ \E s \in Servers, e \in Inbound \ {Lost} : inbox' = [inbox EXCEPT ![s] = Append(@, e)]
    <3>1. CASE ConnectPlayer(p)
      BY <2>1, <3>1 DEF ConnectPlayer
    <3>2. CASE Join(p) \/ Leave(p)
      <4>1. server[p] \in Servers
        BY <3>2 DEF Typed, ClientsTyped, Join, Leave
      <4>2. QED BY <2>1, <3>2, <4>1 DEF Join, Leave
    <3>3. QED BY <1>9, <3>1, <3>2
  <2>3. \A t \in Servers : (\A i \in DOMAIN inbox[t] : inbox[t][i] # Lost)
          => \A i \in DOMAIN inbox'[t] : inbox'[t][i] # Lost
    BY <1>7, <2>2
  <2>4. UNCHANGED <<redis, flight, process, orch_addr, linked>>
    BY <1>9 DEF ConnectPlayer, Join, Leave
  <2>5. QED BY <2>3, <2>4
<1>10. CASE OrchestratorEnds
  <2>1. /\ \A s \in Servers : ~linked'[s] /\ (~linked[s] => inbox'[s] = inbox[s])
        /\ flight' = {} /\ UNCHANGED <<redis, process, orch_addr>>
    BY <1>10 DEF OrchestratorEnds
  <2>2. \A s \in Servers : process[s] \in {"spawned", "bound"} => ~linked[s]
    OBVIOUS
  <2>3. QED BY <2>1, <2>2
<1>11. CASE SpawnServer
  <2>1. PICK id \in Servers : Spawns(id)
    BY <1>11, SpawnsOne
  <2>2. /\ process[id] \in {"none", "dead", "zombie"} /\ id \notin DOMAIN redis \cup flight
        /\ ~linked[id]
    BY <2>1 DEF Spawns, Fresh
  <2>3. process'[id] = "spawned" /\ inbox'[id] = <<>>
    BY <2>1 DEF Spawns, Typed, ServersTyped
  <2>4. \A t \in Servers \ {id} :
          process'[t] = process[t] /\ inbox'[t] = inbox[t] /\ orch_addr'[t] = orch_addr[t]
    BY <2>1 DEF Spawns, Typed, ServersTyped
  <2>5. UNCHANGED <<redis, flight, linked>>
    BY <2>1 DEF Spawns
  <2>6. QED BY <2>2, <2>3, <2>4, <2>5
<1>12. ASSUME NEW s \in Servers, BindSocket(s) PROVE RegisteredInv'
  <2>1. process'[s] \in {"bound", "zombie"} /\ \A t \in Servers \ {s} : process'[t] = process[t]
    BY <1>12 DEF BindSocket, Typed, ServersTyped
  <2>2. QED BY <1>12, <2>1 DEF BindSocket
<1>13. ASSUME NEW s \in Servers, ConnectOrchestrator(s) PROVE RegisteredInv'
  <2>1. /\ process'[s] = "up" /\ linked'[s]
        /\ \A t \in Servers \ {s} : process'[t] = process[t] /\ linked'[t] = linked[t]
    BY <1>13 DEF ConnectOrchestrator, Typed, ServersTyped
  <2>2. [type |-> "Connected", peer |-> Orchestrator] \in Inbound \ {Lost}
    BY DEF Inbound, Peers, Lost
  <2>3. \A t \in Servers : (\A i \in DOMAIN inbox[t] : inbox[t][i] # Lost)
          => \A i \in DOMAIN inbox'[t] : inbox'[t][i] # Lost
    BY <1>7, <1>13, <2>2 DEF ConnectOrchestrator
  <2>4. QED BY <1>13, <2>1, <2>3 DEF ConnectOrchestrator
<1>14. ASSUME NEW s \in Servers, ConnectFails(s) \/ Crash(s) PROVE RegisteredInv'
  <2>1. /\ process'[s] \in {"zombie", "dead"} /\ ~linked'[s]
        /\ \A t \in Servers \ {s} : process'[t] = process[t] /\ linked'[t] = linked[t]
    BY <1>14 DEF ConnectFails, Crash, Disconnects, Typed, ServersTyped
  <2>2. UNCHANGED <<redis, flight, orch_addr, inbox>>
    BY <1>14 DEF ConnectFails, Crash
  <2>3. QED BY <2>1, <2>2
<1>15. ASSUME NEW s \in Servers, HandleHeartbeat(s) \/ LoseHeartbeat(s) PROVE RegisteredInv'
  BY <1>15 DEF HandleHeartbeat, LoseHeartbeat, With, fleet
<1>16. ASSUME NEW s \in Servers, SendHeartbeat(s) PROVE RegisteredInv'
  <2>1. flight' \subseteq flight \cup {s} /\ (s \in flight' => s \in flight \/ linked[s])
    BY <1>16 DEF SendHeartbeat
  <2>2. s \in flight' \ flight => orch_addr[s] = Orchestrator /\ linked[s]
    BY <1>16 DEF SendHeartbeat
  <2>3. QED BY <1>16, <2>1, <2>2 DEF SendHeartbeat
<1>17. ASSUME NEW s \in Servers, HandleJoin(s) PROVE RegisteredInv'
  BY <1>8, <1>17 DEF HandleJoin
<1>18. ASSUME NEW s \in Servers, HandleConnected(s) PROVE RegisteredInv'
  <2>1. /\ orch_addr[s] = Orchestrator => orch_addr'[s] = Orchestrator
        /\ \A t \in Servers \ {s} : orch_addr'[t] = orch_addr[t]
    BY <1>18, PeersAssumption DEF HandleConnected, Takes, Typed, ServersTyped, Peers
  <2>2. UNCHANGED <<redis, flight, process, linked>>
    BY <1>18 DEF HandleConnected, Takes
  <2>3. QED BY <1>8, <1>18, <2>1, <2>2 DEF HandleConnected
<1>19. ASSUME NEW s \in Servers, HandleDisconnected(s) PROVE RegisteredInv'
  <2>1. UNCHANGED <<redis, flight, process, linked>> /\ Receives(s, "Disconnected")
    BY <1>19 DEF HandleDisconnected, Disconnected, Takes
  <2>2. ASSUME linked[s] PROVE Sender(s) # Orchestrator
    <3>1. inbox[s] \in Seq(Inbound) /\ inbox[s] # <<>> /\ Head(inbox[s]) \in Inbound
      BY <2>1, Received
    <3>2. 1 \in DOMAIN inbox[s] /\ Head(inbox[s]) = inbox[s][1]
      BY <3>1, QueueMembers
    <3>3. Head(inbox[s]) # Lost
      BY <2>2, <3>2
    <3>4. Head(inbox[s]).type = "Disconnected"
      BY <2>1 DEF Receives
    <3>5. QED BY <3>1, <3>3, <3>4 DEF Inbound, Lost, Sender
  <2>3. /\ orch_addr[s] = Orchestrator /\ Sender(s) # Orchestrator => orch_addr'[s] = Orchestrator
        /\ \A t \in Servers \ {s} : orch_addr'[t] = orch_addr[t]
    BY <1>19 DEF HandleDisconnected, Disconnected, Takes, Typed, ServersTyped
  <2>4. QED BY <1>8, <2>1, <2>2, <2>3
<1>20. QED BY <1>2, <1>3, <1>4, <1>9, <1>10, <1>11, <1>12, <1>13, <1>14, <1>15, <1>16, <1>17, <1>18,
          <1>19 DEF Next, ScalerStep, FaultStep, Boot, Frame, GatekeeperStep, ClientStep

\* A server in the registry whose orchestrator is alive took it for its orchestrator:
\* its heartbeats arrive (dedicated server 122-124, 199).
THEOREM RegisteredServersBeat == Spec => []RegisteredKnowsOrchestrator
<1>1. Init => Typed /\ RegisteredInv
  BY FleetTypedAtFirst, RegisteredAtFirst
<1>2. Typed /\ RegisteredInv /\ [Next]_vars => (Typed /\ RegisteredInv)'
  BY FleetTypedKept, RegisteredKept
<1>3. Typed /\ RegisteredInv => RegisteredKnowsOrchestrator
  BY DEF RegisteredInv, RegisteredKnowsOrchestrator
<1>4. QED BY <1>1, <1>2, <1>3, PTL DEF Spec

-----------------------------------------------------------------------------
(* Who has left is removed: behind whatever a server still has to hear of a  *)
(* client that is gone there is its Disconnected.                           *)

Gone(p) == [type |-> "Disconnected", peer |-> p]
Joins(p) == [type |-> "Join", peer |-> p]

\* The queue tells of p's end after its first n events.
EndsAfter(q, n, p) == \E j \in DOMAIN q : j > n /\ q[j] = Gone(p)

\* All that the players P and the queue have of p comes before its end.
Settles(q, P, p) ==
  /\ p \in P => EndsAfter(q, 0, p)
  /\ \A i \in DOMAIN q : q[i] = Joins(p) => EndsAfter(q, i, p)

LeaversInv ==
  /\ \A s \in Servers : process[s] = "spawned" => inbox[s] = <<>> /\ players[s] = {}
  /\ \A p \in Players : server[p] \in Servers => Listening(server[p])
  /\ \A s \in Servers, p \in Players :
       Listening(s) /\ server[p] # s => Settles(inbox[s], players[s], p)

\* An end that is announced stays announced when more events arrive; the end
\* itself settles all that is before it.
LEMMA SettlesMore ==
  ASSUME NEW q \in Seq(Inbound), NEW e \in Inbound, NEW P, NEW p,
         e = Gone(p) \/ (Settles(q, P, p) /\ e # Joins(p))
  PROVE  Settles(Append(q, e), P, p)
<1> DEFINE r == Append(q, e)
<1>1. /\ DOMAIN q = 1 .. Len(q) /\ Len(q) \in Nat /\ DOMAIN r = 1 .. Len(q) + 1
      /\ \A i \in 1 .. Len(q) + 1 : r[i] = IF i = Len(q) + 1 THEN e ELSE q[i]
  BY QueueMembers
<1> HIDE DEF r
<1>2. CASE e = Gone(p)
  <2>1. \A n \in 0 .. Len(q) : EndsAfter(r, n, p)
    BY <1>1, <1>2 DEF EndsAfter
  <2>2. e # Joins(p)
    BY <1>2 DEF Gone, Joins
  <2>3. QED BY <1>1, <2>1, <2>2 DEF Settles, r
<1>3. CASE Settles(q, P, p) /\ e # Joins(p)
  <2>1. \A n \in 0 .. Len(q) : EndsAfter(q, n, p) => EndsAfter(r, n, p)
    BY <1>1 DEF EndsAfter
  <2>2. QED BY <1>1, <1>3, <2>1 DEF Settles, r
<1>4. QED BY <1>2, <1>3

\* Taking the first event keeps it so: a player it adds has its end behind it,
\* one whose end it is leaves.
LEMMA SettlesLess ==
  ASSUME NEW q \in Seq(Inbound), q # <<>>, NEW P, NEW S, NEW p, Settles(q, P, p),
         p \in S => Head(q) = Joins(p) \/ (p \in P /\ Head(q) # Gone(p))
  PROVE  Settles(Tail(q), S, p)
<1> DEFINE r == Tail(q)
<1>1. /\ DOMAIN q = 1 .. Len(q) /\ Len(q) \in Nat /\ Len(q) > 0 /\ DOMAIN r = 1 .. Len(q) - 1
      /\ \A i \in 1 .. Len(q) - 1 : r[i] = q[i + 1]
      /\ Head(q) = q[1]
  BY QueueMembers
<1> HIDE DEF r
<1>2. ASSUME NEW n \in Nat, EndsAfter(q, n + 1, p)
      PROVE  EndsAfter(r, n, p)
  <2>1. PICK j \in DOMAIN q : j > n + 1 /\ q[j] = Gone(p)
    BY <1>2 DEF EndsAfter
  <2>2. j - 1 \in DOMAIN r /\ j - 1 > n /\ r[j - 1] = q[j]
    BY <1>1, <2>1
  <2>3. QED BY <2>1, <2>2 DEF EndsAfter
<1>3. ASSUME p \in S
      PROVE  EndsAfter(q, 1, p)
  <2>1. CASE Head(q) = Joins(p)
    BY <1>1, <2>1 DEF Settles
  <2>2. CASE p \in P /\ Head(q) # Gone(p)
    <3>1. PICK j \in DOMAIN q : j > 0 /\ q[j] = Gone(p)
      BY <2>2 DEF Settles, EndsAfter
    <3>2. j > 1
      BY <1>1, <2>2, <3>1
    <3>3. QED BY <3>1, <3>2 DEF EndsAfter
  <2>3. QED BY <1>3, <2>1, <2>2
<1>4. ASSUME NEW i \in DOMAIN r, r[i] = Joins(p)
      PROVE  EndsAfter(r, i, p)
  <2>1. i \in Nat /\ i + 1 \in DOMAIN q /\ q[i + 1] = Joins(p)
    BY <1>1, <1>4
  <2>2. EndsAfter(q, i + 1, p)
    BY <2>1 DEF Settles
  <2>3. QED BY <1>2, <2>1, <2>2
<1>5. p \in S => EndsAfter(r, 0, p)
  BY <1>2, <1>3
<1>6. QED BY <1>4, <1>5 DEF Settles, r

\* Nobody has left at first.
LEMMA LeaversAtFirst == Init => LeaversInv
BY Numbers DEF Init, LeaversInv, Listening

\* One step per action that joins, leaves or handles an event.
LEMMA LeaversKept ==
  ASSUME ReportsDisconnect, Typed, RegisteredInv, LeaversInv, [Next]_vars
  PROVE  LeaversInv'
<1>1. ASSUME UNCHANGED <<process, players, inbox, server>>
      PROVE  LeaversInv'
  BY <1>1 DEF LeaversInv, Listening
<1>2. CASE \/ UNCHANGED vars \/ Tick \/ OrchestratorStarts \/ CountFails \/ ScanFails \/ SpawnFails
           \/ ScalerTick \/ CountDone \/ \E s \in Servers : CountServer(s) \/ ScanPort(s)
  BY <1>1, <1>2
     DEF vars, fleet, sessions, Tick, ScalerTick, CountDone, CountEnds, CountServer, ScanPort,
         OrchestratorStarts, CountFails, ScanFails, SpawnFails
<1>3. ASSUME NEW s \in Servers,
             Expire(s) \/ HandleHeartbeat(s) \/ LoseHeartbeat(s) \/ SendHeartbeat(s)
      PROVE  LeaversInv'
  BY <1>1, <1>3 DEF Expire, HandleHeartbeat, LoseHeartbeat, SendHeartbeat, fleet, sessions
<1>4. ASSUME NEW p \in Players,
             \/ LoginRejected(p) \/ Login(p) \/ Start(p) \/ ConnectRefused(p)
             \/ NoServerAvailable(p) \/ LoginFails(p) \/ \E s \in Servers : ProbeServer(p, s)
      PROVE  LeaversInv'
  BY <1>1, <1>4
     DEF fleet, LoginRejected, Login, Start, ConnectRefused, NoServerAvailable, LoginFails,
         ProbeServer
<1>5. /\ inbox \in [Servers -> Seq(Inbound)] /\ server \in [Players -> Servers \cup {0}]
      /\ players \in [Servers -> SUBSET Players]
      /\ process \in [Servers -> {"none", "spawned", "bound", "up", "dead", "zombie"}]
  BY DEF Typed, ServersTyped, ClientsTyped
\* More events for a server that listens; whoever is not on it any more is settled.
<1>6. ASSUME NEW s \in Servers, Listening(s), NEW e \in Inbound,
             \A t \in Servers :
               process'[t] = process[t] \/ (process[t] = "bound" /\ process'[t] = "up"),
             players' = players, inbox' = [inbox EXCEPT ![s] = Append(@, e)],
             \A p \in Players : server'[p] \in Servers => Listening(server'[p]),
             \A p \in Players : server'[p] # s =>
               e = Gone(p) \/ (server[p] # s /\ e # Joins(p)),
             \A p \in Players, t \in Servers \ {s} : server'[p] # t => server[p] # t
      PROVE  LeaversInv'
  <2>1. ASSUME NEW p \in Players, server'[p] # s
        PROVE  Settles(inbox'[s], players'[s], p)
    <3>1. inbox[s] \in Seq(Inbound) /\ inbox'[s] = Append(inbox[s], e)
      BY <1>5, <1>6
    <3>2. e = Gone(p) \/ (Settles(inbox[s], players[s], p) /\ e # Joins(p))
      BY <1>6, <2>1 DEF LeaversInv
    <3>3. Settles(Append(inbox[s], e), players[s], p)
      BY <3>1, <3>2, SettlesMore
    <3>4. QED BY <1>6, <3>1, <3>3
  <2>2. \A t \in Servers \ {s} : inbox'[t] = inbox[t]
    BY <1>5, <1>6
  <2>3. process[s] # "spawned"
    BY <1>6 DEF Listening
  <2>4. QED BY <1>6, <2>1, <2>2, <2>3 DEF LeaversInv, Listening
<1>7. ASSUME NEW p \in Players, ConnectPlayer(p) \/ Join(p) \/ Leave(p)
      PROVE  LeaversInv'
  <2>1. \A type \in {"Connected", "Disconnected", "Join"} : [type |-> type, peer |-> p] \in Inbound
    BY DEF Inbound, Peers
  <2>2. UNCHANGED <<process, players>>
    BY <1>7 DEF ConnectPlayer, Join, Leave
  <2>3. CASE ConnectPlayer(p)
    <3> DEFINE e == [type |-> "Connected", peer |-> p]
    <3>1. PICK s \in Servers :
            /\ Listening(s)
            /\ server' = [server EXCEPT ![p] = s]
            /\ inbox' = [inbox EXCEPT ![s] = Append(@, e)]
      BY <2>3 DEF ConnectPlayer
    <3>2. server[p] \notin Servers
      BY <2>3 DEF ConnectPlayer, Typed, ClientsTyped
    <3>3. server'[p] = s /\ \A r \in Players \ {p} : server'[r] = server[r]
      BY <1>5, <3>1
    <3>4. \A r \in Players : e # Joins(r)
      BY DEF Joins
    <3>5. \A r \in Players : server'[r] \in Servers => Listening(server'[r])
      BY <3>1, <3>3 DEF LeaversInv
    <3>6. e \in Inbound
      BY <2>1
    <3> HIDE DEF e
    <3>7. \A r \in Players : server'[r] # s => e = Gone(r) \/ (server[r] # s /\ e # Joins(r))
      BY <3>3, <3>4
    <3>8. \A r \in Players, t \in Servers \ {s} : server'[r] # t => server[r] # t
      BY <3>2, <3>3
    <3>9. QED BY <1>6, <2>2, <3>1, <3>5, <3>6, <3>7, <3>8
  <2>4. CASE Join(p)
    <3> DEFINE e == [type |-> "Join", peer |-> p]
               s == server[p]
    <3>1. s \in Servers /\ server' = server /\ inbox' = [inbox EXCEPT ![s] = Append(@, e)]
      BY <2>4 DEF Join, Typed, ClientsTyped
    <3>2. Listening(s) /\ \A r \in Players : server[r] \in Servers => Listening(server[r])
      BY <3>1 DEF LeaversInv
    <3>3. \A r \in Players : server[r] # s => e # Joins(r)
      BY DEF Joins
    <3>4. e \in Inbound
      BY <2>1
    <3> HIDE DEF e, s
    <3>5. \A r \in Players : server'[r] # s => e = Gone(r) \/ (server[r] # s /\ e # Joins(r))
      BY <3>1, <3>3
    <3>6. \A r \in Players : server'[r] \in Servers => Listening(server'[r])
      BY <3>1, <3>2
    <3>7. \A r \in Players, t \in Servers \ {s} : server'[r] # t => server[r] # t
      BY <3>1
    <3>8. QED BY <1>6, <2>2, <3>1, <3>2, <3>4, <3>5, <3>6, <3>7
  <2>5. CASE Leave(p)
    <3> DEFINE e == [type |-> "Disconnected", peer |-> p]
               s == server[p]
    <3>1. s \in Servers /\ inbox' = [inbox EXCEPT ![s] = Append(@, e)]
      BY <2>5 DEF Leave, Typed, ClientsTyped
    <3>2. Listening(s)
      BY <3>1 DEF LeaversInv
    <3>3. server'[p] = 0 /\ \A r \in Players \ {p} : server'[r] = server[r]
      BY <1>5, <2>5 DEF Leave
    <3>4. \A r \in Players : server'[r] \in Servers => Listening(server'[r])
      BY <3>3, Numbers DEF LeaversInv
    <3>5. \A r \in Players : server'[r] # s => e = Gone(r) \/ (server[r] # s /\ e # Joins(r))
      BY <3>3 DEF Gone, Joins
    <3>6. \A r \in Players, t \in Servers \ {s} : server'[r] # t => server[r] # t
      BY <3>3
    <3>7. e \in Inbound
      BY <2>1
    <3> HIDE DEF e, s
    <3>8. QED BY <1>6, <2>2, <3>1, <3>2, <3>4, <3>5, <3>6, <3>7
  <2>6. QED BY <1>7, <2>3, <2>4, <2>5
<1>8. CASE OrchestratorEnds
  <2>1. UNCHANGED <<process, players, server>>
    BY <1>8 DEF OrchestratorEnds, sessions
  <2>2. Lost \in Inbound /\ \A p \in Players : Lost # Joins(p)
    BY DEF Lost, Joins, Inbound, Peers
  <2>3. \A s \in Servers : inbox'[s] = inbox[s] \/ (linked[s] /\ inbox'[s] = Append(inbox[s], Lost))
    BY <1>8 DEF OrchestratorEnds, Lost
  <2>4. ASSUME NEW s \in Servers, NEW p \in Players, Listening(s), server[p] # s
        PROVE  Settles(inbox'[s], players[s], p)
    <3>1. Settles(inbox[s], players[s], p)
      BY <2>4 DEF LeaversInv
    <3>2. inbox[s] \in Seq(Inbound)
      BY <1>5
    <3>3. Settles(Append(inbox[s], Lost), players[s], p)
      BY <2>2, <3>1, <3>2, SettlesMore
    <3>4. QED BY <2>3, <3>1, <3>3
  <2>5. \A s \in Servers : process[s] = "spawned" => inbox'[s] = inbox[s]
    BY <2>3 DEF RegisteredInv
  <2>6. QED BY <2>1, <2>4, <2>5 DEF LeaversInv, Listening
<1>9. ASSUME NEW s \in Servers, ConnectOrchestrator(s) PROVE LeaversInv'
  <2> DEFINE e == [type |-> "Connected", peer |-> Orchestrator]
  <2>1. e \in Inbound /\ \A p \in Players : e # Joins(p)
    BY DEF Inbound, Peers, Joins
  <2>2. /\ Listening(s) /\ server' = server /\ players' = players
        /\ inbox' = [inbox EXCEPT ![s] = Append(@, e)]
    BY <1>9 DEF ConnectOrchestrator, Listening, sessions
  <2>3. \A t \in Servers :
          process'[t] = process[t] \/ (process[t] = "bound" /\ process'[t] = "up")
    BY <1>5, <1>9 DEF ConnectOrchestrator
  <2>4. \A p \in Players : server[p] \in Servers => Listening(server[p])
    BY DEF LeaversInv
  <2> HIDE DEF e
  <2>5. \A r \in Players : server'[r] # s => e = Gone(r) \/ (server[r] # s /\ e # Joins(r))
    BY <2>1, <2>2
  <2>6. \A r \in Players : server'[r] \in Servers => Listening(server'[r])
    BY <2>2, <2>4
  <2>7. \A r \in Players, t \in Servers \ {s} : server'[r] # t => server[r] # t
    BY <2>2
  <2>8. QED BY <1>6, <2>1, <2>2, <2>3, <2>5, <2>6, <2>7
<1>10. CASE SpawnServer
  <2>1. PICK id \in Servers : Spawns(id)
    BY <1>10, SpawnsOne
  <2>2. /\ \A p \in Players : server[p] # id
        /\ server' = server
    BY <2>1 DEF Spawns, Fresh, sessions
  <2>3. /\ process'[id] = "spawned" /\ inbox'[id] = <<>> /\ players'[id] = {}
        /\ \A t \in Servers \ {id} :
             process'[t] = process[t] /\ inbox'[t] = inbox[t] /\ players'[t] = players[t]
    BY <1>5, <2>1 DEF Spawns
  <2>4. QED BY <2>2, <2>3 DEF LeaversInv, Listening
<1>11. ASSUME NEW s \in Servers, BindSocket(s) PROVE LeaversInv'
  <2>1. /\ process[s] = "spawned" /\ process'[s] \in {"bound", "zombie"}
        /\ \A t \in Servers \ {s} : process'[t] = process[t]
        /\ UNCHANGED <<inbox, players, server>>
    BY <1>5, <1>11 DEF BindSocket, sessions
  <2>2. \A p : Settles(<<>>, {}, p)
    BY DEF Settles
  <2>3. inbox[s] = <<>> /\ players[s] = {} /\ \A p \in Players : server[p] # s
    BY <2>1 DEF LeaversInv, Listening
  <2>4. QED BY <2>1, <2>2, <2>3 DEF LeaversInv, Listening
<1>12. ASSUME NEW s \in Servers, ConnectFails(s) \/ Crash(s) PROVE LeaversInv'
  <2>1. /\ process'[s] \in {"zombie", "dead"}
        /\ \A t \in Servers \ {s} : process'[t] = process[t]
        /\ UNCHANGED <<inbox, players>>
    BY <1>5, <1>12 DEF ConnectFails, Crash
  <2>2. \A p \in Players : server'[p] = IF server[p] = s THEN 0 ELSE server[p]
    BY <1>12 DEF ConnectFails, Crash, Disconnects
  <2>3. QED BY <2>1, <2>2, Numbers DEF LeaversInv, Listening
\* A server hears one event.
<1>13. ASSUME NEW s \in Servers, NEW type, Receives(s, type), UNCHANGED <<process, server>>,
              \A t \in Servers \ {s} : players'[t] = players[t],
              \A p \in Players : p \in players'[s] =>
                Head(inbox[s]) = Joins(p) \/ (p \in players[s] /\ Head(inbox[s]) # Gone(p))
       PROVE  LeaversInv'
  <2>1. /\ inbox[s] \in Seq(Inbound) /\ inbox[s] # <<>> /\ inbox'[s] = Tail(inbox[s])
        /\ \A t \in Servers \ {s} : inbox'[t] = inbox[t]
    BY <1>13, Received
  <2>2. Listening(s)
    BY <1>13 DEF Receives
  <2>3. ASSUME NEW p \in Players, server[p] # s
        PROVE  Settles(inbox'[s], players'[s], p)
    <3>1. Settles(inbox[s], players[s], p)
      BY <2>2, <2>3 DEF LeaversInv
    <3>2. PICK q : q = inbox[s]
      OBVIOUS
    <3>3. PICK S : S = players'[s]
      OBVIOUS
    <3>4. Settles(Tail(q), S, p)
      BY <1>13, <2>1, <3>1, <3>2, <3>3, SettlesLess
    <3>5. QED BY <2>1, <3>2, <3>3, <3>4
  <2>4. QED BY <1>13, <2>1, <2>2, <2>3 DEF LeaversInv, Listening
<1>14. ASSUME NEW s \in Servers, HandleConnected(s) PROVE LeaversInv'
  <2>1. Receives(s, "Connected") /\ UNCHANGED <<process, server, players>>
    BY <1>14 DEF HandleConnected, Takes, sessions
  <2>2. Head(inbox[s]).type = "Connected"
    BY <2>1 DEF Receives
  <2>3. \A p \in Players : Head(inbox[s]) # Gone(p)
    BY <2>2 DEF Gone
  <2>4. QED BY <1>13, <2>1, <2>3
<1>15. ASSUME NEW s \in Servers, HandleJoin(s) PROVE LeaversInv'
  <2>1. /\ Receives(s, "Join") /\ UNCHANGED <<process, server>>
        /\ players' = [players EXCEPT ![s] = @ \cup {Sender(s)}]
    BY <1>15 DEF HandleJoin, spawn_player
  <2>2. Head(inbox[s]) \in Inbound /\ Head(inbox[s]).type = "Join"
    BY <2>1, Received DEF Receives
  <2>3. Head(inbox[s]) = Joins(Sender(s)) /\ \A p \in Players : Head(inbox[s]) # Gone(p)
    BY <2>2 DEF Inbound, Joins, Gone, Sender
  <2>4. /\ players'[s] = players[s] \cup {Sender(s)}
        /\ \A t \in Servers \ {s} : players'[t] = players[t]
    BY <1>5, <2>1
  <2>5. QED BY <1>13, <2>1, <2>3, <2>4
<1>16. ASSUME NEW s \in Servers, HandleDisconnected(s) PROVE LeaversInv'
  <2>1. /\ Receives(s, "Disconnected") /\ UNCHANGED <<process, server>>
        /\ players' = [players EXCEPT ![s] = @ \ {Sender(s)}]
    BY <1>16 DEF HandleDisconnected, Disconnected, Takes, despawn_player, sessions
  <2>2. \A p \in Players : Head(inbox[s]) = Gone(p) => p = Sender(s)
    BY DEF Gone, Sender
  <2>3. /\ players'[s] = players[s] \ {Sender(s)}
        /\ \A t \in Servers \ {s} : players'[t] = players[t]
    BY <1>5, <2>1
  <2>4. QED BY <1>13, <2>1, <2>2, <2>3
<1>17. QED BY <1>2, <1>3, <1>4, <1>7, <1>8, <1>9, <1>10, <1>11, <1>12, <1>14, <1>15, <1>16
       DEF Next, ScalerStep, FaultStep, Boot, Frame, GatekeeperStep, ClientStep

\* If the transport announces lost connections, a player that has left is in its
\* server's registry no longer than it takes to handle its Disconnected, even if its
\* Join was still to be handled when it left (dedicated server lines 139-148, 182-183).
THEOREM LeaversAreRemoved ==
  ASSUME ReportsDisconnect
  PROVE  Spec => []LeaversRemoved
<1> DEFINE IInv == Typed /\ RegisteredInv /\ LeaversInv
<1>1. Init => IInv
  BY FleetTypedAtFirst, RegisteredAtFirst, LeaversAtFirst
<1>2. IInv /\ [Next]_vars => IInv'
  BY FleetTypedKept, RegisteredKept, LeaversKept, ReportsDisconnect
<1>3. IInv => LeaversRemoved
  <2> SUFFICES ASSUME IInv, NEW s \in Servers, NEW p \in players[s], Listening(s), server[p] # s
               PROVE  \E i \in DOMAIN inbox[s] : inbox[s][i] = Gone(p)
    BY DEF LeaversRemoved, Gone
  <2>1. p \in Players
    BY DEF Typed, ServersTyped
  <2>2. EndsAfter(inbox[s], 0, p)
    BY <2>1 DEF LeaversInv, Settles
  <2>3. QED BY <2>2 DEF EndsAfter
<1> HIDE DEF IInv
<1>4. QED BY <1>1, <1>2, <1>3, PTL DEF Spec

-----------------------------------------------------------------------------
(* The first connection is the orchestrator's, if nobody is started by hand, *)
(* no server dies, and no server forgets its orchestrator.                  *)

ByTheBook ==
  /\ DirectPlayers = {}
  /\ Budget["crash"] = 0
  /\ ReportsDisconnect => Budget["restart"] = 0

\* Where a player may go: it is up, and it has its orchestrator.
Open(s) == process[s] = "up" /\ orch_addr[s] = Orchestrator

\* Until a server has its orchestrator it hears of nobody else.
Hello == [type |-> "Connected", peer |-> Orchestrator]
Expected(s) == IF orch_addr[s] = Orchestrator THEN Inbound \ {Lost} ELSE {Hello}

FirstInv ==
  /\ left["crash"] = 0 /\ (ReportsDisconnect => left["restart"] = 0)
  /\ \A s \in Servers :
       /\ orch_addr[s] \in {Nobody, Orchestrator}
       /\ s \in DOMAIN redis => Open(s) /\ redis[s].port = port[s]
       /\ s \in flight => Open(s)
       /\ inbox[s] \in Seq(Expected(s))
  /\ \A s, t \in Servers : Listening(s) /\ Listening(t) /\ port[s] = port[t] => s = t
  /\ \A p \in Players :
       /\ server[p] \in Servers => Open(server[p])
       /\ client[p] = "routed" => \E s \in Servers : Open(s) /\ port[s] = target[p]

\* Nobody is connected at first.
LEMMA FirstAtFirst == ByTheBook /\ Init => FirstInv
<1> SUFFICES ASSUME ByTheBook, Init PROVE FirstInv
  OBVIOUS
<1>1. \A S : <<>> \in Seq(S)
  OBVIOUS
<1>2. QED BY <1>1, Numbers DEF ByTheBook, Init, FirstInv, Listening

\* Events of one kind stay of that kind.
LEMMA QueuesOf ==
  ASSUME NEW S, NEW q \in Seq(S)
  PROVE  /\ \A e \in S : Append(q, e) \in Seq(S)
         /\ q # <<>> => Head(q) \in S /\ Tail(q) \in Seq(S)
OBVIOUS

\* A server that meets its orchestrator may hear of others from then on.
LEMMA MoreExpected ==
  /\ Hello \in Inbound \ {Lost}
  /\ \A q \in Seq({Hello}) : q \in Seq(Inbound \ {Lost})
<1>1. Hello \in Inbound \ {Lost}
  BY DEF Hello, Inbound, Lost, Peers
<1>2. ASSUME NEW q \in Seq({Hello}) PROVE q \in Seq(Inbound \ {Lost})
  <2>1. Len(q) \in Nat /\ \A i \in 1 .. Len(q) : q[i] \in Inbound \ {Lost}
    BY <1>1
  <2>2. q = [i \in 1 .. Len(q) |-> q[i]]
    OBVIOUS
  <2> DEFINE S == Inbound \ {Lost}
  <2> HIDE DEF S
  <2>3. QED BY <2>1, <2>2 DEF S
<1>3. QED BY <1>1, <1>2

\* One step per action that starts a server, connects or ends something.
LEMMA FirstKept ==
  ASSUME ByTheBook, Typed, RegisteredInv, FirstInv, [Next]_vars
  PROVE  FirstInv'
<1>1. /\ inbox \in [Servers -> Seq(Inbound)] /\ server \in [Players -> Servers \cup {0}]
      /\ process \in [Servers -> {"none", "spawned", "bound", "up", "dead", "zombie"}]
      /\ orch_addr \in [Servers -> Peers \cup {Nobody}] /\ port \in [Servers -> Nat]
      /\ client \in [Players -> Places] /\ target \in [Players -> Nat]
      /\ left \in [Faults -> Nat] /\ DOMAIN redis \subseteq Servers
      /\ Orchestrator # Nobody /\ Orchestrator \notin Players /\ Nobody \notin Players
      /\ {"crash", "restart"} \subseteq Faults
  BY PeersAssumption DEF Typed, ServersTyped, ClientsTyped, RegistryTyped, Peers, Faults
\* The budget only shrinks.
<1>2. ASSUME NEW k \in Faults, Fault(k)
      PROVE  left'["crash"] = 0 /\ (ReportsDisconnect => left'["restart"] = 0)
  <2>1. left'["crash"] <= left["crash"] /\ left'["restart"] <= left["restart"]
    BY <1>1, <1>2, FaultTyped
  <2>2. left' \in [Faults -> Nat]
    BY <1>1, <1>2, FaultTyped
  <2>3. QED BY <1>1, <2>1, <2>2 DEF FirstInv
<1>3. CASE \/ UNCHANGED vars \/ OrchestratorStarts \/ CountFails \/ ScanFails \/ SpawnFails
           \/ ScalerTick \/ CountDone \/ \E s \in Servers : CountServer(s) \/ ScanPort(s)
  <2>1. UNCHANGED <<redis, flight, fleet, sessions>>
    BY <1>3 DEF vars, ScalerTick, CountDone, CountEnds, CountServer, ScanPort, OrchestratorStarts,
                CountFails, ScanFails, SpawnFails
  <2>2. left' = left \/ Fault("error")
    BY <1>3 DEF vars, ScalerTick, CountDone, CountEnds, CountServer, ScanPort, OrchestratorStarts,
                CountFails, ScanFails, SpawnFails
  <2>3. left'["crash"] = 0 /\ (ReportsDisconnect => left'["restart"] = 0)
    BY <1>2, <2>2 DEF FirstInv, Faults
  <2>4. QED BY <2>1, <2>3 DEF FirstInv, fleet, sessions, Expected, Open, Listening
<1>4. CASE Tick
  <2>1. DOMAIN redis' = DOMAIN redis /\ \A s \in DOMAIN redis : redis'[s].port = redis[s].port
    <3>1. \A s \in DOMAIN redis : redis'[s] = [redis[s] EXCEPT !.ttl = @ - 1] /\ redis[s] \in Entry
      BY <1>4 DEF Tick, Typed, RegistryTyped
    <3>2. QED BY <1>4, <3>1 DEF Tick, Entry
  <2>2. QED BY <1>4, <2>1 DEF Tick, sessions, FirstInv, Expected, Open, Listening
<1>5. ASSUME NEW s \in Servers, Expire(s) PROVE FirstInv'
  BY <1>5 DEF Expire, Without, fleet, FirstInv, Expected, Open, Listening
<1>6. ASSUME NEW s \in Servers, HandleHeartbeat(s) PROVE FirstInv'
  <2>1. redis' = With(redis, s, [port |-> port[s], status |-> Status(player_count(s)), ttl |-> ExpireSlots])
    BY <1>6 DEF HandleHeartbeat
  <2>2. /\ DOMAIN redis' = DOMAIN redis \cup {s} /\ redis'[s].port = port[s]
        /\ \A t \in DOMAIN redis \ {s} : redis'[t] = redis[t]
    BY <2>1 DEF With
  <2>3. Open(s)
    BY <1>6 DEF HandleHeartbeat, FirstInv
  <2>4. QED BY <1>6, <2>2, <2>3 DEF HandleHeartbeat, fleet, sessions, FirstInv, Expected, Open, Listening
<1>7. ASSUME NEW s \in Servers, LoseHeartbeat(s) PROVE FirstInv'
  <2>1. left'["crash"] = 0 /\ (ReportsDisconnect => left'["restart"] = 0)
    BY <1>2, <1>7 DEF LoseHeartbeat, Faults
  <2>2. QED BY <1>7, <2>1 DEF LoseHeartbeat, fleet, sessions, FirstInv, Expected, Open, Listening
<1>8. ASSUME NEW s \in Servers, SendHeartbeat(s) PROVE FirstInv'
  <2>1. flight' = flight \/ (flight' = flight \cup {s} /\ orch_addr[s] = Orchestrator /\ linked[s])
    BY <1>8 DEF SendHeartbeat
  <2>2. linked[s] => process[s] = "up"
    BY DEF RegisteredInv
  <2>3. \A t \in flight' : Open(t)
    BY <2>1, <2>2 DEF FirstInv, Open, Typed, ControlTyped
  <2>4. QED BY <1>8, <2>3 DEF SendHeartbeat, sessions, FirstInv, Expected, Open, Listening
<1>9. CASE OrchestratorEnds
  <2>1. left["restart"] > 0 /\ Fault("restart")
    BY <1>9 DEF OrchestratorEnds, Fault
  <2>2. ~ReportsDisconnect
    BY <1>1, <2>1 DEF FirstInv
  <2>3. inbox' = inbox
    BY <1>1, <1>9, <2>2 DEF OrchestratorEnds
  <2>4. left'["crash"] = 0 /\ (ReportsDisconnect => left'["restart"] = 0)
    BY <1>2, <2>1 DEF Faults
  <2>5. QED BY <1>9, <2>3, <2>4 DEF OrchestratorEnds, sessions, FirstInv, Expected, Open, Listening
<1>10. ASSUME NEW s \in Servers, Crash(s) PROVE FirstInv'
  BY <1>1, <1>10 DEF Crash, Fault, FirstInv
<1>11. CASE SpawnServer
  <2>1. PICK id \in Servers : Spawns(id)
    BY <1>11, SpawnsOne
  <2>2. /\ process[id] \in {"none", "dead", "zombie"} /\ id \notin DOMAIN redis \cup flight
        /\ \A p \in Players : server[p] # id
    BY <2>1 DEF Spawns, Fresh
  <2>3. /\ process'[id] = "spawned" /\ inbox'[id] = <<>> /\ orch_addr'[id] = Nobody
        /\ \A t \in Servers \ {id} : /\ process'[t] = process[t] /\ inbox'[t] = inbox[t]
                                     /\ orch_addr'[t] = orch_addr[t] /\ port'[t] = port[t]
        /\ UNCHANGED <<redis, flight, server, client, target, left>>
    BY <1>1, <2>1 DEF Spawns, sessions
  <2>4. <<>> \in Seq({Hello})
    OBVIOUS
  <2>5. ASSUME NEW t \in Servers PROVE inbox'[t] \in Seq(Expected(t)')
    <3>1. CASE t = id
      <4>1. Expected(t)' = {Hello} /\ inbox'[t] = <<>>
        BY <1>1, <2>3, <3>1 DEF Expected
      <4>2. QED BY <2>4, <4>1
    <3>2. CASE t # id
      <4>1. Expected(t)' = Expected(t) /\ inbox'[t] = inbox[t]
        BY <2>3, <3>2 DEF Expected
      <4>2. QED BY <4>1 DEF FirstInv
    <3>3. QED BY <3>1, <3>2
  <2>6. \A t \in Servers : Open(t) => t # id /\ Open(t)'
    BY <2>2, <2>3 DEF Open
  <2>7. \A t \in Servers : Listening(t)' => t # id /\ Listening(t)
    BY <2>3 DEF Listening
  <2>8. \A s, t \in Servers : Listening(s)' /\ Listening(t)' /\ port'[s] = port'[t] => s = t
    BY <2>3, <2>7 DEF FirstInv
  <2>9. \A p \in Players :
          /\ server'[p] \in Servers => Open(server[p])'
          /\ client'[p] = "routed" => \E s \in Servers : Open(s)' /\ port'[s] = target'[p]
    BY <2>3, <2>6 DEF FirstInv
  <2>10. \A s \in Servers :
           /\ orch_addr'[s] \in {Nobody, Orchestrator}
           /\ s \in DOMAIN redis' => Open(s)' /\ redis'[s].port = port'[s]
           /\ s \in flight' => Open(s)'
    BY <2>2, <2>3, <2>6 DEF FirstInv
  <2>11. left'["crash"] = 0 /\ (ReportsDisconnect => left'["restart"] = 0)
    BY <2>3 DEF FirstInv
  <2>12. QED BY <2>3, <2>5, <2>8, <2>9, <2>10, <2>11 DEF FirstInv
<1>12. ASSUME NEW s \in Servers, BindSocket(s) PROVE FirstInv'
  <2>1. /\ process[s] = "spawned"
        /\ process'[s] = IF Taken(port[s]) THEN "zombie" ELSE "bound"
        /\ \A t \in Servers \ {s} : process'[t] = process[t]
        /\ UNCHANGED <<redis, flight, port, orch_addr, inbox, server, client, target, left>>
    BY <1>1, <1>12 DEF BindSocket, sessions
  <2>2. \A t \in Servers : Open(t) => Open(t)'
    BY <2>1 DEF Open
  <2>3. \A t, u \in Servers : Listening(t)' /\ Listening(u)' /\ port'[t] = port'[u] => t = u
    BY <2>1 DEF FirstInv, Listening, Taken
  <2>4. QED BY <2>1, <2>2, <2>3 DEF FirstInv, Expected
<1>13. ASSUME NEW s \in Servers, ConnectOrchestrator(s) PROVE FirstInv'
  <2>1. /\ process[s] = "bound" /\ process'[s] = "up"
        /\ inbox' = [inbox EXCEPT ![s] = Append(@, Hello)]
        /\ \A t \in Servers \ {s} : process'[t] = process[t]
        /\ UNCHANGED <<redis, flight, port, orch_addr, server, client, target, left>>
    BY <1>1, <1>13 DEF ConnectOrchestrator, sessions, Hello
  <2>2. \A t \in Servers : Open(t) => Open(t)'
    BY <2>1 DEF Open
  <2>3. \A t, u \in Servers : Listening(t)' /\ Listening(u)' /\ port'[t] = port'[u] => t = u
    BY <2>1 DEF FirstInv, Listening
  <2>4. ASSUME NEW t \in Servers PROVE inbox'[t] \in Seq(Expected(t)')
    <3>1. inbox[t] \in Seq(Expected(t)) /\ Expected(t)' = Expected(t) /\ Hello \in Expected(t)
      BY <2>1, MoreExpected DEF FirstInv, Expected
    <3>2. inbox'[t] = inbox[t] \/ inbox'[t] = Append(inbox[t], Hello)
      BY <1>1, <2>1
    <3>3. QED BY <3>1, <3>2, QueuesOf
  <2>5. QED BY <2>1, <2>2, <2>3, <2>4 DEF FirstInv
<1>14. ASSUME NEW s \in Servers, ConnectFails(s) PROVE FirstInv'
  <2>1. /\ process[s] = "bound" /\ process'[s] = "zombie"
        /\ \A t \in Servers \ {s} : process'[t] = process[t]
        /\ UNCHANGED <<redis, flight, port, orch_addr, inbox, target, left>>
    BY <1>1, <1>14 DEF ConnectFails
  <2>2. \A p \in Players : server'[p] = server[p] /\ client'[p] = client[p]
    <3>1. \A p \in Players : server[p] # s
      BY <2>1 DEF FirstInv, Open
    <3>2. QED BY <1>14, <3>1 DEF ConnectFails, Disconnects
  <2>3. \A t \in Servers : Open(t) => Open(t)'
    BY <2>1 DEF Open
  <2>4. \A t, u \in Servers : Listening(t)' /\ Listening(u)' /\ port'[t] = port'[u] => t = u
    BY <2>1 DEF FirstInv, Listening
  <2>5. QED BY <2>1, <2>2, <2>3, <2>4 DEF FirstInv, Expected
\* A server hears one event: from a stranger it is the orchestrator's greeting.
<1>15. ASSUME NEW s \in Servers, NEW type, Receives(s, type),
              orch_addr'[s] \in {Nobody, Orchestrator},
              orch_addr[s] = Orchestrator => orch_addr'[s] = Orchestrator,
              \A t \in Servers \ {s} : orch_addr'[t] = orch_addr[t],
              UNCHANGED <<redis, flight, process, port, server, target, left>>,
              \A p \in Players : client'[p] = "routed" => client[p] = "routed"
       PROVE  FirstInv'
  <2>1. /\ inbox[s] # <<>> /\ inbox'[s] = Tail(inbox[s])
        /\ \A t \in Servers \ {s} : inbox'[t] = inbox[t]
    BY <1>15, Received
  <2>2. \A t \in Servers : Open(t) => Open(t)'
    BY <1>15 DEF Open
  <2>3. ASSUME NEW t \in Servers PROVE inbox'[t] \in Seq(Expected(t)')
    <3>1. inbox[t] \in Seq(Expected(t))
      BY DEF FirstInv
    <3>2. inbox'[t] \in Seq(Expected(t))
      <4>1. CASE t = s
        <5>1. PICK S : S = Expected(t)
          OBVIOUS
        <5>2. PICK q \in Seq(S) : q = inbox[t]
          BY <3>1, <5>1
        <5>3. q # <<>> /\ inbox'[t] = Tail(q)
          BY <2>1, <4>1, <5>2
        <5>4. Tail(q) \in Seq(S)
          BY <5>3, QueuesOf
        <5>5. QED BY <5>1, <5>3, <5>4
      <4>2. CASE t # s
        <5>1. inbox'[t] = inbox[t]
          BY <2>1, <4>2
        <5>2. QED BY <3>1, <5>1
      <4>3. QED BY <4>1, <4>2
    <3>3. Expected(t)' = Expected(t) \/ (Expected(t) = {Hello} /\ Expected(t)' = Inbound \ {Lost})
      BY <1>15 DEF Expected
    <3>4. QED BY <3>2, <3>3, MoreExpected
  <2>4. QED BY <1>15, <2>2, <2>3 DEF FirstInv, Listening
<1>16. ASSUME NEW s \in Servers, NEW type, Receives(s, type)
       PROVE  /\ Head(inbox[s]) \in Expected(s) /\ Head(inbox[s]).type = type
              /\ Head(inbox[s]) \in Inbound
  <2>1. inbox[s] \in Seq(Expected(s)) /\ inbox[s] # <<>>
    BY <1>16 DEF FirstInv, Receives
  <2>2. QED BY <1>16, <2>1, QueuesOf, Received DEF Receives
<1>17. ASSUME NEW s \in Servers, HandleConnected(s) PROVE FirstInv'
  <2>1. Receives(s, "Connected")
    BY <1>17 DEF HandleConnected
  <2>2. orch_addr[s] # Orchestrator => Sender(s) = Orchestrator
    BY <1>16, <2>1 DEF Expected, Hello, Sender
  <2>3. /\ UNCHANGED <<redis, flight, process, port, server, target, left, client>>
        /\ orch_addr'[s] = IF orch_addr[s] = Nobody THEN Sender(s) ELSE orch_addr[s]
        /\ \A t \in Servers \ {s} : orch_addr'[t] = orch_addr[t]
    BY <1>1, <1>17 DEF HandleConnected, Takes, sessions
  <2>4. orch_addr[s] \in {Nobody, Orchestrator}
    BY DEF FirstInv
  <2>5. QED BY <1>1, <1>15, <2>1, <2>2, <2>3, <2>4
<1>18. ASSUME NEW s \in Servers, HandleDisconnected(s) PROVE FirstInv'
  <2>1. Receives(s, "Disconnected")
    BY <1>18 DEF HandleDisconnected, Disconnected
  <2>2. orch_addr[s] = Orchestrator /\ Sender(s) # Orchestrator
    BY <1>16, <2>1 DEF Expected, Hello, Sender, Inbound, Lost
  <2>3. /\ UNCHANGED <<redis, flight, process, port, server, target, left, client>>
        /\ orch_addr'[s] = orch_addr[s]
        /\ \A t \in Servers \ {s} : orch_addr'[t] = orch_addr[t]
    BY <1>1, <1>18, <2>2 DEF HandleDisconnected, Disconnected, Takes, sessions
  <2>4. QED BY <1>1, <1>15, <2>1, <2>2, <2>3
<1>19. ASSUME NEW s \in Servers, HandleJoin(s) PROVE FirstInv'
  <2>1. Receives(s, "Join")
    BY <1>19 DEF HandleJoin
  <2>2. /\ UNCHANGED <<redis, flight, process, port, server, target, left, orch_addr>>
        /\ \A p \in Players : client'[p] = "routed" => client[p] = "routed"
    BY <1>1, <1>19 DEF HandleJoin
  <2>3. orch_addr[s] \in {Nobody, Orchestrator}
    BY DEF FirstInv
  <2>4. QED BY <1>15, <2>1, <2>2, <2>3
\* A client that moves, without being sent anywhere.
<1>20. ASSUME NEW p \in Players,
              UNCHANGED <<redis, flight, fleet, server, target>>,
              left' = left \/ Fault("error"),
              \A q \in Players : client'[q] = "routed" => client[q] = "routed"
       PROVE  FirstInv'
  <2>1. left'["crash"] = 0 /\ (ReportsDisconnect => left'["restart"] = 0)
    BY <1>2, <1>20 DEF FirstInv, Faults
  <2>2. QED BY <1>20, <2>1 DEF fleet, FirstInv, Expected, Open, Listening
<1>21. ASSUME NEW p \in Players,
              \/ LoginRejected(p) \/ Login(p) \/ ConnectRefused(p) \/ NoServerAvailable(p)
              \/ LoginFails(p)
       PROVE  FirstInv'
  <2>1. /\ UNCHANGED <<redis, flight, fleet, server, target>>
        /\ left' = left \/ Fault("error")
    BY <1>21 DEF LoginRejected, Login, ConnectRefused, NoServerAvailable, LoginFails
  <2>2. \A q \in Players : client'[q] = "routed" => client[q] = "routed"
    BY <1>1, <1>21 DEF LoginRejected, Login, ConnectRefused, NoServerAvailable, LoginFails
  <2>3. QED BY <1>20, <2>1, <2>2
<1>22. ASSUME NEW p \in Players, Start(p) PROVE FirstInv'
  BY <1>22 DEF Start, ByTheBook
<1>23. ASSUME NEW p \in Players, NEW s \in Servers, ProbeServer(p, s) PROVE FirstInv'
  <2>1. CASE Routed(p, s)
    <3>1. Open(s) /\ redis[s].port = port[s]
      BY <2>1 DEF Routed, Admits, FirstInv
    <3>2. /\ target'[p] = port[s] /\ UNCHANGED <<redis, flight, fleet, server, left>>
          /\ \A q \in Players \ {p} : target'[q] = target[q] /\ client'[q] = client[q]
      BY <1>1, <1>23, <2>1, <3>1 DEF ProbeServer, Routed
    <3>3. QED BY <3>1, <3>2 DEF fleet, FirstInv, Expected, Open, Listening
  <2>2. CASE UNCHANGED <<client, target, lasting>>
    BY <1>20, <1>23, <2>2 DEF ProbeServer
  <2>3. QED BY <1>23, <2>1, <2>2 DEF ProbeServer
\* An event of a player for a server that has its orchestrator.
<1>24. ASSUME NEW p \in Players, NEW s \in Servers, Open(s),
              NEW type \in {"Connected", "Disconnected", "Join"},
              \/ inbox' = inbox
              \/ inbox' = [inbox EXCEPT ![s] = Append(@, [type |-> type, peer |-> p])],
              UNCHANGED <<redis, flight, process, port, orch_addr, target, left>>,
              \A q \in Players : client'[q] = "routed" => client[q] = "routed",
              \A q \in Players : server'[q] \in {server[q], s, 0}
       PROVE  FirstInv'
  <2>1. [type |-> type, peer |-> p] \in Inbound \ {Lost}
    BY <1>1 DEF Inbound, Lost, Peers
  <2>2. ASSUME NEW t \in Servers PROVE inbox'[t] \in Seq(Expected(t)')
    <3>1. inbox[t] \in Seq(Expected(t)) /\ Expected(t)' = Expected(t)
      BY <1>24 DEF FirstInv, Expected
    <3>2. CASE t = s
      <4>1. Expected(s) = Inbound \ {Lost}
        BY <1>24 DEF Open, Expected
      <4>2. inbox'[s] = inbox[s] \/ inbox'[s] = Append(inbox[s], [type |-> type, peer |-> p])
        BY <1>1, <1>24
      <4>3. QED BY <2>1, <3>1, <3>2, <4>1, <4>2, QueuesOf
    <3>3. CASE t # s
      <4>1. inbox'[t] = inbox[t]
        BY <1>1, <1>24, <3>3
      <4>2. QED BY <3>1, <4>1
    <3>4. QED BY <3>2, <3>3
  <2>3. \A q \in Players : server'[q] \in Servers => Open(server'[q])
    BY <1>24, Numbers DEF FirstInv
  <2>4. \A t \in Servers : Open(t) <=> Open(t)'
    BY <1>24 DEF Open
  <2>5. \A q \in Players :
          /\ server'[q] \in Servers => Open(server[q])'
          /\ client'[q] = "routed" => \E t \in Servers : Open(t)' /\ port'[t] = target'[q]
    <3>1. ASSUME NEW q \in Players, server'[q] \in Servers PROVE Open(server[q])'
      <4>1. PICK t \in Servers : t = server'[q]
        BY <3>1
      <4>2. Open(t)'
        BY <2>3, <2>4, <4>1
      <4>3. QED BY <4>1, <4>2 DEF Open
    <3>2. QED BY <1>24, <2>4, <3>1 DEF FirstInv
  <2>6. \A t, u \in Servers : Listening(t)' /\ Listening(u)' /\ port'[t] = port'[u] => t = u
    BY <1>24 DEF FirstInv, Listening
  <2>7. QED BY <1>24, <2>2, <2>4, <2>5, <2>6 DEF FirstInv
<1>25. ASSUME NEW p \in Players, ConnectPlayer(p) PROVE FirstInv'
  <2>1. PICK s \in Servers :
          /\ Listening(s) /\ port[s] = target[p]
          /\ client' = [client EXCEPT ![p] = "connected"]
          /\ server' = [server EXCEPT ![p] = s]
          /\ inbox' = [inbox EXCEPT ![s] = Append(@, [type |-> "Connected", peer |-> p])]
    BY <1>25 DEF ConnectPlayer
  <2>2. PICK t \in Servers : Open(t) /\ port[t] = target[p]
    BY <1>25 DEF ConnectPlayer, FirstInv
  <2>3. Open(s)
    BY <2>1, <2>2 DEF FirstInv, Open, Listening
  <2>4. UNCHANGED <<redis, flight, process, port, orch_addr, target, left>>
    BY <1>25 DEF ConnectPlayer
  <2>5. /\ \A q \in Players : client'[q] = "routed" => client[q] = "routed"
        /\ \A q \in Players : server'[q] \in {server[q], s, 0}
    BY <1>1, <2>1
  <2>6. QED BY <1>24, <2>1, <2>3, <2>4, <2>5
<1>26. ASSUME NEW p \in Players, Join(p) \/ Leave(p) PROVE FirstInv'
  <2>1. server[p] \in Servers
    BY <1>26 DEF Join, Leave, Typed, ClientsTyped
  <2>2. PICK s \in Servers : s = server[p]
    BY <2>1
  <2>3. Open(s)
    BY <2>2 DEF FirstInv
  <2>4. UNCHANGED <<redis, flight, process, port, orch_addr, target, left>>
    BY <1>26 DEF Join, Leave
  <2>5. /\ \A q \in Players : client'[q] = "routed" => client[q] = "routed"
        /\ \A q \in Players : server'[q] \in {server[q], s, 0}
    BY <1>1, <1>26 DEF Join, Leave
  <2>6. \E type \in {"Connected", "Disconnected", "Join"} :
          \/ inbox' = inbox
          \/ inbox' = [inbox EXCEPT ![s] = Append(@, [type |-> type, peer |-> p])]
    BY <1>26, <2>2 DEF Join, Leave
  <2>7. QED BY <1>24, <2>3, <2>4, <2>5, <2>6
<1>27. QED BY <1>3, <1>4, <1>5, <1>6, <1>7, <1>8, <1>9, <1>10, <1>11, <1>12, <1>13, <1>14, <1>17, <1>18,
          <1>19, <1>21, <1>22, <1>23, <1>25, <1>26
       DEF Next, ScalerStep, FaultStep, Boot, Frame, GatekeeperStep, ClientStep

\* The first connection is the orchestrator's (dedicated server line 121), if nobody is
\* started by hand on the default port, no server dies, and the orchestrator lasts or its
\* servers do not hear of its end.
THEOREM OrchestratorComesFirst ==
  ASSUME ByTheBook
  PROVE  Spec => []FirstIsOrchestrator
<1> DEFINE IInv == Typed /\ RegisteredInv /\ FirstInv
<1>1. Init => IInv
  BY ByTheBook, FleetTypedAtFirst, RegisteredAtFirst, FirstAtFirst
<1>2. IInv /\ [Next]_vars => IInv'
  BY ByTheBook, FleetTypedKept, RegisteredKept, FirstKept
<1>3. IInv => FirstIsOrchestrator
  BY PeersAssumption DEF FirstInv, FirstIsOrchestrator, Peers
<1> HIDE DEF IInv
<1>4. QED BY <1>1, <1>2, <1>3, PTL DEF Spec

-----------------------------------------------------------------------------
(* No two servers share a port, if besides nothing fails, a server starts    *)
(* within a slot, the scaler waits until it has registered, and a key        *)
(* outlives the time to the next heartbeat.                                 *)

InTime ==
  /\ ByTheBook
  /\ Budget = [f \in Faults |-> 0]
  /\ ~SlowBoot
  /\ PeriodSlots >= 2 /\ ExpireSlots >= 2

\* Where a server stands that is not in the registry yet, or will be there for long.
Starting(s) ==
  /\ scaler.at = "idle"
  /\ \/ wait = PeriodSlots
     \/ /\ wait = PeriodSlots - 1 /\ process[s] = "up"
        /\ due[s] \/ s \in flight

Beating(s) ==
  /\ process[s] = "up"
  /\ s \in DOMAIN redis
  /\ redis[s].ttl > 0
  /\ redis[s].ttl > 1 \/ due[s] \/ s \in flight

Sound(s) ==
  /\ process[s] \notin {"dead", "zombie"}
  /\ process[s] = "up" => linked[s]
  /\ process[s] = "up" /\ orch_addr[s] # Orchestrator => inbox[s] # <<>>
  /\ due[s] => Open(s)
  /\ s \in Running => Starting(s) \/ Beating(s)
  /\ s \in Running /\ scaler.at = "scan" => s \in scaler.keys \/ port[s] <= scaler.highest

PortsInv ==
  /\ left = Budget
  /\ orchestrator
  /\ wait <= PeriodSlots
  /\ scaler.at # "idle" => wait = PeriodSlots
  /\ \A s \in Servers : Sound(s)
  /\ NoPortClash

\* No port is taken at first.
LEMMA PortsAtFirst == InTime /\ Init => PortsInv
BY Numbers DEF Init, PortsInv, Sound, Running, NoPortClash, Idle

\* One step per action that moves the clock, spawns, starts or registers.
LEMMA PortsKept ==
  ASSUME InTime, Typed, RegisteredInv, FirstInv, PortsInv, [Next]_vars
  PROVE  PortsInv'
<1>1. /\ inbox \in [Servers -> Seq(Inbound)] /\ linked \in [Servers -> BOOLEAN]
      /\ process \in [Servers -> {"none", "spawned", "bound", "up", "dead", "zombie"}]
      /\ orch_addr \in [Servers -> Peers \cup {Nobody}] /\ port \in [Servers -> Nat]
      /\ due \in [Servers -> BOOLEAN]
      /\ DOMAIN redis \subseteq Servers /\ flight \subseteq Servers
      /\ \A s \in DOMAIN redis : redis[s] \in Entry
      /\ scaler \in Scalers /\ wait \in Nat /\ PeriodSlots \in Nat /\ ExpireSlots \in Nat
      /\ PeriodSlots >= 2 /\ ExpireSlots >= 2
  BY Numbers DEF Typed, ServersTyped, RegistryTyped, ControlTyped, InTime
\* Nothing fails.
<1>2. ASSUME NEW k \in Faults PROVE ~Fault(k)
  BY DEF PortsInv, InTime, Fault
<1>3. ~OrchestratorEnds /\ ~OrchestratorStarts /\ ~CountFails /\ ~ScanFails /\ ~SpawnFails
  BY <1>2 DEF OrchestratorEnds, OrchestratorStarts, CountFails, ScanFails, SpawnFails, PortsInv, Faults
<1>4. \A s \in Servers : ~LoseHeartbeat(s) /\ ~Crash(s) /\ ~ConnectFails(s)
  BY <1>2 DEF LoseHeartbeat, Crash, ConnectFails, PortsInv, Faults
<1>5. \A p \in Players : ~LoginFails(p) /\ ~Start(p)
  BY <1>2 DEF LoginFails, Start, InTime, ByTheBook, Faults
\* A step of a server, the scaler and the clock being where they are.
<1>6. ASSUME UNCHANGED <<control, port, left>>, Running' \subseteq Running,
             \A s \in Servers : Sound(s)'
      PROVE  PortsInv'
  BY <1>6 DEF PortsInv, NoPortClash, control
<1>7. CASE UNCHANGED vars
  BY <1>6, <1>7
     DEF vars, control, fleet, Running, PortsInv, Sound, Starting, Beating, Open
<1>8. ASSUME UNCHANGED <<redis, control, flight, process, port, linked, orch_addr, due, left>>,
             \A s \in Servers : orch_addr[s] # Orchestrator => inbox'[s] = inbox[s] \/ inbox'[s] # <<>>
      PROVE  PortsInv'
  BY <1>6, <1>8 DEF control, Running, PortsInv, Sound, Starting, Beating, Open
<1>9. ASSUME NEW p \in Players,
             \/ LoginRejected(p) \/ Login(p) \/ ConnectRefused(p) \/ NoServerAvailable(p)
             \/ ConnectPlayer(p) \/ Join(p) \/ Leave(p) \/ \E s \in Servers : ProbeServer(p, s)
      PROVE  PortsInv'
  <2>1. UNCHANGED <<redis, control, flight, process, port, linked, orch_addr, due, left>>
    BY <1>9 DEF fleet, LoginRejected, Login, ConnectRefused, NoServerAvailable, ConnectPlayer, Join,
                Leave, ProbeServer
  <2>2. \/ inbox' = inbox
        \/ \E s \in Servers, e \in Inbound : inbox' = [inbox EXCEPT ![s] = Append(@, e)]
    <3>1. \A type \in {"Connected", "Disconnected", "Join"} : [type |-> type, peer |-> p] \in Inbound
      BY DEF Inbound, Peers
    <3>2. CASE Join(p) \/ Leave(p)
      <4>1. server[p] \in Servers
        BY <3>2 DEF Join, Leave, Typed, ClientsTyped
      <4>2. QED BY <3>1, <3>2, <4>1 DEF Join, Leave
    <3>3. CASE ConnectPlayer(p)
      BY <3>1, <3>3 DEF ConnectPlayer
    <3>4. QED BY <1>9, <3>2, <3>3
          DEF fleet, LoginRejected, Login, ConnectRefused, NoServerAvailable, ProbeServer
  <2>3. \A s \in Servers : inbox'[s] = inbox[s] \/ inbox'[s] # <<>>
    <3>1. ASSUME NEW q \in Seq(Inbound), NEW e \in Inbound PROVE Append(q, e) # <<>>
      <4>1. Len(q) \in Nat /\ Len(Append(q, e)) = Len(q) + 1
        OBVIOUS
      <4>2. Len(Append(q, e)) # 0
        BY <4>1
      <4>3. Len(<<>>) = 0
        OBVIOUS
      <4>4. SUFFICES ASSUME Append(q, e) = <<>> PROVE FALSE
        OBVIOUS
      <4>5. Len(Append(q, e)) = Len(<<>>)
        BY <4>4
      <4>6. QED BY <4>2, <4>3, <4>5
    <3>2. QED BY <1>1, <2>2, <3>1
  <2>4. QED BY <1>8, <2>1, <2>3
<1>10. CASE Tick
  <2>1. /\ orchestrator' /\ wait > 0 /\ wait' = wait - 1 /\ scaler.at = "idle"
        /\ flight = {} /\ left' = left
        /\ UNCHANGED <<scaler, flight, process, port, linked, orch_addr, inbox>>
        /\ due' = [s \in Servers |-> Listening(s)]
        /\ DOMAIN redis' = DOMAIN redis
        /\ \A s \in DOMAIN redis : redis'[s] = [redis[s] EXCEPT !.ttl = @ - 1]
    BY <1>10 DEF Tick, Settled, PortsInv
  <2>2. \A s \in Servers : /\ Listening(s) => inbox[s] = <<>> /\ ~due[s]
                           /\ process[s] \notin {"spawned", "bound"}
    BY <1>10 DEF Tick, Settled, InTime
  <2>3. \A s \in DOMAIN redis : redis'[s].ttl = redis[s].ttl - 1 /\ redis[s].ttl \in Nat
    BY <1>1, <2>1 DEF Entry
  <2>4. ASSUME NEW s \in Servers PROVE Sound(s)'
    <3>1. Sound(s)
      BY DEF PortsInv
    <3>2. process[s] = "up" => Open(s) /\ linked[s]
      BY <2>2, <3>1 DEF Sound, Open, Listening
    <3>3. due'[s] => process[s] = "up"
      BY <2>1, <2>2 DEF Listening
    <3>4. ASSUME process[s] = "up" PROVE (Starting(s) \/ Beating(s))'
      <4>1. due'[s] = TRUE /\ ~due[s] /\ s \notin flight
        BY <2>1, <2>2, <3>4 DEF Listening
      <4>2. Starting(s) \/ Beating(s)
        BY <3>1, <3>4 DEF Sound, Running
      <4>3. CASE Starting(s)
        <5>1. wait = PeriodSlots
          BY <4>1, <4>3 DEF Starting
        <5>2. QED BY <1>1, <2>1, <3>4, <4>1, <5>1 DEF Starting
      <4>4. CASE Beating(s)
        <5>1. redis[s].ttl > 1
          BY <4>1, <4>4 DEF Beating
        <5>2. QED BY <2>1, <2>3, <3>4, <4>1, <4>4, <5>1 DEF Beating
      <4>5. QED BY <4>2, <4>3, <4>4
    <3>5. s \in Running' => process[s] = "up"
      BY <2>1, <2>2 DEF Running
    <3>6. Open(s) => Open(s)'
      BY <2>1 DEF Open
    <3>7. QED BY <2>1, <3>1, <3>2, <3>3, <3>4, <3>5, <3>6 DEF Sound
  <2>5. wait' <= PeriodSlots
    BY <1>1, <2>1 DEF PortsInv
  <2>6. NoPortClash'
    BY <2>1 DEF PortsInv, NoPortClash, Running
  <2>7. QED BY <2>1, <2>4, <2>5, <2>6 DEF PortsInv
\* The scaler alone.
<1>11. ASSUME UNCHANGED <<redis, orchestrator, flight, fleet, sessions, left>>, wait' <= PeriodSlots,
              scaler'.at # "idle" => wait' = PeriodSlots,
              \A s \in Running : Starting(s) \/ Beating(s) => Starting(s)' \/ Beating(s)',
              \A s \in Running : scaler'.at = "scan" => s \in scaler'.keys \/ port[s] <= scaler'.highest
       PROVE  PortsInv'
  BY <1>11 DEF fleet, PortsInv, Sound, NoPortClash, Running, Open
<1>12. ASSUME scaler.at # "idle" PROVE \A s \in Running : Beating(s)
  BY <1>12 DEF PortsInv, Sound, Starting, Running
<1>13. ASSUME UNCHANGED <<redis, process, due, flight>>
       PROVE  \A s \in Servers : Beating(s) => Beating(s)'
  BY <1>13 DEF Beating
<1>14. CASE ScalerTick
  <2>1. /\ UNCHANGED <<redis, orchestrator, flight, fleet, sessions, left>>
        /\ wait = 0 /\ wait' = PeriodSlots
    BY <1>14 DEF ScalerTick
  <2>2. scaler'.at = "count"
    BY <1>14, Rounds DEF ScalerTick, Idle
  <2>3. \A s \in Running : ~Starting(s)
    BY <1>1, <2>1 DEF Starting
  <2>4. \A s \in Running : Beating(s) => Beating(s)'
    BY <1>13, <2>1 DEF fleet, Running
  <2>5. QED BY <1>1, <1>11, <2>1, <2>2, <2>3, <2>4
<1>15. CASE CountDone
  <2>1. /\ UNCHANGED <<redis, orchestrator, wait, flight, fleet, sessions, left>>
        /\ scaler.at = "count"
        /\ \/ scaler' = Idle
           \/ scaler' = [Idle EXCEPT !.at = "scan", !.keys = DOMAIN redis]
    BY <1>15 DEF CountDone, CountEnds
  <2>2. \A s \in Running : Beating(s) /\ Beating(s)'
    BY <1>12, <1>13, <2>1 DEF fleet, Running
  <2>3. scaler'.at = "scan" => scaler'.keys = DOMAIN redis
    <3>1. CASE scaler' = Idle
      BY <3>1 DEF Idle
    <3>2. CASE scaler' = [Idle EXCEPT !.at = "scan", !.keys = DOMAIN redis]
      <4>1. DOMAIN redis \in SUBSET Servers
        BY <1>1
      <4>2. scaler'.keys = DOMAIN redis
        BY <3>2, <4>1, Rounds
      <4>3. QED BY <4>2
    <3>3. QED BY <2>1, <3>1, <3>2
  <2>4. \A s \in Running : s \in DOMAIN redis
    BY <2>2 DEF Beating
  <2>5. wait = PeriodSlots
    BY <2>1 DEF PortsInv
  <2>6. QED BY <1>1, <1>11, <2>1, <2>2, <2>3, <2>4, <2>5
<1>16. ASSUME NEW s \in Servers, CountServer(s) PROVE PortsInv'
  <2>1. /\ UNCHANGED <<redis, orchestrator, wait, flight, fleet, sessions, left>>
        /\ scaler.at = "count" /\ scaler'.at = "count"
    BY <1>1, <1>16 DEF CountServer, Scalers
  <2>2. \A t \in Running : Beating(t)'
    BY <1>12, <1>13, <2>1 DEF fleet, Running
  <2>3. QED BY <1>1, <1>11, <2>1, <2>2 DEF PortsInv
<1>17. ASSUME NEW s \in Servers, ScanPort(s) PROVE PortsInv'
  <2>1. /\ UNCHANGED <<redis, orchestrator, wait, flight, fleet, sessions, left>>
        /\ scaler.at = "scan" /\ scaler'.at = "scan"
        /\ scaler'.keys = scaler.keys \ {s}
        /\ scaler'.highest = IF s \in DOMAIN redis /\ redis[s].port > scaler.highest
                             THEN redis[s].port ELSE scaler.highest
    BY <1>1, <1>17 DEF ScanPort, Scalers
  <2>2. \A t \in Running : Beating(t) /\ Beating(t)'
    BY <1>12, <1>13, <2>1 DEF fleet, Running
  <2>3. /\ scaler.highest \in Nat /\ \A t \in Servers : port[t] \in Nat
        /\ \A t \in DOMAIN redis : redis[t].port \in Nat /\ redis[t].port = port[t]
    BY <1>1 DEF Scalers, Entry, FirstInv
  <2>4. ASSUME NEW t \in Running PROVE t \in scaler'.keys \/ port[t] <= scaler'.highest
    <3>1. t \in DOMAIN redis /\ t \in Servers
      BY <2>2 DEF Beating, Running
    <3>2. t \in scaler.keys \/ port[t] <= scaler.highest
      BY <2>1, <3>1 DEF PortsInv, Sound
    <3>3. QED BY <2>1, <2>3, <3>1, <3>2
  <2>5. QED BY <1>1, <1>11, <2>1, <2>2, <2>4 DEF PortsInv
<1>18. CASE SpawnServer
  <2>1. PICK id \in Servers : Spawns(id)
    BY <1>18, SpawnsOne
  <2>2. /\ scaler.at = "scan" /\ scaler.keys = {} /\ scaler' = Idle
        /\ id \notin Running
        /\ process'[id] = "spawned" /\ inbox'[id] = <<>> /\ orch_addr'[id] = Nobody
        /\ port'[id] = scaler.highest + 1 /\ ~due'[id]
        /\ \A t \in Servers \ {id} : /\ process'[t] = process[t] /\ inbox'[t] = inbox[t]
                                     /\ orch_addr'[t] = orch_addr[t] /\ port'[t] = port[t]
                                     /\ due'[t] = due[t]
        /\ UNCHANGED <<redis, flight, linked, orchestrator, wait, left>>
    BY <1>1, <2>1 DEF Spawns, Fresh, Running
  <2>3. wait = PeriodSlots
    BY <2>2 DEF PortsInv
  <2>4. Running' = Running \cup {id}
    BY <2>2 DEF Running
  <2>5. \A t \in Running : t \in Servers \ {id} /\ port[t] <= scaler.highest
    BY <2>2 DEF PortsInv, Sound, Running
  <2>6. NoPortClash'
    <3>1. \A t \in Running : port'[t] # port'[id]
      BY <1>1, <2>2, <2>5 DEF Scalers
    <3>2. \A t, u \in Running : t # u => port'[t] # port'[u]
      BY <2>2, <2>5 DEF PortsInv, NoPortClash
    <3>3. QED BY <2>4, <3>1, <3>2 DEF NoPortClash
  <2>7. scaler'.at = "idle"
    BY <2>2 DEF Idle
  <2>8. ASSUME NEW t \in Servers PROVE Sound(t)'
    <3>1. Sound(t)
      BY DEF PortsInv
    <3>2. Starting(t)'
      BY <2>2, <2>3, <2>7 DEF Starting
    <3>3. QED BY <2>2, <2>7, <3>1, <3>2 DEF Sound, Open
  <2>9. QED BY <2>2, <2>3, <2>6, <2>7, <2>8, <1>1 DEF PortsInv
<1>19. ASSUME NEW s \in Servers, Expire(s) PROVE PortsInv'
  <2>1. /\ redis[s].ttl = 0 /\ DOMAIN redis' = DOMAIN redis \ {s}
        /\ \A t \in DOMAIN redis \ {s} : redis'[t] = redis[t]
        /\ UNCHANGED <<control, flight, fleet, left>>
    BY <1>19 DEF Expire, Without
  <2>2. ~Beating(s)
    BY <2>1 DEF Beating
  <2>3. \A t \in Servers : Beating(t) => Beating(t)'
    BY <2>1, <2>2 DEF fleet, Beating
  <2>4. \A t \in Servers : (Starting(t) => Starting(t)') /\ (Open(t) => Open(t)') /\ (t \in Running <=> t \in Running')
    BY <2>1 DEF fleet, control, Starting, Open, Running
  <2>5. \A t \in Servers : Sound(t)'
    BY <2>1, <2>3, <2>4 DEF fleet, control, Sound, PortsInv
  <2>6. QED BY <1>6, <2>1, <2>5 DEF fleet, Running
<1>20. ASSUME NEW s \in Servers, HandleHeartbeat(s) PROVE PortsInv'
  <2>1. /\ DOMAIN redis' = DOMAIN redis \cup {s} /\ redis'[s].ttl = ExpireSlots
        /\ \A t \in DOMAIN redis \ {s} : redis'[t] = redis[t]
        /\ s \in flight /\ flight' = flight \ {s}
        /\ UNCHANGED <<control, fleet, left>>
    BY <1>20 DEF HandleHeartbeat, With
  <2>2. process[s] = "up"
    BY <2>1 DEF FirstInv, Open
  <2>3. Beating(s)'
    BY <1>1, <2>1, <2>2 DEF fleet, Beating
  <2>4. \A t \in Servers \ {s} : (Starting(t) => Starting(t)') /\ (Beating(t) => Beating(t)')
    BY <2>1 DEF fleet, control, Starting, Beating
  <2>5. \A t \in Servers : (Open(t) => Open(t)') /\ (t \in Running <=> t \in Running')
    BY <2>1 DEF fleet, Open, Running
  <2>6. \A t \in Servers : Sound(t)'
    BY <2>1, <2>3, <2>4, <2>5 DEF fleet, control, Sound, PortsInv
  <2>7. QED BY <1>6, <2>1, <2>6 DEF fleet, Running
<1>21. ASSUME NEW s \in Servers, BindSocket(s) PROVE PortsInv'
  <2>1. /\ process[s] = "spawned"
        /\ process'[s] = IF Taken(port[s]) THEN "zombie" ELSE "bound"
        /\ \A t \in Servers \ {s} : process'[t] = process[t]
        /\ UNCHANGED <<redis, control, flight, port, linked, orch_addr, inbox, due, left>>
    BY <1>1, <1>21 DEF BindSocket
  <2>2. ~Taken(port[s])
    BY <2>1 DEF PortsInv, NoPortClash, Taken, Running, Listening
  <2>3. Running' \subseteq Running
    BY <2>1 DEF Running
  <2>4. ASSUME NEW t \in Servers PROVE Sound(t)'
    <3>1. Sound(t)
      BY DEF PortsInv
    <3>2. process'[t] = process[t] \/ (process[t] = "spawned" /\ process'[t] = "bound")
      BY <2>1, <2>2
    <3>3. QED BY <2>1, <3>1, <3>2 DEF control, Sound, Starting, Beating, Open, Running
  <2>5. QED BY <1>6, <2>1, <2>3, <2>4
<1>22. ASSUME NEW s \in Servers, ConnectOrchestrator(s) PROVE PortsInv'
  <2>1. /\ process[s] = "bound" /\ process'[s] = "up" /\ linked'[s] /\ inbox'[s] # <<>>
        /\ \A t \in Servers \ {s} : /\ process'[t] = process[t] /\ linked'[t] = linked[t]
                                    /\ inbox'[t] = inbox[t]
        /\ UNCHANGED <<redis, control, flight, port, orch_addr, due, left>>
    <3>1. \A q \in Seq(Inbound) : Append(q, Hello) # <<>>
      BY MoreExpected
    <3>2. QED BY <1>1, <1>22, <3>1 DEF ConnectOrchestrator, Hello
  <2>2. Running' \subseteq Running
    BY <2>1 DEF Running
  <2>3. ASSUME NEW t \in Servers PROVE Sound(t)'
    <3>1. Sound(t)
      BY DEF PortsInv
    <3>2. CASE t = s
      <4>1. ~due[s] /\ wait = PeriodSlots /\ scaler.at = "idle"
        BY <2>1, <3>1, <3>2 DEF Sound, Open, Starting, Beating, Running
      <4>2. QED BY <2>1, <3>1, <3>2, <4>1 DEF control, Sound, Starting, Open, Running
    <3>3. CASE t # s
      BY <2>1, <3>1, <3>3 DEF control, Sound, Starting, Beating, Open, Running
    <3>4. QED BY <3>2, <3>3
  <2>4. QED BY <1>6, <2>1, <2>2, <2>3
<1>23. ASSUME NEW s \in Servers, SendHeartbeat(s) PROVE PortsInv'
  <2>1. /\ due[s] /\ ~due'[s] /\ \A t \in Servers \ {s} : due'[t] = due[t]
        /\ UNCHANGED <<redis, control, process, port, linked, orch_addr, inbox, left>>
    BY <1>1, <1>23 DEF SendHeartbeat
  <2>2. orch_addr[s] = Orchestrator /\ linked[s]
    BY <2>1 DEF PortsInv, Sound, Open
  <2>3. flight' = flight \cup {s}
    BY <1>23, <2>2 DEF SendHeartbeat
  <2>4. Running' \subseteq Running
    BY <2>1 DEF Running
  <2>5. ASSUME NEW t \in Servers PROVE Sound(t)'
    <3>1. Sound(t)
      BY DEF PortsInv
    <3>2. (Starting(t) => Starting(t)') /\ (Beating(t) => Beating(t)')
      BY <2>1, <2>3 DEF control, Starting, Beating
    <3>3. due'[t] => due[t]
      BY <2>1
    <3>4. QED BY <2>1, <3>1, <3>2, <3>3 DEF control, Sound, Open, Running
  <2>6. QED BY <1>6, <2>1, <2>4, <2>5
\* What a server that has not met its orchestrator hears is the greeting.
<1>24. ASSUME NEW s \in Servers, NEW type, Receives(s, type), orch_addr[s] # Orchestrator
       PROVE  type = "Connected" /\ Sender(s) = Orchestrator /\ orch_addr[s] = Nobody
  <2>1. PICK q : q = inbox[s]
    OBVIOUS
  <2>2. q \in Seq({Hello}) /\ q # <<>>
    BY <1>24, <2>1 DEF FirstInv, Expected, Receives
  <2>3. Head(q) = Hello
    BY <2>2, QueuesOf
  <2>4. QED BY <1>24, <2>1, <2>3 DEF Receives, Sender, Hello, FirstInv
<1>25. ASSUME NEW s \in Servers, HandleConnected(s) PROVE PortsInv'
  <2>1. /\ orch_addr'[s] = Orchestrator
        /\ \A t \in Servers \ {s} : orch_addr'[t] = orch_addr[t] /\ inbox'[t] = inbox[t]
        /\ UNCHANGED <<redis, control, flight, process, port, linked, due, left>>
    <3>1. Receives(s, "Connected")
      BY <1>25 DEF HandleConnected
    <3>2. \A t \in Servers \ {s} : inbox'[t] = inbox[t]
      BY <3>1, Received
    <3>3. orch_addr' = [orch_addr EXCEPT ![s] = IF orch_addr[s] = Nobody THEN Sender(s) ELSE orch_addr[s]]
      BY <1>25 DEF HandleConnected, Takes
    <3>4. orch_addr[s] # Orchestrator => orch_addr[s] = Nobody /\ Sender(s) = Orchestrator
      BY <1>24, <3>1
    <3>5. Orchestrator # Nobody
      BY PeersAssumption DEF Peers
    <3>6. orch_addr'[s] = Orchestrator
      BY <1>1, <3>3, <3>4, <3>5
    <3>7. QED BY <1>1, <1>25, <3>2, <3>3, <3>6 DEF HandleConnected, Takes
  <2>2. ASSUME NEW t \in Servers PROVE Sound(t)'
    <3>1. Sound(t)
      BY DEF PortsInv
    <3>2. QED BY <2>1, <3>1 DEF control, Sound, Starting, Beating, Open, Running
  <2>3. QED BY <1>6, <2>1, <2>2 DEF Running
<1>26. ASSUME NEW s \in Servers, HandleJoin(s) PROVE PortsInv'
  <2>1. Receives(s, "Join")
    BY <1>26 DEF HandleJoin
  <2>2. \A t \in Servers : orch_addr[t] # Orchestrator => inbox'[t] = inbox[t]
    BY <1>24, <2>1, Received
  <2>3. QED BY <1>8, <1>26, <2>2 DEF HandleJoin
<1>27. ASSUME NEW s \in Servers, HandleDisconnected(s) PROVE PortsInv'
  <2>1. Receives(s, "Disconnected")
    BY <1>27 DEF HandleDisconnected, Disconnected
  <2>2. \A t \in Servers : orch_addr[t] # Orchestrator => inbox'[t] = inbox[t]
    BY <1>24, <2>1, Received
  <2>3. orch_addr' = orch_addr
    <3>1. orch_addr[s] = Orchestrator
      BY <1>24, <2>1
    <3>2. Sender(s) # Orchestrator
      <4>1. PICK q : q = inbox[s]
        OBVIOUS
      <4>2. q \in Seq(Inbound \ {Lost}) /\ q # <<>>
        BY <2>1, <3>1, <4>1 DEF FirstInv, Expected, Receives
      <4>3. Head(q) \in Inbound \ {Lost}
        BY <4>2, QueuesOf
      <4>4. Head(q).type = "Disconnected"
        BY <2>1, <4>1 DEF Receives
      <4>5. QED BY <4>1, <4>3, <4>4 DEF Inbound, Lost, Sender
    <3>3. QED BY <1>1, <1>27, <3>1, <3>2 DEF HandleDisconnected, Disconnected, Takes
  <2>4. QED BY <1>8, <1>27, <2>2, <2>3 DEF HandleDisconnected, Disconnected, Takes
<1>28. QED BY <1>3, <1>4, <1>5, <1>7, <1>9, <1>10, <1>14, <1>15, <1>16, <1>17, <1>18, <1>19, <1>20,
          <1>21, <1>22, <1>23, <1>25, <1>26, <1>27
       DEF Next, ScalerStep, FaultStep, Boot, Frame, GatekeeperStep, ClientStep

\* No server is started on a port another one listens on (orchestrator line 105), if
\* nothing fails, a server starts within a slot, the scaler waits two slots at least, and a
\* key lives two at least.
THEOREM PortsStayApart ==
  ASSUME InTime
  PROVE  Spec => []NoPortClash
<1> DEFINE IInv == Typed /\ RegisteredInv /\ FirstInv /\ PortsInv
<1>1. ByTheBook
  BY InTime DEF InTime
<1>2. Init => IInv
  BY <1>1, InTime, FleetTypedAtFirst, RegisteredAtFirst, FirstAtFirst, PortsAtFirst
<1>3. IInv /\ [Next]_vars => IInv'
  BY <1>1, InTime, FleetTypedKept, RegisteredKept, FirstKept, PortsKept
<1>4. IInv => NoPortClash
  BY DEF PortsInv
<1> HIDE DEF IInv
<1>5. QED BY <1>2, <1>3, <1>4, PTL DEF Spec
=============================================================================
