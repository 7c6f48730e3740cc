-------------------------------- MODULE Fleet --------------------------------
(***************************************************************************)
(* The fleet of dedicated servers: the orchestrator that keeps enough of   *)
(* them running (orchestrator/src/main.rs), the registry in Redis, the     *)
(* dedicated servers (dedicated_server/src/main.rs), the gatekeeper's      *)
(* login (gatekeeper/src) and the players' clients (client/src/main.rs).   *)
(*                                                                         *)
(* They share nothing but Redis, UDP ports and QUIC connections, and act   *)
(* by the clock: a heartbeat every 5 s, keys that live 15 s, a scaler that *)
(* wakes every 10 s. Time advances in slots of 5 s; within a slot all that *)
(* is due happens, in any order.                                           *)
(***************************************************************************)
EXTENDS Integers, Sequences, FiniteSets, FiniteSetsExt

CONSTANTS
  MaxServers,         \* identities of server processes; a lost one's is reused
  Players,            \* client processes
  DirectPlayers,      \* those started by hand on the default port
  Orchestrator,       \* the peer of a dedicated server's own connection
  Nobody,
  HotServersMin,      \* HOT_SERVERS_MIN
  ExpireSlots,        \* lifetime of a key, in slots (15 s)
  PeriodSlots,        \* period of the scaler, in slots (10 s)
  max_players,
  SlowBoot,           \* may a server need more than a slot to start?
  ReportsDisconnect,  \* does the transport announce lost connections?
  Budget              \* how many of each fault happen

Servers == 1 .. MaxServers
Peers == Players \cup {Orchestrator}
FirstPort == 7001
Faults == {"crash", "loss", "error", "restart"}

ASSUME PeersAssumption ==
  Orchestrator \notin Players /\ Nobody \notin Peers /\ DirectPlayers \subseteq Players
ASSUME NumbersAssumption ==
  {MaxServers, HotServersMin, ExpireSlots, PeriodSlots, max_players} \subseteq Nat \ {0}
ASSUME BudgetAssumption == Budget \in [Faults -> Nat]
ASSUME FlagsAssumption == {SlowBoot, ReportsDisconnect} \subseteq BOOLEAN

VARIABLES
  redis,    \* server:<id> -> its metadata and the slots it has left
  (* the orchestrator *)
  orchestrator,  \* is its process up?
  scaler,   \* its scaler task: where it is, the keys to read, what it found
  wait,     \* slots until the interval ticks
  flight,   \* heartbeats on their way
  (* the dedicated servers *)
  process,  \* "none", "spawned", "bound", "up", "dead" or "zombie" (no network)
  port,
  linked,   \* is its connection to the orchestrator alive?
  orch_addr,
  players,  \* PlayerRegistry
  inbox,    \* event_rx
  due,      \* its 5 s timer has fired
  (* the clients *)
  client,   \* where it is in its session
  keys,     \* the keys its login still has to read
  lasting,  \* those of the keys its login listed that are there ever since
  target,   \* the port it was told
  server,   \* the server it is connected to
  left      \* the budget of faults

fleet == <<process, port, linked, orch_addr, players, inbox, due>>
control == <<orchestrator, scaler, wait>>
sessions == <<client, keys, lasting, target, server>>
vars == <<redis, control, flight, fleet, sessions, left>>

Idle == [at |-> "idle", keys |-> {}, count |-> 0, highest |-> FirstPort - 1]

Init ==
  /\ redis = <<>>
  /\ orchestrator = TRUE /\ scaler = Idle /\ wait = 0
  /\ flight = {}
  /\ process = [s \in Servers |-> "none"]
  /\ port = [s \in Servers |-> 0]
  /\ linked = [s \in Servers |-> FALSE]
  /\ orch_addr = [s \in Servers |-> Nobody]
  /\ players = [s \in Servers |-> {}]
  /\ inbox = [s \in Servers |-> <<>>]
  /\ due = [s \in Servers |-> FALSE]
  /\ client = [p \in Players |-> "out"]
  /\ keys = [p \in Players |-> {}]
  /\ lasting = [p \in Players |-> {}]
  /\ target = [p \in Players |-> 0]
  /\ server = [p \in Players |-> 0]
  /\ left = Budget

Fault(kind) == left[kind] > 0 /\ left' = [left EXCEPT ![kind] = @ - 1]

Without(f, k) == [j \in DOMAIN f \ {k} |-> f[j]]
With(f, k, v) == [j \in DOMAIN f \cup {k} |-> IF j = k THEN v ELSE f[j]]

-----------------------------------------------------------------------------
(* The heartbeat task of the orchestrator. Its wake-up message on Connected *)
(* names a stream that does not exist: the transport refuses it.            *)

Status(player_count) == IF player_count >= max_players THEN "full" ELSE "avaible"

\* send_heartbeat counts the Player components, which no entity ever gets.
player_count(s) == 0

HandleHeartbeat(s) ==
  /\ orchestrator
  /\ s \in flight
  /\ flight' = flight \ {s}
  /\ redis' = With(redis, s,
       [port |-> port[s], status |-> Status(player_count(s)), ttl |-> ExpireSlots])
  /\ UNCHANGED <<control, fleet, sessions, left>>

\* Redis fails the pipeline: unwrap panics, try_join! returns, main ends. Its
\* connections go with it; QUIC does not tell the servers.
OrchestratorEnds ==
  /\ orchestrator
  /\ Fault("restart")
  /\ orchestrator' = FALSE /\ scaler' = Idle /\ wait' = 0
  /\ flight' = {}
  /\ linked' = [s \in Servers |-> FALSE]
  /\ inbox' = [s \in Servers |->
       IF ReportsDisconnect /\ linked[s]
       THEN Append(inbox[s], [type |-> "Disconnected", peer |-> Orchestrator])
       ELSE inbox[s]]
  /\ UNCHANGED <<redis, process, port, orch_addr, players, due, sessions>>

OrchestratorStarts ==
  /\ ~orchestrator
  /\ orchestrator' = TRUE
  /\ UNCHANGED <<redis, scaler, wait, flight, fleet, sessions, left>>

LoseHeartbeat(s) ==
  /\ s \in flight
  /\ Fault("loss")
  /\ flight' = flight \ {s}
  /\ UNCHANGED <<redis, control, fleet, sessions>>

-----------------------------------------------------------------------------
(* The scaler task: it lists the keys and counts the available servers one  *)
(* HGET at a time; short of servers, it lists the keys again for the        *)
(* highest port, and starts a process on the next one.                      *)

ScalerTick ==
  /\ orchestrator /\ wait = 0 /\ scaler.at = "idle"
  /\ wait' = PeriodSlots
  /\ scaler' = [Idle EXCEPT !.at = "count", !.keys = DOMAIN redis]
  /\ UNCHANGED <<redis, orchestrator, flight, fleet, sessions, left>>

CountServer(s) ==
  /\ scaler.at = "count" /\ s \in scaler.keys
  /\ scaler' = [scaler EXCEPT !.keys = @ \ {s},
       !.count = IF s \in DOMAIN redis /\ redis[s].status = "avaible" THEN @ + 1 ELSE @]
  /\ UNCHANGED <<redis, orchestrator, wait, flight, fleet, sessions, left>>

CountEnds(short) ==
  /\ scaler.at = "count" /\ scaler.keys = {}
  /\ scaler' = IF short THEN [Idle EXCEPT !.at = "scan", !.keys = DOMAIN redis] ELSE Idle
  /\ UNCHANGED <<redis, orchestrator, wait, flight, fleet, sessions, left>>

\* Mutant of CountDone: a server fewer is enough.
CountOneFewer == CountEnds(scaler.count + 1 < HotServersMin)

CountDone == CountEnds(scaler.count < HotServersMin)

\* An error while counting: the round is skipped.
CountFails ==
  /\ scaler.at = "count"
  /\ Fault("error")
  /\ scaler' = Idle
  /\ UNCHANGED <<redis, orchestrator, wait, flight, fleet, sessions>>

ScanPort(s) ==
  /\ scaler.at = "scan" /\ s \in scaler.keys
  /\ scaler' = [scaler EXCEPT !.keys = @ \ {s},
       !.highest = IF s \in DOMAIN redis /\ redis[s].port > @ THEN redis[s].port ELSE @]
  /\ UNCHANGED <<redis, orchestrator, wait, flight, fleet, sessions, left>>

\* An error while reading the ports: the keys it concerns do not count.
ScanFails ==
  /\ scaler.at = "scan"
  /\ Fault("error")
  /\ \E K \in SUBSET scaler.keys : K # {} /\ scaler' = [scaler EXCEPT !.keys = @ \ K]
  /\ UNCHANGED <<redis, orchestrator, wait, flight, fleet, sessions>>

\* A fresh identity: nothing refers to it any more.
Fresh(s) ==
  /\ process[s] \in {"none", "dead", "zombie"}
  /\ s \notin DOMAIN redis \cup flight \cup scaler.keys
  /\ \A p \in Players : server[p] # s /\ s \notin keys[p]

spawn_new_dedicated_server(next_free_port) ==
  LET id == Min({s \in Servers : Fresh(s)}) IN
  /\ \E s \in Servers : Fresh(s)
  /\ process' = [process EXCEPT ![id] = "spawned"]
  /\ port' = [port EXCEPT ![id] = next_free_port]
  /\ orch_addr' = [orch_addr EXCEPT ![id] = Nobody]
  /\ players' = [players EXCEPT ![id] = {}]
  /\ inbox' = [inbox EXCEPT ![id] = <<>>]
  /\ due' = [due EXCEPT ![id] = FALSE]

SpawnOn(next_free_port) ==
  /\ scaler.at = "scan" /\ scaler.keys = {}
  /\ spawn_new_dedicated_server(next_free_port)
  /\ scaler' = Idle
  /\ UNCHANGED <<orchestrator, wait, flight, linked, sessions, left>>

\* Mutants of SpawnServer: on the highest port itself; with the registration at
\* once that the code has commented out.
SpawnOnHighest == SpawnOn(scaler.highest) /\ UNCHANGED redis

SpawnAndRegister ==
  /\ SpawnOn(scaler.highest + 1)
  /\ redis' = With(redis, Min({s \in Servers : Fresh(s)}),
       [port |-> scaler.highest + 1, status |-> "avaible", ttl |-> ExpireSlots])

SpawnServer == SpawnOn(scaler.highest + 1) /\ UNCHANGED redis

\* The system starts no process: the thread prints the error and the round is over.
SpawnFails ==
  /\ scaler.at = "scan" /\ scaler.keys = {}
  /\ Fault("error")
  /\ scaler' = Idle
  /\ UNCHANGED <<redis, orchestrator, wait, flight, fleet, sessions>>

-----------------------------------------------------------------------------
(* A dedicated server.                                                      *)

\* The server's connections are gone: the clients on it have lost theirs.
Disconnects(s) ==
  /\ client' = [p \in Players |-> IF server[p] = s THEN "gone" ELSE client[p]]
  /\ server' = [p \in Players |-> IF server[p] = s THEN 0 ELSE server[p]]
  /\ linked' = [linked EXCEPT ![s] = FALSE]

Listening(s) == process[s] \in {"bound", "up"}

Taken(n) == \E s \in Servers : Listening(s) /\ port[s] = n

\* Bind unwraps: on a port in use the network thread panics, the process stays.
BindSocket(s) ==
  /\ process[s] = "spawned"
  /\ process' = [process EXCEPT ![s] = IF Taken(port[s]) THEN "zombie" ELSE "bound"]
  /\ UNCHANGED <<redis, control, flight, port, linked, orch_addr, players, inbox, due, sessions,
                 left>>

ConnectOrchestrator(s) ==
  /\ process[s] = "bound"
  /\ orchestrator
  /\ process' = [process EXCEPT ![s] = "up"]
  /\ linked' = [linked EXCEPT ![s] = TRUE]
  /\ inbox' = [inbox EXCEPT ![s] = Append(@, [type |-> "Connected", peer |-> Orchestrator])]
  /\ UNCHANGED <<redis, control, flight, port, orch_addr, players, due, sessions, left>>

\* Connect unwraps too.
ConnectFails(s) ==
  /\ process[s] = "bound"
  /\ ~orchestrator
  /\ process' = [process EXCEPT ![s] = "zombie"]
  /\ Disconnects(s)
  /\ UNCHANGED <<redis, control, flight, port, orch_addr, players, inbox, due, keys, lasting,
                 target, left>>

Crash(s) ==
  /\ process[s] \in {"bound", "up"}
  /\ Fault("crash")
  /\ process' = [process EXCEPT ![s] = "dead"]
  /\ Disconnects(s)
  /\ UNCHANGED <<redis, control, flight, port, orch_addr, players, inbox, due, keys, lasting,
                 target>>

(* receive_packets, one event at a time. *)

Receives(s, type) ==
  /\ Listening(s)
  /\ inbox[s] # <<>>
  /\ Head(inbox[s]).type = type
  /\ inbox' = [inbox EXCEPT ![s] = Tail(@)]

Sender(s) == Head(inbox[s]).peer

Takes(s, peer) ==
  /\ orch_addr' = [orch_addr EXCEPT ![s] = peer]
  /\ UNCHANGED <<redis, control, flight, process, port, linked, due, sessions, left>>

\* Mutant of HandleConnected: the last connection takes the slot.
LastConnectedWins(s) ==
  Receives(s, "Connected") /\ Takes(s, Sender(s)) /\ UNCHANGED players

\* Only the first connection takes it.
HandleConnected(s) ==
  /\ Receives(s, "Connected")
  /\ Takes(s, IF orch_addr[s] = Nobody THEN Sender(s) ELSE orch_addr[s])
  /\ UNCHANGED players

spawn_player(s, p) == players' = [players EXCEPT ![s] = @ \cup {p}]

despawn_player(s, p) == players' = [players EXCEPT ![s] = @ \ {p}]

\* A player that is known already is not spawned again; the Welcome may be lost on its way
\* to the client (see QuicBackend).
HandleJoin(s) ==
  /\ Receives(s, "Join")
  /\ spawn_player(s, Sender(s))
  /\ \/ /\ server[Sender(s)] = s
        /\ client' = [client EXCEPT ![Sender(s)] = "welcomed"]
     \/ UNCHANGED client
  /\ UNCHANGED <<redis, control, flight, process, port, linked, orch_addr, due, keys, lasting,
                 target, server, left>>

Disconnected(s) ==
  /\ Receives(s, "Disconnected")
  /\ Takes(s, IF orch_addr[s] = Sender(s) THEN Nobody ELSE orch_addr[s])

\* Mutant of HandleDisconnected: the player is not despawned.
KeepPlayer(s) == Disconnected(s) /\ UNCHANGED players

HandleDisconnected(s) ==
  Disconnected(s) /\ despawn_player(s, Sender(s))

\* Without an orchestrator there is nothing to send to; a player in its slot
\* ignores what it gets; a dead connection swallows it.
SendHeartbeat(s) ==
  /\ Listening(s) /\ due[s]
  /\ due' = [due EXCEPT ![s] = FALSE]
  /\ flight' = IF orch_addr[s] = Orchestrator /\ linked[s] THEN flight \cup {s} ELSE flight
  /\ UNCHANGED <<redis, control, process, port, linked, orch_addr, players, inbox, sessions, left>>

-----------------------------------------------------------------------------
(* The gatekeeper: KEYS, then one HGET at a time until a server is found.   *)

LoginRejected(p) ==
  /\ client[p] = "out"
  /\ client' = [client EXCEPT ![p] = "unauthorized"]
  /\ UNCHANGED <<redis, control, flight, fleet, keys, lasting, target, server, left>>

Login(p) ==
  /\ client[p] \in {"out", "unauthorized", "unavailable"}
  /\ client' = [client EXCEPT ![p] = "login"]
  /\ keys' = [keys EXCEPT ![p] = DOMAIN redis]
  /\ lasting' = [lasting EXCEPT ![p] = DOMAIN redis]
  /\ UNCHANGED <<redis, control, flight, fleet, target, server, left>>

Admits(s) == s \in DOMAIN redis /\ redis[s].status = "avaible"

Routed(p, s) ==
  /\ Admits(s)
  /\ client' = [client EXCEPT ![p] = "routed"]
  /\ target' = [target EXCEPT ![p] = redis[s].port]
  /\ keys' = [keys EXCEPT ![p] = {}]
  /\ lasting' = [lasting EXCEPT ![p] = {}]

\* Mutant of ProbeServer: a key without metadata ends the search.
ProbeGivesUp(p, s) ==
  /\ client[p] = "login" /\ s \in keys[p]
  /\ \/ Routed(p, s)
     \/ /\ ~Admits(s)
        /\ client' = [client EXCEPT ![p] = "unavailable"]
        /\ keys' = [keys EXCEPT ![p] = {}]
        /\ UNCHANGED <<target, lasting>>
  /\ UNCHANGED <<redis, control, flight, fleet, server, left>>

ProbeServer(p, s) ==
  /\ client[p] = "login" /\ s \in keys[p]
  /\ \/ Routed(p, s)
     \/ /\ ~Admits(s)
        /\ keys' = [keys EXCEPT ![p] = @ \ {s}]
        /\ UNCHANGED <<client, target, lasting>>
  /\ UNCHANGED <<redis, control, flight, fleet, server, left>>

NoServerAvailable(p) ==
  /\ client[p] = "login" /\ keys[p] = {}
  /\ client' = [client EXCEPT ![p] = "unavailable"]
  /\ UNCHANGED <<redis, control, flight, fleet, keys, lasting, target, server, left>>

LoginFails(p) ==
  /\ client[p] = "login"
  /\ Fault("error")
  /\ client' = [client EXCEPT ![p] = "out"]
  /\ keys' = [keys EXCEPT ![p] = {}]
  /\ lasting' = [lasting EXCEPT ![p] = {}]
  /\ UNCHANGED <<redis, control, flight, fleet, target, server>>

-----------------------------------------------------------------------------
(* A client: it connects to the port it was given, or to the default one,   *)
(* creates a stream and joins.                                              *)

Start(p) ==
  /\ client[p] = "out" /\ p \in DirectPlayers
  /\ client' = [client EXCEPT ![p] = "routed"]
  /\ target' = [target EXCEPT ![p] = FirstPort]
  /\ UNCHANGED <<redis, control, flight, fleet, keys, lasting, server, left>>

ConnectPlayer(p) ==
  /\ client[p] = "routed"
  /\ \E s \in Servers :
       /\ Listening(s) /\ port[s] = target[p]
       /\ client' = [client EXCEPT ![p] = "connected"]
       /\ server' = [server EXCEPT ![p] = s]
       /\ inbox' = [inbox EXCEPT ![s] = Append(@, [type |-> "Connected", peer |-> p])]
  /\ UNCHANGED <<redis, control, flight, process, port, linked, orch_addr, players, due, keys,
                 lasting, target, left>>

\* Nobody listens there: the client's network thread panics.
ConnectRefused(p) ==
  /\ client[p] = "routed"
  /\ ~Taken(target[p])
  /\ client' = [client EXCEPT ![p] = "gone"]
  /\ UNCHANGED <<redis, control, flight, fleet, keys, lasting, target, server, left>>

Join(p) ==
  /\ client[p] = "connected"
  /\ client' = [client EXCEPT ![p] = "joining"]
  /\ inbox' = [inbox EXCEPT ![server[p]] = Append(@, [type |-> "Join", peer |-> p])]
  /\ UNCHANGED <<redis, control, flight, process, port, linked, orch_addr, players, due, keys,
                 lasting, target, server, left>>

Leave(p) ==
  /\ client[p] \in {"connected", "joining", "welcomed"}
  /\ client' = [client EXCEPT ![p] = "gone"]
  /\ server' = [server EXCEPT ![p] = 0]
  /\ inbox' = IF ReportsDisconnect
              THEN [inbox EXCEPT ![server[p]] =
                      Append(@, [type |-> "Disconnected", peer |-> p])]
              ELSE inbox
  /\ UNCHANGED <<redis, control, flight, process, port, linked, orch_addr, players, due, keys,
                 lasting, target, left>>

-----------------------------------------------------------------------------
(* The clock. A key whose time is up may still be read until it expires.    *)

Expire(s) ==
  /\ s \in DOMAIN redis /\ redis[s].ttl = 0
  /\ redis' = Without(redis, s)
  /\ lasting' = [p \in Players |-> lasting[p] \ {s}]
  /\ UNCHANGED <<control, flight, fleet, client, keys, target, server, left>>

Settled ==
  /\ scaler.at = "idle" /\ (orchestrator => wait > 0)
  /\ flight = {}
  /\ \A s \in DOMAIN redis : redis[s].ttl > 0
  /\ \A s \in Servers :
       /\ Listening(s) => inbox[s] = <<>> /\ ~due[s]
       /\ SlowBoot \/ process[s] \notin {"spawned", "bound"}

Tick ==
  /\ Settled
  /\ wait' = IF orchestrator THEN wait - 1 ELSE wait
  /\ redis' = [s \in DOMAIN redis |-> [redis[s] EXCEPT !.ttl = @ - 1]]
  /\ due' = [s \in Servers |-> Listening(s)]
  /\ UNCHANGED <<orchestrator, scaler, flight, process, port, linked, orch_addr, players, inbox,
                 sessions, left>>

-----------------------------------------------------------------------------
ScalerStep ==
  \/ ScalerTick \/ CountDone \/ SpawnServer
  \/ \E s \in Servers : CountServer(s) \/ ScanPort(s)

Boot(s) == BindSocket(s) \/ ConnectOrchestrator(s) \/ ConnectFails(s)

Frame(s) == HandleConnected(s) \/ HandleJoin(s) \/ HandleDisconnected(s) \/ SendHeartbeat(s)

GatekeeperStep(p) == NoServerAvailable(p) \/ \E s \in Servers : ProbeServer(p, s)

ClientStep(p) ==
  \/ LoginRejected(p) \/ Login(p) \/ Start(p)
  \/ ConnectPlayer(p) \/ ConnectRefused(p) \/ Join(p) \/ Leave(p)

FaultStep ==
  \/ OrchestratorEnds \/ CountFails \/ ScanFails \/ SpawnFails
  \/ \E s \in Servers : LoseHeartbeat(s) \/ Crash(s)
  \/ \E p \in Players : LoginFails(p)

Next ==
  \/ Tick \/ ScalerStep \/ OrchestratorStarts \/ FaultStep
  \/ \E s \in Servers : Expire(s) \/ HandleHeartbeat(s) \/ Boot(s) \/ Frame(s)
  \/ \E p \in Players : GatekeeperStep(p) \/ ClientStep(p)

Spec == Init /\ [][Next]_vars

\* Time passes, and every task and process that can run does. Players do as
\* they please; faults need not happen.
Fairness ==
  /\ WF_vars(Tick) /\ WF_vars(ScalerStep) /\ WF_vars(OrchestratorStarts)
  /\ \A s \in Servers :
       WF_vars(Expire(s)) /\ WF_vars(HandleHeartbeat(s)) /\ WF_vars(Boot(s)) /\ WF_vars(Frame(s))
  /\ \A p \in Players : WF_vars(GatekeeperStep(p))

FairSpec == Spec /\ Fairness

-----------------------------------------------------------------------------
(* Properties.                                                             *)

Running == {s \in Servers : process[s] \in {"spawned", "bound", "up"}}

Available == {s \in DOMAIN redis : redis[s].status = "avaible"}

\* No server is started on a port another one listens on: the scaler computes
\* "le prochain port dispo" (orchestrator line 105) from the registry alone.
NoPortClash ==
  \A s, t \in Running : s # t => port[s] # port[t]

\* From some point on there are HOT_SERVERS_MIN servers in the registry, all of
\* them running (orchestrator lines 97-100).
EnoughServers ==
  <>[](Cardinality({s \in Available : process[s] = "up"}) >= HotServersMin)

\* A server in the registry whose orchestrator is alive took it, and nobody else,
\* for its orchestrator: only then do its heartbeats arrive (dedicated server
\* 122-124, 199).
RegisteredKnowsOrchestrator ==
  \A s \in Servers :
    s \in DOMAIN redis /\ process[s] \in {"bound", "up"} /\ linked[s] =>
      orch_addr[s] = Orchestrator

\* The first connection is the orchestrator's: "les joueur ne peuvent pas le
\* connaire" before its first heartbeat (dedicated server line 121).
FirstIsOrchestrator == \A s \in Servers : orch_addr[s] \notin Players

\* A login is refused only when none of the available servers it listed has
\* stayed in the registry throughout (redis_pool lines 18-73).
RefusedForGoodReason ==
  \A p \in Players : client[p] = "unavailable" => lasting[p] = {}

\* A player that has left is in its server's registry no longer than it takes to
\* handle its Disconnected, even if its Join was still to be handled when it left
\* (dedicated server lines 139-148, 182-183).
LeaversRemoved ==
  \A s \in Servers : \A p \in players[s] :
    Listening(s) /\ server[p] # s =>
      [type |-> "Disconnected", peer |-> p] \in {inbox[s][i] : i \in DOMAIN inbox[s]}
=============================================================================
