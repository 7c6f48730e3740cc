# Verification of the MMORPG lab

TLA+ models, TLC runs and TLAPS proofs for the services under
`src/mmorpg-lab`: the publish/subscribe broker, the transports of `game_sockets`
(QUIC, through which all services talk, TCP and UDP), the benchmark that compares
them, the fleet of dedicated servers with its orchestrator and gatekeeper, and
the spatial service.

## The system

| Component | State it keeps | Operations | Talks to |
|---|---|---|---|
| Broker (`brocker`) | topic → connections, client ↔ connection maps, shard list, spatial connection | one system that routes the transport's events | players, shards, spatial service |
| QUIC transport (`game_sockets/.../quic_protocol.rs`, `lib.rs`) | connections, send streams, registration queues, tasks | Bind, Connect, Send, CreateStream, CloseStream, Shutdown; accept task; readers | a peer transport; the game above |
| Orchestrator | none of its own: Redis keys; a 10 s scaler, a heartbeat task | register heartbeats, count servers, choose a port, start a process | Redis, dedicated servers |
| Dedicated server | orchestrator slot, player registry | bind, connect, receive events, heartbeat every 5 s | orchestrator, players |
| Gatekeeper | none | login: read the registry, route to a server | Redis, players |
| Client | connection, stream | connect to a port, create a stream, join | gatekeeper (by hand), server |
| Spatial service | quadtree, last shard of each player, broker connection | position → subscription changes and crossing alerts | broker |
| TCP transport (`tcp_protocol.rs`) | channel of each peer; per connection a handler with its known streams | the same commands; a listener task; handlers that read and write | a peer transport; the game above |
| UDP transport (`udp_protocol.rs`) | one socket, address and known streams of each id | the same commands; one packet handler | any node that has the address |
| Benchmark (`bin/client.rs`, `bin/server.rs`, `utils/`) | two timers, two streams, packet numbers; the recorder's channel and thread | poll, send, stop; echo; record | each other, through a transport |
| Statistics (`bin/stats.rs`) | none | loss and percentiles of a file, means over files | the recorder's files |
| Plots (`bin/plot.rs`) | none | draw charts | |
| GNS transport, Authority | – | not compiled; empty file | |

What is hard in it: the transport's tasks run in parallel and speak to the game
through several queues; every await is a place where something else happens;
the services find each other by timing (heartbeats, keys that expire, ports
computed from a registry that lags behind); messages may be lost; a service may
end and come back; none of the services hears of a lost connection when it runs
on QUIC, although all of them are written for that event.

What makes each part correct:

* Broker: its two client maps agree; nothing of a connection outlives it;
  publications, alerts and inputs reach exactly their addressees, once; a player
  is reachable on its current connection.
* Transport: `Connected` first; a stream announced is usable, and announced
  once; reliable streams deliver a prefix of what was written; written frames
  arrive; shutdown ends.
* TCP: nothing lost or overtaken between the channel of a peer and the other
  game while the connection lives; losses reported, once and last; the loop gets to
  its Shutdown although it waits for its peers.
* UDP: a connection stays between its two ends, is announced once, and follows
  its dialer to a new address and its listener through a restart.
* Benchmark: the file holds every answer that counts, whatever ends the run; the
  loss reported is never more than what is missing from the file (which is not all
  lost: the warm-up is missing too), and in order exactly that; the run ends.
* Fleet: enough servers in the end; no port given out twice; the orchestrator,
  and no player, in the orchestrator's slot; logins refused only for a reason;
  players gone are removed.
* Spatial service: the shard on record is that of the position; alerts at
  borders and only there; a player under the topic of exactly its shard.

## Modules

| Module | Models |
|---|---|
| `PubSub` | what the broker promises, without connections' bookkeeping |
| `Broker` | `route_pubsub_traffic` and `PubSubManager`, with the peers and the event queue around them; implements `PubSub` |
| `BrokerProofs` | theorems about `Broker` |
| `QuicBackend` | `QuicBackend::run`, its tasks, `GamePeer`, and QUIC itself, at both ends of a connection; implements `Pipe` |
| `GameSocket` | the events of `lib.rs` and the order in which a game may expect them |
| `Pipe` | what one way of a TCP connection, or of a reliable QUIC stream, promises: a queue that is cut at its end, if ever |
| `TcpBackend` | `TcpBackend::run`, its listener and handlers, and TCP's buffers; extends `GameSocket`, implements `Pipe` |
| `UdpBackend` | `UdpBackend::run` at several nodes, and a datagram network; extends `GameSocket` |
| `GameSocketProofs` | lemmas about `told` and `Emit`, for the proofs about TCP and UDP |
| `TcpProofs`, `UdpProofs`, `QuicProofs` | theorems about the three transports |
| `Benchmark` | client, echo, recorder and the report of one file |
| `BenchmarkProofs`, `FleetProofs`, `SpatialProofs` | theorems about the three modules of these names |
| `Fleet` | orchestrator, Redis, dedicated servers, gatekeeper, clients, and the clock |
| `Spatial` | the quadtree and `listen_position_updates`, composed with `PubSub` for the broker |
| `MCBroker`, `MCQuicBackend`, `MCTcpBackend`, `MCUdpBackend`, `MCBenchmark`, `MCFleet`, `MCSpatial` | instances for TLC |

### Broker

Variables have the names of the fields of `PubSubManager`. `event_rx` is the
queue of the transport's events; one action `Route...` per arm of the match
takes its head, changes the maps and leaves the Sends it issues in `command_tx`.
A `Vec<Uuid>` is a multiplicity per connection, so that a doubled entry would
show. Peers open, speak (one message under way each; events of different
connections interleave freely) and close. Messages too short for their tag, and
unknown ones, are the message "ignored". `ReportsDisconnect` says whether the
transport emits `Disconnected`; only TCP's does. The binary decides nothing more
of the layout of messages than whether a publication's payload is whole.

`PubSub` speaks of players only. The refinement maps a player's session to its
registered connection, its subscriptions to those of that connection, and the
Sends to deliveries that must reach each addressee exactly once. `Speaks` gives
each connection one role (`OneRolePerConnection`), as the message tags intend:
without it, an input and a publication on one connection make it a player and a
shard at once, and `RouteDisconnected` cleans up only the first.

`brocker/src/main.rs` calls `tokio::spawn` outside of any runtime, so as
written it would panic in its startup system; the model is of the broker once started.

### QuicBackend

A node is a loop and its tasks. The loop takes from three queues in any order
(`select!`); while it waits for a handshake (`Connect`) or for the permission to
open a stream (`CreateReliable`) it does nothing else. `AcceptConnected` and
`AcceptRegister` are the two halves of an accept, `ReadDatagram` and
`AnnounceDatagram` those of a datagram. `unwrap` on a failed handshake or
stream ends the backend (`RunEnds`) or the accept task (`AcceptFails`, whether the
connection is lost or its handshake fails); so does a `Bind` on a port in use
(`BindFails`). The game
creates the streams of `Creates`, sends on streams it was told of, may reply on
streams of its peer, closes and shuts down; it sends a stream's first message
once `StreamCreated` has come. Streams are numbered per QUIC: bidirectional
stream `i` of a link has an opener, and per direction the frames in flight.
QUIC is external: streams deliver in order, datagrams may be lost or reordered,
a connection may be lost at any time, both ends then find it down.

`history` variables (`written`, `dropped`) only serve the properties.

Each way of each reliable stream implements a `Pipe` (`ImplementsPipe`): in transit are
the frames on that way of the stream, got is the last one the other game was told
of, and the way is cut once the connection is down.

### GameSocket

TCP and UDP do not keep the channel of events: a game may act on an event as
soon as it is emitted. `told` is what matters of those emitted (connections and
the peer's streams), and `Emit` notes in `surprised` a game that was told
something out of order: a connection or a stream twice, anything before its
`Connected`, a message before its stream or after a `Disconnected`. The two
backends differ in when they emit what, so `OrderlyEvents` asks a different
question of each.

### TcpBackend

Every await at which a task may stay is a step: the handshake of `Connect`
(`ConnectCompletes`, `ConnectFails`) and the wait for room in the channel of a
peer (`SendResumes`), in both of which the loop does nothing else; the wait of the
listener for room among the registrations (`AcceptRegister`); and the write of a
handler (`TakePacket`, `Write`), during which it does not read. `BindFails`
(`expect`) ends the backend, `AcceptFails` (`while let Ok`) only the listener. A
connection that is reset while it waits for the listener is accepted and announced
all the same (`Backlog`); its handler finds out at once. The
game commands what it likes on a connection until it is told that it is lost, and may
shut down at any time; it is not told apart from its queue of commands.

TCP is external: frames in order, in buffers of bounded size; once a connection is
reset (`ResetLink`, or the end of a backend) any part of what is in the buffers may
be lost, from the end, and both handlers find out when they read or write.

`Pipe` has no channels, handlers or buffers: packets in transit, the last one
got, and whether the way is cut. The refinement takes for the packets in transit
the buffers, then the packet a handler is writing, then its channel.

### UdpBackend

A connection is an id that the dialer draws; `connections[x][c]` is the address to
which `x` sends packets of `c`. A node's socket is its address as the others see
it; `Move` changes it under the program, as a NAT or a mobile network does.
`Restart` ends a program and starts it again with empty tables, on the same port
if it has one. Packets on the `wire` can be received in any order, lost, or
received again (`duplicates`). Addresses are not given out again (`AddressesApart`,
which the instance assumes): see Findings.
Payloads are left out, as no decision depends on them.

### Benchmark

A `Round` is what the client does between two rounds of polling: look at the
duration, serve the timers, decide to stop; a stream that is missing cuts it short
(`continues`). Time passes in units; with `Second` the warm-up is counted in whole
ones, as the code does. A packet is under way from its sending until the client
polls its answer: the echo changes nothing, so neither end can tell how far it
has come. `Lose` is a packet the network loses or damages and, on a stream that loses
nothing, a reply that the server's backend drops because it takes it before the stream or
the peer is registered (`quic_protocol.rs` 175, `tcp_protocol.rs` 76): such a reply comes
before the first that gets through (`Unregistered`). `early` keeps the packets answered in
the first Warmup + 1 seconds, told by the clock and not by the code's own check (`Warm`).
The recorder's thread is seen to write only once the client stops
(`WriteRecord`), since nobody reads the file before; it may panic (`RecorderFails`), of
which the client hears nothing; `Drop` joins it. What `stats`
reports is a set of operators on the file, a bag of records of which `lines` are the
lines of a stream: `sent`, `received`, `lost` and `percentile`. The percentages are whole numbers over 100, where the code has
floating-point ones: where their product is not exact, the code's index may be
one lower.

### Fleet

Time advances in slots of 5 s. Keys live three slots, the scaler wakes every
second one, each server beats once per slot. `Tick` waits for all that is due
in a slot (`Settled`), in any order: heartbeats may come before or after the
scaler's reading, and a key at the end of its life may be read or be gone. The
scaler and the gatekeeper list the keys in one step and read them one by one.
A server is `spawned` (process started), `bound`, `up` (connected to the
orchestrator), `dead`, or a `zombie` (its network thread has panicked, the
process stays). Players are clients routed by the gatekeeper or started on the
default port (those in `DirectPlayers`). `Budget` bounds the faults of each kind: a
server killed (`crash`), a heartbeat lost (`loss`), an error of Redis seen by
the scaler or the gatekeeper, or a process that the system does not start (`error`),
and an error of Redis seen by the heartbeat task, which ends the
orchestrator (`restart`). With `SlowBoot` a start may take any number of slots.
Process identities are reused once nothing refers to them.

### Spatial

Coordinates are integers. `HandlePosition` is the whole body of the handler:
migration, record, alert. Its commands travel to the broker, which behaves as
`PubSub`. `StreamExists` is whether the stream the service sends on exists. In the code
it is never created: the backend drops every command (`Refuse`), as `spatial_stream`
has it; `spatial_follow` is about the service with the stream its comments speak of. What is
on record and the alerts asked for do not depend on it, as the proofs show.
Positions come straight from the environment, since the broker never relays them;
they may be handled before the player's first input and after it has left. `missed`
notes the players that have left, or had a Subscribe dropped for want of a session.

## Runs

| Run | Bounds | Result |
|---|---|---|
| `broker_safety` | 2 players, 5 connections (one player with two), one topic, queue 2, fairness | types, maps, cleanup, refinement hold; the session follows the player |
| `broker_quic` | 2 connections, no `Disconnected` | violated: a reconnected player is never registered |
| `quic_datagrams` | an unreliable and an ordered stream, one message from each side, losses, breaks | each stream is announced once |
| `quic_live` | one stream, two messages each way, breaks, shutdown | `Connected` first, streams usable once announced, Sends refused only early, order, `Pipe` implemented, arrival, shutdown |
| `tcp` | one connection, all capacities 1, 4 Sends one way and 2 the other, resets and failures, shutdown, fairness | types, order of events, dialer never ignored, `Pipe` implemented, arrival and shutdown unless jammed, losses reported |
| `udp` | 3 nodes, 2 connections, a move, a restart, a duplicate, fairness | order of events, connections stay between their ends, addresses settle |
| `bench` | 2 units of duration, a packet of each stream per unit, a doubled packet, dropped first replies, faults, fairness | every packet accounted for, losses bounded by what is missing, in order exactly the dropped replies and the first Warmup + 1 seconds, percentiles have their rank, the run ends |
| `fleet_timely` | 4 identities, 2 players, no fault | no clash of ports, the orchestrator first |
| `fleet_faults` | a crash, two losses, an error, fairness | the fleet complete in the end, of servers that run |
| `fleet_sessions` | a player; an error, a restart; `Disconnected` reported | orchestrator's slot, reasons of refusals, leavers removed |
| `spatial_follow` | 2 players coming and going, 8 places around the borders, with the stream | records and the alerts asked for follow the positions; never in two shards; subscribed where on record, unless something was missed |
| `spatial_stream` | the same, without the stream | violated: nobody is ever subscribed |

Why the bounds suffice: the hazards need two connections of one player and one
of another (broker), one message overtaking another (two frames on a stream),
two streams competing for one place, a lost server and its successor while two
others are wanted (three or four identities; deadlock is checked, so running
out of them would show), and positions on and around the borders. Queues
longer than two add no pair of events that cannot already be swapped. TCP's
capacities are 1 so that every channel and buffer fills, which takes one packet
more in each direction than the three places between a game and the other
handler; a packet more than that blocks the loop itself. UDP needs a third
node, since a connection of two cannot go astray, and one late packet for each
move. The benchmark needs two answers of a stream to be overtaken, and a time
beyond the duration for a late round.
`broker_safety` has one topic: the broker treats each topic by itself, and the
proofs are for any number.
`CHECK_DEADLOCK FALSE` stands where the system may stop: all connections closed
(broker), all commands issued or the backends ended (QUIC, TCP), the benchmark over.

### Fairness

* Broker: Bevy runs the routing system in every frame and it drains the queue;
  a player that is in the game keeps sending inputs.
* QUIC: `select!` polls its branches in random order and the runtime runs every
  ready task; the game polls. Nothing is assumed of the game's commands, and a
  lost connection excuses delivery.
* TCP: each task goes on when it can (weak fairness per task). Sends are finite in
  number, so a handler that always finds the other branch of its `select!` ready
  runs out of it in the end. Nothing is assumed of the games, of errors, or of
  which ready branch is taken.
* UDP: the loop takes commands; a packet from where the dialer now is, when such
  packets are under way again and again, is received in the end (strong fairness:
  the network does not lose every one). Old packets may stay under way.
* Benchmark: the client spins, its thread writes, time passes. The network, the
  server and the backend need not do anything.
* Fleet: time passes, processes start, tasks run, a heartbeat that is not lost
  arrives, and the orchestrator is started again. No fault and no player has to act.

### Findings

Each run expected to be violated contradicts a comment of the code, quoted
in `PROJECT.json`: lost connections are never reported on QUIC, so a player that
reconnects stays registered with the broker on its old connection
(`broker_quic`); the spatial service sends on a stream nobody creates (`spatial_stream`).

The models show more, for which no run is kept; each follows from the parameters
named:

* On QUIC a game may be quicker than its own transport: a reply on the stream a
  message came by may be taken before that stream is registered, and is dropped
  (`quic_protocol.rs` 175), although `dedicated_server/src/main.rs:150` answers
  that way. `RefusedOnlyEarly` bounds the damage: only then is a Send refused.
* `EnoughServers` fails with a restart: an error of Redis ends the
  orchestrator (line 79), its servers never report to the next one, their keys
  expire, and each server started afterwards gets port 7001, which is in use.
* On TCP two games that both send more than the buffers hold jam their handlers,
  which write and do not read (`Jammed`): nothing arrives any more, and the loops,
  waiting for room in a channel of 100 packets, do not even get to a Shutdown. And the game that
  accepts may be told of a connection before its loop is: Sends in between are
  dropped without a word (`DialerNeverIgnored` says that it is the only case).
* On UDP whoever has an id is its peer. If an address is given out again,
  packets to the old node turn up at the new one, which announces a connection it never had:
  `BetweenItsEnds` fails. `Disconnected` is never emitted.
* The benchmark reports its warm-up as lost, and a second more. The code discards an
  answer unless `as_secs()`, in whole seconds, is `>` the warm-up (`client.rs` 122): with
  `--warmup 0` ("default: 0", line 26) the first second goes. `stats` takes every number it
  does not find, up to the last it finds, for a loss (line 615): that much of the loss on a
  stream that loses nothing is what `InOrderLossExact` says. The README of `game_sockets`
  calls the warm-up "discarded" (line 155) and shows "Packet Loss: 0 pkts (0.00%)" (line
  230), yet the results kept in
  `benchmark_results/20260315_174603/aggregated/01_baseline_tcp.json` have 5600
  sent, 4720 received and 880 lost on TCP: eleven seconds of 80 packets.
* A benchmark whose recorder fails ends as any other, with a file that is short.
* A benchmark whose connection fails, or one of whose streams is never created,
  does not end: `StopsWithItsStreams` needs both streams.
* `NoPortClash` fails with `SlowBoot`: a port is computed from
  a registry that a server enters with its first heartbeat, so a server
  that takes more than a scaler period has its port given to the next one. It is not
  "le prochain port dispo" of line 105.
* `LeaversRemoved` fails without `ReportsDisconnect`, which is how QUIC behaves, and the
  dedicated server runs on QUIC: there every player that leaves stays in the
  registry, against "Suppression du player quand il se déconnecte" (line 182).
* `FirstIsOrchestrator` fails with a crash and one player, who holds the port of
  the lost server while its successor starts; or with a player in
  `DirectPlayers`, who then gets the heartbeats for good, so that `EnoughServers`
  fails too.
* `ReliableInOrder` fails when both games create a stream: each `GamePeer`
  counts its streams from 1, and the table of send streams is keyed by that number.
* A server is never full, as its heartbeats always count zero players
  (`player_count`), and a `PositionUpdate` is never relayed, as
  `spatial_server_connection` is never set.
* With a stream, a Subscribe handled before the player's first input, or voided because
  its session was lost, is not sent again while the player stays in its shard: this
  is why `SubscribedWhereOnRecord` leaves out the players in `missed`.

## Proofs

Every theorem holds for all values of the constants that satisfy the named
assumptions of the module it is about, plus those its statement adds. Each proof
has the same parts: a lemma that the invariant holds at first, one for each action
or group of actions that disturbs a part of it, and the temporal step. `Typed`
is a type invariant without the bounds, where those need an argument of their own.

### Broker (`BrokerProofs`)

* `TypeCorrect`: `TypeOK`.
* `MapsStayInverse`: `MapsInverse`, for `OneRolePerConnection`. Inverse maps
  are not inductive alone: a connection must not register a second client, which
  needs that what is queued was said by a peer allowed to (`Spoken`), and the
  subscribers must be registered connections (`ListsSound`). `SessionInv` is
  their conjunction.
* `NothingStaysBehind`: `NothingLeftBehind`, when disconnections are reported.
  Its invariant `CleanupInv` adds the order of the queue: the `Disconnected` of
  a connection is queued when it closes and is its last event (`QueueOrder`).
* `BrokerImplementsPubSub`: every initial state maps to an initial state of
  `PubSub` and every step to one of its steps or a stutter, using `SessionInv`:
  with inverse maps, the connections under a topic are exactly those of its
  subscribed players.

### UDP (`UdpProofs`)

* `ConnectionsStayBetween`: `BetweenItsEnds`, when `AddressesApart`. What a node
  believes comes from packets, so `AddressInv` says of every packet on its way
  that it goes from one end to the other, be it from or to a former address of the
  dialer (`Between`), and that a node's address is its own (`OwnSocket`). With
  `OneOwner`, whoever can receive a packet is then the end it is for.
* `UdpEventsOrderly`: `OrderlyEvents`. `EventsInv` says that the game has been told
  of exactly what is in the tables of its backend (`TablesTold`), and that the
  answers to queued commands name only connections it knows (`CommandsJustified`).
  No assumption on addresses is needed: a wrong peer is still announced properly.

### TCP (`TcpProofs`)

* `TcpTypeCorrect`: `TypeOK`, with the bounds of all channels and buffers.
* `TcpEventsOrderly`, `DialersNeverIgnored`: `OrderlyEvents` and
  `DialerNeverIgnored`, both from `OrderInv`. The game was told of exactly the
  connections that have had a handler and of the streams the handlers know
  (`HandlersTold`); a handler belongs to an end of a connection that was made, the
  dialer's loop then has its handle, and one that has ended has nothing left to write
  (`HandlersLinked`); what the loop still has to do was asked for by a game that knew
  the connection, and each Connect is asked for once (`CommandsAllowed`).
* `TcpImplementsPipe`: `ImplementsPipe`, under `OrderInv`. Each step is a step of
  `Pipe` or a stutter: a Send that finds room puts its packet at the end of the way
  (`PipeTakes`), a handler that reads takes the first one off the other way
  (`PipeGives`), the steps that move a packet from the channel to the writer and on to the
  buffer leave the whole as it is (`PipeCarries`), as does a handler that ends once it has
  read all there is; a reset, a listener that ends, and the end of a backend cut ways at their ends.

### QUIC (`QuicProofs`)

`BaseInv` is the types, `HeardInv` (each thing a node has in hand, from its
commands to its registrations, is of a connection that its game was told of, except for the
handshake itself), and `StreamInv` (each `SendStream`, in the table or on its way
there, is that of an open Reliable stream of that connection).

* `QuicTypeCorrect`: `TypeOK`, which no run checks. `QuicConnectedFirst`: `ConnectedFirst`.
* `QuicUsableOnceCreated`: `UsableOnceCreated`. Only the loop announces streams, when
  it takes their registrations and fills its tables, and only `CloseStream` takes one out
  of the table again, with the announcement (`Announcers`).
* `QuicRefusedOnlyEarly`: `RefusedOnlyEarly`, if no game creates an Ordered
  stream (the backend announces one and never makes a `SendStream` for it, so that each Send
  on it is refused). `EndInv`: what the game knows of a stream, and what it commands
  on it, presupposes an end of that stream at its node (`EventsHaveEnds`,
  `SendsHaveEnds`, `RegistrationsHaveEnds`); and each end is in the table, on its way
  there, or closed by the game (`EndsBacked`).
* `QuicAnnouncedOnce`: `AnnouncedOnce`, if of a Reliable stream only one end of
  a connection is the creator (`OneCreator`). The code does not ensure it: both
  ends count their streams from 1, which is the hazard of the colliding numbers.
  `OnceInv` follows a stream through its backend: it is asked for once (`AskedOnce`),
  then opened once (`OpenedOnce`), then registered once, before the game is told
  (`EnrolledOnce`); the list of unreliable streams is what the game knows (`ListedIfAnnounced`).
* `QuicReliableInOrder`: `ReliableInOrder`, if `OneCreator`. `FrameInv` follows a frame from the
  queue of commands to the events of the other game: the Sends in a queue bear rising
  numbers, all above what was written (`SendsNumbered`); on each wire of each stream the
  frames are in order and are exactly what was written and has not come, until
  the connection is lost and what was in flight with it (`FramesInOrder`); a connection
  that is lost is never made again, as each is asked for once (`ConnectsFresh`); and
  what is written or comes does so on a stream that is open (`WrittenOnStreams`). `OnceInv`
  is needed for the streams of a connection to have different numbers: with two under one
  number, as when both games create theirs, the frames of one may overtake
  those of the other. The proof splits the steps in those that write a frame, read one, open
  a stream, or move none (`CalmSteps`).
* `QuicImplementsPipe`: `ImplementsPipe`, if `OneCreator`, under the same invariants. By
  `CalmSteps` a frame that is written is handed over (`SendingHands`), one that is
  read is got (`ReadingGets`), a new stream is empty (`OpeningRests`), and all other steps, closing
  a stream among them, leave what is in flight as it is or lose it with its connection
  (`CalmIsCut`). `OpenedOnce` makes the way of a number one stream's and no other's, and
  `SendsBounded` keeps the numbers of the frames within the packets of the `Pipe`.

### Fleet (`FleetProofs`)

* `RefusalsAreFair`: `RefusedForGoodReason`. The servers that stayed registered
  during the whole login (`lasting`) are among the keys still to be read (`RefusalInv`).
* `RegisteredServersBeat`: `RegisteredKnowsOrchestrator`. A server is in the
  registry for a heartbeat it sent as it knew its orchestrator, and forgets it
  only by hearing of the loss of a connection that was then not there (`RegisteredInv`).
* `LeaversAreRemoved`: `LeaversRemoved`, if `ReportsDisconnect`. In the queue of a
  server, all that it has of a player who left is followed by that player's end (`Settles`).
* `OrchestratorComesFirst`: `FirstIsOrchestrator`, for `ByTheBook`: no player is
  started by hand, no server is killed, and no orchestrator restarts where its
  loss would be reported. `FirstInv`: a server that is open to players has its orchestrator,
  the players and the gatekeeper know of open servers only, and those that listen have different ports.
* `PortsStayApart`: `NoPortClash`, for `InTime`: moreover nothing fails, a server
  starts within a slot, and period and lifetime are of two slots or more. `PortsInv`: a
  server is either just started, with a scaler that still sleeps until it has
  registered, or registered, with a heartbeat due or under way before its key expires.
  With `SlowBoot` the property fails, and the other conditions exclude the
  faults by which a running server leaves the registry (see Findings). `fleet_timely`
  is an instance of `InTime` with the numbers of the code.

### Spatial (`SpatialProofs`)

* `RecordsArePlaces`: `OnRecordWhereItIs`. The search of the tree finds the child that
  the signs of the coordinates say, on the borders too (`TreeFollowsSigns`), so what is on
  record is the shard of the last position handled.
* `OneShardAtATime`: `NeverInTwoShards`. In the commands under way every player
  leaves its topic before it enters the next one (`Orderly`).
* `NeighboursAreAlerted`: `AlertsTheNeighbour`, an action property about what the
  service hands to its backend.

All three hold whether the stream exists or not. Of the subscriptions themselves there is
little to say: without the stream, as in the code, no player is ever under a
topic (lemma `NobodyIsSubscribed`); with it, `SubscribedWhereOnRecord` holds (lemma
`WithAStreamTheyFollow`: what is under way ends in the shard on record, `EndsIn`).

### Benchmark (`BenchmarkProofs`)

* `BenchmarkTypeCorrect`: `TypeOK`, where the times of packets and timers are
  bounded by the clock (`Clocks`).
* `PacketsAccountedFor`: `EveryPacketAccountedFor`. The property is about the
  end; `Accounted` says at each moment that every packet is recorded, under way,
  dropped or answered early, and `Drained` that the client does not end before its channel is
  empty, unless the recorder has failed. `WarmAtLast` ties the clock to the code's check.
* `LossBounded`: `LossNotOverstated`, from the same invariant. The lines of the file are
  a finite set that maps onto the packets in it (`FileLines`, `Counted`), so the packets
  in the file are at most what `stats` counts as received; those up to the last one that
  are not in it are lost, under way, answered early or not written, by `Accounted` (`AtMostMissing`).
* `InOrderLossesExact`: `InOrderLossExact`, for the streams outside `Datagrams`.
  `OrderInv` holds at each moment: the packets under way bear the last numbers, one after the other
  (`InOrder`); those before are uncounted (dropped, or answered early) or recorded, each recorded
  one in one copy, in the channel or in the file but not both, and the uncounted ones come
  first (`OnceEach`); nothing is recorded before the warm-up is over, and it stays over
  (`Warmed`). At the end the lines are then as many as the packets in the file, and the last
  packet answered is one of them (`LostIsUncounted`).
* `PercentilesRanked`: `PercentilesHaveTheirRank`, for files of any length. That a file
  can be sorted is itself proved (`Sortable`: the place of a number is how many come before it,
  and by counting no place is left free), so that the `CHOOSE` of `rtts` chooses an order.
  At most the `index` lines before the one chosen are below it, and it and those are not above it (`RankOfIndex`).

### Only model-checked

Every invariant and every action property of the passing runs is a theorem, or, for
`SubscribedWhereOnRecord`, a lemma. What is left is what holds under fairness, for which the prover has no rule here:
`SessionFollowsClient`, `EnoughServers`, `WrittenArrives`, `CreatedAtBothEnds`,
`ShutdownEnds`, `ShutdownEndsUnlessJammed`, `ArrivesUnlessJammed`, `LossReported`,
`AddressSettles`, `StopsWithItsStreams`.

## Plan

1. Done: the models `PubSub`, `Broker`, `QuicBackend`, `GameSocket`, `Pipe`,
   `TcpBackend`, `UdpBackend`, `Benchmark`, `Fleet`, `Spatial` and their runs.
2. Done: the theorems above.
3. Not done: `Broker` over a transport that refuses and loses messages.

## Not modelled

Certificates, congestion and flow control of QUIC (a write is one step), JSON and
byte layouts (a benchmark packet is accepted or lost), HTTP, logging, Bevy's
scheduling beyond "each system runs again", the sizes of datagrams, the list of
clients the benchmark's server keeps and never reads, rates, means and confidence
intervals of the statistics (floating-point arithmetic), finding and printing files,
plots, the GNS transport (commented out of `protocols/mod.rs`, not compiled),
`authority` (an empty file). Entities and transforms of players in Bevy's world are
their membership in `players`.
