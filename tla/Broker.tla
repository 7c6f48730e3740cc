------------------------------- MODULE Broker -------------------------------
(***************************************************************************)
(* The publish/subscribe broker (brocker/src): the resource PubSubManager  *)
(* and the system route_pubsub_traffic, which takes the transport's events *)
(* one at a time from event_rx and answers with Send commands.             *)
(*                                                                         *)
(* Around it, its peers: a connection opens, carries the messages its role *)
(* allows, and closes at any moment. Connections are independent, so their *)
(* events interleave in every order; the events of one connection keep     *)
(* theirs. Whether the transport reports the end of a connection is a      *)
(* parameter: TcpBackend does, QuicBackend, the one the broker is built    *)
(* with, never does.                                                       *)
(*                                                                         *)
(* A Vec<Uuid> whose order nothing depends on is a multiplicity per        *)
(* connection, so that an entry listed twice is visible.                   *)
(***************************************************************************)
EXTENDS Naturals, Sequences

CONSTANTS
  Clients,            \* client_id of the players (u32)
  Topics,             \* topics ([u8; 32])
  Conns,              \* connection ids (Uuid)
  NoClient, NoConn,   \* the absent value of an Option or of a map
  Speaks,             \* Speaks[n]: the messages the peer behind n may send
  ReportsDisconnect,  \* does the transport emit Disconnected?
  QueueBound          \* bound on event_rx, an unbounded channel in the code

-----------------------------------------------------------------------------
(* Messages and events.                                                    *)

Message ==
       [tag : {"subscribe", "unsubscribe", "crossing_alert"}, client : Clients, topic : Topics]
  \cup [tag : {"publish"}, topic : Topics, whole : BOOLEAN]  \* whole: the payload is all there
  \cup [tag : {"client_input"}, client : Clients]
  \cup [tag : {"position_update"}]
  \cup [tag : {"ignored"}]        \* empty, too short for its tag, or of an unknown tag

NoMessage == [tag |-> "ignored"]

ConnectedEvent(n) == [type |-> "Connected", conn |-> n, data |-> NoMessage]
MessageEvent(n, m) == [type |-> "Message", conn |-> n, data |-> m]
DisconnectedEvent(n) == [type |-> "Disconnected", conn |-> n, data |-> NoMessage]

Event == [type : {"Connected", "Message", "Disconnected"}, conn : Conns, data : Message]

ASSUME NullAssumption == NoClient \notin Clients /\ NoConn \notin Conns
ASSUME SpeaksAssumption == Speaks \in [Conns -> SUBSET Message]
ASSUME ReportsAssumption == ReportsDisconnect \in BOOLEAN
ASSUME BoundAssumption == QueueBound \in Nat \ {0}

\* The roles the message tags are meant for: a connection speaks for one
\* player at most, and a shard for none.
OneRolePerConnection ==
  \A n \in Conns : \A m1, m2 \in Speaks[n] :
    m1.tag = "client_input" =>
      /\ m2.tag = "client_input" => m1.client = m2.client
      /\ m2.tag # "publish"

-----------------------------------------------------------------------------
VARIABLES
  link,                       \* link[n]: "new", "open" or "closed"
  event_rx,                   \* the transport's events not yet taken
  subscriptions,              \* subscriptions[t][n]: how often n is listed under t
  client_connections,         \* the connection of a client, or NoConn
  network_to_client_id,       \* the client of a connection, or NoClient
  shard_connections,          \* shard_connections[n]: how often n is listed
  spatial_server_connection,  \* the spatial service's connection, or NoConn
  command_tx                  \* the Send commands issued for the last event

manager == <<subscriptions, client_connections, network_to_client_id,
             shard_connections, spatial_server_connection>>
vars == <<link, event_rx, manager, command_tx>>

Listing == [Conns -> Nat]
EmptyList == [n \in Conns |-> 0]

Sends == [kind : {"none", "broadcast", "input", "position", "alert"},
          to : Listing, forward : Conns \cup {NoConn}]

\* One Send of the given kind per entry of the list, and one copy of the
\* original message to the connection forward.
SendTo(kind, list, forward) == [kind |-> kind, to |-> list, forward |-> forward]
NoSends == SendTo("none", EmptyList, NoConn)

TypeOK ==
  /\ link \in [Conns -> {"new", "open", "closed"}]
  /\ event_rx \in Seq(Event)
  /\ subscriptions \in [Topics -> Listing]
  /\ client_connections \in [Clients -> Conns \cup {NoConn}]
  /\ network_to_client_id \in [Conns -> Clients \cup {NoClient}]
  /\ shard_connections \in Listing
  /\ spatial_server_connection \in Conns \cup {NoConn}
  /\ command_tx \in Sends

Init ==
  /\ link = [n \in Conns |-> "new"]
  /\ event_rx = <<>>
  /\ subscriptions = [t \in Topics |-> EmptyList]
  /\ client_connections = [c \in Clients |-> NoConn]
  /\ network_to_client_id = [n \in Conns |-> NoClient]
  /\ shard_connections = EmptyList
  /\ spatial_server_connection = NoConn
  /\ command_tx = NoSends

-----------------------------------------------------------------------------
(* The peers and the transport. A peer has at most one message under way.  *)

Pending(n) == \E i \in DOMAIN event_rx : event_rx[i].conn = n

Room == Len(event_rx) < QueueBound

Open(n) ==
  /\ link[n] = "new"
  /\ Room
  /\ link' = [link EXCEPT ![n] = "open"]
  /\ event_rx' = Append(event_rx, ConnectedEvent(n))
  /\ UNCHANGED <<manager, command_tx>>

Say(n, m) ==
  /\ link[n] = "open"
  /\ Room
  /\ ~Pending(n)
  /\ m \in Speaks[n]
  /\ event_rx' = Append(event_rx, MessageEvent(n, m))
  /\ UNCHANGED <<link, manager, command_tx>>

Close(n) ==
  /\ link[n] = "open"
  /\ Room
  /\ link' = [link EXCEPT ![n] = "closed"]
  /\ event_rx' = IF ReportsDisconnect THEN Append(event_rx, DisconnectedEvent(n))
                                      ELSE event_rx
  /\ UNCHANGED <<manager, command_tx>>

-----------------------------------------------------------------------------
(* route_pubsub_traffic: one action per arm of its match.                  *)

Event1 == Head(event_rx)

Take(type) ==
  /\ event_rx # <<>>
  /\ Event1.type = type
  /\ event_rx' = Tail(event_rx)
  /\ UNCHANGED <<link, spatial_server_connection>>

TakeMessage(tag) == Take("Message") /\ Event1.data.tag = tag

RouteConnected ==
  /\ Take("Connected")
  /\ command_tx' = NoSends
  /\ UNCHANGED <<subscriptions, client_connections, network_to_client_id, shard_connections>>

\* Mutant of Listed: push without the test of contains.
ListedAgain(list, n) == [list EXCEPT ![n] = @ + 1]

\* push, unless contained
Listed(list, n) == IF list[n] = 0 THEN [list EXCEPT ![n] = 1] ELSE list

\* retain(|uuid| uuid != n)
Unlisted(list, n) == [list EXCEPT ![n] = 0]

\* Mutant of RouteSubscribe: without the test that the client is registered.
SubscribeUnregistered ==
  /\ TakeMessage("subscribe")
  /\ LET uuid == client_connections[Event1.data.client]
         t == Event1.data.topic
     IN subscriptions' = [subscriptions EXCEPT ![t] =
          [n \in DOMAIN @ \cup {uuid} |-> IF n = uuid THEN 1 ELSE @[n]]]
  /\ command_tx' = NoSends
  /\ UNCHANGED <<client_connections, network_to_client_id, shard_connections>>

RouteSubscribe ==
  /\ TakeMessage("subscribe")
  /\ LET uuid == client_connections[Event1.data.client]
         t == Event1.data.topic
     IN subscriptions' = IF uuid = NoConn THEN subscriptions
                         ELSE [subscriptions EXCEPT ![t] = Listed(@, uuid)]
  /\ command_tx' = NoSends
  /\ UNCHANGED <<client_connections, network_to_client_id, shard_connections>>

RouteUnsubscribe ==
  /\ TakeMessage("unsubscribe")
  /\ LET uuid == client_connections[Event1.data.client]
         t == Event1.data.topic
     IN subscriptions' = IF uuid = NoConn THEN subscriptions
                         ELSE [subscriptions EXCEPT ![t] = Unlisted(@, uuid)]
  /\ command_tx' = NoSends
  /\ UNCHANGED <<client_connections, network_to_client_id, shard_connections>>

RoutePublish ==
  /\ TakeMessage("publish")
  /\ shard_connections' = Listed(shard_connections, Event1.conn)
  /\ command_tx' = IF Event1.data.whole
                   THEN SendTo("broadcast", subscriptions[Event1.data.topic],
                               spatial_server_connection)
                   ELSE NoSends
  /\ UNCHANGED <<subscriptions, client_connections, network_to_client_id>>

\* The dynamic registration of a player at its first input.
Registers(c) == client_connections[c] = NoConn

\* Mutant of RouteClientInput: every input registers.
InputAlwaysRegisters ==
  /\ TakeMessage("client_input")
  /\ LET c == Event1.data.client
         n == Event1.conn
     IN /\ client_connections' = [client_connections EXCEPT ![c] = n]
        /\ network_to_client_id' = [network_to_client_id EXCEPT ![n] = c]
  /\ command_tx' = SendTo("input", shard_connections, NoConn)
  /\ UNCHANGED <<subscriptions, shard_connections>>

RouteClientInput ==
  /\ TakeMessage("client_input")
  /\ LET c == Event1.data.client
         n == Event1.conn
     IN /\ client_connections' =
             IF Registers(c) THEN [client_connections EXCEPT ![c] = n] ELSE client_connections
        /\ network_to_client_id' =
             IF Registers(c) THEN [network_to_client_id EXCEPT ![n] = c] ELSE network_to_client_id
  /\ command_tx' = SendTo("input", shard_connections, NoConn)
  /\ UNCHANGED <<subscriptions, shard_connections>>

RoutePositionUpdate ==
  /\ TakeMessage("position_update")
  /\ command_tx' = IF spatial_server_connection = NoConn THEN NoSends
                   ELSE SendTo("position", EmptyList, spatial_server_connection)
  /\ UNCHANGED <<subscriptions, client_connections, network_to_client_id, shard_connections>>

RouteCrossingAlert ==
  /\ TakeMessage("crossing_alert")
  /\ command_tx' = SendTo("alert", subscriptions[Event1.data.topic], NoConn)
  /\ UNCHANGED <<subscriptions, client_connections, network_to_client_id, shard_connections>>

RouteIgnored ==
  /\ TakeMessage("ignored")
  /\ command_tx' = NoSends
  /\ UNCHANGED <<subscriptions, client_connections, network_to_client_id, shard_connections>>

\* Mutants of RouteDisconnected: the subscriptions stay; the client stays.
DisconnectedKeepsTopics ==
  /\ Take("Disconnected")
  /\ LET n == Event1.conn
         c == network_to_client_id[n]
     IN IF c # NoClient
        THEN /\ network_to_client_id' = [network_to_client_id EXCEPT ![n] = NoClient]
             /\ client_connections' = [client_connections EXCEPT ![c] = NoConn]
             /\ UNCHANGED <<subscriptions, shard_connections>>
        ELSE /\ shard_connections' = Unlisted(shard_connections, n)
             /\ UNCHANGED <<subscriptions, client_connections, network_to_client_id>>
  /\ command_tx' = NoSends

DisconnectedKeepsClient ==
  /\ Take("Disconnected")
  /\ LET n == Event1.conn IN
     /\ network_to_client_id' = [network_to_client_id EXCEPT ![n] = NoClient]
     /\ subscriptions' = [t \in Topics |-> Unlisted(subscriptions[t], n)]
     /\ shard_connections' = Unlisted(shard_connections, n)
  /\ command_tx' = NoSends
  /\ UNCHANGED client_connections

\* A connection that stands for a client is cleaned up as a client, any
\* other one as a shard.
RouteDisconnected ==
  /\ Take("Disconnected")
  /\ LET n == Event1.conn
         c == network_to_client_id[n]
     IN IF c # NoClient
        THEN /\ network_to_client_id' = [network_to_client_id EXCEPT ![n] = NoClient]
             /\ client_connections' = [client_connections EXCEPT ![c] = NoConn]
             /\ subscriptions' = [t \in Topics |-> Unlisted(subscriptions[t], n)]
             /\ UNCHANGED shard_connections
        ELSE /\ shard_connections' = Unlisted(shard_connections, n)
             /\ UNCHANGED <<subscriptions, client_connections, network_to_client_id>>
  /\ command_tx' = NoSends

Route ==
  \/ RouteConnected
  \/ RouteSubscribe
  \/ RouteUnsubscribe
  \/ RoutePublish
  \/ RouteClientInput
  \/ RoutePositionUpdate
  \/ RouteCrossingAlert
  \/ RouteIgnored
  \/ RouteDisconnected

Next ==
  \/ \E n \in Conns : Open(n) \/ Close(n)
  \/ \E n \in Conns : \E m \in Speaks[n] : Say(n, m)
  \/ Route

Spec == Init /\ [][Next]_vars

-----------------------------------------------------------------------------
(* Properties.                                                             *)

\* The two maps of PubSubManager are inverse of each other: a client is
\* registered on a connection exactly when that connection stands for it.
\* Disconnected finds the client through one map and erases it from the other.
MapsInverse ==
  \A c \in Clients, n \in Conns :
    client_connections[c] = n <=> network_to_client_id[n] = c

Gone(n) == link[n] = "closed" /\ ~Pending(n)

Clean(n) ==
  /\ network_to_client_id[n] = NoClient
  /\ \A c \in Clients : client_connections[c] # n
  /\ \A t \in Topics : subscriptions[t][n] = 0
  /\ shard_connections[n] = 0

\* Once the Disconnected of a connection has been handled, nothing of it is
\* left: it is no client's connection, no shard, and under no topic, whatever
\* subscriptions, inputs and publications were handled before and after.
NothingLeftBehind == \A n \in Conns : Gone(n) => Clean(n)

\* The refinement mapping: a player has the subscriptions of its connection.
Subscribed ==
  {p \in Clients \X Topics :
     /\ client_connections[p[1]] # NoConn
     /\ subscriptions[p[2]][client_connections[p[1]]] > 0}

Shards == {n \in Conns : shard_connections[n] > 0}

\* The copies to the spatial service are no part of the promise.
Delivery ==
  [kind |-> IF command_tx.kind = "position" THEN "none" ELSE command_tx.kind,
   to   |-> command_tx.to]

Promise == INSTANCE PubSub WITH
  session <- client_connections, subscribed <- Subscribed,
  shards <- Shards, delivery <- Delivery

\* The broker implements PubSub: the subscriptions kept per connection are
\* those of the players behind them, and every publication, alert and input
\* goes exactly once to exactly those it is for.
ImplementsPubSub == Promise!Spec

-----------------------------------------------------------------------------
(* What strengthens them into an inductive invariant.                      *)

\* What is queued, registered and listed came from a peer allowed to say it.
Spoken ==
  /\ \A i \in DOMAIN event_rx :
       event_rx[i].type = "Message" => event_rx[i].data \in Speaks[event_rx[i].conn]
  /\ \A n \in Conns :
       network_to_client_id[n] # NoClient =>
         \E m \in Speaks[n] : m.tag = "client_input" /\ m.client = network_to_client_id[n]
  /\ \A n \in Conns :
       shard_connections[n] # 0 => \E m \in Speaks[n] : m.tag = "publish"

\* Only a registered connection is under a topic; nothing is listed twice.
ListsSound ==
  /\ \A t \in Topics, n \in Conns :
       /\ subscriptions[t][n] \in {0, 1}
       /\ subscriptions[t][n] # 0 => network_to_client_id[n] # NoClient
  /\ \A n \in Conns : shard_connections[n] \in {0, 1}

\* The Disconnected of a connection is queued when it closes, as its last event.
QueueOrder ==
  /\ \A i \in DOMAIN event_rx :
       event_rx[i].type = "Disconnected" =>
         /\ link[event_rx[i].conn] = "closed"
         /\ \A j \in DOMAIN event_rx : event_rx[j].conn = event_rx[i].conn => j <= i
  /\ \A i \in DOMAIN event_rx :
       link[event_rx[i].conn] # "new"
  /\ \A n \in Conns :
       link[n] = "closed" /\ Pending(n) =>
         \E i \in DOMAIN event_rx : event_rx[i].conn = n /\ event_rx[i].type = "Disconnected"

SessionInv == TypeOK /\ Spoken /\ MapsInverse /\ ListsSound

CleanupInv == SessionInv /\ QueueOrder /\ NothingLeftBehind

-----------------------------------------------------------------------------
(* Liveness. The Bevy schedule runs route_pubsub_traffic in every frame    *)
(* and it drains event_rx; a player in the game keeps sending its inputs.  *)
(* The code's queue has no bound: strong fairness keeps the model's bound  *)
(* from shutting a player out.                                             *)

Inputs(n) == {m \in Speaks[n] : m.tag = "client_input"}

Fairness ==
  /\ WF_vars(Route)
  /\ \A n \in Conns : \A m \in Inputs(n) : SF_vars(Say(n, m))

FairSpec == Spec /\ Fairness

PlaysOn(c, n) == \E m \in Inputs(n) : m.client = c

OnlyOpen(c, n) ==
  \A k \in {j \in Conns : PlaysOn(c, j)} : link[k] = "open" <=> k = n

\* A player that settles on one connection, after any number of lost ones, is
\* in the end registered on that connection: the registration of the old
\* session cannot outlive it and shut the player out.
SessionFollowsClient ==
  \A c \in Clients, n \in Conns : PlaysOn(c, n) =>
    (<>[]OnlyOpen(c, n) => <>[](client_connections[c] = n))
=============================================================================
