---------------------------- MODULE BrokerProofs ----------------------------
(***************************************************************************)
(* Proofs about Broker, for any players, topics, connections and peers.    *)
(***************************************************************************)
EXTENDS Broker, TLAPS

-----------------------------------------------------------------------------
(* Messages and the head of the queue.                                     *)

\* The fields a message of each tag carries.
LEMMA MessageFields ==
  ASSUME NEW m \in Message
  PROVE  /\ m.tag \in {"subscribe", "unsubscribe", "crossing_alert"}
              => m.client \in Clients /\ m.topic \in Topics
         /\ m.tag = "publish" => m.topic \in Topics
         /\ m.tag = "client_input" => m.client \in Clients
BY DEF Message

\* Taking an event leaves a queue of events.
LEMMA TakeHead ==
  ASSUME NEW s \in Seq(Event), s # <<>>
  PROVE  /\ Head(s) \in Event
         /\ Head(s).conn \in Conns
         /\ Head(s).data \in Message
         /\ Tail(s) \in Seq(Event)
<1>1. Head(s) \in Event /\ Tail(s) \in Seq(Event)
  OBVIOUS
<1>2. QED BY <1>1 DEF Event

\* Listing and unlisting a connection give lists.
LEMMA ListOperations ==
  ASSUME NEW list \in Listing, NEW n \in Conns
  PROVE  /\ Listed(list, n) \in Listing
         /\ Unlisted(list, n) \in Listing
         /\ EmptyList \in Listing
BY DEF Listing, Listed, Unlisted, EmptyList

-----------------------------------------------------------------------------
(* Types.                                                                  *)

LEMMA TypeStep == TypeOK /\ [Next]_vars => TypeOK'
<1> SUFFICES ASSUME TypeOK, [Next]_vars PROVE TypeOK'
  OBVIOUS
<1> USE DEF TypeOK
<1>a. NoSends \in Sends
  BY ListOperations DEF NoSends, SendTo, Sends, EmptyList, Listing
<1>1. ASSUME NEW n \in Conns, Open(n) PROVE TypeOK'
  <2>1. ConnectedEvent(n) \in Event
    BY DEF ConnectedEvent, Event, NoMessage, Message
  <2>2. QED BY <1>1, <2>1 DEF Open, manager
<1>2. ASSUME NEW n \in Conns, Close(n) PROVE TypeOK'
  <2>1. DisconnectedEvent(n) \in Event
    BY DEF DisconnectedEvent, Event, NoMessage, Message
  <2>2. QED BY <1>2, <2>1 DEF Close, manager
<1>3. ASSUME NEW n \in Conns, NEW m \in Speaks[n], Say(n, m) PROVE TypeOK'
  <2>1. MessageEvent(n, m) \in Event
    BY SpeaksAssumption DEF MessageEvent, Event
  <2>2. QED BY <1>3, <2>1 DEF Say, manager
<1>4. ASSUME Route PROVE TypeOK'
  <2> DEFINE n == Event1.conn
             m == Event1.data
  <2>a. /\ event_rx # <<>>
        /\ event_rx' = Tail(event_rx)
        /\ UNCHANGED <<link, spatial_server_connection>>
    BY <1>4 DEF Route, RouteConnected, RouteSubscribe, RouteUnsubscribe, RoutePublish,
         RouteClientInput, RoutePositionUpdate, RouteCrossingAlert, RouteIgnored,
         RouteDisconnected, TakeMessage, Take
  <2>b. n \in Conns /\ m \in Message /\ event_rx' \in Seq(Event)
    BY <2>a, TakeHead DEF Event1
  <2>1. CASE RouteConnected
    BY <2>1, <2>a, <2>b, <1>a DEF RouteConnected
  <2>2. CASE RouteSubscribe
    <3>1. m.client \in Clients /\ m.topic \in Topics
      BY <2>2, <2>b, MessageFields DEF RouteSubscribe, TakeMessage
    <3>2. subscriptions' \in [Topics -> Listing]
      BY <2>2, <3>1, ListOperations DEF RouteSubscribe
    <3>3. QED BY <2>2, <3>2, <2>a, <2>b, <1>a DEF RouteSubscribe
  <2>3. CASE RouteUnsubscribe
    <3>1. m.client \in Clients /\ m.topic \in Topics
      BY <2>3, <2>b, MessageFields DEF RouteUnsubscribe, TakeMessage
    <3>2. subscriptions' \in [Topics -> Listing]
      BY <2>3, <3>1, ListOperations DEF RouteUnsubscribe
    <3>3. QED BY <2>3, <3>2, <2>a, <2>b, <1>a DEF RouteUnsubscribe
  <2>4. CASE RoutePublish
    <3>1. m.topic \in Topics
      BY <2>4, <2>b, MessageFields DEF RoutePublish, TakeMessage
    <3>2. shard_connections' \in Listing
      BY <2>4, <2>b, ListOperations DEF RoutePublish
    <3>3. command_tx' \in Sends
      BY <2>4, <3>1, <1>a DEF RoutePublish, SendTo, Sends
    <3>4. QED BY <2>4, <3>2, <3>3, <2>a, <2>b DEF RoutePublish
  <2>5. CASE RouteClientInput
    <3>1. m.client \in Clients
      BY <2>5, <2>b, MessageFields DEF RouteClientInput, TakeMessage
    <3>2. command_tx' \in Sends
      BY <2>5 DEF RouteClientInput, SendTo, Sends
    <3>3. QED BY <2>5, <3>1, <3>2, <2>a, <2>b DEF RouteClientInput
  <2>6. CASE RoutePositionUpdate
    <3>1. command_tx' \in Sends
      BY <2>6, <1>a, ListOperations DEF RoutePositionUpdate, SendTo, Sends, EmptyList, Listing
    <3>2. QED BY <2>6, <3>1, <2>a, <2>b DEF RoutePositionUpdate
  <2>7. CASE RouteCrossingAlert
    <3>1. m.topic \in Topics
      BY <2>7, <2>b, MessageFields DEF RouteCrossingAlert, TakeMessage
    <3>2. command_tx' \in Sends
      BY <2>7, <3>1 DEF RouteCrossingAlert, SendTo, Sends
    <3>3. QED BY <2>7, <3>2, <2>a, <2>b DEF RouteCrossingAlert
  <2>8. CASE RouteIgnored
    BY <2>8, <2>a, <2>b, <1>a DEF RouteIgnored
  <2>9. CASE RouteDisconnected
    <3>1. [t \in Topics |-> Unlisted(subscriptions[t], n)] \in [Topics -> Listing]
      BY <2>b, ListOperations
    <3>2. Unlisted(shard_connections, n) \in Listing
      BY <2>b, ListOperations
    <3>3. QED BY <2>9, <3>1, <3>2, <2>a, <2>b, <1>a DEF RouteDisconnected
  <2>10. QED BY <1>4, <2>1, <2>2, <2>3, <2>4, <2>5, <2>6, <2>7, <2>8, <2>9 DEF Route
<1>5. CASE UNCHANGED vars
  BY <1>5 DEF vars, manager
<1>6. QED BY <1>1, <1>2, <1>3, <1>4, <1>5 DEF Next

\* Every variable keeps its type.
THEOREM TypeCorrect == Spec => []TypeOK
<1>1. Init => TypeOK
  BY ListOperations DEF Init, TypeOK, NoSends, SendTo, Sends, EmptyList, Listing
<1>2. QED BY <1>1, TypeStep, PTL DEF Spec

-----------------------------------------------------------------------------
(* The queue: what appending and taking an event does to its elements.     *)

LEMMA AppendElements ==
  ASSUME NEW s \in Seq(Event), NEW e \in Event
  PROVE  /\ DOMAIN Append(s, e) = 1 .. Len(s) + 1
         /\ DOMAIN s = 1 .. Len(s)
         /\ Len(s) \in Nat
         /\ \A i \in DOMAIN s : Append(s, e)[i] = s[i]
         /\ Append(s, e)[Len(s) + 1] = e
OBVIOUS

\* The rest of a list holds nothing new.
LEMMA TailElements ==
  ASSUME NEW s \in Seq(Event), s # <<>>
  PROVE  /\ DOMAIN s = 1 .. Len(s)
         /\ Len(s) \in Nat \ {0}
         /\ DOMAIN Tail(s) = 1 .. Len(s) - 1
         /\ \A i \in DOMAIN Tail(s) : Tail(s)[i] = s[i + 1]
         /\ Head(s) = s[1]
OBVIOUS

\* The queue of network events holds events of known connections.
LEMMA QueueOfEvents ==
  ASSUME TypeOK
  PROVE  \A i \in DOMAIN event_rx : event_rx[i] \in Event /\ event_rx[i].conn \in Conns
<1>1. \A i \in DOMAIN event_rx : event_rx[i] \in Event
  BY DEF TypeOK
<1>2. QED BY <1>1 DEF Event

\* Every arm takes the head of the queue and touches no link.
LEMMA RouteTakes ==
  ASSUME TypeOK, Route
  PROVE  /\ event_rx # <<>>
         /\ event_rx' = Tail(event_rx)
         /\ link' = link
         /\ Event1 = event_rx[1]
         /\ Event1.conn \in Conns
         /\ Event1.data \in Message
         /\ 1 \in DOMAIN event_rx
<1>1. event_rx # <<>> /\ event_rx' = Tail(event_rx) /\ link' = link
  BY DEF Route, RouteConnected, RouteSubscribe, RouteUnsubscribe, RoutePublish,
    RouteClientInput, RoutePositionUpdate, RouteCrossingAlert, RouteIgnored,
    RouteDisconnected, TakeMessage, Take
<1>2. QED BY <1>1, TakeHead, TailElements DEF TypeOK, Event1

-----------------------------------------------------------------------------
(* Sessions and lists.                                                     *)

\* A peer that opens, speaks or closes adds at most an event it may cause.
LEMMA SpokenByPeers ==
  ASSUME SessionInv, NEW n \in Conns,
         Open(n) \/ Close(n) \/ \E m \in Speaks[n] : Say(n, m)
  PROVE  SessionInv'
<1> USE DEF SessionInv
<1>1. TypeOK'
  BY TypeStep DEF Next
<1>2. UNCHANGED manager
  BY DEF Open, Close, Say
<1>3. MapsInverse' /\ ListsSound'
  BY <1>2 DEF MapsInverse, ListsSound, manager
<1>4. \/ event_rx' = event_rx
      \/ \E e \in Event : /\ event_rx' = Append(event_rx, e)
                          /\ e.type = "Message" => e.data \in Speaks[e.conn]
  <2>1. ConnectedEvent(n) \in Event /\ DisconnectedEvent(n) \in Event
    BY DEF ConnectedEvent, DisconnectedEvent, Event, NoMessage, Message
  <2>2. \A m \in Speaks[n] : MessageEvent(n, m) \in Event
    BY SpeaksAssumption DEF MessageEvent, Event
  <2>3. QED BY <2>1, <2>2 DEF Open, Close, Say, ConnectedEvent, DisconnectedEvent, MessageEvent
<1>5. \A i \in DOMAIN event_rx' :
        event_rx'[i].type = "Message" => event_rx'[i].data \in Speaks[event_rx'[i].conn]
  <2>1. CASE event_rx' = event_rx
    BY <2>1 DEF Spoken
  <2>2. ASSUME NEW e \in Event, event_rx' = Append(event_rx, e),
               e.type = "Message" => e.data \in Speaks[e.conn]
        PROVE  \A i \in DOMAIN event_rx' :
                 event_rx'[i].type = "Message" => event_rx'[i].data \in Speaks[event_rx'[i].conn]
    <3>1. ASSUME NEW i \in DOMAIN event_rx'
          PROVE  event_rx'[i] = e \/ (i \in DOMAIN event_rx /\ event_rx'[i] = event_rx[i])
      BY <2>2, <3>1, AppendElements DEF TypeOK
    <3>2. QED BY <2>2, <3>1 DEF Spoken
  <2>3. QED BY <1>4, <2>1, <2>2
<1>6. Spoken'
  BY <1>2, <1>5 DEF Spoken, manager
<1>7. QED BY <1>1, <1>3, <1>6

\* The registers, the lists and the roles, over the arms of the match.
LEMMA SessionByRoute ==
  ASSUME OneRolePerConnection, SessionInv, Route
  PROVE  SessionInv'
<1> USE DEF SessionInv
<1> DEFINE n == Event1.conn
           m == Event1.data
<1>1. TypeOK'
  BY TypeStep DEF Next
<1>2. n \in Conns /\ m \in Message
  BY RouteTakes
<1>3. Event1.type = "Message" => m \in Speaks[n]
  BY RouteTakes DEF Spoken
<1>4. \A i \in DOMAIN event_rx' :
        event_rx'[i].type = "Message" => event_rx'[i].data \in Speaks[event_rx'[i].conn]
  <2>1. ASSUME NEW i \in DOMAIN event_rx'
        PROVE  i + 1 \in DOMAIN event_rx /\ event_rx'[i] = event_rx[i + 1]
    <3>1. event_rx \in Seq(Event) /\ event_rx # <<>> /\ event_rx' = Tail(event_rx)
      BY RouteTakes DEF TypeOK
    <3>2. i \in DOMAIN Tail(event_rx) /\ event_rx'[i] = Tail(event_rx)[i]
      BY <2>1, <3>1
    <3>3. QED BY <3>1, <3>2, TailElements
  <2>2. QED BY <2>1 DEF Spoken
<1>5. CASE RouteConnected \/ RoutePositionUpdate \/ RouteCrossingAlert \/ RouteIgnored
  <2>1. UNCHANGED <<subscriptions, client_connections, network_to_client_id, shard_connections>>
    BY <1>5 DEF RouteConnected, RoutePositionUpdate, RouteCrossingAlert, RouteIgnored
  <2>2. QED BY <1>1, <1>4, <2>1 DEF Spoken, MapsInverse, ListsSound
<1>6. CASE RouteSubscribe \/ RouteUnsubscribe
  <2>1. m.client \in Clients /\ m.topic \in Topics
    BY <1>6, <1>2, MessageFields DEF RouteSubscribe, RouteUnsubscribe, TakeMessage
  <2>2. UNCHANGED <<client_connections, network_to_client_id, shard_connections>>
    BY <1>6 DEF RouteSubscribe, RouteUnsubscribe
  <2>3. Spoken' /\ MapsInverse'
    BY <1>4, <2>2 DEF Spoken, MapsInverse
  <2>4. ASSUME NEW t \in Topics, NEW k \in Conns
        PROVE  /\ subscriptions'[t][k] \in {0, 1}
               /\ subscriptions'[t][k] # 0 => network_to_client_id[k] # NoClient
    <3> DEFINE uuid == client_connections[m.client]
    <3>0. subscriptions[t] \in Listing /\ subscriptions[t][k] \in {0, 1}
          /\ (subscriptions[t][k] # 0 => network_to_client_id[k] # NoClient)
      BY DEF TypeOK, ListsSound
    <3>1. CASE uuid = NoConn
      BY <3>0, <3>1, <1>6 DEF RouteSubscribe, RouteUnsubscribe
    <3>2. CASE uuid # NoConn
      <4>1. uuid \in Conns
        BY <2>1, <3>2 DEF TypeOK
      <4>2. network_to_client_id[uuid] # NoClient
        BY <2>1, <4>1, NullAssumption DEF MapsInverse
      <4>3. \/ subscriptions'[t] = subscriptions[t]
            \/ subscriptions'[t] = Listed(subscriptions[t], uuid)
            \/ subscriptions'[t] = Unlisted(subscriptions[t], uuid)
        BY <1>6, <2>1, <3>2 DEF RouteSubscribe, RouteUnsubscribe, TypeOK
      <4>4. QED BY <3>0, <4>1, <4>2, <4>3 DEF Listed, Unlisted, Listing
    <3>3. QED BY <3>1, <3>2
  <2>5. ListsSound'
    BY <2>2, <2>4 DEF ListsSound
  <2>6. QED BY <1>1, <2>3, <2>5
<1>7. CASE RoutePublish
  <2>1. UNCHANGED <<subscriptions, client_connections, network_to_client_id>>
    BY <1>7 DEF RoutePublish
  <2>2. m \in Speaks[n] /\ m.tag = "publish"
    BY <1>7, <1>3 DEF RoutePublish, TakeMessage, Take
  <2>3. shard_connections' = Listed(shard_connections, n)
    BY <1>7 DEF RoutePublish
  <2>4. \A k \in Conns : /\ shard_connections'[k] \in {0, 1}
                         /\ shard_connections'[k] # 0 => shard_connections[k] # 0 \/ k = n
    BY <2>3, <1>2 DEF Listed, Listing, TypeOK, ListsSound
  <2>5. Spoken'
    BY <1>4, <2>1, <2>2, <2>4 DEF Spoken
  <2>6. QED BY <1>1, <2>1, <2>4, <2>5 DEF MapsInverse, ListsSound
<1>8. CASE RouteClientInput
  <2> DEFINE c == m.client
  <2>1. c \in Clients /\ m \in Speaks[n] /\ m.tag = "client_input"
    BY <1>8, <1>2, <1>3, MessageFields DEF RouteClientInput, TakeMessage, Take
  <2>2. UNCHANGED <<subscriptions, shard_connections>>
    BY <1>8 DEF RouteClientInput
  <2>3. CASE ~Registers(c)
    <3>1. UNCHANGED <<client_connections, network_to_client_id>>
      BY <1>8, <2>3 DEF RouteClientInput
    <3>2. QED BY <1>1, <1>4, <2>2, <3>1 DEF Spoken, MapsInverse, ListsSound
  <2>4. CASE Registers(c)
    <3>1. /\ client_connections' = [client_connections EXCEPT ![c] = n]
          /\ network_to_client_id' = [network_to_client_id EXCEPT ![n] = c]
      BY <1>8, <2>4 DEF RouteClientInput
    <3>2. client_connections[c] = NoConn
      BY <2>4 DEF Registers
    \* n stands for nobody yet: by its role it could only be c, which is unregistered
    <3>3. network_to_client_id[n] = NoClient
      <4>1. SUFFICES ASSUME network_to_client_id[n] # NoClient PROVE FALSE
        OBVIOUS
      <4>2. PICK k \in Speaks[n] : k.tag = "client_input" /\ k.client = network_to_client_id[n]
        BY <4>1, <1>2 DEF Spoken
      <4>3. network_to_client_id[n] = c
        BY <4>2, <2>1, <1>2 DEF OneRolePerConnection
      <4>4. client_connections[c] = n
        BY <4>3, <1>2, <2>1 DEF MapsInverse
      <4>5. QED BY <4>4, <3>2, <1>2, NullAssumption
    <3>4. MapsInverse'
      <4>1. SUFFICES ASSUME NEW d \in Clients, NEW k \in Conns
                     PROVE  client_connections'[d] = k <=> network_to_client_id'[k] = d
        BY DEF MapsInverse
      <4>2. client_connections[d] = k <=> network_to_client_id[k] = d
        BY DEF MapsInverse
      <4>3. CASE d = c /\ k = n
        BY <4>3, <3>1, <2>1, <1>2 DEF TypeOK
      <4>4. CASE d = c /\ k # n
        BY <4>4, <4>2, <3>1, <3>2, <2>1, <1>2, NullAssumption DEF TypeOK
      <4>5. CASE d # c /\ k = n
        BY <4>5, <4>2, <3>1, <3>3, <2>1, <1>2, NullAssumption DEF TypeOK
      <4>6. CASE d # c /\ k # n
        BY <4>6, <4>2, <3>1, <2>1, <1>2 DEF TypeOK
      <4>7. QED BY <4>3, <4>4, <4>5, <4>6
    <3>5. \A k \in Conns : k # n => network_to_client_id'[k] = network_to_client_id[k]
      BY <3>1, <1>2 DEF TypeOK
    <3>6. network_to_client_id'[n] = c
      BY <3>1, <1>2 DEF TypeOK
    <3>7. Spoken'
      BY <1>4, <2>1, <2>2, <3>5, <3>6 DEF Spoken
    <3>8. ListsSound'
      BY <2>1, <2>2, <3>5, <3>6, NullAssumption DEF ListsSound
    <3>9. QED BY <1>1, <3>4, <3>7, <3>8
  <2>5. QED BY <2>3, <2>4
<1>9. CASE RouteDisconnected
  <2> DEFINE c == network_to_client_id[n]
  <2>1. CASE c = NoClient
    <3>1. /\ UNCHANGED <<subscriptions, client_connections, network_to_client_id>>
          /\ shard_connections' = Unlisted(shard_connections, n)
      BY <1>9, <2>1 DEF RouteDisconnected
    <3>2. \A k \in Conns : shard_connections'[k] = 0 \/ shard_connections'[k] = shard_connections[k]
      BY <3>1, <1>2 DEF Unlisted, TypeOK, Listing
    <3>3. QED BY <1>1, <1>4, <3>1, <3>2 DEF Spoken, MapsInverse, ListsSound
  <2>2. CASE c # NoClient
    <3>0. c \in Clients /\ client_connections[c] = n
      BY <1>2, <2>2 DEF TypeOK, MapsInverse
    <3>1. /\ network_to_client_id' = [network_to_client_id EXCEPT ![n] = NoClient]
          /\ client_connections' = [client_connections EXCEPT ![c] = NoConn]
          /\ subscriptions' = [t \in Topics |-> Unlisted(subscriptions[t], n)]
          /\ UNCHANGED shard_connections
      BY <1>9, <2>2 DEF RouteDisconnected
    <3>2. MapsInverse'
      <4>1. SUFFICES ASSUME NEW d \in Clients, NEW k \in Conns
                     PROVE  client_connections'[d] = k <=> network_to_client_id'[k] = d
        BY DEF MapsInverse
      <4>2. /\ client_connections[d] = k <=> network_to_client_id[k] = d
            /\ client_connections[d] = n <=> d = c
        BY <1>2 DEF MapsInverse
      <4>3. QED BY <4>2, <3>0, <3>1, <1>2, NullAssumption DEF TypeOK
    <3>3. \A k \in Conns : network_to_client_id'[k] = (IF k = n THEN NoClient ELSE network_to_client_id[k])
      BY <3>1, <1>2 DEF TypeOK
    <3>4. Spoken'
      BY <1>4, <3>1, <3>3 DEF Spoken
    <3>5. \A t \in Topics, k \in Conns :
            subscriptions'[t][k] = (IF k = n THEN 0 ELSE subscriptions[t][k])
      BY <3>1, <1>2 DEF Unlisted, TypeOK, Listing
    <3>6. ListsSound'
      BY <3>1, <3>3, <3>5 DEF ListsSound
    <3>7. QED BY <1>1, <3>2, <3>4, <3>6
  <2>3. QED BY <2>1, <2>2
<1>10. QED BY <1>5, <1>6, <1>7, <1>8, <1>9 DEF Route

\* The sessions stay right, if each connection keeps to one role.
LEMMA SessionInvariant == OneRolePerConnection => (Spec => []SessionInv)
<1> SUFFICES ASSUME OneRolePerConnection PROVE Spec => []SessionInv
  OBVIOUS
<1>1. Init => SessionInv
  <2>1. SUFFICES ASSUME Init PROVE SessionInv
    OBVIOUS
  <2>2. TypeOK
    BY <2>1, ListOperations DEF Init, TypeOK, NoSends, SendTo, Sends, EmptyList, Listing
  <2>3. Spoken /\ ListsSound
    BY <2>1 DEF Init, Spoken, ListsSound, EmptyList
  <2>4. MapsInverse
    BY <2>1, NullAssumption DEF Init, MapsInverse
  <2>5. QED BY <2>2, <2>3, <2>4 DEF SessionInv
<1>2. SessionInv /\ [Next]_vars => SessionInv'
  <2>1. SUFFICES ASSUME SessionInv, [Next]_vars PROVE SessionInv'
    OBVIOUS
  <2>2. CASE UNCHANGED vars
    BY <2>1, <2>2, TypeStep DEF SessionInv, Spoken, MapsInverse, ListsSound, vars, manager
  <2>3. CASE Route
    BY <2>1, <2>3, SessionByRoute
  <2>4. ASSUME NEW n \in Conns, Open(n) \/ Close(n) \/ \E m \in Speaks[n] : Say(n, m)
        PROVE  SessionInv'
    BY <2>1, <2>4, SpokenByPeers
  <2>5. QED BY <2>1, <2>2, <2>3, <2>4 DEF Next
<1>3. QED BY <1>1, <1>2, PTL DEF Spec

\* Whoever the peers are, as long as each keeps to its role: the two maps of
\* PubSubManager stay inverse of each other.
THEOREM MapsStayInverse == OneRolePerConnection => (Spec => []MapsInverse)
<1>1. SessionInv => MapsInverse
  BY DEF SessionInv
<1>2. QED BY <1>1, SessionInvariant, PTL

-----------------------------------------------------------------------------
(* Nothing is left behind.                                                 *)

LEMMA CleanupByPeers ==
  ASSUME ReportsDisconnect = TRUE, CleanupInv, NEW k \in Conns,
         Open(k) \/ Close(k) \/ \E m \in Speaks[k] : Say(k, m)
  PROVE  (QueueOrder /\ NothingLeftBehind)'
<1> USE DEF CleanupInv, SessionInv
<1>1. UNCHANGED manager
  BY DEF Open, Close, Say
<1>2. PICK e \in Event : /\ event_rx' = Append(event_rx, e)
                        /\ e.conn = k
                        /\ \/ /\ e.type # "Disconnected"
                              /\ link[k] # "closed"
                              /\ link' = [link EXCEPT ![k] = "open"]
                           \/ /\ e.type = "Disconnected"
                              /\ link[k] = "open"
                              /\ link' = [link EXCEPT ![k] = "closed"]
  <2>1. ConnectedEvent(k) \in Event /\ DisconnectedEvent(k) \in Event
    BY DEF ConnectedEvent, DisconnectedEvent, Event, NoMessage, Message
  <2>2. \A m \in Speaks[k] : MessageEvent(k, m) \in Event
    BY SpeaksAssumption DEF MessageEvent, Event
  <2>3. CASE Open(k)
    BY <2>1, <2>3 DEF Open, ConnectedEvent
  <2>4. CASE Close(k)
    BY <2>1, <2>4 DEF Close, DisconnectedEvent
  <2>5. ASSUME NEW m \in Speaks[k], Say(k, m)
        PROVE  link[k] = "open" /\ link' = [link EXCEPT ![k] = "open"]
               /\ event_rx' = Append(event_rx, MessageEvent(k, m))
    BY <2>5 DEF Say, TypeOK
  <2>6. QED BY <2>2, <2>3, <2>4, <2>5 DEF MessageEvent
<1> DEFINE last == Len(event_rx) + 1
<1>3. /\ DOMAIN event_rx' = 1 .. last /\ DOMAIN event_rx = 1 .. last - 1 /\ last \in Nat \ {0}
      /\ \A i \in DOMAIN event_rx : event_rx'[i] = event_rx[i]
      /\ event_rx'[last] = e
  BY <1>2, AppendElements DEF TypeOK
<1>4. \A n \in Conns : /\ n # k => link'[n] = link[n]
                       /\ link'[k] = (IF e.type = "Disconnected" THEN "closed" ELSE "open")
  BY <1>2 DEF TypeOK
<1>5. \A i \in DOMAIN event_rx : event_rx[i].conn \in Conns
  BY QueueOfEvents
<1>6. \A i \in DOMAIN event_rx :
        event_rx[i].type = "Disconnected" => event_rx[i].conn # k
  BY <1>2 DEF QueueOrder
<1> HIDE DEF last
<1>7. ASSUME NEW i \in DOMAIN event_rx', event_rx'[i].type = "Disconnected"
      PROVE  /\ link'[event_rx'[i].conn] = "closed"
             /\ \A j \in DOMAIN event_rx' : event_rx'[j].conn = event_rx'[i].conn => j <= i
  <2>1. CASE i = last
    BY <2>1, <1>2, <1>3, <1>4, <1>7
  <2>2. CASE i # last
    <3>1. i \in DOMAIN event_rx
      BY <2>2, <1>3
    <3>2. /\ event_rx[i].conn # k /\ link[event_rx[i].conn] = "closed"
          /\ \A j \in DOMAIN event_rx : event_rx[j].conn = event_rx[i].conn => j <= i
      BY <3>1, <1>3, <1>6, <1>7 DEF QueueOrder
    <3>3. \A j \in DOMAIN event_rx' : j \in DOMAIN event_rx \/ j = last
      BY <1>3
    <3>4. QED BY <3>1, <3>2, <3>3, <1>2, <1>3, <1>4, <1>5
  <2>3. QED BY <2>1, <2>2
<1>8. \A i \in DOMAIN event_rx' : link'[event_rx'[i].conn] # "new"
  <2>1. TAKE i \in DOMAIN event_rx'
  <2>2. CASE i = last
    BY <2>2, <1>2, <1>3, <1>4
  <2>3. CASE i # last
    <3>1. i \in DOMAIN event_rx /\ event_rx'[i] = event_rx[i]
      BY <2>3, <1>3
    <3>2. QED BY <3>1, <1>4, <1>5 DEF QueueOrder
  <2>4. QED BY <2>2, <2>3
<1>9. ASSUME NEW n \in Conns, n # k
      PROVE  Pending(n)' <=> Pending(n)
  BY <1>2, <1>3, <1>9 DEF Pending
<1>10. Pending(k)'
  BY <1>2, <1>3 DEF Pending
<1>11. ASSUME NEW n \in Conns, link'[n] = "closed", Pending(n)'
       PROVE  \E i \in DOMAIN event_rx' :
                event_rx'[i].conn = n /\ event_rx'[i].type = "Disconnected"
  <2>1. CASE n = k
    BY <2>1, <1>2, <1>3, <1>4, <1>11
  <2>2. CASE n # k
    <3>1. link[n] = "closed" /\ Pending(n)
      BY <2>2, <1>4, <1>9, <1>11
    <3>2. PICK i \in DOMAIN event_rx :
            event_rx[i].conn = n /\ event_rx[i].type = "Disconnected"
      BY <3>1 DEF QueueOrder
    <3>3. i \in DOMAIN event_rx' /\ event_rx'[i] = event_rx[i]
      BY <1>3
    <3>4. QED BY <3>2, <3>3
  <2>3. QED BY <2>1, <2>2
<1>12. QueueOrder'
  BY <1>7, <1>8, <1>11 DEF QueueOrder
<1>13. NothingLeftBehind'
  <2>1. SUFFICES ASSUME NEW n \in Conns, Gone(n)' PROVE Clean(n)'
    BY DEF NothingLeftBehind
  <2>2. n # k
    BY <2>1, <1>10 DEF Gone
  <2>3. Gone(n)
    BY <2>1, <2>2, <1>4, <1>9 DEF Gone
  <2>4. QED BY <2>3, <1>1 DEF NothingLeftBehind, Clean, manager
<1>14. QED BY <1>12, <1>13

\* An arm that handles an event of another connection leaves a clean one clean.
LEMMA StaysClean ==
  ASSUME SessionInv, Route, NEW n \in Conns, n # Event1.conn, Clean(n)
  PROVE  Clean(n)'
<1> USE DEF SessionInv
<1> DEFINE k == Event1.conn
           m == Event1.data
<1>0. k \in Conns /\ m \in Message
  BY RouteTakes
<1>1. CASE RouteConnected \/ RoutePositionUpdate \/ RouteCrossingAlert \/ RouteIgnored
  BY <1>1 DEF Clean, RouteConnected, RoutePositionUpdate, RouteCrossingAlert, RouteIgnored
<1>2. CASE RouteSubscribe \/ RouteUnsubscribe
  <2>1. m.client \in Clients /\ m.topic \in Topics
    BY <1>2, <1>0, MessageFields DEF RouteSubscribe, RouteUnsubscribe, TakeMessage
  <2>2. UNCHANGED <<client_connections, network_to_client_id, shard_connections>>
    BY <1>2 DEF RouteSubscribe, RouteUnsubscribe
  <2>3. ASSUME NEW t \in Topics PROVE subscriptions'[t][n] = 0
    <3> DEFINE uuid == client_connections[m.client]
    <3>1. subscriptions[t] \in Listing /\ subscriptions[t][n] = 0 /\ uuid # n
      BY <2>1 DEF TypeOK, Clean
    <3>2. \/ subscriptions'[t] = subscriptions[t]
          \/ uuid \in Conns /\ subscriptions'[t] = Listed(subscriptions[t], uuid)
          \/ uuid \in Conns /\ subscriptions'[t] = Unlisted(subscriptions[t], uuid)
      BY <1>2, <2>1 DEF RouteSubscribe, RouteUnsubscribe, TypeOK
    <3>3. QED BY <3>1, <3>2 DEF Listed, Unlisted, Listing
  <2>4. QED BY <2>2, <2>3 DEF Clean
<1>3. CASE RoutePublish
  BY <1>0, <1>3 DEF RoutePublish, Clean, Listed, TypeOK, Listing
<1>4. CASE RouteClientInput
  <2>1. m.client \in Clients
    BY <1>4, <1>0, MessageFields DEF RouteClientInput, TakeMessage
  <2>2. /\ UNCHANGED <<subscriptions, shard_connections>>
        /\ \A c \in Clients : client_connections'[c] \in {client_connections[c], k}
        /\ network_to_client_id'[n] = network_to_client_id[n]
    BY <1>4, <1>0, <2>1 DEF RouteClientInput, TypeOK
  <2>3. QED BY <2>2 DEF Clean
<1>5. CASE RouteDisconnected
  <2>1. CASE network_to_client_id[k] = NoClient
    BY <1>0, <1>5, <2>1 DEF RouteDisconnected, Clean, Unlisted, TypeOK, Listing
  <2>2. CASE network_to_client_id[k] # NoClient
    <3>1. network_to_client_id[k] \in Clients
      BY <1>0, <2>2 DEF TypeOK
    <3>2. /\ UNCHANGED shard_connections
          /\ network_to_client_id'[n] = network_to_client_id[n]
          /\ \A c \in Clients : client_connections'[c] \in {client_connections[c], NoConn}
          /\ \A t \in Topics : subscriptions'[t][n] = subscriptions[t][n]
      BY <1>0, <1>5, <2>2, <3>1 DEF RouteDisconnected, Unlisted, TypeOK, Listing
    <3>3. QED BY <3>2, NullAssumption DEF Clean
  <2>3. QED BY <2>1, <2>2
<1>6. QED BY <1>1, <1>2, <1>3, <1>4, <1>5 DEF Route

\* Handling the Disconnected of a connection leaves it clean: as a client it
\* is no shard, as a shard it is no client and under no topic.
LEMMA DisconnectedCleans ==
  ASSUME OneRolePerConnection, SessionInv, RouteDisconnected,
         NEW n \in Conns, n = Event1.conn
  PROVE  Clean(n)'
<1> USE DEF SessionInv
<1> DEFINE c == network_to_client_id[n]
<1>0. n \in Conns
  OBVIOUS
<1>1. CASE c = NoClient
  <2>1. \A d \in Clients : client_connections[d] # n
    BY <1>0, <1>1, NullAssumption DEF MapsInverse
  <2>2. \A t \in Topics : subscriptions[t][n] = 0
    BY <1>0, <1>1 DEF ListsSound
  <2>3. /\ UNCHANGED <<subscriptions, client_connections, network_to_client_id>>
        /\ shard_connections'[n] = 0
    BY <1>0, <1>1 DEF RouteDisconnected, Unlisted, TypeOK, Listing
  <2>4. QED BY <1>1, <2>1, <2>2, <2>3 DEF Clean
<1>2. CASE c # NoClient
  <2>1. c \in Clients /\ \A d \in Clients : client_connections[d] = n <=> d = c
    BY <1>0, <1>2 DEF TypeOK, MapsInverse
  <2>2. shard_connections[n] = 0
    <3>1. SUFFICES ASSUME shard_connections[n] # 0 PROVE FALSE
      OBVIOUS
    <3>2. PICK m1 \in Speaks[n] : m1.tag = "client_input"
      BY <1>0, <1>2 DEF Spoken
    <3>3. PICK m2 \in Speaks[n] : m2.tag = "publish"
      BY <1>0, <3>1 DEF Spoken
    <3>4. QED BY <1>0, <3>2, <3>3 DEF OneRolePerConnection
  <2>3. /\ network_to_client_id'[n] = NoClient
        /\ client_connections' = [client_connections EXCEPT ![c] = NoConn]
        /\ \A t \in Topics : subscriptions'[t][n] = 0
        /\ UNCHANGED shard_connections
    BY <1>0, <1>2 DEF RouteDisconnected, Unlisted, TypeOK, Listing
  <2>4. \A d \in Clients : client_connections'[d] # n
    BY <1>0, <2>1, <2>3, NullAssumption DEF TypeOK
  <2>5. QED BY <2>2, <2>3, <2>4 DEF Clean
<1>3. QED BY <1>1, <1>2

\* Routing an event leaves nothing behind of connections that are gone.
LEMMA CleanupByRoute ==
  ASSUME OneRolePerConnection, CleanupInv, Route
  PROVE  (QueueOrder /\ NothingLeftBehind)'
<1> USE DEF CleanupInv
<1>0. TypeOK /\ SessionInv
  BY DEF SessionInv
<1>1. /\ event_rx \in Seq(Event) /\ event_rx # <<>>
      /\ event_rx' = Tail(event_rx) /\ link' = link
      /\ Event1 = event_rx[1] /\ 1 \in DOMAIN event_rx
  BY <1>0, RouteTakes DEF TypeOK
<1>2. /\ \A i \in DOMAIN event_rx' : i + 1 \in DOMAIN event_rx /\ event_rx'[i] = event_rx[i + 1]
      /\ \A i \in DOMAIN event_rx : i = 1 \/ i - 1 \in DOMAIN event_rx'
      /\ DOMAIN event_rx \subseteq Nat \ {0} /\ DOMAIN event_rx' \subseteq Nat \ {0}
  BY <1>1, TailElements
<1>3. \A i \in DOMAIN event_rx' :
        event_rx'[i].type = "Disconnected" =>
          /\ link'[event_rx'[i].conn] = "closed"
          /\ \A j \in DOMAIN event_rx' : event_rx'[j].conn = event_rx'[i].conn => j <= i
  <2>1. SUFFICES ASSUME NEW i \in DOMAIN event_rx', event_rx'[i].type = "Disconnected"
                 PROVE  /\ link'[event_rx'[i].conn] = "closed"
                        /\ \A j \in DOMAIN event_rx' :
                             event_rx'[j].conn = event_rx'[i].conn => j <= i
    OBVIOUS
  <2>2. /\ link[event_rx[i + 1].conn] = "closed"
        /\ \A j \in DOMAIN event_rx : event_rx[j].conn = event_rx[i + 1].conn => j <= i + 1
    BY <1>2, <2>1 DEF QueueOrder
  <2>3. QED BY <1>1, <1>2, <2>2
<1>4. \A i \in DOMAIN event_rx' : link'[event_rx'[i].conn] # "new"
  BY <1>1, <1>2 DEF QueueOrder
\* the Disconnected of n is behind every other event of n
<1>5. ASSUME NEW n \in Conns, link[n] = "closed", Pending(n),
             ~(n = Event1.conn /\ Event1.type = "Disconnected")
      PROVE  \E i \in DOMAIN event_rx' :
               event_rx'[i].conn = n /\ event_rx'[i].type = "Disconnected"
  <2>1. PICK i \in DOMAIN event_rx : event_rx[i].conn = n /\ event_rx[i].type = "Disconnected"
    BY <1>5 DEF QueueOrder
  <2>2. i # 1
    BY <1>1, <1>5, <2>1
  <2>3. i - 1 \in DOMAIN event_rx' /\ event_rx'[i - 1] = event_rx[i]
    BY <1>2, <2>2
  <2>4. QED BY <2>1, <2>3
<1>6. ASSUME NEW n \in Conns, Pending(n)' PROVE Pending(n)
  BY <1>2, <1>6 DEF Pending
<1>7. ASSUME NEW n \in Conns, n = Event1.conn, Event1.type = "Disconnected"
      PROVE  ~Pending(n)'
  <2>1. \A j \in DOMAIN event_rx : event_rx[j].conn = n => j <= 1
    BY <1>1, <1>7 DEF QueueOrder
  <2>2. QED BY <1>2, <2>1 DEF Pending
<1>8. \A n \in Conns : (link[n] = "closed" /\ Pending(n))' =>
        \E i \in DOMAIN event_rx' : event_rx'[i].conn = n /\ event_rx'[i].type = "Disconnected"
  BY <1>1, <1>5, <1>6, <1>7
<1>9. QueueOrder'
  BY <1>3, <1>4, <1>8 DEF QueueOrder
<1>10. NothingLeftBehind'
  <2>1. SUFFICES ASSUME NEW n \in Conns, Gone(n)' PROVE Clean(n)'
    BY DEF NothingLeftBehind
  <2>2. link[n] = "closed" /\ ~Pending(n)'
    BY <1>1, <2>1 DEF Gone
  <2>3. CASE n = Event1.conn /\ Event1.type = "Disconnected"
    <3>1. RouteDisconnected
      BY <2>3 DEF Route, RouteConnected, RouteSubscribe, RouteUnsubscribe, RoutePublish,
        RouteClientInput, RoutePositionUpdate, RouteCrossingAlert, RouteIgnored, TakeMessage, Take
    <3>2. QED BY <1>0, <2>3, <3>1, DisconnectedCleans
  <2>4. CASE ~(n = Event1.conn /\ Event1.type = "Disconnected")
    <3>1. ~Pending(n)
      BY <1>5, <2>2, <2>4 DEF Pending
    <3>2. n # Event1.conn
      BY <1>1, <3>1 DEF Pending
    <3>3. Clean(n)
      BY <2>2, <3>1 DEF NothingLeftBehind, Gone
    <3>4. QED BY <1>0, <3>2, <3>3, StaysClean
  <2>5. QED BY <2>3, <2>4
<1>11. QED BY <1>9, <1>10

\* With a transport that reports disconnections and peers that keep to their
\* roles, a connection that ended leaves no trace in the broker.
THEOREM NothingStaysBehind ==
  ReportsDisconnect = TRUE /\ OneRolePerConnection => (Spec => []NothingLeftBehind)
<1> SUFFICES ASSUME ReportsDisconnect = TRUE, OneRolePerConnection
             PROVE  Spec => []NothingLeftBehind
  OBVIOUS
<1>1. Init => QueueOrder /\ NothingLeftBehind
  BY DEF Init, QueueOrder, NothingLeftBehind, Gone, Pending
<1>2. SessionInv /\ SessionInv' /\ QueueOrder /\ NothingLeftBehind /\ [Next]_vars
        => QueueOrder' /\ NothingLeftBehind'
  <2>1. SUFFICES ASSUME CleanupInv, [Next]_vars PROVE (QueueOrder /\ NothingLeftBehind)'
    BY DEF CleanupInv
  <2>2. CASE UNCHANGED vars
    BY <2>1, <2>2 DEF CleanupInv, QueueOrder, NothingLeftBehind, Gone, Clean, Pending, vars, manager
  <2>3. CASE Route
    BY <2>1, <2>3, CleanupByRoute
  <2>4. ASSUME NEW k \in Conns, Open(k) \/ Close(k) \/ \E m \in Speaks[k] : Say(k, m)
        PROVE  (QueueOrder /\ NothingLeftBehind)'
    BY <2>1, <2>4, CleanupByPeers
  <2>5. QED BY <2>1, <2>2, <2>3, <2>4 DEF Next
<1>3. Spec => []SessionInv
  BY SessionInvariant
<1>4. QED BY <1>1, <1>2, <1>3, PTL DEF Spec

-----------------------------------------------------------------------------
(* The broker implements PubSub.                                           *)

\* A list is the set of those it names, each once.
LEMMA ListIsSet ==
  ASSUME NEW list \in Listing, NEW S, \A n \in Conns : list[n] = (IF n \in S THEN 1 ELSE 0),
         NEW kind
  PROVE  [kind |-> kind, to |-> list] = Promise!ExactlyOnce(kind, S)
<1>1. list = [n \in Conns |-> IF n \in S THEN 1 ELSE 0]
  BY DEF Listing
<1>2. QED BY <1>1 DEF Promise!ExactlyOnce

\* The connections under a topic are those of its subscribers.
LEMMA TopicIsSubscribers ==
  ASSUME SessionInv, NEW t \in Topics, NEW kind
  PROVE  [kind |-> kind, to |-> subscriptions[t]]
           = Promise!ExactlyOnce(kind, Promise!Subscribers(t))
<1> USE DEF SessionInv
<1>1. subscriptions[t] \in Listing
  BY DEF TypeOK
<1>2. ASSUME NEW n \in Conns
      PROVE  subscriptions[t][n] = (IF n \in Promise!Subscribers(t) THEN 1 ELSE 0)
  <2>1. n \in Promise!Subscribers(t) <=>
          \E c \in Clients : <<c, t>> \in Subscribed /\ n = client_connections[c]
    BY DEF Promise!Subscribers
  <2>2. \A c \in Clients : <<c, t>> \in Subscribed <=>
          client_connections[c] # NoConn /\ subscriptions[t][client_connections[c]] > 0
    BY DEF Subscribed
  <2>3. ASSUME subscriptions[t][n] = 0 PROVE n \notin Promise!Subscribers(t)
    <3>1. SUFFICES ASSUME NEW c \in Clients, <<c, t>> \in Subscribed, n = client_connections[c]
                   PROVE  FALSE
      BY <2>1
    <3>2. subscriptions[t][n] > 0
      BY <2>2, <3>1
    <3>3. ~(0 > 0)
      OBVIOUS
    <3>4. QED BY <2>3, <3>2, <3>3
  <2>4. ASSUME subscriptions[t][n] = 1 PROVE n \in Promise!Subscribers(t)
    <3>1. network_to_client_id[n] \in Clients
      BY <2>4 DEF ListsSound, TypeOK
    <3>2. client_connections[network_to_client_id[n]] = n
      BY <3>1 DEF MapsInverse
    <3>3. QED BY <2>1, <2>2, <2>4, <3>1, <3>2, NullAssumption
  <2>5. subscriptions[t][n] \in {0, 1}
    BY DEF ListsSound
  <2>6. CASE n \in Promise!Subscribers(t)
    BY <2>3, <2>5, <2>6
  <2>7. CASE n \notin Promise!Subscribers(t)
    BY <2>4, <2>5, <2>7
  <2>8. QED BY <2>6, <2>7
<1>3. QED BY <1>1, <1>2, ListIsSet

\* The connections of shards are the shards, once each.
LEMMA ShardsAreListed ==
  ASSUME SessionInv, NEW kind
  PROVE  [kind |-> kind, to |-> shard_connections] = Promise!ExactlyOnce(kind, Shards)
<1>1. shard_connections \in Listing
  BY DEF SessionInv, TypeOK
<1>2. \A n \in Conns : shard_connections[n] = (IF n \in Shards THEN 1 ELSE 0)
  BY DEF SessionInv, ListsSound, Shards
<1>3. QED BY <1>1, <1>2, ListIsSet

\* To send to nobody is to send nothing.
LEMMA NoSendsIsNothing ==
  [kind |-> "none", to |-> EmptyList] = Promise!Nothing
BY DEF Promise!Nothing, Promise!ExactlyOnce, EmptyList

\* Every step of the broker is a step of PubSub or a stutter.
LEMMA RefinementStep ==
  ASSUME OneRolePerConnection, SessionInv, [Next]_vars
  PROVE  [Promise!Next]_(Promise!vars)
<1> USE DEF SessionInv
<1> DEFINE n == Event1.conn
           m == Event1.data
<1>0. SessionInv' /\ TypeOK'
  <2>1. CASE Route
    BY <2>1, SessionByRoute
  <2>2. CASE ~Route
    BY <2>2, SpokenByPeers, TypeStep DEF Next, Spoken, MapsInverse, ListsSound, vars, manager
  <2>3. QED BY <2>1, <2>2
<1>1. CASE UNCHANGED <<manager, command_tx>>
  BY <1>1 DEF Promise!vars, Subscribed, Shards, Delivery, manager
<1>2. CASE Route
  <2>0. n \in Conns /\ m \in Message /\ (Event1.type = "Message" => m \in Speaks[n])
    BY <1>2, RouteTakes DEF Spoken
  <2>1. CASE RouteConnected \/ RouteIgnored \/ RoutePositionUpdate
    <3>1. UNCHANGED <<subscriptions, client_connections, network_to_client_id, shard_connections>>
      BY <2>1 DEF RouteConnected, RouteIgnored, RoutePositionUpdate
    <3>2. Delivery' = Promise!Nothing
      BY <2>1, NoSendsIsNothing
        DEF RouteConnected, RouteIgnored, RoutePositionUpdate, NoSends, SendTo, Delivery
    <3>3. Subscribed' = Subscribed /\ Shards' = Shards
      BY <3>1 DEF Subscribed, Shards
    <3>4. QED BY <3>1, <3>2, <3>3 DEF Promise!Next, Promise!Quiet
  <2>2. CASE RouteSubscribe
    <3> DEFINE c == m.client
               t == m.topic
               uuid == client_connections[c]
    <3>1. c \in Clients /\ t \in Topics
      BY <2>2, <2>0, MessageFields DEF RouteSubscribe, TakeMessage
    <3>2. /\ UNCHANGED <<client_connections, shard_connections>>
          /\ Delivery' = Promise!Nothing /\ Shards' = Shards
      BY <2>2, NoSendsIsNothing DEF RouteSubscribe, NoSends, SendTo, Delivery, Shards
    <3>3. CASE uuid = NoConn
      <4>1. subscriptions' = subscriptions
        BY <2>2, <3>3 DEF RouteSubscribe
      <4>2. Subscribed' = Subscribed
        BY <3>2, <4>1 DEF Subscribed
      <4>3. QED BY <3>2, <4>2 DEF Promise!Next, Promise!Quiet
    <3>4. CASE uuid # NoConn
      <4>1. uuid \in Conns /\ subscriptions' = [subscriptions EXCEPT ![t] = Listed(@, uuid)]
        BY <2>2, <3>1, <3>4 DEF RouteSubscribe, TypeOK
      <4>2. \A u \in Topics, k \in Conns :
              subscriptions'[u][k] > 0 <=> subscriptions[u][k] > 0 \/ (u = t /\ k = uuid)
        BY <3>1, <4>1 DEF Listed, TypeOK, Listing, ListsSound
      <4>3. \A d \in Clients : client_connections[d] = uuid => d = c
        BY <3>1, <4>1 DEF MapsInverse
      <4>4. ASSUME NEW d \in Clients, NEW u \in Topics
            PROVE  <<d, u>> \in Subscribed' <=> <<d, u>> \in Subscribed \/ <<d, u>> = <<c, t>>
        BY <3>1, <3>2, <3>4, <4>1, <4>2, <4>3 DEF Subscribed, TypeOK
      <4>5. Subscribed' = Subscribed \cup {<<c, t>>}
        BY <3>1, <4>4 DEF Subscribed
      <4>6. QED BY <3>1, <3>2, <3>4, <4>5 DEF Promise!Next, Promise!Subscribe
    <3>5. QED BY <3>3, <3>4
  <2>3. CASE RouteUnsubscribe
    <3> DEFINE c == m.client
               t == m.topic
               uuid == client_connections[c]
    <3>1. c \in Clients /\ t \in Topics
      BY <2>3, <2>0, MessageFields DEF RouteUnsubscribe, TakeMessage
    <3>2. /\ UNCHANGED <<client_connections, shard_connections>>
          /\ Delivery' = Promise!Nothing /\ Shards' = Shards
      BY <2>3, NoSendsIsNothing DEF RouteUnsubscribe, NoSends, SendTo, Delivery, Shards
    <3>3. ASSUME NEW d \in Clients, NEW u \in Topics
          PROVE  <<d, u>> \in Subscribed' <=> <<d, u>> \in Subscribed /\ <<d, u>> # <<c, t>>
      <4>1. CASE uuid = NoConn
        BY <2>3, <3>1, <3>2, <4>1 DEF RouteUnsubscribe, Subscribed
      <4>2. CASE uuid # NoConn
        <5>1. uuid \in Conns /\ subscriptions' = [subscriptions EXCEPT ![t] = Unlisted(@, uuid)]
          BY <2>3, <3>1, <4>2 DEF RouteUnsubscribe, TypeOK
        <5>2. \A k \in Conns :
                subscriptions'[u][k] > 0 <=> subscriptions[u][k] > 0 /\ ~(u = t /\ k = uuid)
          BY <3>1, <5>1 DEF Unlisted, TypeOK, Listing
        <5>3. client_connections[d] = uuid => d = c
          BY <3>1, <5>1 DEF MapsInverse
        <5>4. QED BY <3>1, <3>2, <4>2, <5>1, <5>2, <5>3 DEF Subscribed, TypeOK
      <4>3. QED BY <4>1, <4>2
    <3>4. Subscribed' = Subscribed \ {<<c, t>>}
      BY <3>3 DEF Subscribed
    <3>5. QED BY <3>1, <3>2, <3>4 DEF Promise!Next, Promise!Unsubscribe
  <2>4. CASE RoutePublish
    <3> DEFINE t == m.topic
    <3>1. t \in Topics /\ m \in Speaks[n] /\ m.tag = "publish"
      BY <2>4, <2>0, MessageFields DEF RoutePublish, TakeMessage, Take
    <3>2. \A c \in Clients : client_connections[c] # n
      <4>1. SUFFICES ASSUME NEW c \in Clients, client_connections[c] = n PROVE FALSE
        OBVIOUS
      <4>2. network_to_client_id[n] = c
        BY <2>0, <4>1 DEF MapsInverse
      <4>3. PICK m1 \in Speaks[n] : m1.tag = "client_input"
        BY <2>0, <4>2, NullAssumption DEF Spoken
      <4>4. QED BY <2>0, <3>1, <4>3 DEF OneRolePerConnection
    <3>3. Shards' = Shards \cup {n}
      BY <2>4, <2>0 DEF RoutePublish, Listed, Shards, TypeOK, Listing, ListsSound
    <3>4. UNCHANGED client_connections /\ Subscribed' = Subscribed
      BY <2>4 DEF RoutePublish, Subscribed
    <3>5. Delivery' \in {Promise!ExactlyOnce("broadcast", Promise!Subscribers(t)), Promise!Nothing}
      BY <2>4, <3>1, TopicIsSubscribers, NoSendsIsNothing
        DEF RoutePublish, SendTo, NoSends, Delivery
    <3>6. QED BY <2>0, <3>1, <3>2, <3>3, <3>4, <3>5 DEF Promise!Next, Promise!Publish
  <2>5. CASE RouteClientInput
    <3> DEFINE c == m.client
    <3>1. c \in Clients /\ m \in Speaks[n] /\ m.tag = "client_input"
      BY <2>5, <2>0, MessageFields DEF RouteClientInput, TakeMessage, Take
    <3>2. n \notin Shards
      <4>1. SUFFICES ASSUME shard_connections[n] # 0 PROVE FALSE
        BY <2>0 DEF Shards, TypeOK, Listing
      <4>2. PICK m2 \in Speaks[n] : m2.tag = "publish"
        BY <2>0, <4>1 DEF Spoken
      <4>3. QED BY <2>0, <3>1, <4>2 DEF OneRolePerConnection
    <3>3. \A d \in Clients : client_connections[d] = n => d = c
      <4>1. SUFFICES ASSUME NEW d \in Clients, client_connections[d] = n PROVE d = c
        OBVIOUS
      <4>2. network_to_client_id[n] = d
        BY <2>0, <4>1 DEF MapsInverse
      <4>3. PICK m1 \in Speaks[n] : m1.tag = "client_input" /\ m1.client = d
        BY <2>0, <4>2, NullAssumption DEF Spoken
      <4>4. QED BY <2>0, <3>1, <4>3 DEF OneRolePerConnection
    <3>4. client_connections' = IF client_connections[c] = NoConn
                                THEN [client_connections EXCEPT ![c] = n] ELSE client_connections
      BY <2>5 DEF RouteClientInput, Registers
    <3>5. UNCHANGED <<subscriptions, shard_connections>> /\ Shards' = Shards
      BY <2>5 DEF RouteClientInput, Shards
    <3>6. Subscribed' = Subscribed
      <4>1. CASE client_connections[c] # NoConn
        BY <3>4, <3>5, <4>1 DEF Subscribed
      <4>2. CASE client_connections[c] = NoConn
        <5>1. \A d \in Clients : d # c => client_connections'[d] = client_connections[d]
          BY <3>1, <3>4 DEF TypeOK
        <5>2. client_connections'[c] = n
          BY <2>0, <3>1, <3>4, <4>2 DEF TypeOK
        <5>3. network_to_client_id[n] = NoClient
          <6>1. \A d \in Clients : client_connections[d] # n
            BY <2>0, <3>3, <4>2, NullAssumption
          <6>2. QED BY <2>0, <6>1 DEF MapsInverse, TypeOK
        <5>4. \A t \in Topics : subscriptions'[t][n] = 0
          BY <2>0, <3>5, <5>3 DEF ListsSound
        <5>5. ASSUME NEW d \in Clients, NEW t \in Topics
              PROVE  <<d, t>> \in Subscribed' <=> <<d, t>> \in Subscribed
          BY <3>5, <4>2, <5>1, <5>2, <5>4 DEF Subscribed
        <5>6. QED BY <5>5 DEF Subscribed
      <4>3. QED BY <4>1, <4>2
    <3>7. Delivery' = Promise!ExactlyOnce("input", Shards)
      BY <2>5, ShardsAreListed DEF RouteClientInput, SendTo, Delivery
    <3>8. QED
      BY <2>0, <3>1, <3>2, <3>3, <3>4, <3>5, <3>6, <3>7 DEF Promise!Next, Promise!Input
  <2>6. CASE RouteCrossingAlert
    <3>1. m.topic \in Topics
      BY <2>6, <2>0, MessageFields DEF RouteCrossingAlert, TakeMessage
    <3>2. /\ UNCHANGED <<client_connections, shard_connections>>
          /\ Subscribed' = Subscribed /\ Shards' = Shards
      BY <2>6 DEF RouteCrossingAlert, Subscribed, Shards
    <3>3. Delivery' = Promise!ExactlyOnce("alert", Promise!Subscribers(m.topic))
      BY <2>6, <3>1, TopicIsSubscribers DEF RouteCrossingAlert, SendTo, Delivery
    <3>4. QED BY <3>1, <3>2, <3>3 DEF Promise!Next, Promise!Alert
  <2>7. CASE RouteDisconnected
    <3> DEFINE c == network_to_client_id[n]
               gone == {d \in Clients : client_connections[d] = n}
    <3>1. shard_connections'[n] = 0 /\ \A t \in Topics : subscriptions'[t][n] = 0
      <4>1. PICK k \in Conns : k = Event1.conn
        BY <2>0
      <4>2. Clean(k)'
        BY <2>7, <4>1, DisconnectedCleans
      <4>3. QED BY <4>1, <4>2 DEF Clean
    <3>2. Delivery' = Promise!Nothing
      BY <2>7, NoSendsIsNothing DEF RouteDisconnected, NoSends, SendTo, Delivery
    <3>3. \A d \in Clients : client_connections'[d] =
            IF d \in gone THEN NoConn ELSE client_connections[d]
      <4>1. CASE c = NoClient
        BY <2>7, <2>0, <4>1, NullAssumption DEF RouteDisconnected, MapsInverse
      <4>2. CASE c # NoClient
        BY <2>7, <2>0, <4>2 DEF RouteDisconnected, MapsInverse, TypeOK
      <4>3. QED BY <4>1, <4>2
    <3>4. client_connections' = [d \in Clients |-> IF d \in gone THEN NoConn ELSE client_connections[d]]
      BY <1>0, <3>3 DEF TypeOK
    <3>5. /\ \A k \in Conns : k # n => shard_connections'[k] = shard_connections[k]
          /\ \A t \in Topics, k \in Conns : k # n => subscriptions'[t][k] = subscriptions[t][k]
      BY <2>7, <2>0 DEF RouteDisconnected, Unlisted, TypeOK, Listing
    <3>6. Shards' = Shards \ {n}
      BY <3>1, <3>5 DEF Shards
    <3>7. ASSUME NEW d \in Clients, NEW t \in Topics
          PROVE  <<d, t>> \in Subscribed' <=> <<d, t>> \in Subscribed /\ d \notin gone
      <4>1. CASE d \in gone
        BY <3>3, <4>1 DEF Subscribed
      <4>2. CASE d \notin gone
        <5>1. client_connections'[d] = client_connections[d] /\ client_connections[d] # n
          BY <3>3, <4>2
        <5>2. QED BY <3>5, <5>1, <4>2 DEF Subscribed, TypeOK
      <4>3. QED BY <4>1, <4>2
    <3>8. Subscribed' = {p \in Subscribed : p[1] \notin gone}
      BY <3>7 DEF Subscribed
    <3>9. QED BY <2>0, <3>2, <3>4, <3>6, <3>8 DEF Promise!Next, Promise!Leave
  <2>8. QED BY <1>2, <2>1, <2>2, <2>3, <2>4, <2>5, <2>6, <2>7 DEF Route
<1>3. CASE ~Route
  BY <1>1, <1>3 DEF Next, Open, Close, Say, vars
<1>4. QED BY <1>2, <1>3

\* Peers that keep to their roles get from the broker what PubSub promises:
\* every Spec behaviour is, through the mapping, a behaviour of PubSub.
THEOREM BrokerImplementsPubSub == OneRolePerConnection => (Spec => ImplementsPubSub)
<1> SUFFICES ASSUME OneRolePerConnection PROVE Spec => ImplementsPubSub
  OBVIOUS
<1>1. Init => Promise!Init
  <2>1. SUFFICES ASSUME Init PROVE Promise!Init
    OBVIOUS
  <2>2. Delivery = Promise!Nothing
    BY <2>1, NoSendsIsNothing DEF Init, NoSends, SendTo, Delivery
  <2>3. QED BY <2>1, <2>2 DEF Init, Promise!Init, Subscribed, Shards, EmptyList
<1>2. SessionInv /\ [Next]_vars => [Promise!Next]_(Promise!vars)
  BY RefinementStep
<1>3. Spec => []SessionInv
  BY SessionInvariant
<1>4. QED BY <1>1, <1>2, <1>3, PTL DEF Spec, ImplementsPubSub, Promise!Spec
=============================================================================
