------------------------------ MODULE Spatial -------------------------------
(***************************************************************************)
(* The spatial service (spatial_service/src): it takes the positions of    *)
(* the players, finds the quadrant of the world each is in (spatial.rs),   *)
(* and moves the player's subscription from the topic of the shard it left *)
(* to that of the one it entered (listen_position_updates in main.rs). It  *)
(* is composed with the broker as PubSub promises it; Broker implements    *)
(* PubSub.                                                                 *)
(*                                                                         *)
(* Coordinates are integers: the code compares and halves them only.       *)
(***************************************************************************)
EXTENDS Integers, Sequences, FiniteSets, FiniteSetsExt

CONSTANTS
  Clients,       \* players; each plays on a connection of its own
  NoConn,
  Half,          \* the world is the square from -Half to Half
  Margin,        \* distance to a border at which the neighbour is alerted
  Positions,     \* the positions reported, <<x, y>>
  StreamExists,  \* does the stream the service sends on exist?
  WireBound      \* bound on the commands that wait

Shards == 0 .. 3
NoShard == 4
Nowhere == <<>>

ASSUME WorldAssumption == Half \in Nat \ {0} /\ Margin \in Nat \ {0} /\ Margin < Half
ASSUME PositionsAssumption == Positions \subseteq Int \X Int
ASSUME ClientsAssumption == NoConn \notin Clients

VARIABLES
  broker_conn_id,     \* is the connection to the broker known?
  last_known_shards,  \* the shard of a player, NoShard before the first
  position,           \* the last position handled of a player
  wire,               \* the commands handed to the backend, until the broker has them
  session, subscribed, shards, delivery,  \* the broker
  missed      \* for the properties: who left, or had a Subscribe dropped by the broker

broker == <<session, subscribed, shards, delivery>>
vars == <<broker_conn_id, last_known_shards, position, wire, broker, missed>>

PubSub == INSTANCE PubSub WITH Topics <- Shards, Conns <- Clients

Init ==
  /\ broker_conn_id = FALSE
  /\ last_known_shards = [c \in Clients |-> NoShard]
  /\ position = [c \in Clients |-> Nowhere]
  /\ wire = <<>>
  /\ missed = {}
  /\ PubSub!Init

-----------------------------------------------------------------------------
(* QuadTree: the world, subdivided once. Borders belong to every rectangle *)
(* they touch; children are tried in order.                                *)

Rect(minx, miny, maxx, maxy) == [min |-> <<minx, miny>>, max |-> <<maxx, maxy>>]

contains(r, pos) == \A i \in 1 .. 2 : r.min[i] <= pos[i] /\ pos[i] <= r.max[i]

\* The intersection has an area.
intersects(r, q) == \A i \in 1 .. 2 : r.min[i] < q.max[i] /\ q.min[i] < r.max[i]

World == Rect(-Half, -Half, Half, Half)

children ==
  [shard \in Shards |->
     CASE shard = 0 -> Rect(-Half, 0, 0, Half)       \* r_nw
       [] shard = 1 -> Rect(0, 0, Half, Half)        \* r_ne
       [] shard = 2 -> Rect(-Half, -Half, 0, 0)      \* r_sw
       [] shard = 3 -> Rect(0, -Half, Half, 0)]      \* r_se

\* Mutant of shard_for: the later child wins on a border.
LastChildWins(pos) ==
  LET hits == {shard \in Shards : contains(children[shard], pos)} IN
  IF contains(World, pos) /\ hits # {} THEN Max(hits) ELSE NoShard

shard_for(pos) ==
  LET hits == {shard \in Shards : contains(children[shard], pos)} IN
  IF contains(World, pos) /\ hits # {} THEN Min(hits) ELSE NoShard

\* Mutant of shards_near: the box is margin wide, not twice that.
HalfTheBox(pos, margin) ==
  LET half == margin \div 2
      player_rect == Rect(pos[1] - half, pos[2] - half, pos[1] + half, pos[2] + half) IN
  {shard \in Shards : intersects(World, player_rect) /\ intersects(children[shard], player_rect)}

shards_near(pos, margin) ==
  LET player_rect == Rect(pos[1] - margin, pos[2] - margin, pos[1] + margin, pos[2] + margin) IN
  {shard \in Shards : intersects(World, player_rect) /\ intersects(children[shard], player_rect)}

-----------------------------------------------------------------------------
(* listen_position_updates.                                                *)

HandleConnected ==
  /\ ~broker_conn_id
  /\ broker_conn_id' = TRUE
  /\ UNCHANGED <<last_known_shards, position, wire, broker, missed>>

Command(tag, c, shard) == [tag |-> tag, client |-> c, topic |-> shard]

\* Mutants of Migration: Subscribe before Unsubscribe; only the first shard is
\* entered.
EnterThenLeave(c, old, new) ==
  IF new \in {NoShard, old} THEN <<>>
  ELSE <<Command("subscribe", c, new)>>
         \o (IF old = NoShard THEN <<>> ELSE <<Command("unsubscribe", c, old)>>)

EnterOnlyOnce(c, old, new) ==
  IF new = NoShard \/ old # NoShard THEN <<>> ELSE <<Command("subscribe", c, new)>>

\* Unsubscribe from the old shard, if there is one, then Subscribe to the new.
Migration(c, old, new) ==
  IF new \in {NoShard, old} THEN <<>>
  ELSE (IF old = NoShard THEN <<>> ELSE <<Command("unsubscribe", c, old)>>)
         \o <<Command("subscribe", c, new)>>

\* Near a border, one CrossingAlert for the first of the other shards.
CrossingAlert(c, current, near) ==
  IF Cardinality(near) > 1 /\ current # NoShard
  THEN <<Command("crossing_alert", c, Min(near \ {current}))>>
  ELSE <<>>

\* Positions that come before the connection is known are skipped.
HandlePosition(c, pos) ==
  LET old == last_known_shards[c]
      new == shard_for(pos)
      current == IF new = NoShard THEN old ELSE new
      commands == Migration(c, old, new) \o CrossingAlert(c, current, shards_near(pos, Margin))
  IN
  /\ broker_conn_id
  /\ Len(wire) <= WireBound
  /\ last_known_shards' = [last_known_shards EXCEPT ![c] = current]
  /\ position' = [position EXCEPT ![c] = pos]
  /\ wire' = wire \o commands
  /\ UNCHANGED <<broker_conn_id, broker, missed>>

\* The loop of the service's backend refuses to send on a stream it does not know.
Refuse ==
  /\ wire # <<>>
  /\ wire' = Tail(wire)
  /\ UNCHANGED <<broker_conn_id, last_known_shards, position, broker, missed>>

-----------------------------------------------------------------------------
(* The broker, and the players that play through it.                       *)

BrokerRoutes ==
  /\ wire # <<>>
  /\ wire' = Tail(wire)
  /\ LET m == Head(wire) IN
     \/ /\ m.tag = "subscribe" /\ PubSub!Subscribe(m.client, m.topic)
        /\ UNCHANGED missed
     \/ /\ m.tag = "subscribe" /\ session[m.client] = NoConn /\ PubSub!Quiet
        /\ missed' = missed \cup {m.client}
     \/ m.tag = "unsubscribe" /\ PubSub!Unsubscribe(m.client, m.topic) /\ UNCHANGED missed
     \/ m.tag = "crossing_alert" /\ PubSub!Alert(m.topic) /\ UNCHANGED missed
  /\ UNCHANGED <<broker_conn_id, last_known_shards, position>>

\* The fate of a command the service has handed to its backend.
Deliver == IF StreamExists THEN BrokerRoutes ELSE Refuse

Play(c) ==
  /\ PubSub!Input(c, c)
  /\ UNCHANGED <<broker_conn_id, last_known_shards, position, wire, missed>>

Leave(c) ==
  /\ PubSub!Leave(c)
  /\ missed' = missed \cup {c}
  /\ UNCHANGED <<broker_conn_id, last_known_shards, position, wire>>

Next ==
  \/ HandleConnected \/ Deliver
  \/ \E c \in Clients :
       Play(c) \/ Leave(c) \/ \E pos \in Positions : HandlePosition(c, pos)

Spec == Init /\ [][Next]_vars

-----------------------------------------------------------------------------
(* Properties.                                                             *)

Inside(pos) == \A i \in 1 .. 2 : -Half <= pos[i] /\ pos[i] <= Half

\* The quadrants by the signs of the coordinates, the axes going to the north
\* and to the west.
SignShard(pos) == (IF pos[1] <= 0 THEN 0 ELSE 1) + (IF pos[2] >= 0 THEN 0 ELSE 2)

\* A player in the world is on record in the quadrant the signs of its position
\* give: the tree leaves no gap, and on the borders its order decides.
OnRecordWhereItIs ==
  \A c \in Clients :
    position[c] # Nowhere /\ Inside(position[c]) =>
      last_known_shards[c] = SignShard(position[c])

\* The quadrants less than Margin away, by the distance to the two axes.
WithinMargin(pos) ==
  {s \in Shards :
     /\ s \in {0, 2} => pos[1] < Margin
     /\ s \in {1, 3} => pos[1] > -Margin
     /\ s \in {0, 1} => pos[2] > -Margin
     /\ s \in {2, 3} => pos[2] < Margin}

\* The service asks for an alert of a neighbouring shard exactly when a player in the
\* world is within the margin of one, and never of the shard the player is in: that is
\* what it hands to its backend, whatever becomes of it there (lines 104-117).
AlertsTheNeighbour ==
  [][\A c \in Clients :
       position'[c] # position[c] /\ Inside(position'[c]) =>
         LET others == WithinMargin(position'[c]) \ {last_known_shards'[c]}
             alerts == {wire'[i].topic : i \in {j \in DOMAIN wire' :
                          j > Len(wire) /\ wire'[j].tag = "crossing_alert"}}
         IN alerts \subseteq others /\ (others # {} <=> alerts # {})]_vars

Topics(c) == {s \in Shards : <<c, s>> \in subscribed}

\* A player is never under the topics of two shards: the old one is left before
\* the new one is entered (lines 78-102).
NeverInTwoShards == \A c \in Clients : Cardinality(Topics(c)) <= 1

\* With every command gone, a connected player is under the topic of the shard it is on record
\* in, whatever the others do: "Si le shard a changé -> Unsubscribe(ancien) puis
\* Subscribe(nouveau)" (line 74). Not a player that has left, nor one whose Subscribe
\* came before its session and was dropped: neither is repeated.
SubscribedWhereOnRecord ==
  wire = <<>> =>
    \A c \in Clients \ missed :
      session[c] # NoConn /\ last_known_shards[c] # NoShard =>
        Topics(c) = {last_known_shards[c]}
=============================================================================
