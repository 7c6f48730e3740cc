------------------------------ MODULE MCBroker ------------------------------
(***************************************************************************)
(* Small instances of Broker. The connections are named after their peers: *)
(* player "A" owns "a1" and "a2" (one after the other, or both at once),   *)
(* player "B" owns "b1"; "shard" and "spatial" are the services.           *)
(* Each .cfg picks the connections and the topics of its run.              *)
(***************************************************************************)
EXTENDS Broker

InputOf(c) == [tag |-> "client_input", client |-> c]

FromShard ==
  [tag : {"publish"}, topic : Topics, whole : BOOLEAN] \cup [tag : {"position_update"}]

FromSpatial ==
  [tag : {"subscribe", "unsubscribe"}, client : Clients, topic : Topics]
    \cup [tag : {"crossing_alert"}, client : {"A"}, topic : Topics]
    \cup {NoMessage}

MCSpeaks == [n \in Conns |->
  CASE n \in {"a1", "a2"} -> {InputOf("A")}
    [] n = "b1"           -> {InputOf("B")}
    [] n = "shard"        -> FromShard
    [] n = "spatial"      -> FromSpatial]

ASSUME OneRolePerConnection
=============================================================================
