------------------------------- MODULE PubSub -------------------------------
(***************************************************************************)
(* What the broker promises its users, with no mention of how it stores    *)
(* it: a player (client) has at most one session, a subscription belongs   *)
(* to the player and not to a connection, a publication reaches every      *)
(* subscribed player exactly once and nobody else, an input reaches every  *)
(* known shard exactly once, and a connection that leaves takes with it    *)
(* everything it stood for.                                                *)
(***************************************************************************)
EXTENDS Naturals

CONSTANTS
  Clients,   \* player ids
  Topics,    \* topics of the publish/subscribe space
  Conns,     \* connections
  NoConn     \* no connection

VARIABLES
  session,     \* session[c]: the connection player c is reached through
  subscribed,  \* the <<player, topic>> pairs in force
  shards,      \* the connections known to be simulation shards
  delivery     \* what the last step sent: its kind, and how often to whom

vars == <<session, subscribed, shards, delivery>>

ExactlyOnce(kind, receivers) ==
  [kind |-> kind, to |-> [n \in Conns |-> IF n \in receivers THEN 1 ELSE 0]]

Nothing == ExactlyOnce("none", {})

Subscribers(t) == {session[c] : c \in {d \in Clients : <<d, t>> \in subscribed}}

Init ==
  /\ session = [c \in Clients |-> NoConn]
  /\ subscribed = {}
  /\ shards = {}
  /\ delivery = Nothing

\* An input of player c on connection n: the first one opens the session.
Input(c, n) ==
  /\ n \notin shards
  /\ \A d \in Clients : session[d] = n => d = c
  /\ session' = IF session[c] = NoConn THEN [session EXCEPT ![c] = n] ELSE session
  /\ delivery' = ExactlyOnce("input", shards)
  /\ UNCHANGED <<subscribed, shards>>

Subscribe(c, t) ==
  /\ session[c] # NoConn
  /\ subscribed' = subscribed \cup {<<c, t>>}
  /\ delivery' = Nothing
  /\ UNCHANGED <<session, shards>>

Unsubscribe(c, t) ==
  /\ subscribed' = subscribed \ {<<c, t>>}
  /\ delivery' = Nothing
  /\ UNCHANGED <<session, shards>>

\* A shard is known from its first publication on, even one cut short.
Publish(n, t) ==
  /\ \A c \in Clients : session[c] # n
  /\ shards' = shards \cup {n}
  /\ delivery' \in {ExactlyOnce("broadcast", Subscribers(t)), Nothing}
  /\ UNCHANGED <<session, subscribed>>

Alert(t) ==
  /\ delivery' = ExactlyOnce("alert", Subscribers(t))
  /\ UNCHANGED <<session, subscribed, shards>>

\* A connection ends: its player, if any, is logged out and its
\* subscriptions are void; it is no shard any more.
Leave(n) ==
  LET gone == {c \in Clients : session[c] = n} IN
  /\ session' = [c \in Clients |-> IF c \in gone THEN NoConn ELSE session[c]]
  /\ subscribed' = {p \in subscribed : p[1] \notin gone}
  /\ shards' = shards \ {n}
  /\ delivery' = Nothing

\* A step that concerns no player and no shard.
Quiet ==
  /\ delivery' = Nothing
  /\ UNCHANGED <<session, subscribed, shards>>

Next ==
  \/ \E c \in Clients, n \in Conns : Input(c, n)
  \/ \E c \in Clients, t \in Topics : Subscribe(c, t) \/ Unsubscribe(c, t)
  \/ \E n \in Conns, t \in Topics : Publish(n, t)
  \/ \E t \in Topics : Alert(t)
  \/ \E n \in Conns : Leave(n)
  \/ Quiet

Spec == Init /\ [][Next]_vars
=============================================================================
