----------------------------- MODULE GameSocket -----------------------------
(***************************************************************************)
(* game_sockets/src/lib.rs: the events by which a backend talks to the     *)
(* game above it, and the order in which a game may expect them. The TCP   *)
(* and the UDP backend extend this module.                                 *)
(*                                                                         *)
(* The channels of events themselves are not kept, a game may act on an    *)
(* event as soon as it is emitted: `told` is what matters of those emitted *)
(* so far, `surprised` the games that were told something out of order.    *)
(***************************************************************************)
EXTENDS Naturals, SequencesExt

CONSTANT Nodes
VARIABLES told, surprised

\* `by` tells whose stream it is: the game's own or one the peer speaks on.
Connected(c)            == [type |-> "Connected", conn |-> c]
Disconnected(c)         == [type |-> "Disconnected", conn |-> c]
StreamCreated(c, s, by) == [type |-> "StreamCreated", conn |-> c, stream |-> s, by |-> by]
StreamClosed(c, s)      == [type |-> "StreamClosed", conn |-> c, stream |-> s]
Message(c, s)           == [type |-> "Message", conn |-> c, stream |-> s]
ConnectionError         == [type |-> "Error"]

EventsInit == told = [x \in Nodes |-> {}] /\ surprised = {}

\* What the order of events depends on: not on messages, errors, or the answers
\* to the game's own stream commands.
Lasting(es) ==
  {e \in ToSet(es) : e.type \in {"Connected", "Disconnected"}
                     \/ (e.type = "StreamCreated" /\ e.by = "peer")}

\* May a game that was told of T be told of e? A connection is announced once and
\* before anything else of it, a stream the peer uses once and before its first
\* message, and a connection reported lost delivers nothing more. Only answers to
\* the game's own stream commands may follow.
Expected(e, T) ==
  /\ e \notin T
  /\ e.type \notin {"Connected", "Error"} => Connected(e.conn) \in T
  /\ e.type = "Message" =>
       StreamCreated(e.conn, e.stream, "peer") \in T /\ Disconnected(e.conn) \notin T

Emit(x, es) ==
  LET Before(i) == told[x] \cup Lasting(SubSeq(es, 1, i - 1)) IN
  /\ told' = [told EXCEPT ![x] = @ \cup Lasting(es)]
  /\ surprised' = IF \A i \in DOMAIN es : Expected(es[i], Before(i)) THEN surprised
                  ELSE surprised \cup {x}

\* A message, after the StreamCreated of a stream the peer had not used yet.
Announce(c, s, known) ==
  IF s \in known THEN <<Message(c, s)>> ELSE <<StreamCreated(c, s, "peer"), Message(c, s)>>

\* The events of a backend come in the order the services are written for
\* (lib.rs lines 83-98), whatever its tasks do in the meantime.
OrderlyEvents == surprised = {}
=============================================================================
