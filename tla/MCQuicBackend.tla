--------------------------- MODULE MCQuicBackend ----------------------------
(* Instances of QuicBackend for TLC: C dials S over one connection.        *)
EXTENDS QuicBackend

CONSTANTS C, S, k

MCDialer == [l \in Links |-> C]
MCAcceptor == [l \in Links |-> S]

Rel(n) == GameStream(n, "Reliable")

\* What each game creates, in the instances of the cfg files.
Mixed == [x \in Nodes |->
  IF x = C THEN {GameStream(1, "Unreliable"), GameStream(2, "Ordered")} ELSE {}]
OneReliable == [x \in Nodes |-> IF x = C THEN {Rel(1)} ELSE {}]

Server == [x \in Nodes |-> x = S]
Everybody == [x \in Nodes |-> TRUE]
=============================================================================
