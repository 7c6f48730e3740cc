---------------------------- MODULE MCTcpBackend ----------------------------
(* An instance of TcpBackend for TLC: C dials S over one connection.       *)
EXTENDS TcpBackend

CONSTANTS C, S, k

MCDialer == [l \in Links |-> C]
MCAcceptor == [l \in Links |-> S]
MCSends == [x \in Nodes |-> IF x = C THEN 4 ELSE 2]
=============================================================================
