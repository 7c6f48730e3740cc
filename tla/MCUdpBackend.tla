---------------------------- MODULE MCUdpBackend ----------------------------
(* An instance of UdpBackend for TLC: A and B dial S; A may move.          *)
EXTENDS UdpBackend

CONSTANTS S, A, B, a1, a2, b1, a, b, s0

MCDialer == (a :> A) @@ (b :> B)
MCTarget == [c \in Conns |-> S]
MCGiven == (S :> <<>>) @@ (A :> <<a1, a2>>) @@ (B :> <<b1>>)
MCPort == [x \in Nodes |-> IF x = S THEN s0 ELSE NoAddr]

ASSUME ApartAssumption == AddressesApart
=============================================================================
