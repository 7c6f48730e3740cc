-------------------------------- MODULE Pipe --------------------------------
(***************************************************************************)
(* What a game may expect of a reliable connection ("Reliable (ordered     *)
(* delivery)", game_sockets/README.md line 45): whatever it has handed     *)
(* over is in transit until the other game gets it, in order, each packet  *)
(* once; packets are lost only from the end, and only once the connection  *)
(* is cut. A way is one direction of a TCP connection, or of a stream of a *)
(* QUIC connection.                                                        *)
(***************************************************************************)
EXTENDS SequencesExt

CONSTANTS Ways, Packets, Nothing
VARIABLES transit, got, cut

PipeInit ==
  /\ transit = [w \in Ways |-> <<>>]
  /\ got = [w \in Ways |-> Nothing]
  /\ cut = [w \in Ways |-> FALSE]

Hand(w) ==
  /\ \E p \in Packets : transit' = [transit EXCEPT ![w] = Append(@, p)]
  /\ UNCHANGED <<got, cut>>

Get(w) ==
  /\ transit[w] # <<>>
  /\ got' = [got EXCEPT ![w] = Head(transit[w])]
  /\ transit' = [transit EXCEPT ![w] = Tail(@)]
  /\ UNCHANGED cut

Cut(W) ==
  /\ cut' = [w \in Ways |-> w \in W \/ cut[w]]
  /\ DOMAIN transit' = Ways
  /\ \A w \in Ways : IsPrefix(transit'[w], transit[w])
  /\ \A w \in Ways : ~cut'[w] => transit'[w] = transit[w]
  /\ UNCHANGED got

PipeNext == (\E w \in Ways : Hand(w) \/ Get(w)) \/ \E W \in SUBSET Ways : Cut(W)

Spec == PipeInit /\ [][PipeNext]_<<transit, got, cut>>
=============================================================================
