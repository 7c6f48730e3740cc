------------------------------ MODULE QuicProofs ------------------------------
(***************************************************************************)
(* What TLAPS proves about the QUIC backend, for any number of nodes and   *)
(* connections, whatever streams the games create and however many frames  *)
(* they send, with connections lost at any moment: what the game is told   *)
(* comes in order, and what it was told is true.                           *)
(***************************************************************************)
EXTENDS QuicBackend, SequenceTheorems, FiniteSetTheorems, TLAPS

-----------------------------------------------------------------------------
(* Queues.                                                                 *)

\* What a queue holds when one more element is put into it.
LEMMA Put ==
  ASSUME NEW S, NEW q \in Seq(S), NEW e \in S
  PROVE  /\ Append(q, e) \in Seq(S)
         /\ ToSet(Append(q, e)) = ToSet(q) \cup {e}
         /\ Len(Append(q, e)) = Len(q) + 1 /\ Len(q) \in Nat
         /\ DOMAIN q = 1 .. Len(q) /\ DOMAIN Append(q, e) = 1 .. Len(q) + 1
         /\ \A i \in 1 .. Len(q) : Append(q, e)[i] = q[i]
         /\ Append(q, e)[Len(q) + 1] = e
<1>1. /\ Append(q, e) \in Seq(S) /\ Len(Append(q, e)) = Len(q) + 1 /\ Len(q) \in Nat
      /\ \A i \in 1 .. Len(q) : Append(q, e)[i] = q[i]
      /\ Append(q, e)[Len(q) + 1] = e
  BY AppendProperties
<1>2. DOMAIN q = 1 .. Len(q) /\ DOMAIN Append(q, e) = 1 .. Len(q) + 1
  BY <1>1
<1>3. 1 .. Len(q) + 1 = (1 .. Len(q)) \cup {Len(q) + 1}
  BY <1>1
<1>4. ToSet(Append(q, e)) = ToSet(q) \cup {e}
  BY <1>1, <1>2, <1>3 DEF ToSet
<1>5. QED BY <1>1, <1>2, <1>4

\* What a queue holds when its first element is taken.
LEMMA Taken ==
  ASSUME NEW S, NEW q \in Seq(S), q # <<>>
  PROVE  /\ Head(q) \in S /\ Tail(q) \in Seq(S)
         /\ Head(q) \in ToSet(q)
         /\ ToSet(Tail(q)) \cup {Head(q)} = ToSet(q)
         /\ Len(q) \in Nat \ {0} /\ DOMAIN q = 1 .. Len(q)
         /\ Len(Tail(q)) = Len(q) - 1 /\ DOMAIN Tail(q) = 1 .. Len(q) - 1
         /\ Head(q) = q[1]
         /\ \A i \in 1 .. Len(q) - 1 : Tail(q)[i] = q[i + 1]
<1>1. Len(q) \in Nat /\ Len(q) # 0 /\ DOMAIN q = 1 .. Len(q) /\ Head(q) = q[1]
  BY EmptySeq, LenProperties, HeadTailProperties
<1>2. /\ Head(q) \in S /\ Tail(q) \in Seq(S) /\ Len(Tail(q)) = Len(q) - 1
      /\ \A i \in 1 .. Len(q) - 1 : Tail(q)[i] = q[i + 1]
  BY HeadTailProperties
<1>3. DOMAIN Tail(q) = 1 .. Len(q) - 1
  BY <1>2
<1>4. ToSet(Tail(q)) \cup {Head(q)} = ToSet(q)
  <2>1. \A j \in 1 .. Len(q) : j = 1 \/ (j - 1 \in 1 .. Len(q) - 1 /\ j = (j - 1) + 1)
    BY <1>1
  <2>2. \A i \in 1 .. Len(q) - 1 : i + 1 \in 1 .. Len(q)
    BY <1>1
  <2>3. \A j \in 1 .. Len(q) : q[j] \in ToSet(Tail(q)) \cup {Head(q)}
    <3>1. \A j \in 1 .. Len(q) : j # 1 => q[j] = Tail(q)[j - 1] /\ j - 1 \in DOMAIN Tail(q)
      BY <1>2, <1>3, <2>1
    <3>2. QED BY <1>1, <3>1 DEF ToSet
  <2>4. \A i \in DOMAIN Tail(q) : Tail(q)[i] \in ToSet(q)
    BY <1>1, <1>2, <1>3, <2>2 DEF ToSet
  <2>5. Head(q) \in ToSet(q)
    BY <1>1 DEF ToSet
  <2>6. ToSet(q) \subseteq ToSet(Tail(q)) \cup {Head(q)}
    BY <1>1, <2>3 DEF ToSet
  <2>7. ToSet(Tail(q)) \subseteq ToSet(q)
    BY <2>4 DEF ToSet
  <2>8. QED BY <2>5, <2>6, <2>7
<1>5. Head(q) \in ToSet(q)
  BY <1>4
<1>6. QED BY <1>1, <1>2, <1>3, <1>4, <1>5

\* The elements of a queue.
LEMMA Elements ==
  ASSUME NEW S, NEW q \in Seq(S)
  PROVE  /\ ToSet(q) \subseteq S /\ Len(q) \in Nat /\ DOMAIN q = 1 .. Len(q)
         /\ \A e : e \in ToSet(q) <=> \E i \in 1 .. Len(q) : q[i] = e
<1>1. Len(q) \in Nat /\ DOMAIN q = 1 .. Len(q) /\ \A i \in 1 .. Len(q) : q[i] \in S
  BY LenProperties
<1>2. QED BY <1>1 DEF ToSet

\* No queue starts with anything in it.
LEMMA Empty == ASSUME NEW S PROVE <<>> \in Seq(S) /\ ToSet(<<>>) = {} /\ Len(<<>>) = 0
BY DEF ToSet

-----------------------------------------------------------------------------
(* The types.                                                              *)

\* The streams some game creates.
Used == UNION {Creates[x] : x \in Nodes}

Keys == Links \X Used

Cmds ==
  [op : {"Bind", "Shutdown"}] \cup [op : {"Connect"}, conn : Links]
    \cup [op : {"CreateStream", "CloseStream"}, conn : Links, stream : Used]
    \cup [op : {"Send"}, conn : Links, stream : Used, data : Nat]

Events ==
  [type : {"Connected", "Error"}, conn : Links]
    \cup [type : {"StreamCreated", "StreamClosed"}, conn : Links, stream : Used]
    \cup [type : {"Message"}, conn : Links, stream : Used, data : Nat]

Regs == [conn : Links, stream : Used, bidi : Nat]

Awaitings ==
  {Idle} \cup [on : {"handshake"}, link : Links] \cup [on : {"stream"}, link : Links, stream : Used]

Tables == UNION {[D -> Nat] : D \in SUBSET Keys}

Datagrams == [to : Nodes, stream : Used, data : Nat]

Bidis(l) ==
  [opener : Ends(l), stream : Used, accepted : BOOLEAN,
   wire : [Ends(l) -> Seq(Nat)], ended : [Ends(l) -> BOOLEAN]]

TypedLoop ==
  /\ running \in [Nodes -> BOOLEAN] /\ awaiting \in [Nodes -> Awaitings]
  /\ connections \in [Nodes -> SUBSET Links]
  /\ reliable_send_streams \in [Nodes -> Tables]
  /\ unreliable_send_streams \in [Nodes -> SUBSET Keys]

TypedTasks ==
  /\ listening \in [Nodes -> BOOLEAN] /\ accepting \in [Nodes -> Links \cup {NoLink}]
  /\ reading \in [Nodes -> SUBSET Links]
  /\ known_streams \in [Nodes -> [Links -> SUBSET Used]]
  /\ datagram \in [Nodes -> [Links -> {{}} \cup {{dg} : dg \in Datagrams}]]

TypedRegistrations ==
  /\ conn_reg_rx \in [Nodes -> Seq(Links)] /\ stream_reg_rx \in [Nodes -> Seq(Regs)]

TypedEvents == events \in [Nodes -> Seq(Events)]

TypedWire ==
  /\ link \in [Links -> {"new", "dialing", "up", "down"}]
  /\ DOMAIN bidis = Links /\ \A l \in Links : bidis[l] \in Seq(Bidis(l))
  /\ datagrams \in [Links -> SUBSET Datagrams]

TypedGame ==
  /\ polled \in [Nodes -> Nat] /\ \A x \in Nodes : polled[x] <= Len(events[x])
  /\ created \in [Nodes -> SUBSET Keys] /\ closed \in [Nodes -> SUBSET Keys]
  /\ sends \in [Nodes -> Nat]

Typed ==
  /\ TypedLoop /\ TypedTasks /\ cmd_rx \in [Nodes -> Seq(Cmds)] /\ TypedRegistrations
  /\ TypedEvents /\ TypedWire /\ TypedGame

\* Whose connection it is.
LEMMA EndsOfLink ==
  ASSUME NEW l \in Links
  PROVE  /\ Dialer[l] \in Nodes /\ Acceptor[l] \in Nodes /\ Dialer[l] # Acceptor[l]
         /\ Ends(l) \subseteq Nodes
         /\ \A x \in Ends(l) : Peer(l, x) \in Ends(l) /\ Peer(l, x) # x
<1>1. /\ Dialer[l] \in Nodes /\ Acceptor[l] \in Nodes /\ Dialer[l] # Acceptor[l]
  BY LinksAssumption, EndsAssumption
<1>2. ASSUME NEW x \in Ends(l) PROVE Peer(l, x) \in Ends(l) /\ Peer(l, x) # x
  <2>1. \E y \in Ends(l) : y # x
    BY <1>1 DEF Ends
  <2>2. QED BY <2>1 DEF Peer
<1>3. QED BY <1>1, <1>2 DEF Ends

\* The streams are streams.
LEMMA UsedAreStreams == Used \subseteq Streams
BY CreatesAssumption DEF Used

\* A game starts with commands.
LEMMA FirstCommandsTyped ==
  ASSUME NEW x \in Nodes
  PROVE  /\ FirstCommands(x) \in Seq(Cmds)
         /\ \A c \in ToSet(FirstCommands(x)) :
              \/ c = [op |-> "Bind"]
              \/ \E l \in Links : Dialer[l] = x /\ c = [op |-> "Connect", conn |-> l]
<1> DEFINE K == {k \in Links : Dialer[k] = x}
           S == {[op |-> "Connect", conn |-> l] : l \in K}
           a == IF \E l \in Links : Acceptor[l] = x THEN <<[op |-> "Bind"]>> ELSE <<>>
           b == SetToSeq(S)
           F == S \cup {[op |-> "Bind"]}
<1>1. IsFiniteSet(S)
  <2>1. IsFiniteSet(K)
    BY LinksAssumption, FS_Subset
  <2> DEFINE f == [l \in K |-> [op |-> "Connect", conn |-> l]]
  <2>2. f \in Surjection(K, S)
    BY DEF Surjection
  <2> HIDE DEF K, S, f
  <2>3. QED BY <2>1, <2>2, FS_Surjection
<1>2. b \in Seq(S)
  <2> HIDE DEF S
  <2>1. Cardinality(S) \in Nat /\ ExistsBijection(1 .. Cardinality(S), S)
    BY <1>1, FS_CardinalityType
  <2>2. \E f \in [1 .. Cardinality(S) -> S] : IsInjective(f)
    BY <2>1 DEF ExistsBijection, Bijection, Injection, IsInjective
  <2>3. b \in [1 .. Cardinality(S) -> S]
    BY <2>2 DEF SetToSeq
  <2> HIDE DEF b
  <2>4. QED BY <2>1, <2>3
<1>3. a \in Seq(F)
  <2>1. [op |-> "Bind"] \in F
    OBVIOUS
  <2> HIDE DEF F
  <2>2. <<[op |-> "Bind"]>> \in Seq(F) /\ <<>> \in Seq(F)
    BY <2>1
  <2>3. QED BY <2>2
<1>4. b \in Seq(F)
  <2> HIDE DEF b, S
  <2>1. QED BY <1>2 DEF F
<1>5. FirstCommands(x) = a \o b
  BY DEF FirstCommands
<1>6. FirstCommands(x) \in Seq(F)
  <2> HIDE DEF a, b, F
  <2>1. QED BY <1>3, <1>4, <1>5, ConcatProperties
<1>7. F \subseteq Cmds
  BY DEF Cmds
<1>8. ToSet(FirstCommands(x)) \subseteq F
  <2> HIDE DEF F
  <2>1. QED BY <1>6, Elements
<1>9. FirstCommands(x) \in Seq(Cmds)
  <2> HIDE DEF F
  <2>1. QED BY <1>6, <1>7
<1>10. QED BY <1>8, <1>9

-----------------------------------------------------------------------------
(* The wire.                                                               *)

\* A bidirectional stream keeps its opener and its number, and stays accepted.
Alike(b, c) == c.opener = b.opener /\ c.stream = b.stream /\ (b.accepted => c.accepted)

\* A step that opens no stream.
SameBidis ==
  \A l \in Links :
    /\ Len(bidis'[l]) = Len(bidis[l]) /\ DOMAIN bidis'[l] = DOMAIN bidis[l]
    /\ \A i \in DOMAIN bidis[l] : Alike(bidis[l][i], bidis'[l][i])

\* A step that accepts none either.
SameEnds ==
  \A l \in Links : \A i \in DOMAIN bidis[l] : bidis'[l][i].accepted = bidis[l][i].accepted

WireTyped == DOMAIN bidis = Links /\ \A l \in Links : bidis[l] \in Seq(Bidis(l))

\* Nothing happens on the streams.
LEMMA BidisUnchanged == WireTyped /\ UNCHANGED bidis => WireTyped' /\ SameBidis /\ SameEnds
BY DEF WireTyped, SameBidis, SameEnds, Alike

\* One stream of a connection changes.
LEMMA BidiRewritten ==
  ASSUME WireTyped, NEW l \in Links, NEW i \in DOMAIN bidis[l], NEW B \in Bidis(l),
         Alike(bidis[l][i], B), bidis' = [bidis EXCEPT ![l] = [bidis[l] EXCEPT ![i] = B]]
  PROVE  /\ WireTyped' /\ SameBidis
         /\ bidis'[l][i] = B
         /\ \A m \in Links : \A j \in DOMAIN bidis[m] : m # l \/ j # i => bidis'[m][j] = bidis[m][j]
<1>1. bidis[l] \in Seq(Bidis(l)) /\ DOMAIN bidis = Links
  BY DEF WireTyped
<1>2. bidis'[l] = [bidis[l] EXCEPT ![i] = B] /\ \A m \in Links : m # l => bidis'[m] = bidis[m]
  BY <1>1
<1> DEFINE q == [bidis[l] EXCEPT ![i] = B]
<1>3. q \in Seq(Bidis(l)) /\ Len(q) = Len(bidis[l]) /\ q[i] = B
      /\ \A j \in 1 .. Len(q) : q[j] = IF j = i THEN B ELSE bidis[l][j]
  BY <1>1, ExceptSeq
<1>4. DOMAIN q = DOMAIN bidis[l] /\ DOMAIN q = 1 .. Len(q)
  BY <1>1, <1>3
<1> HIDE DEF q
<1>5. bidis'[l] = q
  BY <1>2 DEF q
<1>6. WireTyped'
  <2>1. DOMAIN bidis' = Links
    BY <1>1
  <2>2. QED BY <1>2, <1>3, <1>5, <2>1 DEF WireTyped
<1>7. \A m \in Links : \A j \in DOMAIN bidis[m] : m # l \/ j # i => bidis'[m][j] = bidis[m][j]
  BY <1>2, <1>3, <1>4, <1>5
<1>8. SameBidis
  <2> SUFFICES ASSUME NEW m \in Links
               PROVE  /\ Len(bidis'[m]) = Len(bidis[m]) /\ DOMAIN bidis'[m] = DOMAIN bidis[m]
                      /\ \A j \in DOMAIN bidis[m] : Alike(bidis[m][j], bidis'[m][j])
    BY DEF SameBidis
  <2>1. CASE m = l
    BY <1>3, <1>4, <1>5, <2>1 DEF Alike
  <2>2. CASE m # l
    BY <1>2, <2>2 DEF Alike
  <2>3. QED BY <2>1, <2>2
<1>9. QED BY <1>3, <1>5, <1>6, <1>7, <1>8

\* It is not accepted by that.
LEMMA BidiSameEnd ==
  ASSUME WireTyped, NEW l \in Links, NEW i \in DOMAIN bidis[l], NEW B \in Bidis(l),
         Alike(bidis[l][i], B), B.accepted = bidis[l][i].accepted,
         bidis' = [bidis EXCEPT ![l] = [bidis[l] EXCEPT ![i] = B]]
  PROVE  SameEnds
<1>1. /\ bidis'[l][i] = B
      /\ \A m \in Links : \A j \in DOMAIN bidis[m] : m # l \/ j # i => bidis'[m][j] = bidis[m][j]
  BY BidiRewritten
<1> SUFFICES ASSUME NEW m \in Links, NEW j \in DOMAIN bidis[m]
             PROVE  bidis'[m][j].accepted = bidis[m][j].accepted
  BY DEF SameEnds
<1>2. CASE m = l /\ j = i
  <2>1. bidis'[m][j] = B
    BY <1>1, <1>2
  <2>2. QED BY <1>2, <2>1, Zenon
<1>3. CASE m # l \/ j # i
  <2>1. bidis'[m][j] = bidis[m][j]
    BY <1>1, <1>3
  <2>2. QED BY <2>1, Zenon
<1>4. QED BY <1>2, <1>3

\* A SendStream is dropped.
LEMMA BidiFinished ==
  ASSUME WireTyped, NEW l \in Links, NEW x, NEW i \in DOMAIN bidis[l], DropSendStream(x, l, i)
  PROVE  WireTyped' /\ SameBidis /\ SameEnds
<1> DEFINE b == bidis[l][i]
           B == Finished(b, Peer(l, x))
<1>1. b \in Bidis(l)
  BY Elements DEF WireTyped
<1>2. B = [b EXCEPT !.ended = [b.ended EXCEPT ![Peer(l, x)] = TRUE]]
  BY DEF Finished
<1>3. b.ended \in [Ends(l) -> BOOLEAN]
  BY <1>1 DEF Bidis
<1>4. [b.ended EXCEPT ![Peer(l, x)] = TRUE] \in [Ends(l) -> BOOLEAN]
  BY <1>3
<1>5. B \in Bidis(l) /\ Alike(b, B) /\ B.accepted = b.accepted
  BY <1>1, <1>2, <1>4 DEF Bidis, Alike
<1>6. bidis' = [bidis EXCEPT ![l] = [bidis[l] EXCEPT ![i] = B]]
  BY DEF DropSendStream
<1> HIDE DEF B
<1>7. SameEnds
  BY <1>5, <1>6, BidiSameEnd
<1>8. QED BY <1>5, <1>6, <1>7, BidiRewritten

\* A frame is written.
LEMMA BidiWritten ==
  ASSUME WireTyped, NEW l \in Links, NEW y, NEW i \in DOMAIN bidis[l], NEW d \in Nat,
         bidis' = [bidis EXCEPT ![l][i] = WriteFrame(@, y, d)]
  PROVE  WireTyped' /\ SameBidis /\ SameEnds
<1> DEFINE b == bidis[l][i]
           B == WriteFrame(b, y, d)
<1>1. b \in Bidis(l)
  BY Elements DEF WireTyped
<1>2. b.wire \in [Ends(l) -> Seq(Nat)]
  BY <1>1 DEF Bidis
<1> DEFINE w == [b.wire EXCEPT ![y] = Append(b.wire[y], d)]
<1>3. w \in [Ends(l) -> Seq(Nat)]
  <2>1. CASE y \in Ends(l)
    <3>1. Append(b.wire[y], d) \in Seq(Nat)
      BY <1>2, <2>1
    <3>2. QED BY <1>2, <3>1
  <2>2. CASE y \notin Ends(l)
    BY <1>2, <2>2
  <2>3. QED BY <2>1, <2>2
<1>4. B = [b EXCEPT !.wire = w]
  BY DEF WriteFrame
<1> HIDE DEF w
<1>5. B \in Bidis(l) /\ Alike(b, B) /\ B.accepted = b.accepted
  BY <1>1, <1>3, <1>4 DEF Bidis, Alike
<1>6. bidis' = [bidis EXCEPT ![l] = [bidis[l] EXCEPT ![i] = B]]
  OBVIOUS
<1> HIDE DEF B
<1>7. SameEnds
  BY <1>5, <1>6, BidiSameEnd
<1>8. QED BY <1>5, <1>6, <1>7, BidiRewritten

\* A stream is accepted.
LEMMA BidiAccepted ==
  ASSUME WireTyped, NEW l \in Links, NEW i \in DOMAIN bidis[l],
         bidis' = [bidis EXCEPT ![l][i].accepted = TRUE]
  PROVE  /\ WireTyped' /\ SameBidis /\ bidis'[l][i].accepted
         /\ \A m \in Links : \A j \in DOMAIN bidis[m] : m # l \/ j # i => bidis'[m][j] = bidis[m][j]
<1> DEFINE b == bidis[l][i]
           B == [b EXCEPT !.accepted = TRUE]
<1>1. b \in Bidis(l)
  BY Elements DEF WireTyped
<1>2. B \in Bidis(l) /\ Alike(b, B) /\ B.accepted
  BY <1>1 DEF Bidis, Alike
<1>3. bidis' = [bidis EXCEPT ![l] = [bidis[l] EXCEPT ![i] = B]]
  OBVIOUS
<1> HIDE DEF B
<1>4. /\ WireTyped' /\ SameBidis /\ bidis'[l][i] = B
      /\ \A m \in Links : \A j \in DOMAIN bidis[m] : m # l \/ j # i => bidis'[m][j] = bidis[m][j]
  BY <1>2, <1>3, BidiRewritten
<1>5. bidis'[l][i].accepted
  BY <1>2, <1>4, Zenon
<1>6. QED BY <1>4, <1>5

\* A frame is read.
LEMMA BidiRead ==
  ASSUME WireTyped, NEW l \in Links, NEW x \in Ends(l), NEW i \in DOMAIN bidis[l],
         bidis[l][i].wire[x] # <<>>, bidis' = [bidis EXCEPT ![l][i].wire[x] = Tail(@)]
  PROVE  /\ WireTyped' /\ SameBidis /\ SameEnds
         /\ Head(bidis[l][i].wire[x]) \in Nat /\ bidis[l][i].stream \in Used
<1> DEFINE b == bidis[l][i]
           w == [b.wire EXCEPT ![x] = Tail(b.wire[x])]
           B == [b EXCEPT !.wire = w]
<1>1. b \in Bidis(l)
  BY Elements DEF WireTyped
<1>2. b.wire \in [Ends(l) -> Seq(Nat)] /\ b.stream \in Used
  BY <1>1 DEF Bidis
<1>3. Tail(b.wire[x]) \in Seq(Nat) /\ Head(b.wire[x]) \in Nat
  BY <1>2, Taken
<1>4. w \in [Ends(l) -> Seq(Nat)]
  BY <1>2, <1>3
<1>5. bidis' = [bidis EXCEPT ![l] = [bidis[l] EXCEPT ![i] = B]]
  OBVIOUS
<1> HIDE DEF w
<1>6. B \in Bidis(l) /\ Alike(b, B) /\ B.accepted = b.accepted
  BY <1>1, <1>4 DEF Bidis, Alike
<1> HIDE DEF B
<1>7. SameEnds
  BY <1>5, <1>6, BidiSameEnd
<1>8. QED BY <1>2, <1>3, <1>5, <1>6, <1>7, BidiRewritten

\* Connections are lost.
LEMMA BidisCut ==
  ASSUME TypedWire, NEW D, Cut(D)
  PROVE  /\ TypedWire' /\ WireTyped' /\ SameBidis /\ SameEnds
         /\ \A l \in Links : datagrams'[l] \subseteq datagrams[l]
<1>1. /\ link' \in [Links -> {"new", "dialing", "up", "down"}]
      /\ datagrams' \in [Links -> SUBSET Datagrams]
      /\ \A l \in Links : datagrams'[l] \subseteq datagrams[l]
  BY DEF TypedWire, Cut
<1>2. bidis' = [l \in Links |->
        IF l \in D THEN [i \in DOMAIN bidis[l] |-> Broken(bidis[l][i])] ELSE bidis[l]]
  BY DEF Cut
<1>3. ASSUME NEW l \in Links
      PROVE  /\ bidis'[l] \in Seq(Bidis(l)) /\ Len(bidis'[l]) = Len(bidis[l])
             /\ DOMAIN bidis'[l] = DOMAIN bidis[l]
             /\ \A i \in DOMAIN bidis[l] :
                  Alike(bidis[l][i], bidis'[l][i]) /\ bidis'[l][i].accepted = bidis[l][i].accepted
  <2>1. bidis[l] \in Seq(Bidis(l))
    BY DEF TypedWire
  <2>2. Len(bidis[l]) \in Nat /\ DOMAIN bidis[l] = 1 .. Len(bidis[l])
        /\ \A i \in 1 .. Len(bidis[l]) : bidis[l][i] \in Bidis(l)
    BY <2>1
  <2>3. CASE l \notin D
    BY <1>2, <2>1, <2>3 DEF Alike
  <2>4. CASE l \in D
    <3> DEFINE q == [i \in 1 .. Len(bidis[l]) |-> Broken(bidis[l][i])]
    <3>1. bidis'[l] = q
      BY <1>2, <2>2, <2>4
    <3>2. ASSUME NEW i \in 1 .. Len(bidis[l])
          PROVE  /\ Broken(bidis[l][i]) \in Bidis(l) /\ Alike(bidis[l][i], Broken(bidis[l][i]))
                 /\ Broken(bidis[l][i]).accepted = bidis[l][i].accepted
      <4>1. PICK b \in Bidis(l) : b = bidis[l][i]
        BY <2>2
      <4>2. b.wire \in [Ends(l) -> Seq(Nat)]
        BY DEF Bidis
      <4>3. [y \in DOMAIN b.wire |-> <<>>] \in [Ends(l) -> Seq(Nat)]
        BY <4>2, Empty
      <4> DEFINE w == [y \in DOMAIN b.wire |-> <<>>]
      <4>4. Broken(b) = [b EXCEPT !.wire = w]
        BY DEF Broken
      <4> HIDE DEF w
      <4>5. w \in [Ends(l) -> Seq(Nat)]
        BY <4>3 DEF w
      <4>6. Broken(b) \in Bidis(l) /\ Alike(b, Broken(b)) /\ Broken(b).accepted = b.accepted
        BY <4>4, <4>5 DEF Bidis, Alike
      <4>7. QED BY <4>1, <4>6
    <3>3. q \in [1 .. Len(bidis[l]) -> Bidis(l)]
      BY <3>2
    <3>4. q \in Seq(Bidis(l)) /\ Len(q) = Len(bidis[l]) /\ DOMAIN q = 1 .. Len(bidis[l])
      <4> HIDE DEF q
      <4>1. QED BY <2>2, <3>3
    <3>5. QED BY <2>2, <3>1, <3>2, <3>4
  <2>5. QED BY <2>3, <2>4
<1>4. DOMAIN bidis' = Links
  BY <1>2
<1>5. SameEnds
  BY <1>3 DEF SameEnds
<1>6. QED BY <1>1, <1>3, <1>4, <1>5 DEF TypedWire, WireTyped, SameBidis

\* A stream is opened.
LEMMA BidiOpened ==
  ASSUME WireTyped, NEW l \in Links, NEW B \in Bidis(l),
         bidis' = [bidis EXCEPT ![l] = Append(@, B)]
  PROVE  /\ WireTyped'
         /\ Len(bidis[l]) \in Nat /\ Len(bidis'[l]) = Len(bidis[l]) + 1
         /\ DOMAIN bidis[l] = 1 .. Len(bidis[l]) /\ DOMAIN bidis'[l] = 1 .. Len(bidis[l]) + 1
         /\ bidis'[l][Len(bidis[l]) + 1] = B
         /\ \A i \in DOMAIN bidis[l] : bidis'[l][i] = bidis[l][i]
         /\ \A m \in Links : m # l => bidis'[m] = bidis[m]
<1>1. bidis[l] \in Seq(Bidis(l)) /\ DOMAIN bidis = Links
  BY DEF WireTyped
<1>2. bidis'[l] = Append(bidis[l], B) /\ \A m \in Links : m # l => bidis'[m] = bidis[m]
  BY <1>1
<1>3. DOMAIN bidis' = Links
  BY <1>1
<1>4. /\ Append(bidis[l], B) \in Seq(Bidis(l))
      /\ Len(Append(bidis[l], B)) = Len(bidis[l]) + 1 /\ Len(bidis[l]) \in Nat
      /\ DOMAIN bidis[l] = 1 .. Len(bidis[l]) /\ DOMAIN Append(bidis[l], B) = 1 .. Len(bidis[l]) + 1
      /\ \A i \in 1 .. Len(bidis[l]) : Append(bidis[l], B)[i] = bidis[l][i]
      /\ Append(bidis[l], B)[Len(bidis[l]) + 1] = B
  <2>1. PICK q \in Seq(Bidis(l)) : q = bidis[l]
    BY <1>1
  <2>2. QED BY <2>1, Put
<1>5. WireTyped'
  <2>1. ASSUME NEW m \in Links PROVE bidis'[m] \in Seq(Bidis(m))
    <3>1. CASE m = l
      BY <1>2, <1>4, <3>1
    <3>2. CASE m # l
      BY <1>2, <3>2 DEF WireTyped
    <3>3. QED BY <3>1, <3>2
  <2>2. QED BY <1>3, <2>1 DEF WireTyped
<1>6. QED BY <1>2, <1>4, <1>5

\* A step that opens streams at most, and closes none.
Grown ==
  \A l \in Links :
    /\ DOMAIN bidis[l] \subseteq DOMAIN bidis'[l]
    /\ \A i \in DOMAIN bidis[l] : Alike(bidis[l][i], bidis'[l][i])

\* To open nothing is to open nothing but streams.
LEMMA SameIsGrown == SameBidis => Grown
BY DEF SameBidis, Grown

-----------------------------------------------------------------------------
(* The invariant: whom a node deals with, and over which streams.          *)

\* The connections a game has been told of.
Heard(x) == {l \in LinksOf(x) : Plain("Connected", l) \in ToSet(events[x])}

\* Connected comes first in a queue of events.
Orderly(q) ==
  \A i \in DOMAIN q : q[i].type # "Connected" =>
    \E j \in 1 .. i - 1 : q[j] = Plain("Connected", q[i].conn)

\* Each thing a node does is for a connection its game has been told of, but
\* for the Connect of a game and the handshake that follows.
EventsHeard == \A x \in Nodes : Orderly(events[x]) /\ \A e \in ToSet(events[x]) : e.conn \in Heard(x)

LinksHeard ==
  \A x \in Nodes :
    /\ connections[x] \subseteq Heard(x) /\ reading[x] \subseteq Heard(x)
    /\ ToSet(conn_reg_rx[x]) \subseteq Heard(x) /\ accepting[x] \in Heard(x) \cup {NoLink}

AwaitedHeard ==
  \A x \in Nodes :
    /\ awaiting[x].on = "stream" => awaiting[x].link \in Heard(x)
    /\ awaiting[x].on = "handshake" => Dialer[awaiting[x].link] = x

CommandsHeard ==
  \A x \in Nodes : \A c \in ToSet(cmd_rx[x]) :
    /\ c.op \in {"CreateStream", "CloseStream", "Send"} => c.conn \in Heard(x)
    /\ c.op = "Connect" => Dialer[c.conn] = x

RegistrationsHeard ==
  \A x \in Nodes : \A r \in ToSet(stream_reg_rx[x]) : r.conn \in Heard(x)

HeardInv == EventsHeard /\ LinksHeard /\ AwaitedHeard /\ CommandsHeard /\ RegistrationsHeard

\* The SendStreams in the tables, and those on their way there, are streams of
\* the connection, of that number; only Reliable streams have one.
IsSendStream(l, s, i) ==
  i \in DOMAIN bidis[l] /\ bidis[l][i].stream = s /\ s.reliability = "Reliable"

TablesFit ==
  \A x \in Nodes : \A key \in DOMAIN reliable_send_streams[x] :
    IsSendStream(key[1], key[2], reliable_send_streams[x][key])

RegistrationsFit ==
  \A x \in Nodes : \A r \in ToSet(stream_reg_rx[x]) :
    /\ r.bidi # 0 => IsSendStream(r.conn, r.stream, r.bidi)
    /\ r.bidi = 0 => r.stream.reliability # "Reliable"

BidisFit == \A l \in Links : \A i \in DOMAIN bidis[l] : bidis[l][i].stream.reliability = "Reliable"

AwaitedFit ==
  \A x \in Nodes : awaiting[x].on = "stream" => awaiting[x].stream.reliability = "Reliable"

DatagramsFit ==
  \A l \in Links :
    /\ \A dg \in datagrams[l] : ~is_reliable(dg.stream)
    /\ \A x \in Nodes : \A dg \in datagram[x][l] : ~is_reliable(dg.stream)

StreamInv == TablesFit /\ RegistrationsFit /\ BidisFit /\ AwaitedFit /\ DatagramsFit

BaseInv == Typed /\ HeardInv /\ StreamInv

-----------------------------------------------------------------------------
(* Telling the game.                                                       *)

\* What a backend tells: an event of a connection its game was told of, or
\* that the connection is there.
Tells(x, e) ==
  /\ e \in Events /\ e.conn \in LinksOf(x)
  /\ e.type = "Connected" \/ e.conn \in Heard(x)
  /\ Emit(x, e)

Told == UNCHANGED events \/ \E x \in Nodes : \E e \in Events : Tells(x, e)

\* One more event.
LEMMA Emitted ==
  ASSUME TypedEvents, NEW x \in Nodes, NEW e \in Events, Emit(x, e)
  PROVE  /\ TypedEvents'
         /\ events[x] \in Seq(Events) /\ Len(events[x]) \in Nat /\ DOMAIN events[x] = 1 .. Len(events[x])
         /\ events'[x] = Append(events[x], e)
         /\ ToSet(events'[x]) = ToSet(events[x]) \cup {e}
         /\ Len(events'[x]) = Len(events[x]) + 1 /\ DOMAIN events'[x] = 1 .. Len(events[x]) + 1
         /\ \A i \in 1 .. Len(events[x]) : events'[x][i] = events[x][i]
         /\ events'[x][Len(events[x]) + 1] = e
         /\ \A y \in Nodes : y # x => events'[y] = events[y]
<1>1. PICK q \in Seq(Events) : q = events[x]
  BY DEF TypedEvents
<1>2. events'[x] = Append(q, e) /\ \A y \in Nodes : y # x => events'[y] = events[y]
  BY <1>1 DEF TypedEvents, Emit
<1>3. Append(q, e) \in Seq(Events)
  BY Put
<1>4. events' \in [Nodes -> Seq(Events)]
  BY <1>1, <1>3 DEF TypedEvents, Emit
<1>5. QED BY <1>1, <1>2, <1>4, Put DEF TypedEvents

\* Telling keeps what was told, and its order.
LEMMA TellingKeeps ==
  ASSUME TypedEvents, EventsHeard, Told
  PROVE  /\ TypedEvents' /\ EventsHeard'
         /\ \A x \in Nodes :
              /\ Heard(x) \subseteq Heard(x)' /\ ToSet(events[x]) \subseteq ToSet(events'[x])
              /\ Len(events[x]) \in Nat /\ Len(events'[x]) \in Nat
              /\ Len(events[x]) <= Len(events'[x])
              /\ \A i \in 1 .. Len(events[x]) : events'[x][i] = events[x][i]
<1>1. \A x \in Nodes : Len(events[x]) \in Nat
  BY Elements DEF TypedEvents
<1>2. CASE UNCHANGED events
  BY <1>1, <1>2 DEF TypedEvents, EventsHeard, Heard
<1>3. CASE \E x \in Nodes : \E e \in Events : Tells(x, e)
  <2>1. PICK x \in Nodes, e \in Events : Tells(x, e)
    BY <1>3
  <2>2. /\ TypedEvents'
        /\ Len(events[x]) \in Nat /\ DOMAIN events[x] = 1 .. Len(events[x])
        /\ ToSet(events'[x]) = ToSet(events[x]) \cup {e}
        /\ Len(events'[x]) = Len(events[x]) + 1 /\ DOMAIN events'[x] = 1 .. Len(events[x]) + 1
        /\ \A i \in 1 .. Len(events[x]) : events'[x][i] = events[x][i]
        /\ events'[x][Len(events[x]) + 1] = e
        /\ \A y \in Nodes : y # x => events'[y] = events[y]
    BY <2>1, Emitted DEF Tells
  <2>3. ASSUME NEW y \in Nodes
        PROVE  /\ Heard(y) \subseteq Heard(y)' /\ ToSet(events[y]) \subseteq ToSet(events'[y])
               /\ Len(events[y]) \in Nat /\ Len(events'[y]) \in Nat
               /\ Len(events[y]) <= Len(events'[y])
               /\ \A i \in 1 .. Len(events[y]) : events'[y][i] = events[y][i]
    <3>1. CASE y = x
      BY <2>2, <3>1 DEF Heard
    <3>2. CASE y # x
      BY <1>1, <2>2, <3>2 DEF Heard
    <3>3. QED BY <3>1, <3>2
  <2>4. ASSUME NEW y \in Nodes PROVE \A f \in ToSet(events'[y]) : f.conn \in Heard(y)'
    <3>1. \A f \in ToSet(events[y]) : f.conn \in Heard(y)'
      BY <2>3 DEF EventsHeard
    <3>2. CASE y # x
      BY <2>2, <3>1, <3>2
    <3>3. CASE y = x
      <4>1. e.conn \in Heard(x)'
        <5>1. CASE e.conn \in Heard(x)
          BY <2>3, <5>1
        <5>2. CASE e.type = "Connected"
          <6>1. e = Plain("Connected", e.conn)
            BY <5>2 DEF Events, Plain
          <6>2. QED BY <2>1, <2>2, <6>1 DEF Heard, Tells
        <5>3. QED BY <2>1, <5>1, <5>2 DEF Tells
      <4>2. QED BY <2>2, <3>1, <3>3, <4>1
    <3>4. QED BY <3>2, <3>3
  <2>5. ASSUME NEW y \in Nodes PROVE Orderly(events'[y])
    <3>1. Orderly(events[y])
      BY DEF EventsHeard
    <3>2. CASE y # x
      BY <2>2, <3>1, <3>2
    <3>3. CASE y = x
      <4> DEFINE n == Len(events[x])
      <4>1. ASSUME NEW i \in 1 .. n + 1, events'[x][i].type # "Connected"
            PROVE  \E j \in 1 .. i - 1 : events'[x][j] = Plain("Connected", events'[x][i].conn)
        <5>1. CASE i <= n
          <6>1. i \in DOMAIN events[x] /\ events'[x][i] = events[x][i]
            BY <2>2, <5>1
          <6>2. PICK j \in 1 .. i - 1 : events[x][j] = Plain("Connected", events[x][i].conn)
            BY <3>1, <3>3, <4>1, <6>1 DEF Orderly
          <6>3. j \in 1 .. n
            BY <2>2, <5>1
          <6>4. events'[x][j] = events[x][j]
            BY <2>2, <6>3
          <6>5. QED BY <6>1, <6>2, <6>4
        <5>2. CASE i = n + 1
          <6>1. events'[x][i] = e /\ e.conn \in Heard(x)
            BY <2>1, <2>2, <4>1, <5>2 DEF Tells
          <6>2. PICK j \in 1 .. n : events[x][j] = Plain("Connected", e.conn)
            BY <2>2, <6>1 DEF Heard, ToSet
          <6>3. j \in 1 .. i - 1 /\ events'[x][j] = events[x][j]
            BY <2>2, <5>2, <6>2
          <6>4. QED BY <6>1, <6>2, <6>3
        <5>3. QED BY <2>2, <5>1, <5>2
      <4>2. QED BY <2>2, <3>3, <4>1 DEF Orderly
    <3>4. QED BY <3>2, <3>3
  <2>6. QED BY <2>2, <2>3, <2>4, <2>5 DEF EventsHeard
<1>4. QED BY <1>2, <1>3 DEF Told

-----------------------------------------------------------------------------
(* What a step that leaves a part alone keeps of it.                       *)

LEMMA HeardKept ==
  ASSUME BaseInv, Told
  PROVE  /\ TypedEvents' /\ EventsHeard' /\ \A x \in Nodes : Heard(x) \subseteq Heard(x)'
         /\ UNCHANGED <<connections, reading, conn_reg_rx, accepting>> => LinksHeard'
         /\ UNCHANGED awaiting => AwaitedHeard'
         /\ UNCHANGED cmd_rx => CommandsHeard'
         /\ UNCHANGED stream_reg_rx => RegistrationsHeard'
         /\ UNCHANGED <<polled, created, closed, sends>> => TypedGame'
<1>1. /\ TypedEvents' /\ EventsHeard' /\ \A x \in Nodes : Heard(x) \subseteq Heard(x)'
  BY TellingKeeps DEF BaseInv, Typed, HeardInv
<1>2. ASSUME UNCHANGED <<connections, reading, conn_reg_rx, accepting>> PROVE LinksHeard'
  BY <1>1, <1>2 DEF BaseInv, HeardInv, LinksHeard
<1>3. ASSUME UNCHANGED awaiting PROVE AwaitedHeard'
  BY <1>1, <1>3 DEF BaseInv, HeardInv, AwaitedHeard
<1>4. ASSUME UNCHANGED cmd_rx PROVE CommandsHeard'
  BY <1>1, <1>4 DEF BaseInv, HeardInv, CommandsHeard
<1>5. ASSUME UNCHANGED stream_reg_rx PROVE RegistrationsHeard'
  BY <1>1, <1>5 DEF BaseInv, HeardInv, RegistrationsHeard
<1>6. ASSUME UNCHANGED <<polled, created, closed, sends>> PROVE TypedGame'
  <2>1. \A x \in Nodes : polled[x] \in Nat /\ polled[x] <= Len(events[x])
    BY DEF BaseInv, Typed, TypedGame
  <2>2. \A x \in Nodes : Len(events[x]) \in Nat /\ Len(events'[x]) \in Nat /\ Len(events[x]) <= Len(events'[x])
    BY TellingKeeps DEF BaseInv, Typed, HeardInv
  <2>3. \A x \in Nodes : polled'[x] <= Len(events'[x])
    BY <1>6, <2>1, <2>2
  <2>4. QED BY <1>6, <2>3 DEF BaseInv, Typed, TypedGame
<1>7. QED BY <1>1, <1>2, <1>3, <1>4, <1>5, <1>6

\* A SendStream stays one, so the tables and the queues still name such streams.
LEMMA FitKept ==
  ASSUME BaseInv, Grown
  PROVE  /\ \A l \in Links : \A s, i : IsSendStream(l, s, i) => IsSendStream(l, s, i)'
         /\ UNCHANGED reliable_send_streams => TablesFit'
         /\ UNCHANGED stream_reg_rx => RegistrationsFit'
<1>1. ASSUME NEW l \in Links, NEW s, NEW i, IsSendStream(l, s, i) PROVE IsSendStream(l, s, i)'
  BY <1>1 DEF Grown, Alike, IsSendStream
<1>2. ASSUME UNCHANGED reliable_send_streams PROVE TablesFit'
  <2>1. \A x \in Nodes : \A key \in DOMAIN reliable_send_streams[x] : key[1] \in Links
    BY DEF BaseInv, Typed, TypedLoop, Tables, Keys
  <2>2. QED BY <1>1, <1>2, <2>1 DEF BaseInv, StreamInv, TablesFit
<1>3. ASSUME UNCHANGED stream_reg_rx PROVE RegistrationsFit'
  <2>1. \A x \in Nodes : \A r \in ToSet(stream_reg_rx[x]) : r.conn \in Links
    <3>1. \A x \in Nodes : ToSet(stream_reg_rx[x]) \subseteq Regs
      BY Elements DEF BaseInv, Typed, TypedRegistrations
    <3>2. QED BY <3>1 DEF Regs
  <2>2. QED BY <1>1, <1>3, <2>1 DEF BaseInv, StreamInv, RegistrationsFit
<1>4. QED BY <1>1, <1>2, <1>3

\* A step that opens nothing leaves the streams of a connection what they were.
LEMMA BidisKept == ASSUME BaseInv, SameBidis PROVE BidisFit'
BY DEF BaseInv, StreamInv, BidisFit, SameBidis, Alike

\* A step that leaves the wire alone.
LEMMA WireKept ==
  ASSUME BaseInv, UNCHANGED bidis
  PROVE  /\ SameBidis /\ Grown /\ BidisFit' /\ WireTyped'
         /\ link' \in [Links -> {"new", "dialing", "up", "down"}]
            /\ datagrams' \in [Links -> SUBSET Datagrams] => TypedWire'
<1>1. WireTyped
  BY DEF BaseInv, Typed, TypedWire, WireTyped
<1>2. SameBidis /\ Grown /\ WireTyped'
  BY <1>1, BidisUnchanged, SameIsGrown
<1>3. BidisFit'
  BY <1>2, BidisKept
<1>4. QED BY <1>2, <1>3 DEF WireTyped, TypedWire

\* A command put into the queue.
LEMMA Issued ==
  ASSUME cmd_rx \in [Nodes -> Seq(Cmds)], NEW x \in Nodes, NEW c \in Cmds, Issue(x, c)
  PROVE  /\ cmd_rx' \in [Nodes -> Seq(Cmds)]
         /\ ToSet(cmd_rx'[x]) = ToSet(cmd_rx[x]) \cup {c}
         /\ cmd_rx'[x] = Append(cmd_rx[x], c)
         /\ \A y \in Nodes : y # x => cmd_rx'[y] = cmd_rx[y]
<1>1. PICK q \in Seq(Cmds) : q = cmd_rx[x]
  OBVIOUS
<1>2. cmd_rx'[x] = Append(q, c) /\ \A y \in Nodes : y # x => cmd_rx'[y] = cmd_rx[y]
  BY <1>1 DEF Issue
<1>3. Append(q, c) \in Seq(Cmds)
  BY Put
<1>4. cmd_rx' \in [Nodes -> Seq(Cmds)]
  BY <1>1, <1>3 DEF Issue
<1>5. QED BY <1>1, <1>2, <1>4, Put

\* A command taken from it.
LEMMA CommandTaken ==
  ASSUME BaseInv, NEW x \in Nodes, NEW op, TakeCommand(x, op)
  PROVE  /\ cmd_rx' \in [Nodes -> Seq(Cmds)]
         /\ Command(x) \in Cmds /\ Command(x) \in ToSet(cmd_rx[x]) /\ Command(x).op = op
         /\ cmd_rx'[x] = Tail(cmd_rx[x]) /\ cmd_rx[x] \in Seq(Cmds) /\ cmd_rx[x] # <<>>
         /\ \A y \in Nodes : ToSet(cmd_rx'[y]) \subseteq ToSet(cmd_rx[y])
         /\ \A y \in Nodes : y # x => cmd_rx'[y] = cmd_rx[y]
         /\ running[x] /\ awaiting[x] = Idle
         /\ Told => CommandsHeard'
<1>1. cmd_rx \in [Nodes -> Seq(Cmds)] /\ cmd_rx[x] # <<>> /\ Command(x).op = op
      /\ cmd_rx' = [cmd_rx EXCEPT ![x] = Tail(@)]
  BY DEF BaseInv, Typed, TakeCommand
<1>2. PICK q \in Seq(Cmds) : q = cmd_rx[x]
  BY <1>1
<1>3. Head(q) \in Cmds /\ Head(q) \in ToSet(q) /\ Tail(q) \in Seq(Cmds) /\ ToSet(Tail(q)) \subseteq ToSet(q)
  BY <1>1, <1>2, Taken
<1>4. cmd_rx'[x] = Tail(q) /\ \A y \in Nodes : y # x => cmd_rx'[y] = cmd_rx[y]
  BY <1>1, <1>2
<1>5. cmd_rx' \in [Nodes -> Seq(Cmds)]
  BY <1>1, <1>2, <1>3
<1>6. \A y \in Nodes : ToSet(cmd_rx'[y]) \subseteq ToSet(cmd_rx[y])
  BY <1>2, <1>3, <1>4
<1>7. ASSUME Told PROVE CommandsHeard'
  BY <1>6, <1>7, HeardKept DEF BaseInv, HeardInv, CommandsHeard
<1>8. running[x] /\ awaiting[x] = Idle
  BY DEF TakeCommand, Selecting
<1>9. QED BY <1>1, <1>2, <1>3, <1>4, <1>5, <1>6, <1>7, <1>8 DEF Command

\* A command that names a stream.
LEMMA StreamCommands ==
  ASSUME NEW c \in Cmds
  PROVE  /\ c.op \in {"CreateStream", "CloseStream", "Send"} =>
              c.conn \in Links /\ c.stream \in Used /\ <<c.conn, c.stream>> \in Keys
         /\ c.op = "Send" => c.data \in Nat
         /\ c.op = "Connect" => c.conn \in Links
BY DEF Cmds, Keys

\* A stream put into the queue of registrations.
LEMMA Enrolled ==
  ASSUME BaseInv, NEW x \in Nodes, NEW l \in Links, NEW s \in Used, NEW i \in Nat, Enrol(x, l, s, i)
  PROVE  /\ stream_reg_rx' \in [Nodes -> Seq(Regs)]
         /\ ToSet(stream_reg_rx'[x]) =
              ToSet(stream_reg_rx[x]) \cup {[conn |-> l, stream |-> s, bidi |-> i]}
         /\ stream_reg_rx'[x] = Append(stream_reg_rx[x], [conn |-> l, stream |-> s, bidi |-> i])
         /\ \A y \in Nodes : y # x => stream_reg_rx'[y] = stream_reg_rx[y]
         /\ Told /\ l \in Heard(x)' => RegistrationsHeard'
         /\ Grown /\ i # 0 /\ IsSendStream(l, s, i)' => RegistrationsFit'
         /\ Grown /\ i = 0 /\ s.reliability # "Reliable" => RegistrationsFit'
<1> DEFINE r == [conn |-> l, stream |-> s, bidi |-> i]
<1>1. r \in Regs /\ r.conn = l /\ r.stream = s /\ r.bidi = i
  BY DEF Regs
<1>2. stream_reg_rx \in [Nodes -> Seq(Regs)] /\ stream_reg_rx' = [stream_reg_rx EXCEPT ![x] = Append(@, r)]
  BY DEF BaseInv, Typed, TypedRegistrations, Enrol
<1> HIDE DEF r
<1>3. PICK q \in Seq(Regs) : q = stream_reg_rx[x]
  BY <1>2
<1>4. stream_reg_rx'[x] = Append(q, r) /\ \A y \in Nodes : y # x => stream_reg_rx'[y] = stream_reg_rx[y]
  BY <1>2, <1>3
<1>5. Append(q, r) \in Seq(Regs) /\ ToSet(Append(q, r)) = ToSet(q) \cup {r}
  BY <1>1, Put
<1>6. stream_reg_rx' \in [Nodes -> Seq(Regs)]
  BY <1>2, <1>3, <1>5
<1>7. ToSet(stream_reg_rx'[x]) = ToSet(stream_reg_rx[x]) \cup {r}
  BY <1>3, <1>4, <1>5
<1>8. ASSUME Told, l \in Heard(x)' PROVE RegistrationsHeard'
  <2>1. \A y \in Nodes : \A t \in ToSet(stream_reg_rx[y]) : t.conn \in Heard(y)'
    BY <1>8, HeardKept DEF BaseInv, HeardInv, RegistrationsHeard
  <2>2. QED BY <1>1, <1>4, <1>7, <1>8, <2>1 DEF RegistrationsHeard
<1>9. ASSUME Grown, \/ i # 0 /\ IsSendStream(l, s, i)'
                    \/ i = 0 /\ s.reliability # "Reliable"
      PROVE  RegistrationsFit'
  <2>1. ASSUME NEW y \in Nodes, NEW t \in ToSet(stream_reg_rx[y])
        PROVE  /\ t.bidi # 0 => IsSendStream(t.conn, t.stream, t.bidi)'
               /\ t.bidi = 0 => t.stream.reliability # "Reliable"
    <3>1. t \in Regs
      BY <1>2, Elements
    <3>2. t.conn \in Links
      BY <3>1 DEF Regs
    <3>3. QED BY <1>9, <3>2, FitKept DEF BaseInv, StreamInv, RegistrationsFit
  <2>2. QED BY <1>1, <1>4, <1>7, <1>9, <2>1 DEF RegistrationsFit
<1>10. QED BY <1>3, <1>4, <1>6, <1>7, <1>8, <1>9 DEF r

-----------------------------------------------------------------------------
(* The steps of the game and of the wire.                                  *)

\* What the game has polled was told.
LEMMA PolledWasTold ==
  ASSUME BaseInv, NEW x \in Nodes, NEW e \in Polled(x)
  PROVE  e \in ToSet(events[x]) /\ e \in Events /\ e.conn \in Heard(x)
<1>1. /\ polled[x] \in Nat /\ polled[x] <= Len(events[x]) /\ events[x] \in Seq(Events)
  BY DEF BaseInv, Typed, TypedGame, TypedEvents
<1>2. PICK i \in 1 .. polled[x] : e = events[x][i]
  BY DEF Polled
<1>3. Len(events[x]) \in Nat /\ ToSet(events[x]) \subseteq Events
      /\ \A f : f \in ToSet(events[x]) <=> \E j \in 1 .. Len(events[x]) : events[x][j] = f
  BY <1>1, Elements
<1>4. i \in 1 .. Len(events[x])
  BY <1>1, <1>3
<1>5. e \in ToSet(events[x])
  BY <1>2, <1>3, <1>4
<1>6. QED BY <1>3, <1>5 DEF BaseInv, HeardInv, EventsHeard

\* The game polls.
LEMMA PollKeeps ==
  ASSUME BaseInv, NEW x \in Nodes, Poll(x)
  PROVE  BaseInv'
<1>1. /\ polled' = [polled EXCEPT ![x] = @ + 1] /\ polled[x] < Len(events[x])
      /\ UNCHANGED <<loop, tasks, cmd_rx, registrations, events, wire, created, closed, sends, history>>
  BY DEF Poll
<1>2. Told /\ UNCHANGED bidis
  BY <1>1 DEF Told, wire
<1>3. HeardInv'
  BY <1>1, <1>2, HeardKept DEF HeardInv, loop, tasks, registrations
<1>4. StreamInv'
  <2>1. TablesFit' /\ RegistrationsFit' /\ BidisFit'
    BY <1>1, <1>2, FitKept, WireKept DEF loop, registrations
  <2>2. AwaitedFit' /\ DatagramsFit'
    BY <1>1 DEF BaseInv, StreamInv, AwaitedFit, DatagramsFit, loop, tasks, wire
  <2>3. QED BY <2>1, <2>2 DEF StreamInv
<1>5. TypedGame'
  <2>1. /\ polled \in [Nodes -> Nat] /\ \A y \in Nodes : polled[y] <= Len(events[y])
        /\ \A y \in Nodes : Len(events[y]) \in Nat
    BY Elements DEF BaseInv, Typed, TypedGame, TypedEvents
  <2>2. polled' \in [Nodes -> Nat]
    BY <1>1, <2>1
  <2>3. \A y \in Nodes : polled'[y] <= Len(events'[y])
    BY <1>1, <2>1
  <2>4. QED BY <1>1, <2>2, <2>3 DEF BaseInv, Typed, TypedGame
<1>6. Typed'
  BY <1>1, <1>5 DEF BaseInv, Typed, TypedLoop, TypedTasks, TypedRegistrations, TypedEvents, TypedWire,
     loop, tasks, registrations, wire
<1>7. QED BY <1>3, <1>4, <1>6 DEF BaseInv

\* The commands a game issues for a connection it was told of.
LEMMA IssueKeeps ==
  ASSUME BaseInv, NEW x \in Nodes, NEW c \in Cmds, Issue(x, c),
         c.op \in {"CreateStream", "CloseStream", "Send"} => c.conn \in Heard(x), c.op # "Connect",
         UNCHANGED <<loop, tasks, registrations, events, wire, polled>>, TypedGame'
  PROVE  BaseInv'
<1>1. Told /\ UNCHANGED bidis
  BY DEF Told, wire
<1>2. /\ cmd_rx' \in [Nodes -> Seq(Cmds)]
      /\ ToSet(cmd_rx'[x]) = ToSet(cmd_rx[x]) \cup {c}
      /\ \A y \in Nodes : y # x => cmd_rx'[y] = cmd_rx[y]
  BY Issued DEF BaseInv, Typed
<1>3. CommandsHeard'
  <2>1. \A y \in Nodes : Heard(y)' = Heard(y)
    BY DEF Heard
  <2>2. \A y \in Nodes : \A d \in ToSet(cmd_rx[y]) :
          /\ d.op \in {"CreateStream", "CloseStream", "Send"} => d.conn \in Heard(y)'
          /\ d.op = "Connect" => Dialer[d.conn] = y
    BY <2>1 DEF BaseInv, HeardInv, CommandsHeard
  <2>3. QED BY <1>2, <2>1, <2>2 DEF CommandsHeard
<1>4. HeardInv'
  BY <1>1, <1>3, HeardKept DEF HeardInv, loop, tasks, registrations
<1>5. StreamInv'
  <2>1. TablesFit' /\ RegistrationsFit' /\ BidisFit'
    BY <1>1, FitKept, WireKept DEF loop, registrations
  <2>2. AwaitedFit' /\ DatagramsFit'
    BY DEF BaseInv, StreamInv, AwaitedFit, DatagramsFit, loop, tasks, wire
  <2>3. QED BY <2>1, <2>2 DEF StreamInv
<1>6. Typed'
  BY <1>2 DEF BaseInv, Typed, TypedLoop, TypedTasks, TypedRegistrations, TypedEvents, TypedWire,
     loop, tasks, registrations, wire
<1>7. QED BY <1>4, <1>5, <1>6 DEF BaseInv

\* What a game may send on is a stream of a connection it was told of.
LEMMA OfferedIsHeard ==
  ASSUME BaseInv, NEW x \in Nodes, NEW l \in LinksOf(x), NEW s, Offered(x, l, s)
  PROVE  l \in Heard(x)
<1>1. CASE OfStream("StreamCreated", l, s) \in Polled(x)
  BY <1>1, PolledWasTold DEF OfStream
<1>2. CASE \E e \in Polled(x) : e.type = "Message" /\ e.conn = l /\ e.stream = s
  BY <1>2, PolledWasTold
<1>3. CASE Plain("Connected", l) \in Polled(x)
  BY <1>3, PolledWasTold DEF Plain
<1>4. QED BY <1>1, <1>2, <1>3 DEF Offered

\* The game polls or issues a command.
LEMMA GameKeeps ==
  ASSUME BaseInv, NEW x \in Nodes, Game(x)
  PROVE  BaseInv'
<1>1. CASE Poll(x)
  BY <1>1, PollKeeps
<1>2. CASE AskShutdown(x)
  <2>1. [op |-> "Shutdown"] \in Cmds /\ Issue(x, [op |-> "Shutdown"])
    BY <1>2 DEF AskShutdown, Cmds
  <2>2. UNCHANGED <<loop, tasks, registrations, events, wire, polled>>
    BY <1>2 DEF AskShutdown, game
  <2>3. TypedGame'
    BY <1>2 DEF AskShutdown, game, BaseInv, Typed, TypedGame
  <2>4. QED BY <2>1, <2>2, <2>3, IssueKeeps
<1>3. ASSUME NEW l \in LinksOf(x), NEW s \in Creates[x], AskCreate(x, l, s)
      PROVE  BaseInv'
  <2> DEFINE c == [op |-> "CreateStream", conn |-> l, stream |-> s]
  <2>1. l \in Links /\ s \in Used /\ <<l, s>> \in Keys
    BY DEF LinksOf, Used, Keys
  <2>2. c \in Cmds /\ Issue(x, c) /\ c.op = "CreateStream" /\ c.conn = l
    BY <1>3, <2>1 DEF AskCreate, Cmds
  <2>3. l \in Heard(x)
    BY <1>3, PolledWasTold DEF AskCreate, Plain
  <2>4. UNCHANGED <<loop, tasks, registrations, events, wire, polled, closed, sends>>
        /\ created' = [created EXCEPT ![x] = @ \cup {<<l, s>>}]
    BY <1>3 DEF AskCreate
  <2>5. TypedGame'
    BY <2>1, <2>4 DEF BaseInv, Typed, TypedGame
  <2> HIDE DEF c
  <2>6. QED BY <2>2, <2>3, <2>4, <2>5, IssueKeeps
<1>4. ASSUME NEW l \in LinksOf(x), NEW s \in Creates[x], AskClose(x, l, s)
      PROVE  BaseInv'
  <2> DEFINE c == [op |-> "CloseStream", conn |-> l, stream |-> s]
  <2>1. l \in Links /\ s \in Used /\ <<l, s>> \in Keys
    BY DEF LinksOf, Used, Keys
  <2>2. c \in Cmds /\ Issue(x, c) /\ c.op = "CloseStream" /\ c.conn = l
    BY <1>4, <2>1 DEF AskClose, Cmds
  <2>3. l \in Heard(x)
    BY <1>4, PolledWasTold DEF AskClose, OfStream
  <2>4. UNCHANGED <<loop, tasks, registrations, events, wire, polled, created, sends>>
        /\ closed' = [closed EXCEPT ![x] = @ \cup {<<l, s>>}]
    BY <1>4 DEF AskClose
  <2>5. TypedGame'
    BY <2>1, <2>4 DEF BaseInv, Typed, TypedGame
  <2> HIDE DEF c
  <2>6. QED BY <2>2, <2>3, <2>4, <2>5, IssueKeeps
<1>5. ASSUME NEW l \in LinksOf(x), NEW s \in UNION {Creates[y] : y \in Ends(l)}, AskSend(x, l, s)
      PROVE  BaseInv'
  <2> DEFINE c == [op |-> "Send", conn |-> l, stream |-> s, data |-> sends[x] + 1]
  <2>1. l \in Links /\ s \in Used
    BY EndsOfLink DEF LinksOf, Used
  <2>2. sends \in [Nodes -> Nat] /\ sends[x] + 1 \in Nat
    BY DEF BaseInv, Typed, TypedGame
  <2>3. c \in Cmds /\ Issue(x, c) /\ c.op = "Send" /\ c.conn = l
    BY <1>5, <2>1, <2>2 DEF AskSend, Cmds
  <2>4. l \in Heard(x)
    BY <1>5, OfferedIsHeard DEF AskSend
  <2>5. UNCHANGED <<loop, tasks, registrations, events, wire, polled, created, closed>>
        /\ sends' = [sends EXCEPT ![x] = @ + 1]
    BY <1>5 DEF AskSend
  <2>6. TypedGame'
    BY <2>2, <2>5 DEF BaseInv, Typed, TypedGame
  <2> HIDE DEF c
  <2>7. QED BY <2>3, <2>4, <2>5, <2>6, IssueKeeps
<1>6. QED BY <1>1, <1>2, <1>3, <1>4, <1>5 DEF Game

\* A step that cuts connections, and of the loop changes only that it runs.
LEMMA CutKeeps ==
  ASSUME BaseInv, NEW D, Cut(D),
         running' \in [Nodes -> BOOLEAN], listening' \in [Nodes -> BOOLEAN],
         cmd_rx' \in [Nodes -> Seq(Cmds)], CommandsHeard',
         UNCHANGED <<awaiting, connections, reliable_send_streams, unreliable_send_streams,
                     accepting, reading, known_streams, datagram, registrations, events, game>>
  PROVE  BaseInv'
<1>1. /\ TypedWire' /\ WireTyped' /\ SameBidis /\ Grown
      /\ \A l \in Links : datagrams'[l] \subseteq datagrams[l]
  BY BidisCut, SameIsGrown DEF BaseInv, Typed
<1>2. Told
  BY DEF Told
<1>3. HeardInv'
  BY <1>2, HeardKept DEF HeardInv, registrations
<1>4. StreamInv'
  <2>1. TablesFit' /\ RegistrationsFit' /\ BidisFit'
    BY <1>1, FitKept, BidisKept DEF registrations
  <2>2. AwaitedFit' /\ DatagramsFit'
    BY <1>1 DEF BaseInv, StreamInv, AwaitedFit, DatagramsFit
  <2>3. QED BY <2>1, <2>2 DEF StreamInv
<1>5. TypedGame'
  BY DEF game, BaseInv, Typed, TypedGame
<1>6. Typed'
  BY <1>1, <1>5 DEF BaseInv, Typed, TypedLoop, TypedTasks, TypedRegistrations, TypedEvents, registrations
<1>7. QED BY <1>3, <1>4, <1>6 DEF BaseInv

\* Something is lost on the wire.
LEMMA WireKeeps ==
  ASSUME BaseInv, NEW l \in Links, LinkLost(l) \/ DatagramLost(l)
  PROVE  BaseInv'
<1>1. Told
  BY DEF Told, LinkLost, DatagramLost
<1>2. CASE LinkLost(l)
  <2>1. Cut({l}) /\ UNCHANGED <<loop, tasks, cmd_rx, registrations, events, game>>
    BY <1>2 DEF LinkLost
  <2>2. CommandsHeard'
    BY <1>1, <2>1, HeardKept
  <2>3. QED BY <2>1, <2>2, CutKeeps DEF loop, tasks, BaseInv, Typed, TypedLoop, TypedTasks
<1>3. CASE DatagramLost(l)
  <2>1. PICK dg \in datagrams[l] : datagrams' = [datagrams EXCEPT ![l] = @ \ {dg}]
    BY <1>3 DEF DatagramLost
  <2>2. UNCHANGED <<loop, tasks, cmd_rx, registrations, events, link, bidis, game>>
    BY <1>3 DEF DatagramLost
  <2>3. datagrams' \in [Links -> SUBSET Datagrams] /\ \A m \in Links : datagrams'[m] \subseteq datagrams[m]
    BY <2>1 DEF BaseInv, Typed, TypedWire
  <2>4. TypedWire' /\ Grown /\ BidisFit'
    BY <2>2, <2>3, WireKept DEF BaseInv, Typed, TypedWire
  <2>5. HeardInv'
    BY <1>1, <2>2, HeardKept DEF HeardInv, loop, tasks, registrations
  <2>6. StreamInv'
    <3>1. TablesFit' /\ RegistrationsFit'
      BY <2>2, <2>4, FitKept DEF loop, registrations
    <3>2. AwaitedFit' /\ DatagramsFit'
      BY <2>2, <2>3 DEF BaseInv, StreamInv, AwaitedFit, DatagramsFit, loop, tasks
    <3>3. QED BY <2>4, <3>1, <3>2 DEF StreamInv
  <2>7. TypedGame'
    BY <2>2 DEF game, BaseInv, Typed, TypedGame
  <2>8. Typed'
    BY <2>2, <2>4, <2>7 DEF BaseInv, Typed, TypedLoop, TypedTasks, TypedRegistrations, TypedEvents,
       loop, tasks, registrations
  <2>9. QED BY <2>5, <2>6, <2>8 DEF BaseInv
<1>4. QED BY <1>2, <1>3

-----------------------------------------------------------------------------
(* The steps of the loop.                                                  *)

LEMMA RegisterConnectionKeeps ==
  ASSUME BaseInv, NEW x \in Nodes, RegisterConnection(x)
  PROVE  BaseInv'
<1>1. /\ conn_reg_rx[x] # <<>> /\ conn_reg_rx' = [conn_reg_rx EXCEPT ![x] = Tail(@)]
      /\ connections' = [connections EXCEPT ![x] = @ \cup {Head(conn_reg_rx[x])}]
      /\ UNCHANGED <<running, awaiting, reliable_send_streams, unreliable_send_streams, tasks,
                     cmd_rx, stream_reg_rx, events, wire, game>>
  BY DEF RegisterConnection
<1>2. conn_reg_rx \in [Nodes -> Seq(Links)] /\ connections \in [Nodes -> SUBSET Links]
  BY DEF BaseInv, Typed, TypedRegistrations, TypedLoop
<1>3. PICK q \in Seq(Links) : q = conn_reg_rx[x]
  BY <1>2
<1>4. Head(q) \in Links /\ Head(q) \in ToSet(q) /\ Tail(q) \in Seq(Links) /\ ToSet(Tail(q)) \subseteq ToSet(q)
  BY <1>1, <1>3, Taken
<1>5. /\ conn_reg_rx' \in [Nodes -> Seq(Links)] /\ connections' \in [Nodes -> SUBSET Links]
      /\ conn_reg_rx'[x] = Tail(q) /\ connections'[x] = connections[x] \cup {Head(q)}
      /\ \A y \in Nodes : y # x => conn_reg_rx'[y] = conn_reg_rx[y] /\ connections'[y] = connections[y]
  BY <1>1, <1>2, <1>3, <1>4
<1>6. Told /\ UNCHANGED bidis
  BY <1>1 DEF Told, wire
<1>7. LinksHeard'
  <2>1. ASSUME NEW y \in Nodes
        PROVE  connections'[y] \subseteq Heard(y) /\ ToSet(conn_reg_rx'[y]) \subseteq Heard(y)
    <3>1. connections[y] \subseteq Heard(y) /\ ToSet(conn_reg_rx[y]) \subseteq Heard(y)
      BY DEF BaseInv, HeardInv, LinksHeard
    <3>2. CASE y = x
      BY <1>3, <1>4, <1>5, <3>1, <3>2
    <3>3. CASE y # x
      BY <1>5, <3>1, <3>3
    <3>4. QED BY <3>2, <3>3
  <2>2. \A y \in Nodes : Heard(y)' = Heard(y)
    BY <1>1 DEF Heard
  <2>3. QED BY <1>1, <2>1, <2>2 DEF tasks, BaseInv, HeardInv, LinksHeard
<1>8. HeardInv'
  BY <1>1, <1>6, <1>7, HeardKept DEF HeardInv
<1>9. StreamInv'
  <2>1. TablesFit' /\ RegistrationsFit' /\ BidisFit'
    BY <1>1, <1>6, FitKept, WireKept
  <2>2. AwaitedFit' /\ DatagramsFit'
    BY <1>1 DEF BaseInv, StreamInv, AwaitedFit, DatagramsFit, tasks, wire
  <2>3. QED BY <2>1, <2>2 DEF StreamInv
<1>10. TypedGame'
  BY <1>1 DEF game, BaseInv, Typed, TypedGame
<1>11. Typed'
  BY <1>1, <1>5, <1>10 DEF BaseInv, Typed, TypedLoop, TypedTasks, TypedRegistrations, TypedEvents,
     TypedWire, tasks, wire
<1>12. QED BY <1>8, <1>9, <1>11 DEF BaseInv

\* A table of SendStreams with one more, and with one less.
LEMMA TablesTyped ==
  ASSUME NEW f \in Tables, NEW k \in Keys, NEW v \in Nat
  PROVE  /\ With(f, k, v) \in Tables /\ DOMAIN With(f, k, v) = DOMAIN f \cup {k}
         /\ With(f, k, v)[k] = v /\ \A j \in DOMAIN f : j # k => With(f, k, v)[j] = f[j]
         /\ Without(f, k) \in Tables /\ DOMAIN Without(f, k) = DOMAIN f \ {k}
         /\ \A j \in DOMAIN f \ {k} : Without(f, k)[j] = f[j]
<1>1. DOMAIN f \in SUBSET Keys /\ \A j \in DOMAIN f : f[j] \in Nat
  BY DEF Tables
<1>2. With(f, k, v) \in [DOMAIN f \cup {k} -> Nat] /\ DOMAIN f \cup {k} \in SUBSET Keys
  BY <1>1 DEF With
<1>3. Without(f, k) \in [DOMAIN f \ {k} -> Nat] /\ DOMAIN f \ {k} \in SUBSET Keys
  BY <1>1 DEF Without
<1>4. With(f, k, v) \in Tables /\ Without(f, k) \in Tables
  BY <1>2, <1>3 DEF Tables
<1>5. QED BY <1>4 DEF With, Without

\* What the loop finds in the queue of registrations.
LEMMA RegistrationTaken ==
  ASSUME BaseInv, NEW x \in Nodes, RegisterStream(x)
  PROVE  /\ stream_reg_rx' \in [Nodes -> Seq(Regs)]
         /\ Registration(x) \in Regs /\ Registration(x) \in ToSet(stream_reg_rx[x])
         /\ stream_reg_rx[x] \in Seq(Regs) /\ stream_reg_rx[x] # <<>>
         /\ stream_reg_rx'[x] = Tail(stream_reg_rx[x])
         /\ \A y \in Nodes : y # x => stream_reg_rx'[y] = stream_reg_rx[y]
         /\ \A y \in Nodes : ToSet(stream_reg_rx'[y]) \subseteq ToSet(stream_reg_rx[y])
         /\ Registration(x).conn \in Heard(x) /\ Registration(x).conn \in LinksOf(x)
         /\ Registration(x).stream \in Used /\ Registration(x).bidi \in Nat
         /\ Registration(x).conn \in Links
         /\ \/ /\ Registration(x).bidi # 0
               /\ IsSendStream(Registration(x).conn, Registration(x).stream, Registration(x).bidi)
               /\ RegisterReliable(x, <<Registration(x).conn, Registration(x).stream>>, Registration(x).bidi)
            \/ /\ Registration(x).bidi = 0 /\ Registration(x).stream.reliability # "Reliable"
               /\ RegisterUnreliable(x, <<Registration(x).conn, Registration(x).stream>>)
         /\ UNCHANGED <<running, awaiting, connections, tasks, cmd_rx, conn_reg_rx, link, datagrams, game, history>>
<1> DEFINE r == Registration(x)
<1>1. /\ stream_reg_rx[x] # <<>> /\ stream_reg_rx' = [stream_reg_rx EXCEPT ![x] = Tail(@)]
      /\ IF is_reliable(r.stream) /\ r.bidi # 0
         THEN RegisterReliable(x, <<r.conn, r.stream>>, r.bidi)
         ELSE RegisterUnreliable(x, <<r.conn, r.stream>>)
      /\ UNCHANGED <<running, awaiting, connections, tasks, cmd_rx, conn_reg_rx, link, datagrams, game, history>>
  BY DEF RegisterStream, RegisterAs
<1>2. stream_reg_rx \in [Nodes -> Seq(Regs)]
  BY DEF BaseInv, Typed, TypedRegistrations
<1>3. PICK q \in Seq(Regs) : q = stream_reg_rx[x]
  BY <1>2
<1>4. Head(q) \in Regs /\ Head(q) \in ToSet(q) /\ Tail(q) \in Seq(Regs) /\ ToSet(Tail(q)) \subseteq ToSet(q)
  BY <1>1, <1>3, Taken
<1>5. r \in Regs /\ r \in ToSet(stream_reg_rx[x])
  BY <1>3, <1>4 DEF Registration
<1>6. /\ stream_reg_rx' \in [Nodes -> Seq(Regs)]
      /\ stream_reg_rx'[x] = Tail(q)
      /\ \A y \in Nodes : y # x => stream_reg_rx'[y] = stream_reg_rx[y]
  BY <1>1, <1>2, <1>3, <1>4
<1>7. \A y \in Nodes : ToSet(stream_reg_rx'[y]) \subseteq ToSet(stream_reg_rx[y])
  BY <1>3, <1>4, <1>6
<1>8. r.conn \in Heard(x) /\ r.conn \in LinksOf(x)
  BY <1>5 DEF BaseInv, HeardInv, RegistrationsHeard, Heard
<1>9. r.stream \in Used /\ r.bidi \in Nat /\ r.conn \in Links
  BY <1>5 DEF Regs
<1>10. /\ r.bidi # 0 => IsSendStream(r.conn, r.stream, r.bidi)
       /\ r.bidi = 0 => r.stream.reliability # "Reliable"
  BY <1>5 DEF BaseInv, StreamInv, RegistrationsFit
<1>11. r.bidi # 0 => is_reliable(r.stream)
  BY <1>10 DEF IsSendStream, is_reliable
<1>12. stream_reg_rx[x] \in Seq(Regs) /\ stream_reg_rx'[x] = Tail(stream_reg_rx[x])
  BY <1>3, <1>6
<1> HIDE DEF r
<1>13. \/ r.bidi # 0 /\ RegisterReliable(x, <<r.conn, r.stream>>, r.bidi)
       \/ r.bidi = 0 /\ RegisterUnreliable(x, <<r.conn, r.stream>>)
  BY <1>1, <1>11
<1>14. QED BY <1>1, <1>5, <1>6, <1>7, <1>8, <1>9, <1>10, <1>12, <1>13 DEF r

\* A table is replaced by another whose entries fit.
LEMMA TableReplaced ==
  ASSUME BaseInv, Grown, NEW x \in Nodes, NEW f, f = reliable_send_streams[x], NEW g \in Tables,
         reliable_send_streams' = [reliable_send_streams EXCEPT ![x] = g],
         \A k \in DOMAIN g : \/ k \in DOMAIN f /\ g[k] = f[k]
                             \/ k[1] \in Links /\ IsSendStream(k[1], k[2], g[k])
  PROVE  /\ reliable_send_streams' \in [Nodes -> Tables] /\ TablesFit'
         /\ reliable_send_streams'[x] = g
         /\ \A y \in Nodes : y # x => reliable_send_streams'[y] = reliable_send_streams[y]
<1>1. reliable_send_streams \in [Nodes -> Tables]
  BY DEF BaseInv, Typed, TypedLoop
<1>2. /\ reliable_send_streams' \in [Nodes -> Tables] /\ reliable_send_streams'[x] = g
      /\ \A y \in Nodes : y # x => reliable_send_streams'[y] = reliable_send_streams[y]
  BY <1>1
<1>3. \A l \in Links : \A s, i : IsSendStream(l, s, i) => IsSendStream(l, s, i)'
  BY FitKept
<1>4. ASSUME NEW y \in Nodes, NEW h, h = reliable_send_streams[y], NEW k \in DOMAIN h
      PROVE  k[1] \in Links /\ IsSendStream(k[1], k[2], h[k])
  <2>1. h \in Tables
    BY <1>1, <1>4
  <2>2. k[1] \in Links
    BY <2>1 DEF Tables, Keys
  <2>3. QED BY <1>4, <2>2 DEF BaseInv, StreamInv, TablesFit
<1>5. \A k \in DOMAIN g : IsSendStream(k[1], k[2], g[k])'
  BY <1>3, <1>4
<1>6. ASSUME NEW y \in Nodes, y # x, NEW h, h = reliable_send_streams[y], NEW k \in DOMAIN h
      PROVE  IsSendStream(k[1], k[2], h[k])'
  BY <1>3, <1>4, <1>6
<1>7. TablesFit'
  BY <1>2, <1>5, <1>6 DEF TablesFit
<1>8. QED BY <1>2, <1>7

\* The loop registers a stream.
LEMMA RegisterStreamKeeps ==
  ASSUME BaseInv, NEW x \in Nodes, RegisterStream(x)
  PROVE  BaseInv'
<1>0. PICK r \in Regs : r = Registration(x)
  BY RegistrationTaken
<1> DEFINE key == <<r.conn, r.stream>>
           e == OfStream("StreamCreated", r.conn, r.stream)
<1>1. /\ stream_reg_rx' \in [Nodes -> Seq(Regs)]
      /\ \A y \in Nodes : ToSet(stream_reg_rx'[y]) \subseteq ToSet(stream_reg_rx[y])
      /\ r.conn \in Heard(x) /\ r.conn \in LinksOf(x) /\ r.conn \in Links
      /\ r.stream \in Used /\ r.bidi \in Nat
      /\ \/ r.bidi # 0 /\ IsSendStream(r.conn, r.stream, r.bidi) /\ RegisterReliable(x, key, r.bidi)
         \/ r.bidi = 0 /\ RegisterUnreliable(x, key)
      /\ UNCHANGED <<running, awaiting, connections, tasks, cmd_rx, conn_reg_rx, link, datagrams, game, history>>
  BY <1>0, RegistrationTaken
<1>2. e \in Events /\ e.conn = r.conn
  BY <1>1 DEF Events, OfStream
<1>3. key \in Keys /\ key[1] = r.conn /\ key[2] = r.stream
  BY <1>1 DEF Keys
<1>4. Told
  BY <1>1, <1>2 DEF Told, Tells, RegisterReliable, RegisterUnreliable
<1>5. reliable_send_streams \in [Nodes -> Tables] /\ unreliable_send_streams \in [Nodes -> SUBSET Keys]
      /\ WireTyped
  BY DEF BaseInv, Typed, TypedLoop, TypedWire, WireTyped
<1> HIDE DEF key, e
<1>6. /\ WireTyped' /\ SameBidis /\ Grown
      /\ reliable_send_streams' \in [Nodes -> Tables] /\ unreliable_send_streams' \in [Nodes -> SUBSET Keys]
      /\ TablesFit'
  <2>1. CASE r.bidi # 0 /\ IsSendStream(r.conn, r.stream, r.bidi) /\ RegisterReliable(x, key, r.bidi)
    <3>1. PICK f \in Tables : f = reliable_send_streams[x]
      BY <1>5
    <3>2. /\ reliable_send_streams' = [reliable_send_streams EXCEPT ![x] = With(f, key, r.bidi)]
          /\ IF key \in DOMAIN f THEN DropSendStream(x, key[1], f[key]) ELSE UNCHANGED bidis
          /\ UNCHANGED unreliable_send_streams
      BY <2>1, <3>1 DEF RegisterReliable
    <3>3. WireTyped' /\ SameBidis
      <4>1. CASE key \in DOMAIN f
        <5>1. f[key] \in DOMAIN bidis[r.conn]
          BY <1>3, <3>1, <4>1 DEF BaseInv, StreamInv, TablesFit, IsSendStream
        <5>2. QED BY <1>1, <1>3, <1>5, <3>2, <4>1, <5>1, BidiFinished
      <4>2. CASE key \notin DOMAIN f
        BY <1>5, <3>2, <4>2, BidisUnchanged
      <4>3. QED BY <4>1, <4>2
    <3>4. Grown
      BY <3>3, SameIsGrown
    <3>5. PICK g \in Tables :
            /\ g = With(f, key, r.bidi) /\ DOMAIN g = DOMAIN f \cup {key} /\ g[key] = r.bidi
            /\ \A j \in DOMAIN f : j # key => g[j] = f[j]
      <4>1. PICK k \in Keys, v \in Nat : k = key /\ v = r.bidi
        BY <1>1, <1>3
      <4>2. /\ With(f, k, v) \in Tables /\ DOMAIN With(f, k, v) = DOMAIN f \cup {k}
            /\ With(f, k, v)[k] = v /\ \A j \in DOMAIN f : j # k => With(f, k, v)[j] = f[j]
        <5>1. With(f, k, v) \in Tables
          BY TablesTyped
        <5>2. QED BY <5>1 DEF With
      <4>3. QED BY <4>1, <4>2
    <3>6. reliable_send_streams' = [reliable_send_streams EXCEPT ![x] = g]
      BY <3>2, <3>5
    <3>7. \A k \in DOMAIN g : \/ k \in DOMAIN f /\ g[k] = f[k]
                              \/ k[1] \in Links /\ IsSendStream(k[1], k[2], g[k])
      BY <1>1, <1>3, <2>1, <3>5
    <3>8. reliable_send_streams' \in [Nodes -> Tables] /\ TablesFit'
      BY <3>1, <3>4, <3>6, <3>7, TableReplaced
    <3>9. QED BY <1>5, <3>2, <3>3, <3>4, <3>8
  <2>2. CASE r.bidi = 0 /\ RegisterUnreliable(x, key)
    <3>1. /\ unreliable_send_streams' = [unreliable_send_streams EXCEPT ![x] = @ \cup {key}]
          /\ UNCHANGED <<reliable_send_streams, bidis>>
      BY <2>2 DEF RegisterUnreliable
    <3>2. unreliable_send_streams' \in [Nodes -> SUBSET Keys]
      BY <1>3, <1>5, <3>1
    <3>3. WireTyped' /\ SameBidis /\ Grown
      BY <3>1, WireKept
    <3>4. QED BY <1>5, <3>1, <3>2, <3>3, FitKept
  <2>3. QED BY <1>1, <2>1, <2>2
<1>7. RegistrationsHeard' /\ RegistrationsFit'
  <2>1. \A y \in Nodes : \A t \in ToSet(stream_reg_rx[y]) : t.conn \in Links
    BY DEF BaseInv, HeardInv, RegistrationsHeard, Heard, LinksOf
  <2>2. \A y \in Nodes : \A t \in ToSet(stream_reg_rx[y]) : t.conn \in Heard(y)'
    BY <1>4, HeardKept DEF BaseInv, HeardInv, RegistrationsHeard
  <2>3. \A y \in Nodes : \A t \in ToSet(stream_reg_rx[y]) :
          /\ t.bidi # 0 => IsSendStream(t.conn, t.stream, t.bidi)'
          /\ t.bidi = 0 => t.stream.reliability # "Reliable"
    BY <1>6, <2>1, FitKept DEF BaseInv, StreamInv, RegistrationsFit
  <2>4. QED BY <1>1, <2>2, <2>3 DEF RegistrationsHeard, RegistrationsFit
<1>8. HeardInv'
  BY <1>1, <1>4, <1>7, HeardKept DEF HeardInv, tasks
<1>9. StreamInv'
  <2>1. BidisFit'
    BY <1>6, BidisKept
  <2>2. AwaitedFit' /\ DatagramsFit'
    BY <1>1 DEF BaseInv, StreamInv, AwaitedFit, DatagramsFit, tasks
  <2>3. QED BY <1>6, <1>7, <2>1, <2>2 DEF StreamInv
<1>10. TypedGame' /\ TypedEvents'
  BY <1>1, <1>4, HeardKept DEF game
<1>11. TypedWire'
  BY <1>1, <1>6 DEF BaseInv, Typed, TypedWire, WireTyped
<1>12. Typed'
  BY <1>1, <1>6, <1>10, <1>11 DEF BaseInv, Typed, TypedLoop, TypedTasks, TypedRegistrations, tasks
<1>13. QED BY <1>8, <1>9, <1>12 DEF BaseInv

\* The end of run: by Shutdown, an endpoint that cannot be bound, a failed handshake or
\* a stream that cannot be opened.
LEMMA EndingKeeps ==
  ASSUME BaseInv, NEW x \in Nodes, Shutdown(x) \/ BindFails(x) \/ ConnectFails(x) \/ OpenFails(x)
  PROVE  BaseInv'
<1>1. /\ RunEnds(x)
      /\ UNCHANGED <<awaiting, connections, reliable_send_streams, unreliable_send_streams,
                     accepting, reading, known_streams, datagram, registrations, events, game>>
  BY DEF Shutdown, BindFails, ConnectFails, OpenFails
<1>2. Told
  BY <1>1 DEF Told
<1>3. cmd_rx' \in [Nodes -> Seq(Cmds)] /\ CommandsHeard'
  <2>1. CASE Shutdown(x) \/ BindFails(x)
    BY <1>2, <2>1, CommandTaken DEF Shutdown, BindFails
  <2>2. CASE ConnectFails(x) \/ OpenFails(x)
    <3>1. cmd_rx' = cmd_rx
      BY <2>2 DEF ConnectFails, OpenFails
    <3>2. QED BY <1>2, <3>1, HeardKept DEF BaseInv, Typed
  <2>3. QED BY <2>1, <2>2
<1>4. running' \in [Nodes -> BOOLEAN] /\ listening' \in [Nodes -> BOOLEAN]
  BY <1>1 DEF RunEnds, BaseInv, Typed, TypedLoop, TypedTasks
<1>5. PICK D : Cut(D)
  BY <1>1 DEF RunEnds
<1>6. QED BY <1>1, <1>3, <1>4, <1>5, CutKeeps

\* The commands that change nothing but whether the loop listens, or what it awaits.
LEMMA LoopCommandsKeep ==
  ASSUME BaseInv, NEW x \in Nodes,
         Bind(x) \/ Connect(x) \/ CreateReliable(x) \/ SendUnknown(x) \/ SendStreamless(x)
  PROVE  BaseInv'
<1>1. /\ UNCHANGED <<running, connections, reliable_send_streams, unreliable_send_streams, accepting,
                     reading, known_streams, datagram, registrations, events, bidis, datagrams, game>>
  BY DEF Bind, Connect, CreateReliable, SendUnknown, SendStreamless, loop, tasks, wire
<1>2. Told
  BY <1>1 DEF Told
<1>3. \E op : TakeCommand(x, op)
  BY DEF Bind, Connect, CreateReliable, SendUnknown, SendStreamless
<1>4. cmd_rx' \in [Nodes -> Seq(Cmds)] /\ CommandsHeard'
  BY <1>2, <1>3, CommandTaken
<1>5. listening' \in [Nodes -> BOOLEAN]
  <2>1. CASE Bind(x)
    BY <2>1 DEF Bind, BaseInv, Typed, TypedTasks
  <2>2. CASE ~Bind(x)
    BY <2>2 DEF Connect, CreateReliable, SendUnknown, SendStreamless, tasks, BaseInv, Typed, TypedTasks
  <2>3. QED BY <2>1, <2>2
<1>6. /\ awaiting' \in [Nodes -> Awaitings] /\ AwaitedHeard' /\ AwaitedFit'
      /\ link' \in [Links -> {"new", "dialing", "up", "down"}]
  <2>1. /\ awaiting \in [Nodes -> Awaitings] /\ AwaitedHeard /\ AwaitedFit
        /\ link \in [Links -> {"new", "dialing", "up", "down"}]
    BY DEF BaseInv, Typed, TypedLoop, TypedWire, HeardInv, StreamInv
  <2>2. CASE Bind(x) \/ SendUnknown(x) \/ SendStreamless(x)
    <3>1. awaiting' = awaiting /\ link' = link
      BY <2>2 DEF Bind, SendUnknown, SendStreamless, loop, wire
    <3>2. AwaitedHeard'
      BY <1>2, <3>1, HeardKept
    <3>3. QED BY <2>1, <3>1, <3>2 DEF AwaitedFit
  <2>3. CASE Connect(x)
    <3>1. PICK c \in Cmds : c = Command(x) /\ c \in ToSet(cmd_rx[x]) /\ c.op = "Connect"
      BY <2>3, CommandTaken DEF Connect
    <3>2. c.conn \in Links /\ Dialer[c.conn] = x
      BY <3>1, StreamCommands DEF BaseInv, HeardInv, CommandsHeard
    <3>3. PICK a : a = [on |-> "handshake", link |-> c.conn]
      OBVIOUS
    <3>4. a \in Awaitings /\ a.on = "handshake" /\ a.link = c.conn
      BY <3>2, <3>3 DEF Awaitings
    <3>5. awaiting' = [awaiting EXCEPT ![x] = a] /\ link' = [link EXCEPT ![c.conn] = "dialing"]
      BY <2>3, <3>1, <3>3 DEF Connect
    <3>6. awaiting'[x] = a /\ \A y \in Nodes : y # x => awaiting'[y] = awaiting[y]
      BY <2>1, <3>5
    <3>7. awaiting' \in [Nodes -> Awaitings] /\ link' \in [Links -> {"new", "dialing", "up", "down"}]
      BY <2>1, <3>4, <3>5
    <3>8. \A y \in Nodes : Heard(y)' = Heard(y)
      BY <1>1 DEF Heard
    <3>9. QED BY <2>1, <3>2, <3>4, <3>6, <3>7, <3>8 DEF AwaitedHeard, AwaitedFit
  <2>4. CASE CreateReliable(x)
    <3>1. PICK c \in Cmds : c = Command(x) /\ c \in ToSet(cmd_rx[x]) /\ c.op = "CreateStream"
      BY <2>4, CommandTaken DEF CreateReliable
    <3>2. c.conn \in Links /\ c.stream \in Used /\ c.conn \in Heard(x)
      BY <3>1, StreamCommands DEF BaseInv, HeardInv, CommandsHeard
    <3>3. link' = link /\ c.stream.reliability = "Reliable"
      BY <2>4, <3>1 DEF CreateReliable, wire
    <3>4. PICK a : a = [on |-> "stream", link |-> c.conn, stream |-> c.stream]
      OBVIOUS
    <3>5. a \in Awaitings /\ a.on = "stream" /\ a.link = c.conn /\ a.stream = c.stream
      BY <3>2, <3>4 DEF Awaitings
    <3>6. awaiting' = [awaiting EXCEPT ![x] = a] \/ awaiting' = awaiting
      BY <2>4, <3>1, <3>4 DEF CreateReliable
    <3>7. CASE awaiting' = awaiting
      BY <1>2, <2>1, <3>3, <3>7, HeardKept DEF AwaitedFit
    <3>8. CASE awaiting' = [awaiting EXCEPT ![x] = a]
      <4>1. awaiting'[x] = a /\ \A y \in Nodes : y # x => awaiting'[y] = awaiting[y]
        BY <2>1, <3>8
      <4>2. awaiting' \in [Nodes -> Awaitings]
        BY <2>1, <3>5, <3>8
      <4>3. \A y \in Nodes : Heard(y)' = Heard(y)
        BY <1>1 DEF Heard
      <4>4. QED BY <2>1, <3>2, <3>3, <3>5, <4>1, <4>2, <4>3 DEF AwaitedHeard, AwaitedFit
    <3>9. QED BY <3>6, <3>7, <3>8
  <2>5. QED BY <2>2, <2>3, <2>4
<1>7. HeardInv'
  BY <1>1, <1>2, <1>4, <1>6, HeardKept DEF HeardInv, registrations
<1>8. SameBidis /\ Grown /\ BidisFit' /\ TypedWire'
  BY <1>1, <1>6, WireKept DEF BaseInv, Typed, TypedWire
<1>9. StreamInv'
  <2>1. TablesFit' /\ RegistrationsFit'
    BY <1>1, <1>8, FitKept DEF registrations
  <2>2. DatagramsFit'
    BY <1>1 DEF BaseInv, StreamInv, DatagramsFit
  <2>3. QED BY <1>6, <1>8, <2>1, <2>2 DEF StreamInv
<1>10. TypedGame'
  BY <1>1 DEF game, BaseInv, Typed, TypedGame
<1>11. Typed'
  BY <1>1, <1>4, <1>5, <1>6, <1>8, <1>10 DEF BaseInv, Typed, TypedLoop, TypedTasks, TypedRegistrations,
     TypedEvents, registrations
<1>12. QED BY <1>7, <1>9, <1>11 DEF BaseInv

\* A handshake completes.
LEMMA ConnectCompletesKeeps ==
  ASSUME BaseInv, NEW x \in Nodes, ConnectCompletes(x)
  PROVE  BaseInv'
<1>1. PICK l : l = awaiting[x].link
  OBVIOUS
<1>2. /\ awaiting \in [Nodes -> Awaitings] /\ awaiting[x].on = "handshake"
      /\ connections \in [Nodes -> SUBSET Links] /\ reading \in [Nodes -> SUBSET Links]
      /\ link \in [Links -> {"new", "dialing", "up", "down"}]
  BY DEF BaseInv, Typed, TypedLoop, TypedTasks, TypedWire, ConnectCompletes
<1>3. l \in Links
  <2>1. awaiting[x] \in Awaitings
    BY <1>2
  <2>2. QED BY <1>1, <1>2, <2>1 DEF Awaitings, Idle
<1>4. l \in LinksOf(x)
  BY <1>1, <1>2, <1>3 DEF BaseInv, HeardInv, AwaitedHeard, LinksOf, Ends
<1>5. /\ link' = [link EXCEPT ![l] = "up"]
      /\ connections' = [connections EXCEPT ![x] = @ \cup {l}]
      /\ Emit(x, Plain("Connected", l))
      /\ reading' = [reading EXCEPT ![x] = @ \cup {l}]
      /\ awaiting' = [awaiting EXCEPT ![x] = Idle]
      /\ UNCHANGED <<running, reliable_send_streams, unreliable_send_streams, listening, accepting,
                     known_streams, datagram, cmd_rx, registrations, bidis, datagrams, game>>
  BY <1>1 DEF ConnectCompletes
<1>6. Plain("Connected", l) \in Events /\ Plain("Connected", l).conn = l /\ Plain("Connected", l).type = "Connected"
  BY <1>3 DEF Events, Plain
<1>7. Tells(x, Plain("Connected", l)) /\ Told
  BY <1>4, <1>5, <1>6 DEF Told, Tells
<1>8. Plain("Connected", l) \in ToSet(events'[x])
  <2>1. PICK e \in Events : e = Plain("Connected", l)
    BY <1>6
  <2>2. TypedEvents /\ Emit(x, e)
    BY <1>5, <2>1 DEF BaseInv, Typed
  <2>3. ToSet(events'[x]) = ToSet(events[x]) \cup {e}
    BY <2>2, Emitted
  <2>4. QED BY <2>1, <2>3
<1>9. l \in Heard(x)'
  BY <1>4, <1>8 DEF Heard
<1>10. /\ awaiting' \in [Nodes -> Awaitings] /\ awaiting'[x] = Idle
       /\ connections' \in [Nodes -> SUBSET Links] /\ reading' \in [Nodes -> SUBSET Links]
       /\ connections'[x] = connections[x] \cup {l} /\ reading'[x] = reading[x] \cup {l}
       /\ \A y \in Nodes : y # x => /\ awaiting'[y] = awaiting[y] /\ connections'[y] = connections[y]
                                    /\ reading'[y] = reading[y]
       /\ link' \in [Links -> {"new", "dialing", "up", "down"}]
  BY <1>2, <1>3, <1>5 DEF Awaitings
<1>11. \A y \in Nodes : Heard(y) \subseteq Heard(y)'
  BY <1>7, HeardKept
<1>12. LinksHeard'
  <2>1. ASSUME NEW y \in Nodes
        PROVE  /\ connections'[y] \subseteq Heard(y)' /\ reading'[y] \subseteq Heard(y)'
               /\ ToSet(conn_reg_rx'[y]) \subseteq Heard(y)' /\ accepting'[y] \in Heard(y)' \cup {NoLink}
    <3>1. /\ connections[y] \subseteq Heard(y)' /\ reading[y] \subseteq Heard(y)'
          /\ ToSet(conn_reg_rx[y]) \subseteq Heard(y)' /\ accepting[y] \in Heard(y)' \cup {NoLink}
      BY <1>11 DEF BaseInv, HeardInv, LinksHeard
    <3>2. conn_reg_rx' = conn_reg_rx /\ accepting' = accepting
      BY <1>5 DEF registrations
    <3>3. QED BY <1>9, <1>10, <3>1, <3>2
  <2>2. QED BY <2>1 DEF LinksHeard
<1>13. AwaitedHeard' /\ AwaitedFit'
  <2>1. Idle.on = "nothing"
    BY DEF Idle
  <2>2. QED BY <1>10, <1>11, <2>1 DEF BaseInv, HeardInv, StreamInv, AwaitedHeard, AwaitedFit
<1>14. HeardInv'
  BY <1>5, <1>7, <1>12, <1>13, HeardKept DEF HeardInv, registrations
<1>15. SameBidis /\ Grown /\ BidisFit' /\ TypedWire'
  BY <1>5, <1>10, WireKept DEF BaseInv, Typed, TypedWire
<1>16. StreamInv'
  <2>1. TablesFit' /\ RegistrationsFit'
    BY <1>5, <1>15, FitKept DEF registrations
  <2>2. DatagramsFit'
    BY <1>5 DEF BaseInv, StreamInv, DatagramsFit
  <2>3. QED BY <1>13, <1>15, <2>1, <2>2 DEF StreamInv
<1>17. TypedGame' /\ TypedEvents'
  BY <1>5, <1>7, HeardKept DEF game
<1>18. Typed'
  BY <1>5, <1>10, <1>15, <1>17 DEF BaseInv, Typed, TypedLoop, TypedTasks, TypedRegistrations, registrations
<1>19. QED BY <1>14, <1>16, <1>18 DEF BaseInv

\* A frame is written, or cannot be.
LEMMA SendReliableKeeps ==
  ASSUME BaseInv, NEW x \in Nodes, SendReliable(x)
  PROVE  BaseInv'
<1>1. PICK c \in Cmds : c = Command(x) /\ c \in ToSet(cmd_rx[x]) /\ c.op = "Send"
  BY CommandTaken DEF SendReliable
<1>2. c.conn \in Links /\ c.stream \in Used /\ c.data \in Nat /\ <<c.conn, c.stream>> \in Keys
  BY <1>1, StreamCommands
<1>3. c.conn \in Heard(x) /\ c.conn \in LinksOf(x)
  BY <1>1 DEF BaseInv, HeardInv, CommandsHeard, Heard
<1> DEFINE key == <<c.conn, c.stream>>
<1>4. PICK f \in Tables : f = reliable_send_streams[x]
  BY DEF BaseInv, Typed, TypedLoop
<1>5. /\ key \in DOMAIN f
      /\ \/ /\ bidis' = [bidis EXCEPT ![c.conn][f[key]] = WriteFrame(@, Peer(c.conn, x), c.data)]
            /\ UNCHANGED events
         \/ Emit(x, Plain("Error", c.conn)) /\ UNCHANGED bidis
      /\ UNCHANGED <<loop, tasks, registrations, link, datagrams, game>>
  BY <1>1, <1>4 DEF SendReliable
<1>6. cmd_rx' \in [Nodes -> Seq(Cmds)] /\ (Told => CommandsHeard')
  BY CommandTaken DEF SendReliable
<1>7. Plain("Error", c.conn) \in Events /\ Plain("Error", c.conn).conn = c.conn
  BY <1>2 DEF Plain, Events
<1>8. Told
  BY <1>3, <1>5, <1>7 DEF Told, Tells
<1>9. WireTyped
  BY DEF BaseInv, Typed, TypedWire, WireTyped
<1>10. WireTyped' /\ SameBidis
  <2>1. f[key] \in DOMAIN bidis[c.conn]
    BY <1>4, <1>5 DEF BaseInv, StreamInv, TablesFit, IsSendStream
  <2>2. PICK i \in DOMAIN bidis[c.conn] : i = f[key]
    BY <2>1
  <2>3. CASE UNCHANGED bidis
    BY <1>9, <2>3, BidisUnchanged
  <2>4. CASE bidis' = [bidis EXCEPT ![c.conn][i] = WriteFrame(@, Peer(c.conn, x), c.data)]
    BY <1>2, <1>9, <2>4, BidiWritten
  <2>5. QED BY <1>5, <2>2, <2>3, <2>4
<1>11. Grown /\ BidisFit'
  BY <1>10, SameIsGrown, BidisKept
<1>12. HeardInv'
  BY <1>5, <1>6, <1>8, HeardKept DEF HeardInv, loop, tasks, registrations
<1>13. StreamInv'
  <2>1. TablesFit' /\ RegistrationsFit'
    BY <1>5, <1>11, FitKept DEF loop, registrations
  <2>2. AwaitedFit' /\ DatagramsFit'
    BY <1>5 DEF BaseInv, StreamInv, AwaitedFit, DatagramsFit, loop, tasks
  <2>3. QED BY <1>11, <2>1, <2>2 DEF StreamInv
<1>14. TypedGame' /\ TypedEvents'
  BY <1>5, <1>8, HeardKept DEF game
<1>15. TypedWire'
  BY <1>5, <1>10 DEF BaseInv, Typed, TypedWire, WireTyped
<1>16. Typed'
  BY <1>5, <1>6, <1>14, <1>15 DEF BaseInv, Typed, TypedLoop, TypedTasks, TypedRegistrations,
     loop, tasks, registrations
<1>17. QED BY <1>12, <1>13, <1>16 DEF BaseInv

\* A datagram is sent, or cannot be.
LEMMA SendDatagramKeeps ==
  ASSUME BaseInv, NEW x \in Nodes, SendDatagram(x)
  PROVE  BaseInv'
<1>1. PICK c \in Cmds : c = Command(x) /\ c \in ToSet(cmd_rx[x]) /\ c.op = "Send"
  BY CommandTaken DEF SendDatagram
<1>2. c.conn \in Links /\ c.stream \in Used /\ c.data \in Nat
  BY <1>1, StreamCommands
<1>3. c.conn \in Heard(x) /\ c.conn \in LinksOf(x)
  BY <1>1 DEF BaseInv, HeardInv, CommandsHeard, Heard
<1> DEFINE dg == [to |-> Peer(c.conn, x), stream |-> c.stream, data |-> c.data]
<1>4. /\ ~is_reliable(c.stream)
      /\ \/ /\ datagrams' = [datagrams EXCEPT ![c.conn] = @ \cup {dg}]
            /\ UNCHANGED events
         \/ Emit(x, Plain("Error", c.conn)) /\ UNCHANGED datagrams
      /\ UNCHANGED <<loop, tasks, registrations, link, bidis, game>>
  BY <1>1 DEF SendDatagram
<1>5. cmd_rx' \in [Nodes -> Seq(Cmds)] /\ (Told => CommandsHeard')
  BY CommandTaken DEF SendDatagram
<1>6. Plain("Error", c.conn) \in Events /\ Plain("Error", c.conn).conn = c.conn
  BY <1>2 DEF Plain, Events
<1>7. Told
  BY <1>3, <1>4, <1>6 DEF Told, Tells
<1>8. dg \in Datagrams /\ ~is_reliable(dg.stream)
  <2>1. Peer(c.conn, x) \in Nodes
    BY <1>2, <1>3, EndsOfLink DEF LinksOf
  <2>2. QED BY <1>2, <1>4, <2>1 DEF Datagrams
<1> HIDE DEF dg
<1>9. /\ datagrams' \in [Links -> SUBSET Datagrams]
      /\ \A l \in Links : datagrams'[l] \subseteq datagrams[l] \cup {dg}
  <2>1. datagrams \in [Links -> SUBSET Datagrams]
    BY DEF BaseInv, Typed, TypedWire
  <2>2. CASE UNCHANGED datagrams
    BY <2>1, <2>2
  <2>3. CASE datagrams' = [datagrams EXCEPT ![c.conn] = @ \cup {dg}]
    BY <1>8, <2>1, <2>3
  <2>4. QED BY <1>4, <2>2, <2>3
<1>10. SameBidis /\ Grown /\ BidisFit' /\ TypedWire'
  BY <1>4, <1>9, WireKept DEF BaseInv, Typed, TypedWire
<1>11. HeardInv'
  BY <1>4, <1>5, <1>7, HeardKept DEF HeardInv, loop, tasks, registrations
<1>12. StreamInv'
  <2>1. TablesFit' /\ RegistrationsFit'
    BY <1>4, <1>10, FitKept DEF loop, registrations
  <2>2. AwaitedFit'
    BY <1>4 DEF BaseInv, StreamInv, AwaitedFit, loop
  <2>3. DatagramsFit'
    BY <1>4, <1>8, <1>9 DEF BaseInv, StreamInv, DatagramsFit, tasks
  <2>4. QED BY <1>10, <2>1, <2>2, <2>3 DEF StreamInv
<1>13. TypedGame' /\ TypedEvents'
  BY <1>4, <1>7, HeardKept DEF game
<1>14. Typed'
  BY <1>4, <1>5, <1>10, <1>13 DEF BaseInv, Typed, TypedLoop, TypedTasks, TypedRegistrations,
     loop, tasks, registrations
<1>15. QED BY <1>11, <1>12, <1>14 DEF BaseInv

\* A stream without a SendStream is asked for.
LEMMA CreateOtherKeeps ==
  ASSUME BaseInv, NEW x \in Nodes, CreateOther(x)
  PROVE  BaseInv'
<1>1. PICK c \in Cmds : c = Command(x) /\ c \in ToSet(cmd_rx[x]) /\ c.op = "CreateStream"
  BY CommandTaken DEF CreateOther
<1>2. c.conn \in Links /\ c.stream \in Used /\ c.conn \in Heard(x)
  BY <1>1, StreamCommands DEF BaseInv, HeardInv, CommandsHeard
<1>3. /\ c.stream.reliability # "Reliable" /\ Enrol(x, c.conn, c.stream, 0)
      /\ UNCHANGED <<loop, tasks, conn_reg_rx, events, wire, game>>
  BY <1>1 DEF CreateOther
<1>4. Told
  BY <1>3 DEF Told
<1>5. cmd_rx' \in [Nodes -> Seq(Cmds)] /\ CommandsHeard'
  BY <1>4, CommandTaken DEF CreateOther
<1>6. Grown /\ BidisFit'
  BY <1>3, WireKept DEF wire
<1>7. c.conn \in Heard(x)'
  BY <1>2, <1>4, HeardKept
<1>8. stream_reg_rx' \in [Nodes -> Seq(Regs)] /\ RegistrationsHeard' /\ RegistrationsFit'
  BY <1>2, <1>3, <1>4, <1>6, <1>7, Enrolled
<1>9. HeardInv'
  BY <1>3, <1>4, <1>5, <1>8, HeardKept DEF HeardInv, loop, tasks
<1>10. StreamInv'
  <2>1. TablesFit'
    BY <1>3, <1>6, FitKept DEF loop
  <2>2. AwaitedFit' /\ DatagramsFit'
    BY <1>3 DEF BaseInv, StreamInv, AwaitedFit, DatagramsFit, loop, tasks, wire
  <2>3. QED BY <1>6, <1>8, <2>1, <2>2 DEF StreamInv
<1>11. TypedGame'
  BY <1>3 DEF game, BaseInv, Typed, TypedGame
<1>12. Typed'
  BY <1>3, <1>5, <1>8, <1>11 DEF BaseInv, Typed, TypedLoop, TypedTasks, TypedRegistrations,
     TypedEvents, TypedWire, loop, tasks, wire
<1>13. QED BY <1>9, <1>10, <1>12 DEF BaseInv

\* What open_bi opens.
LEMMA Opening ==
  ASSUME BaseInv, NEW x \in Nodes, OpenBidi(x)
  PROVE  \E l \in Links, s \in Used :
           /\ l = awaiting[x].link /\ s = awaiting[x].stream /\ awaiting[x].on = "stream"
           /\ l \in Heard(x) /\ s.reliability = "Reliable"
           /\ \E B \in Bidis(l) :
                /\ B.opener = x /\ B.stream = s /\ B.accepted = FALSE
                /\ bidis' = [bidis EXCEPT ![l] = Append(@, B)]
           /\ Len(bidis[l]) \in Nat
           /\ Enrol(x, l, s, Len(bidis[l]) + 1)
           /\ awaiting' = [awaiting EXCEPT ![x] = Idle]
           /\ UNCHANGED <<running, connections, reliable_send_streams, unreliable_send_streams, tasks,
                          cmd_rx, conn_reg_rx, link, datagrams, game, history>>
<1>1. PICK l, s : l = awaiting[x].link /\ s = awaiting[x].stream
  OBVIOUS
<1>2. awaiting[x].on = "stream" /\ awaiting[x] \in Awaitings
  BY DEF OpenBidi, BaseInv, Typed, TypedLoop
<1>3. l \in Links /\ s \in Used
  BY <1>1, <1>2 DEF Awaitings, Idle
<1>4. l \in Heard(x) /\ s.reliability = "Reliable"
  BY <1>1, <1>2 DEF BaseInv, HeardInv, AwaitedHeard, StreamInv, AwaitedFit
<1> DEFINE B == [opener |-> x, stream |-> s, accepted |-> FALSE,
                 wire |-> [y \in Ends(l) |-> <<>>], ended |-> [y \in Ends(l) |-> FALSE]]
<1>5. B \in Bidis(l) /\ B.opener = x /\ B.stream = s /\ B.accepted = FALSE
  <2>1. [y \in Ends(l) |-> <<>>] \in [Ends(l) -> Seq(Nat)]
    BY Empty
  <2>2. [y \in Ends(l) |-> FALSE] \in [Ends(l) -> BOOLEAN]
    OBVIOUS
  <2>3. x \in Ends(l)
    BY <1>4 DEF Heard, LinksOf
  <2>4. QED BY <1>3, <2>1, <2>2, <2>3 DEF Bidis
<1>6. bidis' = [bidis EXCEPT ![l] = Append(@, B)]
  BY <1>1 DEF OpenBidi
<1> HIDE DEF B
<1>7. Len(bidis[l]) \in Nat
  BY <1>3, Elements DEF BaseInv, Typed, TypedWire
<1>8. /\ Enrol(x, l, s, Len(bidis[l]) + 1)
      /\ awaiting' = [awaiting EXCEPT ![x] = Idle]
      /\ UNCHANGED <<running, connections, reliable_send_streams, unreliable_send_streams, tasks,
                     cmd_rx, conn_reg_rx, link, datagrams, game, history>>
  BY <1>1 DEF OpenBidi
<1>9. QED BY <1>1, <1>2, <1>3, <1>4, <1>5, <1>6, <1>7, <1>8

\* The stream asked for is open.
LEMMA OpenCompletesKeeps ==
  ASSUME BaseInv, NEW x \in Nodes, OpenCompletes(x)
  PROVE  BaseInv'
<1>1. OpenBidi(x) /\ events' = events
  BY DEF OpenCompletes
<1>2. PICK l \in Links, s \in Used :
        /\ l = awaiting[x].link /\ s = awaiting[x].stream /\ awaiting[x].on = "stream"
        /\ l \in Heard(x) /\ s.reliability = "Reliable"
        /\ \E B \in Bidis(l) :
             /\ B.opener = x /\ B.stream = s /\ B.accepted = FALSE
             /\ bidis' = [bidis EXCEPT ![l] = Append(@, B)]
        /\ Len(bidis[l]) \in Nat
        /\ Enrol(x, l, s, Len(bidis[l]) + 1)
        /\ awaiting' = [awaiting EXCEPT ![x] = Idle]
        /\ UNCHANGED <<running, connections, reliable_send_streams, unreliable_send_streams, tasks,
                       cmd_rx, conn_reg_rx, link, datagrams, game, history>>
  BY <1>1, Opening
<1>3. PICK B \in Bidis(l) : B.opener = x /\ B.stream = s /\ B.accepted = FALSE
                            /\ bidis' = [bidis EXCEPT ![l] = Append(@, B)]
  BY <1>2
<1>4. WireTyped
  BY DEF BaseInv, Typed, TypedWire, WireTyped
<1>5. /\ WireTyped'
      /\ DOMAIN bidis[l] = 1 .. Len(bidis[l]) /\ DOMAIN bidis'[l] = 1 .. Len(bidis[l]) + 1
      /\ bidis'[l][Len(bidis[l]) + 1] = B
      /\ \A i \in DOMAIN bidis[l] : bidis'[l][i] = bidis[l][i]
      /\ \A m \in Links : m # l => bidis'[m] = bidis[m]
  BY <1>3, <1>4, BidiOpened
<1>6. PICK n \in Nat : n = Len(bidis[l])
  BY <1>2
<1>7. Grown
  <2>1. ASSUME NEW m \in Links
        PROVE  /\ DOMAIN bidis[m] \subseteq DOMAIN bidis'[m]
               /\ \A i \in DOMAIN bidis[m] : Alike(bidis[m][i], bidis'[m][i])
    <3>1. CASE m = l
      BY <1>5, <1>6, <3>1 DEF Alike
    <3>2. CASE m # l
      BY <1>5, <3>2 DEF Alike
    <3>3. QED BY <3>1, <3>2
  <2>2. QED BY <2>1 DEF Grown
<1>8. BidisFit'
  <2>1. ASSUME NEW m \in Links, NEW i \in DOMAIN bidis'[m]
        PROVE  bidis'[m][i].stream.reliability = "Reliable"
    <3>1. CASE m = l /\ i = n + 1
      BY <1>2, <1>3, <1>5, <1>6, <3>1
    <3>2. CASE m = l /\ i # n + 1
      <4>1. i \in DOMAIN bidis[l]
        BY <1>5, <1>6, <3>2
      <4>2. QED BY <1>5, <3>2, <4>1 DEF BaseInv, StreamInv, BidisFit
    <3>3. CASE m # l
      BY <1>5, <3>3 DEF BaseInv, StreamInv, BidisFit
    <3>4. QED BY <3>1, <3>2, <3>3
  <2>2. QED BY <2>1 DEF BidisFit
<1>9. Told
  BY <1>1 DEF Told
<1>10. \A y \in Nodes : Heard(y) \subseteq Heard(y)'
  BY <1>9, HeardKept
<1>11. stream_reg_rx' \in [Nodes -> Seq(Regs)] /\ RegistrationsHeard' /\ RegistrationsFit'
  <2>1. n + 1 \in Nat /\ n + 1 # 0 /\ Enrol(x, l, s, n + 1)
    BY <1>2, <1>6
  <2>2. IsSendStream(l, s, n + 1)'
    BY <1>2, <1>3, <1>5, <1>6 DEF IsSendStream
  <2>3. l \in Heard(x)'
    BY <1>2, <1>10
  <2>4. PICK j \in Nat : j = n + 1
    BY <2>1
  <2>5. j # 0 /\ Enrol(x, l, s, j) /\ IsSendStream(l, s, j)'
    BY <2>1, <2>2, <2>4
  <2>6. QED BY <1>7, <1>9, <2>3, <2>5, Enrolled
<1>12. awaiting' \in [Nodes -> Awaitings] /\ AwaitedHeard' /\ AwaitedFit'
  <2>1. awaiting \in [Nodes -> Awaitings] /\ Idle.on = "nothing" /\ Idle \in Awaitings
    BY DEF BaseInv, Typed, TypedLoop, Idle, Awaitings
  <2>2. /\ awaiting' \in [Nodes -> Awaitings] /\ awaiting'[x] = Idle
        /\ \A y \in Nodes : y # x => awaiting'[y] = awaiting[y]
    BY <1>2, <2>1
  <2>3. QED BY <1>10, <2>1, <2>2 DEF BaseInv, HeardInv, StreamInv, AwaitedHeard, AwaitedFit
<1>13. HeardInv'
  BY <1>2, <1>9, <1>11, <1>12, HeardKept DEF HeardInv, tasks
<1>14. StreamInv'
  <2>1. TablesFit'
    BY <1>2, <1>7, FitKept
  <2>2. DatagramsFit'
    BY <1>2 DEF BaseInv, StreamInv, DatagramsFit, tasks
  <2>3. QED BY <1>8, <1>11, <1>12, <2>1, <2>2 DEF StreamInv
<1>15. TypedGame'
  BY <1>1, <1>2 DEF game, BaseInv, Typed, TypedGame
<1>16. TypedWire'
  BY <1>2, <1>5 DEF BaseInv, Typed, TypedWire, WireTyped
<1>17. Typed'
  BY <1>1, <1>2, <1>11, <1>12, <1>15, <1>16 DEF BaseInv, Typed, TypedLoop, TypedTasks,
     TypedRegistrations, TypedEvents, tasks
<1>18. QED BY <1>13, <1>14, <1>17 DEF BaseInv

\* A stream is closed.
LEMMA CloseStreamKeeps ==
  ASSUME BaseInv, NEW x \in Nodes, CloseStream(x)
  PROVE  BaseInv'
<1>1. PICK c \in Cmds : c = Command(x) /\ c \in ToSet(cmd_rx[x]) /\ c.op = "CloseStream"
  BY CommandTaken DEF CloseStream
<1>2. c.conn \in Links /\ c.stream \in Used /\ <<c.conn, c.stream>> \in Keys
      /\ c.conn \in Heard(x) /\ c.conn \in LinksOf(x)
  BY <1>1, StreamCommands DEF BaseInv, HeardInv, CommandsHeard, Heard
<1>3. PICK f \in Tables, key \in Keys : f = reliable_send_streams[x] /\ key = <<c.conn, c.stream>>
  BY <1>2 DEF BaseInv, Typed, TypedLoop
<1>4. /\ reliable_send_streams' = [reliable_send_streams EXCEPT ![x] = Without(f, key)]
      /\ IF key \in DOMAIN f THEN DropSendStream(x, c.conn, f[key]) ELSE UNCHANGED bidis
      /\ unreliable_send_streams' = [unreliable_send_streams EXCEPT ![x] = @ \ {key}]
      /\ Emit(x, OfStream("StreamClosed", c.conn, c.stream))
      /\ UNCHANGED <<running, awaiting, connections, tasks, registrations, link, datagrams, game>>
  BY <1>1, <1>3 DEF CloseStream
<1>5. OfStream("StreamClosed", c.conn, c.stream) \in Events
      /\ OfStream("StreamClosed", c.conn, c.stream).conn = c.conn
  BY <1>2 DEF Events, OfStream
<1>6. Told
  BY <1>2, <1>4, <1>5 DEF Told, Tells
<1>7. cmd_rx' \in [Nodes -> Seq(Cmds)] /\ CommandsHeard'
  BY <1>6, CommandTaken DEF CloseStream
<1>8. WireTyped
  BY DEF BaseInv, Typed, TypedWire, WireTyped
<1>9. WireTyped' /\ SameBidis
  <2>1. CASE key \notin DOMAIN f
    BY <1>4, <1>8, <2>1, BidisUnchanged
  <2>2. CASE key \in DOMAIN f
    <3>1. f[key] \in DOMAIN bidis[c.conn]
      BY <1>3, <2>2 DEF BaseInv, StreamInv, TablesFit, IsSendStream
    <3>2. QED BY <1>2, <1>4, <1>8, <2>2, <3>1, BidiFinished
  <2>3. QED BY <2>1, <2>2
<1>10. Grown /\ BidisFit'
  BY <1>9, SameIsGrown, BidisKept
<1>11. PICK g \in Tables : g = Without(f, key)
  BY TablesTyped, 0 \in Nat
<1>12. \A k \in DOMAIN g : k \in DOMAIN f /\ g[k] = f[k]
  BY <1>11 DEF Without
<1>13. reliable_send_streams' \in [Nodes -> Tables] /\ TablesFit'
  <2>1. reliable_send_streams' = [reliable_send_streams EXCEPT ![x] = g]
    BY <1>4, <1>11
  <2>2. QED BY <1>3, <1>10, <1>12, <2>1, TableReplaced
<1>14. unreliable_send_streams' \in [Nodes -> SUBSET Keys]
  BY <1>4 DEF BaseInv, Typed, TypedLoop
<1>15. HeardInv'
  BY <1>4, <1>6, <1>7, HeardKept DEF HeardInv, tasks, registrations
<1>16. StreamInv'
  <2>1. RegistrationsFit'
    BY <1>4, <1>10, FitKept DEF registrations
  <2>2. AwaitedFit' /\ DatagramsFit'
    BY <1>4 DEF BaseInv, StreamInv, AwaitedFit, DatagramsFit, tasks
  <2>3. QED BY <1>10, <1>13, <2>1, <2>2 DEF StreamInv
<1>17. TypedGame' /\ TypedEvents'
  BY <1>4, <1>6, HeardKept DEF game
<1>18. TypedWire'
  BY <1>4, <1>9 DEF BaseInv, Typed, TypedWire, WireTyped
<1>19. Typed'
  BY <1>4, <1>7, <1>13, <1>14, <1>17, <1>18 DEF BaseInv, Typed, TypedLoop, TypedTasks,
     TypedRegistrations, tasks, registrations
<1>20. QED BY <1>15, <1>16, <1>19 DEF BaseInv

-----------------------------------------------------------------------------
(* The steps of the tasks.                                                 *)

LEMMA AcceptKeeps ==
  ASSUME BaseInv, NEW x \in Nodes, Accept(x)
  PROVE  BaseInv'
<1>1. CASE AcceptRegister(x)
  <2>1. /\ accepting[x] # NoLink
        /\ conn_reg_rx' = [conn_reg_rx EXCEPT ![x] = Append(@, accepting[x])]
        /\ reading' = [reading EXCEPT ![x] = @ \cup {accepting[x]}]
        /\ accepting' = [accepting EXCEPT ![x] = NoLink]
        /\ UNCHANGED <<loop, listening, known_streams, datagram, cmd_rx, stream_reg_rx, events, wire, game>>
    BY <1>1 DEF AcceptRegister
  <2>2. /\ accepting \in [Nodes -> Links \cup {NoLink}] /\ reading \in [Nodes -> SUBSET Links]
        /\ conn_reg_rx \in [Nodes -> Seq(Links)]
    BY DEF BaseInv, Typed, TypedTasks, TypedRegistrations
  <2>3. PICK l \in Links, q \in Seq(Links) : l = accepting[x] /\ q = conn_reg_rx[x] /\ l \in Heard(x)
    <3>1. accepting[x] \in Heard(x) /\ accepting[x] \in Links
      BY <2>1, <2>2 DEF BaseInv, HeardInv, LinksHeard
    <3>2. QED BY <2>2, <3>1
  <2>4. Append(q, l) \in Seq(Links) /\ ToSet(Append(q, l)) = ToSet(q) \cup {l}
    BY Put
  <2>5. /\ conn_reg_rx' \in [Nodes -> Seq(Links)] /\ conn_reg_rx'[x] = Append(q, l)
        /\ reading' \in [Nodes -> SUBSET Links] /\ reading'[x] = reading[x] \cup {l}
        /\ accepting' \in [Nodes -> Links \cup {NoLink}] /\ accepting'[x] = NoLink
        /\ \A y \in Nodes : y # x => /\ conn_reg_rx'[y] = conn_reg_rx[y] /\ reading'[y] = reading[y]
                                     /\ accepting'[y] = accepting[y]
    BY <2>1, <2>2, <2>3, <2>4
  <2>6. Told /\ UNCHANGED bidis
    BY <2>1 DEF Told, wire
  <2>7. LinksHeard'
    <3>1. \A y \in Nodes : Heard(y)' = Heard(y)
      BY <2>1 DEF Heard
    <3>2. ASSUME NEW y \in Nodes
          PROVE  /\ reading'[y] \subseteq Heard(y) /\ ToSet(conn_reg_rx'[y]) \subseteq Heard(y)
                 /\ accepting'[y] \in Heard(y) \cup {NoLink}
      <4>1. /\ reading[y] \subseteq Heard(y) /\ ToSet(conn_reg_rx[y]) \subseteq Heard(y)
            /\ accepting[y] \in Heard(y) \cup {NoLink}
        BY DEF BaseInv, HeardInv, LinksHeard
      <4>2. CASE y = x
        BY <2>3, <2>4, <2>5, <4>1, <4>2
      <4>3. CASE y # x
        BY <2>5, <4>1, <4>3
      <4>4. QED BY <4>2, <4>3
    <3>3. QED BY <2>1, <3>1, <3>2 DEF loop, BaseInv, HeardInv, LinksHeard
  <2>8. HeardInv'
    BY <2>1, <2>6, <2>7, HeardKept DEF HeardInv, loop
  <2>9. StreamInv'
    <3>1. TablesFit' /\ RegistrationsFit' /\ BidisFit'
      BY <2>1, <2>6, FitKept, WireKept DEF loop
    <3>2. AwaitedFit' /\ DatagramsFit'
      BY <2>1 DEF BaseInv, StreamInv, AwaitedFit, DatagramsFit, loop, wire
    <3>3. QED BY <3>1, <3>2 DEF StreamInv
  <2>10. TypedGame'
    BY <2>1 DEF game, BaseInv, Typed, TypedGame
  <2>11. Typed'
    BY <2>1, <2>5, <2>10 DEF BaseInv, Typed, TypedLoop, TypedTasks, TypedRegistrations, TypedEvents,
       TypedWire, loop, wire
  <2>12. QED BY <2>8, <2>9, <2>11 DEF BaseInv
<1>2. ASSUME NEW l \in LinksOf(x), AcceptConnected(x, l)
      PROVE  BaseInv'
  <2>1. /\ Emit(x, Plain("Connected", l)) /\ accepting' = [accepting EXCEPT ![x] = l]
        /\ UNCHANGED <<loop, listening, reading, known_streams, datagram, cmd_rx, registrations, wire, game>>
    BY <1>2 DEF AcceptConnected
  <2>2. l \in Links
    BY DEF LinksOf
  <2>3. PICK e \in Events : e = Plain("Connected", l) /\ e.conn = l /\ e.type = "Connected"
    <3>1. Plain("Connected", l) \in Events
      BY <2>2 DEF Events, Plain
    <3>2. Plain("Connected", l).conn = l /\ Plain("Connected", l).type = "Connected"
      BY DEF Plain
    <3>3. QED BY <3>1, <3>2
  <2>4. Tells(x, e) /\ Told
    BY <2>1, <2>3 DEF Told, Tells
  <2>5. l \in Heard(x)'
    <3>1. TypedEvents /\ Emit(x, e)
      BY <2>1, <2>3 DEF BaseInv, Typed
    <3>2. ToSet(events'[x]) = ToSet(events[x]) \cup {e}
      BY <3>1, Emitted
    <3>3. QED BY <2>3, <3>2 DEF Heard
  <2>6. /\ accepting' \in [Nodes -> Links \cup {NoLink}] /\ accepting'[x] = l
        /\ \A y \in Nodes : y # x => accepting'[y] = accepting[y]
    BY <2>1, <2>2 DEF BaseInv, Typed, TypedTasks
  <2>7. LinksHeard'
    <3>1. \A y \in Nodes : Heard(y) \subseteq Heard(y)'
      BY <2>4, HeardKept
    <3>2. QED BY <2>1, <2>5, <2>6, <3>1 DEF loop, registrations, BaseInv, HeardInv, LinksHeard
  <2>8. HeardInv'
    BY <2>1, <2>4, <2>7, HeardKept DEF HeardInv, loop, registrations
  <2>9. StreamInv'
    <3>1. TablesFit' /\ RegistrationsFit' /\ BidisFit'
      BY <2>1, FitKept, WireKept DEF loop, registrations, wire
    <3>2. AwaitedFit' /\ DatagramsFit'
      BY <2>1 DEF BaseInv, StreamInv, AwaitedFit, DatagramsFit, loop, wire
    <3>3. QED BY <3>1, <3>2 DEF StreamInv
  <2>10. TypedGame' /\ TypedEvents'
    BY <2>1, <2>4, HeardKept DEF game
  <2>11. Typed'
    BY <2>1, <2>6, <2>10 DEF BaseInv, Typed, TypedLoop, TypedTasks, TypedRegistrations,
       TypedWire, loop, registrations, wire
  <2>12. QED BY <2>8, <2>9, <2>11 DEF BaseInv
<1>3. ASSUME NEW l \in LinksOf(x), AcceptFails(x, l)
      PROVE  BaseInv'
  <2>1. /\ listening' = [listening EXCEPT ![x] = FALSE]
        /\ UNCHANGED <<loop, accepting, reading, known_streams, datagram, cmd_rx, registrations,
                       events, wire, game>>
    BY <1>3 DEF AcceptFails
  <2>2. Told /\ UNCHANGED bidis
    BY <2>1 DEF Told, wire
  <2>3. HeardInv'
    BY <2>1, <2>2, HeardKept DEF HeardInv, loop, registrations
  <2>4. StreamInv'
    <3>1. TablesFit' /\ RegistrationsFit' /\ BidisFit'
      BY <2>1, <2>2, FitKept, WireKept DEF loop, registrations
    <3>2. AwaitedFit' /\ DatagramsFit'
      BY <2>1 DEF BaseInv, StreamInv, AwaitedFit, DatagramsFit, loop, wire
    <3>3. QED BY <3>1, <3>2 DEF StreamInv
  <2>5. TypedGame'
    BY <2>1 DEF game, BaseInv, Typed, TypedGame
  <2>6. listening' \in [Nodes -> BOOLEAN]
    BY <2>1 DEF BaseInv, Typed, TypedTasks
  <2>7. Typed'
    BY <2>1, <2>5, <2>6 DEF BaseInv, Typed, TypedLoop, TypedTasks, TypedRegistrations, TypedEvents,
       TypedWire, loop, registrations, wire
  <2>8. QED BY <2>3, <2>4, <2>7 DEF BaseInv
<1>4. QED BY <1>1, <1>2, <1>3 DEF Accept

\* A datagram is taken, and its stream enrolled if it is new.
LEMMA ReadDatagramKeeps ==
  ASSUME BaseInv, NEW x \in Nodes, NEW l \in LinksOf(x), ReadDatagram(x, l)
  PROVE  BaseInv'
<1>1. PICK dg \in datagrams[l] :
        /\ dg.to = x
        /\ datagrams' = [datagrams EXCEPT ![l] = @ \ {dg}]
        /\ datagram' = [datagram EXCEPT ![x][l] = {dg}]
        /\ known_streams' = [known_streams EXCEPT ![x][l] = @ \cup {dg.stream}]
        /\ IF dg.stream \in known_streams[x][l] THEN UNCHANGED stream_reg_rx
           ELSE Enrol(x, l, dg.stream, 0)
  BY DEF ReadDatagram
<1>2. UNCHANGED <<loop, listening, accepting, reading, cmd_rx, conn_reg_rx, events, link, bidis, game>>
      /\ l \in reading[x] /\ l \in Links
  BY DEF ReadDatagram, Reads, LinksOf
<1>3. /\ datagrams \in [Links -> SUBSET Datagrams]
      /\ datagram \in [Nodes -> [Links -> {{}} \cup {{d} : d \in Datagrams}]]
      /\ known_streams \in [Nodes -> [Links -> SUBSET Used]]
  BY DEF BaseInv, Typed, TypedWire, TypedTasks
<1>4. dg \in Datagrams /\ dg.stream \in Used /\ ~is_reliable(dg.stream)
  BY <1>2, <1>3 DEF Datagrams, BaseInv, StreamInv, DatagramsFit
<1>5. Told /\ l \in Heard(x) /\ l \in Heard(x)'
  BY <1>2 DEF Told, BaseInv, HeardInv, LinksHeard, Heard
<1>6. SameBidis /\ Grown /\ BidisFit'
  BY <1>2, WireKept
<1>7. dg.stream.reliability # "Reliable"
  BY <1>4 DEF is_reliable
<1>8. stream_reg_rx' \in [Nodes -> Seq(Regs)] /\ RegistrationsHeard' /\ RegistrationsFit'
  <2>1. CASE UNCHANGED stream_reg_rx
    BY <1>5, <1>6, <2>1, HeardKept, FitKept DEF BaseInv, Typed, TypedRegistrations
  <2>2. CASE Enrol(x, l, dg.stream, 0)
    <3>1. PICK s \in Used : s = dg.stream
      BY <1>4
    <3>2. Enrol(x, l, s, 0) /\ s.reliability # "Reliable"
      BY <1>7, <2>2, <3>1
    <3>3. QED BY <1>2, <1>5, <1>6, <3>2, Enrolled
  <2>3. QED BY <1>1, <2>1, <2>2
<1>9. /\ datagram' \in [Nodes -> [Links -> {{}} \cup {{d} : d \in Datagrams}]]
      /\ known_streams' \in [Nodes -> [Links -> SUBSET Used]]
      /\ datagrams' \in [Links -> SUBSET Datagrams]
  <2>1. known_streams' \in [Nodes -> [Links -> SUBSET Used]]
    BY <1>1, <1>2, <1>3, <1>4
  <2>2. datagrams' \in [Links -> SUBSET Datagrams]
    BY <1>1, <1>3
  <2>3. datagram' \in [Nodes -> [Links -> {{}} \cup {{d} : d \in Datagrams}]]
    <3>1. PICK T : T = {{}} \cup {{d} : d \in Datagrams}
      OBVIOUS
    <3>2. {dg} \in T /\ datagram \in [Nodes -> [Links -> T]]
      BY <1>3, <1>4, <3>1
    <3>3. datagram' \in [Nodes -> [Links -> T]]
      BY <1>1, <1>2, <3>2
    <3>4. QED BY <3>1, <3>3
  <2>4. QED BY <2>1, <2>2, <2>3
<1>10. /\ \A m \in Links : datagrams'[m] \subseteq datagrams[m]
       /\ \A y \in Nodes, m \in Links : datagram'[y][m] \subseteq datagram[y][m] \cup {dg}
  <2>1. \A m \in Links : datagrams'[m] \subseteq datagrams[m]
    BY <1>1, <1>3
  <2>2. ASSUME NEW y \in Nodes, NEW m \in Links
        PROVE  datagram'[y][m] \subseteq datagram[y][m] \cup {dg}
    <3>1. CASE y = x /\ m = l
      BY <1>1, <1>3, <3>1
    <3>2. CASE y # x \/ m # l
      BY <1>1, <1>3, <3>2
    <3>3. QED BY <3>1, <3>2
  <2>3. QED BY <2>1, <2>2
<1>11. HeardInv'
  BY <1>2, <1>5, <1>8, HeardKept DEF HeardInv, loop
<1>12. StreamInv'
  <2>1. TablesFit'
    BY <1>2, <1>6, FitKept DEF loop
  <2>2. AwaitedFit'
    BY <1>2 DEF BaseInv, StreamInv, AwaitedFit, loop
  <2>3. DatagramsFit'
    BY <1>4, <1>10 DEF BaseInv, StreamInv, DatagramsFit
  <2>4. QED BY <1>6, <1>8, <2>1, <2>2, <2>3 DEF StreamInv
<1>13. TypedGame'
  BY <1>2 DEF game, BaseInv, Typed, TypedGame
<1>14. Typed'
  BY <1>2, <1>8, <1>9, <1>13 DEF BaseInv, Typed, TypedLoop, TypedTasks, TypedRegistrations,
     TypedEvents, TypedWire, loop
<1>15. QED BY <1>11, <1>12, <1>14 DEF BaseInv

\* What a reader announces of a datagram.
LEMMA AnnouncingDatagram ==
  ASSUME BaseInv, NEW x \in Nodes, NEW l \in LinksOf(x), AnnounceDatagram(x, l)
  PROVE  \E s \in Used, d \in Nat :
           /\ ~is_reliable(s) /\ Tells(x, MessageOn(l, s, d))
           /\ MessageOn(l, s, d) \in Events
           /\ UNCHANGED <<loop, listening, accepting, reading, known_streams, cmd_rx, registrations, wire, game>>
<1>1. PICK dg \in datagram[x][l] : Emit(x, MessageOn(l, dg.stream, dg.data))
  BY DEF AnnounceDatagram
<1>2. l \in reading[x] /\ l \in Links /\ l \in Heard(x)
  BY DEF AnnounceDatagram, Reads, LinksOf, BaseInv, HeardInv, LinksHeard
<1>3. dg \in Datagrams /\ ~is_reliable(dg.stream)
  BY <1>2 DEF BaseInv, Typed, TypedTasks, StreamInv, DatagramsFit
<1>4. PICK s \in Used, d \in Nat : s = dg.stream /\ d = dg.data
  BY <1>3 DEF Datagrams
<1>5. MessageOn(l, s, d) \in Events /\ MessageOn(l, s, d).conn = l
  BY <1>2 DEF MessageOn, Events
<1>6. Tells(x, MessageOn(l, s, d)) /\ ~is_reliable(s)
  BY <1>1, <1>2, <1>3, <1>4, <1>5 DEF Tells
<1>7. UNCHANGED <<loop, listening, accepting, reading, known_streams, cmd_rx, registrations, wire, game>>
  BY DEF AnnounceDatagram
<1>8. QED BY <1>5, <1>6, <1>7

\* A datagram is announced.
LEMMA AnnounceDatagramKeeps ==
  ASSUME BaseInv, NEW x \in Nodes, NEW l \in LinksOf(x), AnnounceDatagram(x, l)
  PROVE  BaseInv'
<1>1. Told /\ UNCHANGED <<loop, listening, accepting, reading, known_streams, cmd_rx, registrations, wire, game>>
  BY AnnouncingDatagram DEF Told
<1>2. datagram' = [datagram EXCEPT ![x][l] = {}] /\ l \in Links
  BY DEF AnnounceDatagram, LinksOf
<1>3. /\ datagram' \in [Nodes -> [Links -> {{}} \cup {{d} : d \in Datagrams}]]
      /\ \A y \in Nodes, m \in Links : datagram'[y][m] \subseteq datagram[y][m]
  <2>1. PICK T : T = {{}} \cup {{d} : d \in Datagrams}
    OBVIOUS
  <2>2. {} \in T /\ datagram \in [Nodes -> [Links -> T]]
    BY <2>1 DEF BaseInv, Typed, TypedTasks
  <2>3. datagram' \in [Nodes -> [Links -> T]]
    BY <1>2, <2>2
  <2>4. ASSUME NEW y \in Nodes, NEW m \in Links
        PROVE  datagram'[y][m] \subseteq datagram[y][m]
    <3>1. CASE y = x /\ m = l
      BY <1>2, <2>2, <3>1
    <3>2. CASE y # x \/ m # l
      BY <1>2, <2>2, <3>2
    <3>3. QED BY <3>1, <3>2
  <2>5. QED BY <2>1, <2>3, <2>4
<1>4. HeardInv'
  BY <1>1, HeardKept DEF HeardInv, loop, registrations
<1>5. StreamInv'
  <2>1. TablesFit' /\ RegistrationsFit' /\ BidisFit'
    BY <1>1, FitKept, WireKept DEF loop, registrations, wire
  <2>2. AwaitedFit' /\ DatagramsFit'
    BY <1>1, <1>3 DEF BaseInv, StreamInv, AwaitedFit, DatagramsFit, loop, wire
  <2>3. QED BY <2>1, <2>2 DEF StreamInv
<1>6. TypedGame' /\ TypedEvents'
  BY <1>1, HeardKept DEF game
<1>7. Typed'
  BY <1>1, <1>3, <1>6 DEF BaseInv, Typed, TypedLoop, TypedTasks, TypedRegistrations,
     TypedWire, loop, registrations, wire
<1>8. QED BY <1>4, <1>5, <1>7 DEF BaseInv

\* What a reader finds when it accepts a stream.
LEMMA Accepting ==
  ASSUME BaseInv, NEW x \in Nodes, NEW l \in LinksOf(x), AcceptStream(x, l)
  PROVE  /\ l \in Links /\ l \in Heard(x) /\ DOMAIN bidis[l] \subseteq Nat \ {0}
         /\ \A i \in DOMAIN bidis[l] : bidis[l][i] \in Bidis(l) /\ bidis[l][i].stream \in Used
         /\ \E i \in DOMAIN bidis[l] :
              /\ bidis[l][i].opener # x /\ ~bidis[l][i].accepted
              /\ bidis' = [bidis EXCEPT ![l][i].accepted = TRUE]
              /\ Enrol(x, l, bidis[l][i].stream, i)
         /\ UNCHANGED <<loop, tasks, cmd_rx, conn_reg_rx, events, link, datagrams, game, history>>
<1>1. l \in reading[x] /\ l \in Links /\ l \in Heard(x)
  BY DEF AcceptStream, Reads, LinksOf, BaseInv, HeardInv, LinksHeard
<1>2. bidis[l] \in Seq(Bidis(l))
  BY <1>1 DEF BaseInv, Typed, TypedWire
<1>3. Len(bidis[l]) \in Nat /\ DOMAIN bidis[l] = 1 .. Len(bidis[l])
      /\ \A i \in 1 .. Len(bidis[l]) : bidis[l][i] \in Bidis(l)
  BY <1>2
<1>4. \A i \in DOMAIN bidis[l] : bidis[l][i] \in Bidis(l) /\ bidis[l][i].stream \in Used
  BY <1>3 DEF Bidis
<1>5. DOMAIN bidis[l] \subseteq Nat \ {0}
  BY <1>3
<1>6. \E i \in DOMAIN bidis[l] :
        /\ bidis[l][i].opener # x /\ ~bidis[l][i].accepted
        /\ bidis' = [bidis EXCEPT ![l][i].accepted = TRUE]
        /\ Enrol(x, l, bidis[l][i].stream, i)
  BY DEF AcceptStream
<1>7. UNCHANGED <<loop, tasks, cmd_rx, conn_reg_rx, events, link, datagrams, game, history>>
  BY DEF AcceptStream
<1>8. QED BY <1>1, <1>4, <1>5, <1>6, <1>7

\* A stream of the peer is accepted.
LEMMA AcceptStreamKeeps ==
  ASSUME BaseInv, NEW x \in Nodes, NEW l \in LinksOf(x), AcceptStream(x, l)
  PROVE  BaseInv'
<1>1. /\ l \in Links /\ l \in Heard(x)
      /\ UNCHANGED <<loop, tasks, cmd_rx, conn_reg_rx, events, link, datagrams, game>>
  BY Accepting
<1>2. PICK i \in DOMAIN bidis[l] :
        /\ bidis' = [bidis EXCEPT ![l][i].accepted = TRUE]
        /\ Enrol(x, l, bidis[l][i].stream, i)
  BY Accepting
<1>3. WireTyped
  BY DEF BaseInv, Typed, TypedWire, WireTyped
<1>4. WireTyped' /\ SameBidis
  BY <1>1, <1>2, <1>3, BidiAccepted
<1>5. Grown /\ BidisFit'
  BY <1>4, SameIsGrown, BidisKept
<1>6. Told
  BY <1>1 DEF Told
<1>7. stream_reg_rx' \in [Nodes -> Seq(Regs)] /\ RegistrationsHeard' /\ RegistrationsFit'
  <2>1. PICK s \in Used : s = bidis[l][i].stream
    BY Accepting
  <2>2. PICK j \in Nat \ {0} : j = i
    BY Accepting
  <2>3. IsSendStream(l, s, j)
    BY <1>1, <2>1, <2>2 DEF IsSendStream, BaseInv, StreamInv, BidisFit
  <2>4. IsSendStream(l, s, j)'
    BY <1>1, <1>5, <2>3, FitKept
  <2>5. Enrol(x, l, s, j) /\ j # 0
    BY <1>2, <2>1, <2>2
  <2>6. l \in Heard(x)'
    BY <1>1, <1>6, HeardKept
  <2>7. QED BY <1>1, <1>5, <1>6, <2>4, <2>5, <2>6, Enrolled
<1>8. HeardInv'
  BY <1>1, <1>6, <1>7, HeardKept DEF HeardInv, loop, tasks
<1>9. StreamInv'
  <2>1. TablesFit'
    BY <1>1, <1>5, FitKept DEF loop
  <2>2. AwaitedFit' /\ DatagramsFit'
    BY <1>1 DEF BaseInv, StreamInv, AwaitedFit, DatagramsFit, loop, tasks
  <2>3. QED BY <1>5, <1>7, <2>1, <2>2 DEF StreamInv
<1>10. TypedGame'
  BY <1>1 DEF game, BaseInv, Typed, TypedGame
<1>11. TypedWire'
  BY <1>1, <1>4 DEF BaseInv, Typed, TypedWire, WireTyped
<1>12. Typed'
  BY <1>1, <1>7, <1>10, <1>11 DEF BaseInv, Typed, TypedLoop, TypedTasks, TypedRegistrations,
     TypedEvents, loop, tasks
<1>13. QED BY <1>8, <1>9, <1>12 DEF BaseInv

\* What a reading loop announces.
LEMMA Reading ==
  ASSUME BaseInv, NEW x \in Nodes, NEW l \in LinksOf(x), ReadStream(x, l)
  PROVE  \E i \in DOMAIN bidis[l], s \in Used, d \in Nat :
           /\ s = bidis[l][i].stream /\ (bidis[l][i].opener = x \/ bidis[l][i].accepted)
           /\ d = Head(bidis[l][i].wire[x]) /\ bidis[l][i].wire[x] # <<>>
           /\ bidis' = [bidis EXCEPT ![l][i].wire[x] = Tail(@)]
           /\ WireTyped' /\ SameBidis /\ SameEnds
           /\ MessageOn(l, s, d) \in Events /\ Tells(x, MessageOn(l, s, d))
           /\ UNCHANGED <<loop, tasks, cmd_rx, registrations, link, datagrams, game, history>>
<1>1. l \in reading[x] /\ l \in Links /\ l \in Heard(x) /\ x \in Ends(l)
  BY DEF ReadStream, Reads, LinksOf, BaseInv, HeardInv, LinksHeard
<1>2. PICK i \in DOMAIN bidis[l] :
        /\ bidis[l][i].opener = x \/ bidis[l][i].accepted
        /\ bidis[l][i].wire[x] # <<>>
        /\ bidis' = [bidis EXCEPT ![l][i].wire[x] = Tail(@)]
        /\ Emit(x, MessageOn(l, bidis[l][i].stream, Head(bidis[l][i].wire[x])))
  BY DEF ReadStream
<1>3. WireTyped
  BY DEF BaseInv, Typed, TypedWire, WireTyped
<1>4. /\ WireTyped' /\ SameBidis /\ SameEnds
      /\ Head(bidis[l][i].wire[x]) \in Nat /\ bidis[l][i].stream \in Used
  BY <1>1, <1>2, <1>3, BidiRead
<1>5. PICK s \in Used, d \in Nat : s = bidis[l][i].stream /\ d = Head(bidis[l][i].wire[x])
  BY <1>4
<1>6. MessageOn(l, s, d) \in Events /\ MessageOn(l, s, d).conn = l
  BY <1>1 DEF MessageOn, Events
<1>7. Tells(x, MessageOn(l, s, d))
  BY <1>1, <1>2, <1>5, <1>6 DEF Tells
<1>8. UNCHANGED <<loop, tasks, cmd_rx, registrations, link, datagrams, game, history>>
  BY DEF ReadStream
<1>9. QED BY <1>2, <1>4, <1>5, <1>6, <1>7, <1>8

\* A frame is read and announced.
LEMMA ReadStreamKeeps ==
  ASSUME BaseInv, NEW x \in Nodes, NEW l \in LinksOf(x), ReadStream(x, l)
  PROVE  BaseInv'
<1>1. /\ Told /\ WireTyped' /\ SameBidis
      /\ UNCHANGED <<loop, tasks, cmd_rx, registrations, link, datagrams, game>>
  BY Reading DEF Told
<1>2. Grown /\ BidisFit'
  BY <1>1, SameIsGrown, BidisKept
<1>3. HeardInv'
  BY <1>1, HeardKept DEF HeardInv, loop, tasks, registrations
<1>4. StreamInv'
  <2>1. TablesFit' /\ RegistrationsFit'
    BY <1>1, <1>2, FitKept DEF loop, registrations
  <2>2. AwaitedFit' /\ DatagramsFit'
    BY <1>1 DEF BaseInv, StreamInv, AwaitedFit, DatagramsFit, loop, tasks
  <2>3. QED BY <1>2, <2>1, <2>2 DEF StreamInv
<1>5. TypedGame' /\ TypedEvents'
  BY <1>1, HeardKept DEF game
<1>6. TypedWire'
  BY <1>1 DEF BaseInv, Typed, TypedWire, WireTyped
<1>7. Typed'
  BY <1>1, <1>5, <1>6 DEF BaseInv, Typed, TypedLoop, TypedTasks, TypedRegistrations,
     loop, tasks, registrations
<1>8. QED BY <1>3, <1>4, <1>7 DEF BaseInv

-----------------------------------------------------------------------------
(* The invariant holds.                                                    *)

LEMMA BaseAtFirst == Init => BaseInv
<1> SUFFICES ASSUME Init PROVE BaseInv
  OBVIOUS
<1>1. \A S : <<>> \in Seq(S) /\ ToSet(<<>>) = {} /\ Len(<<>>) = 0
  BY Empty
<1>2. \A x \in Nodes :
        /\ events[x] = <<>> /\ conn_reg_rx[x] = <<>> /\ stream_reg_rx[x] = <<>>
        /\ connections[x] = {} /\ reading[x] = {} /\ accepting[x] = NoLink
        /\ awaiting[x] = Idle /\ reliable_send_streams[x] = <<>> /\ polled[x] = 0
        /\ cmd_rx[x] = FirstCommands(x)
  BY DEF Init
<1>3. HeardInv
  <2>1. EventsHeard /\ LinksHeard /\ RegistrationsHeard
    BY <1>1, <1>2 DEF EventsHeard, LinksHeard, RegistrationsHeard, Orderly
  <2>2. AwaitedHeard
    BY <1>2 DEF AwaitedHeard, Idle
  <2>3. CommandsHeard
    BY <1>2, FirstCommandsTyped DEF CommandsHeard
  <2>4. QED BY <2>1, <2>2, <2>3 DEF HeardInv
<1>4. StreamInv
  <2>1. TablesFit
    BY <1>2 DEF TablesFit
  <2>2. RegistrationsFit
    BY <1>1, <1>2 DEF RegistrationsFit
  <2>3. BidisFit
    BY DEF Init, BidisFit
  <2>4. AwaitedFit
    BY <1>2 DEF AwaitedFit, Idle
  <2>5. DatagramsFit
    BY DEF Init, DatagramsFit
  <2>6. QED BY <2>1, <2>2, <2>3, <2>4, <2>5 DEF StreamInv
<1>5. Typed
  <2>1. <<>> \in Tables
    <3>1. <<>> \in [{} -> Nat]
      OBVIOUS
    <3>2. QED BY <3>1 DEF Tables
  <2>2. TypedLoop
    BY <2>1 DEF Init, TypedLoop, Awaitings
  <2>3. TypedTasks
    BY DEF Init, TypedTasks
  <2>4. TypedRegistrations
    BY <1>1 DEF Init, TypedRegistrations
  <2>5. TypedEvents
    BY <1>1 DEF Init, TypedEvents
  <2>6. TypedWire
    BY <1>1 DEF Init, TypedWire
  <2>7. TypedGame
    BY <1>1 DEF Init, TypedGame
  <2>8. cmd_rx \in [Nodes -> Seq(Cmds)]
    BY FirstCommandsTyped DEF Init
  <2>9. QED BY <2>2, <2>3, <2>4, <2>5, <2>6, <2>7, <2>8 DEF Typed
<1>6. QED BY <1>3, <1>4, <1>5 DEF BaseInv

\* One step per action of the backend, each of them proved above.
LEMMA BaseKept == BaseInv /\ [Next]_vars => BaseInv'
<1> SUFFICES ASSUME BaseInv, [Next]_vars PROVE BaseInv'
  OBVIOUS
<1>1. CASE UNCHANGED vars
  <2>1. /\ UNCHANGED <<running, awaiting, connections, reliable_send_streams, unreliable_send_streams>>
        /\ UNCHANGED <<listening, accepting, reading, known_streams, datagram>>
        /\ UNCHANGED <<cmd_rx, conn_reg_rx, stream_reg_rx, events>>
        /\ UNCHANGED <<link, bidis, datagrams, polled, created, closed, sends>>
    BY <1>1 DEF vars, loop, tasks, registrations, wire, game
  <2>2. Told /\ UNCHANGED bidis
    BY <2>1 DEF Told
  <2>3. HeardInv' /\ TypedGame'
    BY <2>1, <2>2, HeardKept DEF HeardInv
  <2>4. StreamInv'
    <3>1. TablesFit' /\ RegistrationsFit' /\ BidisFit'
      BY <2>1, FitKept, WireKept
    <3>2. AwaitedFit' /\ DatagramsFit'
      BY <2>1 DEF BaseInv, StreamInv, AwaitedFit, DatagramsFit
    <3>3. QED BY <3>1, <3>2 DEF StreamInv
  <2>5. Typed'
    BY <2>1, <2>3 DEF BaseInv, Typed, TypedLoop, TypedTasks, TypedRegistrations, TypedEvents, TypedWire
  <2>6. QED BY <2>3, <2>4, <2>5 DEF BaseInv
<1>2. CASE Next
  <2>1. ASSUME NEW l \in Links, LinkLost(l) \/ DatagramLost(l) PROVE BaseInv'
    BY <2>1, WireKeeps
  <2>2. ASSUME NEW x \in Nodes, Game(x) PROVE BaseInv'
    BY <2>2, GameKeeps
  <2>3. ASSUME NEW x \in Nodes, RegisterConnection(x) \/ RegisterStream(x) PROVE BaseInv'
    BY <2>3, RegisterConnectionKeeps, RegisterStreamKeeps
  <2>4. ASSUME NEW x \in Nodes, Commands(x) PROVE BaseInv'
    BY <2>4, LoopCommandsKeep, CreateOtherKeeps, CloseStreamKeeps, SendReliableKeeps, SendDatagramKeeps,
       EndingKeeps DEF Commands
  <2>5. ASSUME NEW x \in Nodes, Awaited(x) PROVE BaseInv'
    BY <2>5, ConnectCompletesKeeps, EndingKeeps, OpenCompletesKeeps DEF Awaited
  <2>6. ASSUME NEW x \in Nodes, Accept(x) PROVE BaseInv'
    BY <2>6, AcceptKeeps
  <2>7. ASSUME NEW x \in Nodes, NEW l \in LinksOf(x), DatagramReader(x, l) \/ StreamReader(x, l)
        PROVE  BaseInv'
    BY <2>7, ReadDatagramKeeps, AnnounceDatagramKeeps, AcceptStreamKeeps, ReadStreamKeeps
       DEF DatagramReader, StreamReader
  <2>8. QED BY <1>2, <2>1, <2>2, <2>3, <2>4, <2>5, <2>6, <2>7 DEF Next
<1>3. QED BY <1>1, <1>2

\* BaseInv holds of every behaviour.
LEMMA BaseHolds == Spec => []BaseInv
<1>1. Init => BaseInv
  BY BaseAtFirst
<1>2. BaseInv /\ [Next]_vars => BaseInv'
  BY BaseKept
<1>3. QED BY <1>1, <1>2, PTL DEF Spec

-----------------------------------------------------------------------------
(* What follows from it.                                                   *)

\* Type correctness (TypeOK): in particular a SendStream in the table of the loop
\* is always one of the streams open on that connection, and the datagram reader
\* holds one datagram at most.
THEOREM QuicTypeCorrect == Spec => []TypeOK
<1>1. BaseInv => TypeOK
  <2> SUFFICES ASSUME BaseInv PROVE TypeOK
    OBVIOUS
  <2>1. /\ running \in [Nodes -> BOOLEAN] /\ listening \in [Nodes -> BOOLEAN]
        /\ accepting \in [Nodes -> Links \cup {NoLink}]
        /\ connections \in [Nodes -> SUBSET Links] /\ reading \in [Nodes -> SUBSET Links]
        /\ link \in [Links -> {"new", "dialing", "up", "down"}]
    BY DEF BaseInv, Typed, TypedLoop, TypedTasks, TypedWire
  <2>2. ASSUME NEW x \in Nodes
        PROVE  /\ polled[x] \in 0 .. Len(events[x])
               /\ \A key \in DOMAIN reliable_send_streams[x] \cup unreliable_send_streams[x] :
                    key \in Links \X Streams
               /\ \A key \in DOMAIN reliable_send_streams[x] :
                    reliable_send_streams[x][key] \in DOMAIN bidis[key[1]]
               /\ \A l \in Links : Cardinality(datagram[x][l]) <= 1
    <3>1. polled[x] \in 0 .. Len(events[x])
      <4>1. events[x] \in Seq(Events) /\ polled[x] \in Nat /\ polled[x] <= Len(events[x])
        BY DEF BaseInv, Typed, TypedEvents, TypedGame
      <4>2. QED BY <4>1
    <3>2. \A key \in DOMAIN reliable_send_streams[x] \cup unreliable_send_streams[x] :
            key \in Links \X Streams
      <4>1. DOMAIN reliable_send_streams[x] \subseteq Keys
        <5>1. reliable_send_streams[x] \in Tables
          BY DEF BaseInv, Typed, TypedLoop
        <5>2. QED BY <5>1 DEF Tables
      <4>2. unreliable_send_streams[x] \subseteq Keys
        BY DEF BaseInv, Typed, TypedLoop
      <4>3. Keys \subseteq Links \X Streams
        BY UsedAreStreams DEF Keys
      <4>4. QED BY <4>1, <4>2, <4>3
    <3>3. \A key \in DOMAIN reliable_send_streams[x] :
            reliable_send_streams[x][key] \in DOMAIN bidis[key[1]]
      BY DEF BaseInv, StreamInv, TablesFit, IsSendStream
    <3>4. ASSUME NEW l \in Links PROVE Cardinality(datagram[x][l]) <= 1
      <4>1. datagram[x][l] \in {{}} \cup {{dg} : dg \in Datagrams}
        BY DEF BaseInv, Typed, TypedTasks
      <4>2. PICK D : D = datagram[x][l]
        OBVIOUS
      <4>3. D = {} \/ \E dg : D = {dg}
        BY <4>1, <4>2
      <4>4. Cardinality(D) = 0 \/ Cardinality(D) = 1
        BY <4>3, FS_EmptySet, FS_Singleton
      <4>5. QED BY <4>2, <4>4
    <3>5. QED BY <3>1, <3>2, <3>3, <3>4
  <2>3. QED BY <2>1, <2>2 DEF TypeOK
<1>2. QED BY <1>1, BaseHolds, PTL

\* A game hears that a connection is there before it hears anything else of it
\* (ConnectedFirst), whichever of the four tasks that write to its channel of
\* events is the faster.
THEOREM QuicConnectedFirst == Spec => []ConnectedFirst
<1>1. BaseInv => ConnectedFirst
  BY DEF BaseInv, HeardInv, EventsHeard, Orderly, ConnectedFirst, Before
<1>2. QED BY <1>1, BaseHolds, PTL

-----------------------------------------------------------------------------
(* What an announcement is worth.                                          *)

Telling == {"Connected", "Error", "Message"}

\* Streams are announced by registrations and taken back by CloseStream alone.
LEMMA Announcers ==
  ASSUME BaseInv, [Next]_vars
  PROVE  \/ /\ UNCHANGED <<reliable_send_streams, unreliable_send_streams>>
            /\ \/ UNCHANGED events
               \/ \E x \in Nodes, e \in Events : e.type \in Telling /\ Emit(x, e)
         \/ \E x \in Nodes : RegisterStream(x)
         \/ \E x \in Nodes : CloseStream(x)
<1> DEFINE Quiet == UNCHANGED <<reliable_send_streams, unreliable_send_streams>>
           Tell == \E x \in Nodes, e \in Events : e.type \in Telling /\ Emit(x, e)
<1>1. ASSUME UNCHANGED vars PROVE Quiet /\ UNCHANGED events
  BY <1>1 DEF vars, loop
<1>2. ASSUME NEW l \in Links, LinkLost(l) \/ DatagramLost(l) PROVE Quiet /\ UNCHANGED events
  BY <1>2 DEF LinkLost, DatagramLost, loop
<1>3. ASSUME NEW x \in Nodes, Game(x) PROVE Quiet /\ UNCHANGED events
  BY <1>3 DEF Game, Poll, AskShutdown, AskCreate, AskClose, AskSend, loop
<1>4. ASSUME NEW x \in Nodes, RegisterConnection(x) PROVE Quiet /\ UNCHANGED events
  BY <1>4 DEF RegisterConnection
<1>5. ASSUME NEW x \in Nodes, Commands(x)
      PROVE  CloseStream(x) \/ (Quiet /\ (UNCHANGED events \/ Tell))
  <2>1. CASE Bind(x) \/ Connect(x) \/ CreateReliable(x) \/ CreateOther(x) \/ Shutdown(x) \/ BindFails(x)
             \/ SendUnknown(x) \/ SendStreamless(x)
    BY <2>1 DEF Bind, Connect, CreateReliable, CreateOther, Shutdown, BindFails, SendUnknown, SendStreamless, loop
  <2>2. CASE SendReliable(x) \/ SendDatagram(x)
    <3>1. PICK c \in Cmds : c = Command(x) /\ c.op = "Send"
      BY <2>2, CommandTaken DEF SendReliable, SendDatagram
    <3>2. c.conn \in Links
      BY <3>1, StreamCommands
    <3>3. Plain("Error", c.conn) \in Events /\ Plain("Error", c.conn).type \in Telling
      BY <3>2 DEF Plain, Events, Telling
    <3>4. UNCHANGED events \/ Emit(x, Plain("Error", c.conn))
      BY <2>2, <3>1 DEF SendReliable, SendDatagram
    <3>5. Quiet
      BY <2>2 DEF SendReliable, SendDatagram, loop
    <3>6. QED BY <3>3, <3>4, <3>5
  <2>3. QED BY <1>5, <2>1, <2>2 DEF Commands
<1>6. ASSUME NEW x \in Nodes, Awaited(x) PROVE Quiet /\ (UNCHANGED events \/ Tell)
  <2>1. CASE ConnectCompletes(x)
    <3>1. awaiting[x] \in Awaitings /\ awaiting[x].on = "handshake"
      BY <2>1 DEF BaseInv, Typed, TypedLoop, ConnectCompletes
    <3>2. PICK l \in Links : l = awaiting[x].link
      BY <3>1 DEF Awaitings, Idle
    <3>3. Plain("Connected", l) \in Events /\ Plain("Connected", l).type \in Telling
      BY DEF Plain, Events, Telling
    <3>4. Emit(x, Plain("Connected", l)) /\ Quiet
      BY <2>1, <3>2 DEF ConnectCompletes
    <3>5. QED BY <3>3, <3>4
  <2>2. CASE ConnectFails(x) \/ OpenFails(x)
    BY <2>2 DEF ConnectFails, OpenFails
  <2>3. CASE OpenCompletes(x)
    BY <2>3 DEF OpenCompletes, OpenBidi
  <2>4. QED BY <1>6, <2>1, <2>2, <2>3 DEF Awaited
<1>7. ASSUME NEW x \in Nodes, Accept(x) PROVE Quiet /\ (UNCHANGED events \/ Tell)
  <2>1. CASE AcceptRegister(x)
    BY <2>1 DEF AcceptRegister, loop
  <2>2. ASSUME NEW l \in LinksOf(x), AcceptConnected(x, l) PROVE Quiet /\ Tell
    <3>1. Plain("Connected", l) \in Events /\ Plain("Connected", l).type \in Telling
      BY DEF Plain, Events, Telling, LinksOf
    <3>2. Emit(x, Plain("Connected", l)) /\ Quiet
      BY <2>2 DEF AcceptConnected, loop
    <3>3. QED BY <3>1, <3>2
  <2>3. ASSUME NEW l \in LinksOf(x), AcceptFails(x, l) PROVE Quiet /\ UNCHANGED events
    BY <2>3 DEF AcceptFails, loop
  <2>4. QED BY <1>7, <2>1, <2>2, <2>3 DEF Accept
<1>8. ASSUME NEW x \in Nodes, NEW l \in LinksOf(x), DatagramReader(x, l) \/ StreamReader(x, l)
      PROVE  Quiet /\ (UNCHANGED events \/ Tell)
  <2>1. CASE ReadDatagram(x, l)
    BY <2>1 DEF ReadDatagram, loop
  <2>2. CASE AnnounceDatagram(x, l)
    <3>1. PICK s \in Used, d \in Nat :
            Tells(x, MessageOn(l, s, d)) /\ MessageOn(l, s, d) \in Events /\ UNCHANGED loop
      BY <2>2, AnnouncingDatagram
    <3>2. MessageOn(l, s, d).type \in Telling
      BY DEF MessageOn, Telling
    <3>3. QED BY <3>1, <3>2 DEF Tells, loop
  <2>3. CASE AcceptStream(x, l)
    BY <2>3 DEF AcceptStream, loop
  <2>4. CASE ReadStream(x, l)
    <3>1. PICK s \in Used, d \in Nat :
            Tells(x, MessageOn(l, s, d)) /\ MessageOn(l, s, d) \in Events /\ UNCHANGED loop
      BY <2>4, Reading
    <3>2. MessageOn(l, s, d).type \in Telling
      BY DEF MessageOn, Telling
    <3>3. QED BY <3>1, <3>2 DEF Tells, loop
  <2>5. QED BY <1>8, <2>1, <2>2, <2>3, <2>4 DEF DatagramReader, StreamReader
<1> HIDE DEF Quiet, Tell
<1>9. \/ Quiet /\ (UNCHANGED events \/ Tell)
      \/ \E x \in Nodes : RegisterStream(x)
      \/ \E x \in Nodes : CloseStream(x)
  <2>1. CASE UNCHANGED vars
    BY <1>1, <2>1
  <2>2. CASE \E l \in Links : LinkLost(l) \/ DatagramLost(l)
    BY <1>2, <2>2
  <2>3. ASSUME NEW x \in Nodes,
               \/ Game(x) \/ RegisterConnection(x) \/ RegisterStream(x) \/ Commands(x)
               \/ Awaited(x) \/ Accept(x)
               \/ \E l \in LinksOf(x) : DatagramReader(x, l) \/ StreamReader(x, l)
        PROVE  (Quiet /\ (UNCHANGED events \/ Tell)) \/ RegisterStream(x) \/ CloseStream(x)
    BY <1>3, <1>4, <1>5, <1>6, <1>7, <1>8, <2>3
  <2>4. QED BY <2>1, <2>2, <2>3 DEF Next
<1>10. QED BY <1>9 DEF Quiet, Tell

\* A stream that is announced after an event was announced before it, unless this
\* is its announcement.
LEMMA AnnouncedBefore ==
  ASSUME TypedEvents, NEW y \in Nodes, NEW e \in Events, Emit(y, e),
         NEW x \in Nodes, NEW l, NEW s, Announced(x, l, s)',
         x # y \/ e # OfStream("StreamCreated", l, s)
  PROVE  Announced(x, l, s) /\ (x # y \/ e # OfStream("StreamClosed", l, s))
<1>1. CASE x # y
  <2>1. events'[x] = events[x]
    BY <1>1, Emitted
  <2>2. QED BY <1>1, <2>1 DEF Announced
<1>2. CASE x = y
  <2> DEFINE n == Len(events[x])
  <2>1. /\ n \in Nat /\ DOMAIN events[x] = 1 .. n /\ DOMAIN events'[x] = 1 .. n + 1
        /\ \A i \in 1 .. n : events'[x][i] = events[x][i]
        /\ events'[x][n + 1] = e
    BY <1>2, Emitted
  <2>2. PICK i \in 1 .. n + 1 :
          /\ events'[x][i] = OfStream("StreamCreated", l, s)
          /\ \A j \in 1 .. n + 1 : j > i => events'[x][j] # OfStream("StreamClosed", l, s)
    BY <2>1 DEF Announced
  <2>3. i \in 1 .. n
    BY <1>2, <2>1, <2>2
  <2>4. n + 1 > i /\ n + 1 \in 1 .. n + 1
    BY <2>1, <2>3
  <2>5. e # OfStream("StreamClosed", l, s)
    BY <2>1, <2>2, <2>4
  <2>6. /\ events[x][i] = OfStream("StreamCreated", l, s)
        /\ \A j \in 1 .. n : j > i => events[x][j] # OfStream("StreamClosed", l, s)
    BY <2>1, <2>2, <2>3
  <2>7. QED BY <2>1, <2>3, <2>5, <2>6 DEF Announced
<1>3. QED BY <1>1, <1>2

\* Only registrations and CloseStream can disturb it.
LEMMA UsableKept ==
  ASSUME BaseInv, UsableOnceCreated, [Next]_vars
  PROVE  UsableOnceCreated'
<1> SUFFICES ASSUME NEW x \in Nodes, NEW l \in LinksOf(x), NEW s \in UNION {Creates[y] : y \in Ends(l)},
                    s.reliability = "Reliable", Announced(x, l, s)'
             PROVE  <<l, s>> \in DOMAIN reliable_send_streams'[x]
  BY DEF UsableOnceCreated
<1>1. Announced(x, l, s) => <<l, s>> \in DOMAIN reliable_send_streams[x]
  BY DEF UsableOnceCreated
<1>2. TypedEvents /\ reliable_send_streams \in [Nodes -> Tables]
  BY DEF BaseInv, Typed, TypedLoop
<1>3. CASE /\ UNCHANGED reliable_send_streams
           /\ UNCHANGED events \/ \E y \in Nodes, e \in Events : e.type \in Telling /\ Emit(y, e)
  <2>1. CASE UNCHANGED events
    BY <1>1, <1>3, <2>1 DEF Announced
  <2>2. CASE \E y \in Nodes, e \in Events : e.type \in Telling /\ Emit(y, e)
    <3>1. PICK y \in Nodes, e \in Events : e.type \in Telling /\ Emit(y, e)
      BY <2>2
    <3>2. e # OfStream("StreamCreated", l, s)
      BY <3>1 DEF Telling, OfStream
    <3>3. Announced(x, l, s)
      BY <1>2, <3>1, <3>2, AnnouncedBefore
    <3>4. QED BY <1>1, <1>3, <3>3
  <2>3. QED BY <1>3, <2>1, <2>2
<1>4. ASSUME NEW y \in Nodes, RegisterStream(y) PROVE <<l, s>> \in DOMAIN reliable_send_streams'[x]
  <2>1. PICK r \in Regs : r = Registration(y)
    BY <1>4, RegistrationTaken
  <2> DEFINE key == <<r.conn, r.stream>>
             e == OfStream("StreamCreated", r.conn, r.stream)
  <2>2. /\ r.conn \in Links /\ r.stream \in Used
        /\ \/ RegisterReliable(y, key, r.bidi)
           \/ r.stream.reliability # "Reliable" /\ RegisterUnreliable(y, key)
    BY <1>4, <2>1, RegistrationTaken
  <2>3. e \in Events
    BY <2>2 DEF Events, OfStream
  <2>4. CASE RegisterReliable(y, key, r.bidi)
    <3>1. /\ reliable_send_streams' =
                [reliable_send_streams EXCEPT ![y] = With(reliable_send_streams[y], key, r.bidi)]
          /\ Emit(y, e)
      BY <2>4 DEF RegisterReliable
    <3>2. /\ DOMAIN With(reliable_send_streams[y], key, r.bidi) = DOMAIN reliable_send_streams[y] \cup {key}
      BY DEF With
    <3>3. CASE x = y /\ key = <<l, s>>
      BY <1>2, <3>1, <3>2, <3>3
    <3>4. CASE x # y \/ key # <<l, s>>
      <4>1. x # y \/ e # OfStream("StreamCreated", l, s)
        BY <3>4 DEF OfStream
      <4>2. Announced(x, l, s)
        BY <1>2, <2>3, <3>1, <4>1, AnnouncedBefore
      <4>3. CASE x = y
        BY <1>1, <1>2, <3>1, <3>2, <4>2, <4>3
      <4>4. CASE x # y
        BY <1>1, <1>2, <3>1, <4>2, <4>4
      <4>5. QED BY <4>3, <4>4
    <3>5. QED BY <3>3, <3>4
  <2>5. CASE r.stream.reliability # "Reliable" /\ RegisterUnreliable(y, key)
    <3>1. UNCHANGED reliable_send_streams /\ (UNCHANGED events \/ Emit(y, e))
      BY <2>5 DEF RegisterUnreliable
    <3>2. e # OfStream("StreamCreated", l, s)
      BY <2>5 DEF OfStream
    <3>3. Announced(x, l, s)
      <4>1. CASE UNCHANGED events
        BY <4>1 DEF Announced
      <4>2. CASE Emit(y, e)
        BY <1>2, <2>3, <3>2, <4>2, AnnouncedBefore
      <4>3. QED BY <3>1, <4>1, <4>2
    <3>4. QED BY <1>1, <3>1, <3>3
  <2>6. QED BY <2>2, <2>4, <2>5
<1>5. ASSUME NEW y \in Nodes, CloseStream(y) PROVE <<l, s>> \in DOMAIN reliable_send_streams'[x]
  <2>1. PICK c \in Cmds : c = Command(y) /\ c.op = "CloseStream"
    BY <1>5, CommandTaken DEF CloseStream
  <2> DEFINE key == <<c.conn, c.stream>>
             e == OfStream("StreamClosed", c.conn, c.stream)
  <2>2. c.conn \in Links /\ c.stream \in Used
    BY <2>1, StreamCommands
  <2>3. /\ reliable_send_streams' = [reliable_send_streams EXCEPT ![y] = Without(reliable_send_streams[y], key)]
        /\ Emit(y, e)
    BY <1>5, <2>1 DEF CloseStream
  <2>4. e \in Events /\ e # OfStream("StreamCreated", l, s)
    BY <2>2 DEF Events, OfStream
  <2>5. Announced(x, l, s) /\ (x # y \/ e # OfStream("StreamClosed", l, s))
    BY <1>2, <2>3, <2>4, AnnouncedBefore
  <2>6. CASE x # y
    BY <1>1, <1>2, <2>3, <2>5, <2>6
  <2>7. CASE x = y
    <3>1. key # <<l, s>>
      BY <2>5, <2>7 DEF OfStream
    <3>2. DOMAIN Without(reliable_send_streams[y], key) = DOMAIN reliable_send_streams[y] \ {key}
      BY DEF Without
    <3>3. QED BY <1>1, <1>2, <2>3, <2>5, <2>7, <3>1, <3>2
  <2>8. QED BY <2>6, <2>7
<1>6. QED BY <1>3, <1>4, <1>5, Announcers

\* A Reliable stream that was announced to the game and not closed since can be
\* sent on (UsableOnceCreated): its SendStream is in the table before the game
\* hears StreamCreated, and only CloseStream takes it away, which tells the game.
THEOREM QuicUsableOnceCreated == Spec => []UsableOnceCreated
<1>1. Init => UsableOnceCreated
  BY DEF Init, UsableOnceCreated, Announced
<1>2. BaseInv /\ UsableOnceCreated /\ [Next]_vars => UsableOnceCreated'
  BY UsableKept
<1>3. QED BY <1>1, <1>2, BaseHolds, PTL DEF Spec

-----------------------------------------------------------------------------
(* The invariant: what the game has of a stream is backed by a SendStream. *)

\* Node x has an end of a bidirectional stream: it opened or accepted it.
HoldsEnd(x, b) == b.opener = x \/ b.accepted

HasEnd(x, l, s) == \E i \in DOMAIN bidis[l] : bidis[l][i].stream = s /\ HoldsEnd(x, bidis[l][i])

\* The SendStream is on its way to the table.
Enrolling(x, l, s) ==
  \E r \in ToSet(stream_reg_rx[x]) : r.conn = l /\ r.stream = s /\ r.bidi # 0

EventsHaveEnds ==
  \A x \in Nodes : \A e \in ToSet(events[x]) :
    e.type \in {"StreamCreated", "Message"} /\ e.stream.reliability = "Reliable" =>
      HasEnd(x, e.conn, e.stream)

RegistrationsHaveEnds ==
  \A x \in Nodes : \A r \in ToSet(stream_reg_rx[x]) :
    r.bidi # 0 => HoldsEnd(x, bidis[r.conn][r.bidi])

SendsHaveEnds ==
  \A x \in Nodes : \A c \in ToSet(cmd_rx[x]) :
    c.op = "Send" /\ c.stream.reliability = "Reliable" => HasEnd(x, c.conn, c.stream)

ClosesAsked ==
  \A x \in Nodes : \A c \in ToSet(cmd_rx[x]) :
    c.op = "CloseStream" => <<c.conn, c.stream>> \in closed[x]

EndsBacked ==
  \A x \in Nodes : \A l \in LinksOf(x) : \A s \in Used : HasEnd(x, l, s) =>
    \/ <<l, s>> \in DOMAIN reliable_send_streams[x] \cup closed[x]
    \/ Enrolling(x, l, s)

EndInv == EventsHaveEnds /\ RegistrationsHaveEnds /\ SendsHaveEnds /\ ClosesAsked /\ EndsBacked

\* An end once had is kept.
LEMMA EndKept ==
  ASSUME Grown, NEW x, NEW l \in Links, NEW s, HasEnd(x, l, s)
  PROVE  HasEnd(x, l, s)'
BY DEF Grown, Alike, HasEnd, HoldsEnd

\* A step that opens and accepts nothing gives no end.
LEMMA NoNewEnd ==
  ASSUME SameBidis, SameEnds, NEW x, NEW l \in Links, NEW s
  PROVE  HasEnd(x, l, s)' => HasEnd(x, l, s)
BY DEF SameBidis, SameEnds, Alike, HasEnd, HoldsEnd

\* A registration of a SendStream is of one of the connection's streams.
LEMMA RegistrationsTyped ==
  ASSUME BaseInv, NEW x \in Nodes, NEW r \in ToSet(stream_reg_rx[x])
  PROVE  /\ r \in Regs /\ r.conn \in Links /\ r.stream \in Used /\ r.bidi \in Nat
         /\ r.bidi # 0 => IsSendStream(r.conn, r.stream, r.bidi)
<1>1. r \in Regs
  BY Elements DEF BaseInv, Typed, TypedRegistrations
<1>2. QED BY <1>1 DEF Regs, BaseInv, StreamInv, RegistrationsFit

\* What a step that leaves a part alone keeps of the invariant.
LEMMA EndsKept ==
  ASSUME BaseInv, EndInv, Grown
  PROVE  /\ UNCHANGED events => EventsHaveEnds'
         /\ (\A y \in Nodes : ToSet(stream_reg_rx'[y]) \subseteq ToSet(stream_reg_rx[y])) =>
              RegistrationsHaveEnds'
         /\ (\A y \in Nodes : ToSet(cmd_rx'[y]) \subseteq ToSet(cmd_rx[y])) =>
              SendsHaveEnds' /\ (UNCHANGED closed => ClosesAsked')
         /\ SameBidis /\ SameEnds /\ UNCHANGED <<reliable_send_streams, stream_reg_rx, closed>> =>
              EndsBacked'
<1>1. ASSUME UNCHANGED events PROVE EventsHaveEnds'
  <2>1. \A x \in Nodes : \A e \in ToSet(events[x]) : e.conn \in Links
    BY DEF BaseInv, HeardInv, EventsHeard, Heard, LinksOf
  <2>2. QED BY <1>1, <2>1, EndKept DEF EndInv, EventsHaveEnds
<1>2. ASSUME \A y \in Nodes : ToSet(stream_reg_rx'[y]) \subseteq ToSet(stream_reg_rx[y])
      PROVE  RegistrationsHaveEnds'
  <2> SUFFICES ASSUME NEW x \in Nodes, NEW r \in ToSet(stream_reg_rx'[x]), r.bidi # 0
               PROVE  HoldsEnd(x, bidis'[r.conn][r.bidi])
    BY DEF RegistrationsHaveEnds
  <2>1. r \in ToSet(stream_reg_rx[x]) /\ HoldsEnd(x, bidis[r.conn][r.bidi])
    BY <1>2 DEF EndInv, RegistrationsHaveEnds
  <2>2. r.conn \in Links /\ r.bidi \in DOMAIN bidis[r.conn]
    BY <2>1, RegistrationsTyped DEF IsSendStream
  <2>3. QED BY <2>1, <2>2 DEF Grown, Alike, HoldsEnd
<1>3. ASSUME \A y \in Nodes : ToSet(cmd_rx'[y]) \subseteq ToSet(cmd_rx[y])
      PROVE  SendsHaveEnds' /\ (UNCHANGED closed => ClosesAsked')
  <2>1. \A x \in Nodes : \A c \in ToSet(cmd_rx[x]) : c.op = "Send" => c.conn \in Links
    BY Elements, StreamCommands DEF BaseInv, Typed
  <2>2. SendsHaveEnds'
    BY <1>3, <2>1, EndKept DEF EndInv, SendsHaveEnds
  <2>3. UNCHANGED closed => ClosesAsked'
    BY <1>3 DEF EndInv, ClosesAsked
  <2>4. QED BY <2>2, <2>3
<1>4. ASSUME SameBidis, SameEnds, UNCHANGED <<reliable_send_streams, stream_reg_rx, closed>>
      PROVE  EndsBacked'
  <2>1. ASSUME NEW x \in Nodes, NEW l \in LinksOf(x), NEW s \in Used
        PROVE  HasEnd(x, l, s)' => HasEnd(x, l, s)
    BY <1>4, NoNewEnd DEF LinksOf
  <2>2. QED BY <1>4, <2>1 DEF EndInv, EndsBacked, Enrolling, LinksOf, Ends
<1>5. QED BY <1>1, <1>2, <1>3, <1>4

\* The game is told one more thing.
LEMMA TellingKeepsEnds ==
  ASSUME BaseInv, EndInv, Grown, NEW y \in Nodes, NEW e \in Events, Emit(y, e),
         e.type \in {"StreamCreated", "Message"} /\ e.stream.reliability = "Reliable" =>
           HasEnd(y, e.conn, e.stream)'
  PROVE  EventsHaveEnds'
<1>1. \A x \in Nodes : \A f \in ToSet(events[x]) : f.conn \in Links
  BY DEF BaseInv, HeardInv, EventsHeard, Heard, LinksOf
<1>2. ASSUME NEW x \in Nodes, NEW f \in ToSet(events[x])
      PROVE  f.type \in {"StreamCreated", "Message"} /\ f.stream.reliability = "Reliable" =>
               HasEnd(x, f.conn, f.stream)'
  BY <1>1, EndKept DEF EndInv, EventsHaveEnds
<1>3. /\ ToSet(events'[y]) = ToSet(events[y]) \cup {e}
      /\ \A x \in Nodes : x # y => events'[x] = events[x]
  BY Emitted DEF BaseInv, Typed
<1>4. QED BY <1>2, <1>3 DEF EventsHaveEnds

\* A step that neither opens, accepts, registers nor closes a stream.
LEMMA StillKeepsEnds ==
  ASSUME BaseInv, EndInv, SameBidis, SameEnds,
         UNCHANGED <<reliable_send_streams, stream_reg_rx, closed>>,
         \A y \in Nodes : ToSet(cmd_rx'[y]) \subseteq ToSet(cmd_rx[y]),
         EventsHaveEnds'
  PROVE  EndInv'
<1>1. Grown
  BY SameIsGrown
<1>2. RegistrationsHaveEnds' /\ SendsHaveEnds' /\ ClosesAsked' /\ EndsBacked'
  BY <1>1, EndsKept
<1>3. QED BY <1>2 DEF EndInv

\* The game issues a command.
LEMMA IssueKeepsEnds ==
  ASSUME BaseInv, EndInv, NEW x \in Nodes, NEW c \in Cmds, Issue(x, c),
         c.op = "Send" /\ c.stream.reliability = "Reliable" => HasEnd(x, c.conn, c.stream),
         c.op = "CloseStream" => <<c.conn, c.stream>> \in closed'[x],
         \A y \in Nodes : closed[y] \subseteq closed'[y],
         UNCHANGED <<reliable_send_streams, stream_reg_rx, events, bidis>>
  PROVE  EndInv'
<1>1. WireTyped /\ cmd_rx \in [Nodes -> Seq(Cmds)]
  BY DEF BaseInv, Typed, TypedWire, WireTyped
<1>2. SameBidis /\ SameEnds /\ Grown
  BY <1>1, BidisUnchanged, SameIsGrown
<1>3. EventsHaveEnds' /\ RegistrationsHaveEnds'
  BY <1>2, EndsKept
<1>4. /\ ToSet(cmd_rx'[x]) = ToSet(cmd_rx[x]) \cup {c}
      /\ \A y \in Nodes : y # x => cmd_rx'[y] = cmd_rx[y]
  BY <1>1, Issued
<1>5. SendsHaveEnds'
  BY <1>4 DEF EndInv, SendsHaveEnds, HasEnd
<1>6. ClosesAsked'
  BY <1>4 DEF EndInv, ClosesAsked
<1>7. EndsBacked'
  <2>1. \A y \in Nodes : \A l, s : HasEnd(y, l, s)' <=> HasEnd(y, l, s)
    BY DEF HasEnd
  <2>2. \A y \in Nodes : \A l, s : Enrolling(y, l, s)' <=> Enrolling(y, l, s)
    BY DEF Enrolling
  <2>3. QED BY <2>1, <2>2 DEF EndInv, EndsBacked, LinksOf, Ends
<1>8. QED BY <1>3, <1>5, <1>6, <1>7 DEF EndInv

\* The steps of a game.
LEMMA GameKeepsEnds ==
  ASSUME BaseInv, EndInv, NEW x \in Nodes, Game(x)
  PROVE  EndInv'
<1>0. WireTyped
  BY DEF BaseInv, Typed, TypedWire, WireTyped
<1>1. CASE Poll(x)
  <2>1. UNCHANGED <<reliable_send_streams, stream_reg_rx, closed, cmd_rx, events, bidis>>
    BY <1>1 DEF Poll, loop, registrations, wire
  <2>2. SameBidis /\ SameEnds /\ Grown
    BY <1>0, <2>1, BidisUnchanged, SameIsGrown
  <2>3. EventsHaveEnds'
    BY <2>1, <2>2, EndsKept
  <2>4. QED BY <2>1, <2>2, <2>3, StillKeepsEnds
<1>2. CASE AskShutdown(x)
  <2>1. [op |-> "Shutdown"] \in Cmds /\ Issue(x, [op |-> "Shutdown"])
    BY <1>2 DEF AskShutdown, Cmds
  <2>2. UNCHANGED <<reliable_send_streams, stream_reg_rx, closed, events, bidis>>
    BY <1>2 DEF AskShutdown, loop, registrations, wire, game
  <2>3. QED BY <2>1, <2>2, IssueKeepsEnds
<1>3. ASSUME NEW l \in LinksOf(x), NEW s \in Creates[x], AskCreate(x, l, s)
      PROVE  EndInv'
  <2>1. PICK c \in Cmds : c.op = "CreateStream" /\ Issue(x, c)
    <3>1. [op |-> "CreateStream", conn |-> l, stream |-> s] \in Cmds
      BY DEF Cmds, LinksOf, Used
    <3>2. QED BY <1>3, <3>1 DEF AskCreate
  <2>2. UNCHANGED <<reliable_send_streams, stream_reg_rx, closed, events, bidis>>
    BY <1>3 DEF AskCreate, loop, registrations, wire
  <2>3. QED BY <2>1, <2>2, IssueKeepsEnds
<1>4. ASSUME NEW l \in LinksOf(x), NEW s \in Creates[x], AskClose(x, l, s)
      PROVE  EndInv'
  <2>1. PICK c \in Cmds : c.op = "CloseStream" /\ c.conn = l /\ c.stream = s /\ Issue(x, c)
    <3>1. [op |-> "CloseStream", conn |-> l, stream |-> s] \in Cmds
      BY DEF Cmds, LinksOf, Used
    <3>2. QED BY <1>4, <3>1 DEF AskClose
  <2>2. /\ UNCHANGED <<reliable_send_streams, stream_reg_rx, events, bidis>>
        /\ closed' = [closed EXCEPT ![x] = @ \cup {<<l, s>>}]
    BY <1>4 DEF AskClose, loop, registrations, wire
  <2>3. <<l, s>> \in closed'[x] /\ \A y \in Nodes : closed[y] \subseteq closed'[y]
    BY <2>2 DEF BaseInv, Typed, TypedGame
  <2>4. QED BY <2>1, <2>2, <2>3, IssueKeepsEnds
<1>5. ASSUME NEW l \in LinksOf(x), NEW s \in UNION {Creates[y] : y \in Ends(l)}, AskSend(x, l, s)
      PROVE  EndInv'
  <2>1. PICK c \in Cmds : c.op = "Send" /\ c.conn = l /\ c.stream = s /\ Issue(x, c)
    <3>1. l \in Links /\ s \in Used
      BY EndsOfLink DEF LinksOf, Used
    <3>2. sends[x] + 1 \in Nat
      BY DEF BaseInv, Typed, TypedGame
    <3>3. [op |-> "Send", conn |-> l, stream |-> s, data |-> sends[x] + 1] \in Cmds
      BY <3>1, <3>2 DEF Cmds
    <3>4. QED BY <1>5, <3>3 DEF AskSend
  <2>2. UNCHANGED <<reliable_send_streams, stream_reg_rx, closed, events, bidis>>
    BY <1>5 DEF AskSend, loop, registrations, wire
  <2>3. ASSUME s.reliability = "Reliable" PROVE HasEnd(x, l, s)
    <3>1. Offered(x, l, s) /\ is_reliable(s)
      BY <1>5, <2>3 DEF AskSend, is_reliable
    <3>2. CASE OfStream("StreamCreated", l, s) \in Polled(x)
      BY <2>3, <3>2, PolledWasTold DEF EndInv, EventsHaveEnds, OfStream
    <3>3. CASE \E e \in Polled(x) : e.type = "Message" /\ e.conn = l /\ e.stream = s
      BY <2>3, <3>3, PolledWasTold DEF EndInv, EventsHaveEnds
    <3>4. QED BY <3>1, <3>2, <3>3 DEF Offered
  <2>4. QED BY <2>1, <2>2, <2>3, IssueKeepsEnds
<1>6. QED BY <1>1, <1>2, <1>3, <1>4, <1>5 DEF Game

\* To register or close a stream drops a SendStream at most.
LEMMA Dropping ==
  ASSUME BaseInv, NEW x \in Nodes, RegisterStream(x) \/ CloseStream(x)
  PROVE  WireTyped' /\ SameBidis /\ SameEnds /\ Grown
<1>1. WireTyped /\ reliable_send_streams \in [Nodes -> Tables]
  BY DEF BaseInv, Typed, TypedWire, TypedLoop, WireTyped
<1>2. \/ UNCHANGED bidis
      \/ \E key \in DOMAIN reliable_send_streams[x] :
           DropSendStream(x, key[1], reliable_send_streams[x][key])
  <2>1. CASE RegisterStream(x)
    BY <2>1, RegistrationTaken DEF RegisterReliable, RegisterUnreliable
  <2>2. CASE CloseStream(x)
    BY <2>2 DEF CloseStream
  <2>3. QED BY <2>1, <2>2
<1>3. CASE UNCHANGED bidis
  BY <1>1, <1>3, BidisUnchanged, SameIsGrown
<1>4. CASE \E key \in DOMAIN reliable_send_streams[x] :
             DropSendStream(x, key[1], reliable_send_streams[x][key])
  <2>1. PICK key \in DOMAIN reliable_send_streams[x] :
               DropSendStream(x, key[1], reliable_send_streams[x][key])
    BY <1>4
  <2>2. reliable_send_streams[x][key] \in DOMAIN bidis[key[1]]
    BY <2>1 DEF BaseInv, StreamInv, TablesFit, IsSendStream
  <2>3. key[1] \in Links
    <3>1. reliable_send_streams[x] \in Tables
      BY <1>1
    <3>2. key \in Keys
      BY <3>1 DEF Tables
    <3>3. QED BY <3>2 DEF Keys
  <2>4. PICK l \in Links : l = key[1]
    BY <2>3
  <2>5. PICK i \in DOMAIN bidis[l] : i = reliable_send_streams[x][key]
    BY <2>2, <2>4
  <2>6. DropSendStream(x, l, i)
    BY <2>1, <2>4, <2>5
  <2>7. QED BY <1>1, <2>6, BidiFinished, SameIsGrown
<1>5. QED BY <1>2, <1>3, <1>4

\* A registered stream is in the table.
LEMMA RegisterKeepsEnds ==
  ASSUME BaseInv, EndInv, NEW x \in Nodes, RegisterStream(x)
  PROVE  EndInv'
<1>1. PICK r \in Regs : r = Registration(x)
  BY RegistrationTaken
<1> DEFINE key == <<r.conn, r.stream>>
           e == OfStream("StreamCreated", r.conn, r.stream)
<1>2. /\ \A y \in Nodes : ToSet(stream_reg_rx'[y]) \subseteq ToSet(stream_reg_rx[y])
      /\ stream_reg_rx[x] \in Seq(Regs) /\ stream_reg_rx[x] # <<>>
      /\ stream_reg_rx'[x] = Tail(stream_reg_rx[x]) /\ r \in ToSet(stream_reg_rx[x])
      /\ \A y \in Nodes : y # x => stream_reg_rx'[y] = stream_reg_rx[y]
      /\ r.conn \in Links /\ r.stream \in Used
      /\ \/ r.bidi # 0 /\ IsSendStream(r.conn, r.stream, r.bidi) /\ RegisterReliable(x, key, r.bidi)
         \/ r.bidi = 0 /\ r.stream.reliability # "Reliable" /\ RegisterUnreliable(x, key)
      /\ UNCHANGED <<cmd_rx, closed>>
  BY <1>1, RegistrationTaken DEF game
<1>3. WireTyped' /\ SameBidis /\ SameEnds /\ Grown
  BY Dropping
<1>4. RegistrationsHaveEnds' /\ SendsHaveEnds' /\ ClosesAsked'
  BY <1>2, <1>3, EndsKept
<1>5. e \in Events /\ e.conn = r.conn /\ e.stream = r.stream
  BY <1>2 DEF Events, OfStream
<1>6. ToSet(Tail(stream_reg_rx[x])) \cup {r} = ToSet(stream_reg_rx[x])
  BY <1>1, <1>2, Taken DEF Registration
<1>7. /\ DOMAIN reliable_send_streams[x] \subseteq DOMAIN reliable_send_streams'[x]
      /\ r.bidi # 0 => key \in DOMAIN reliable_send_streams'[x]
      /\ \A y \in Nodes : y # x => reliable_send_streams'[y] = reliable_send_streams[y]
  <2>1. reliable_send_streams \in [Nodes -> Tables]
    BY DEF BaseInv, Typed, TypedLoop
  <2>2. CASE r.bidi # 0 /\ RegisterReliable(x, key, r.bidi)
    <3>1. reliable_send_streams' =
            [reliable_send_streams EXCEPT ![x] = With(reliable_send_streams[x], key, r.bidi)]
      BY <2>2 DEF RegisterReliable
    <3>2. DOMAIN With(reliable_send_streams[x], key, r.bidi) = DOMAIN reliable_send_streams[x] \cup {key}
      BY DEF With
    <3>3. QED BY <2>1, <3>1, <3>2
  <2>3. CASE r.bidi = 0 /\ RegisterUnreliable(x, key)
    BY <2>3 DEF RegisterUnreliable
  <2>4. QED BY <1>2, <2>2, <2>3
<1>8. EventsHaveEnds'
  <2>1. UNCHANGED events \/ Emit(x, e)
    BY <1>2 DEF RegisterReliable, RegisterUnreliable
  <2>2. CASE UNCHANGED events
    BY <1>3, <2>2, EndsKept
  <2>3. CASE Emit(x, e)
    <3>1. ASSUME e.stream.reliability = "Reliable" PROVE HasEnd(x, e.conn, e.stream)'
      <4>1. r.bidi # 0 /\ IsSendStream(r.conn, r.stream, r.bidi) /\ HoldsEnd(x, bidis[r.conn][r.bidi])
        BY <1>2, <1>5, <3>1 DEF EndInv, RegistrationsHaveEnds
      <4>2. HasEnd(x, r.conn, r.stream)
        BY <4>1 DEF HasEnd, IsSendStream
      <4>3. QED BY <1>2, <1>3, <1>5, <4>2, EndKept
    <3>2. QED BY <1>3, <1>5, <2>3, <3>1, TellingKeepsEnds
  <2>4. QED BY <2>1, <2>2, <2>3
<1>9. EndsBacked'
  <2> SUFFICES ASSUME NEW y \in Nodes, NEW l \in LinksOf(y), NEW s \in Used, HasEnd(y, l, s)'
               PROVE  \/ <<l, s>> \in DOMAIN reliable_send_streams'[y] \cup closed'[y]
                      \/ Enrolling(y, l, s)'
    BY DEF EndsBacked, LinksOf, Ends
  <2>1. HasEnd(y, l, s)
    BY <1>3, NoNewEnd DEF LinksOf
  <2>2. CASE <<l, s>> \in DOMAIN reliable_send_streams[y] \cup closed[y]
    BY <1>2, <1>7, <2>2
  <2>3. CASE Enrolling(y, l, s)
    <3>1. PICK t \in ToSet(stream_reg_rx[y]) : t.conn = l /\ t.stream = s /\ t.bidi # 0
      BY <2>3 DEF Enrolling
    <3>2. CASE y = x /\ t = r
      BY <1>7, <3>1, <3>2
    <3>3. CASE y # x \/ t # r
      BY <1>2, <1>6, <3>1, <3>3 DEF Enrolling
    <3>4. QED BY <3>2, <3>3
  <2>4. QED BY <2>1, <2>2, <2>3 DEF EndInv, EndsBacked
<1>10. QED BY <1>4, <1>8, <1>9 DEF EndInv

\* A closed stream was closed by the game.
LEMMA CloseKeepsEnds ==
  ASSUME BaseInv, EndInv, NEW x \in Nodes, CloseStream(x)
  PROVE  EndInv'
<1>1. PICK c \in Cmds : c = Command(x) /\ c.op = "CloseStream" /\ c \in ToSet(cmd_rx[x])
  BY CommandTaken DEF CloseStream
<1> DEFINE key == <<c.conn, c.stream>>
           e == OfStream("StreamClosed", c.conn, c.stream)
<1>2. c.conn \in Links /\ c.stream \in Used
  BY <1>1, StreamCommands
<1>3. /\ reliable_send_streams' = [reliable_send_streams EXCEPT ![x] = Without(reliable_send_streams[x], key)]
      /\ Emit(x, e) /\ UNCHANGED <<stream_reg_rx, closed>>
  BY <1>1 DEF CloseStream, registrations, game
<1>4. WireTyped' /\ SameBidis /\ SameEnds /\ Grown
  BY Dropping
<1>5. \A y \in Nodes : ToSet(cmd_rx'[y]) \subseteq ToSet(cmd_rx[y])
  BY CommandTaken DEF CloseStream
<1>6. RegistrationsHaveEnds' /\ SendsHaveEnds' /\ ClosesAsked'
  BY <1>3, <1>4, <1>5, EndsKept
<1>7. e \in Events /\ e.type = "StreamClosed"
  BY <1>2 DEF Events, OfStream
<1>8. EventsHaveEnds'
  BY <1>3, <1>4, <1>7, TellingKeepsEnds
<1>9. key \in closed[x]
  BY <1>1 DEF EndInv, ClosesAsked
<1>10. EndsBacked'
  <2> SUFFICES ASSUME NEW y \in Nodes, NEW l \in LinksOf(y), NEW s \in Used, HasEnd(y, l, s)'
               PROVE  \/ <<l, s>> \in DOMAIN reliable_send_streams'[y] \cup closed'[y]
                      \/ Enrolling(y, l, s)'
    BY DEF EndsBacked, LinksOf, Ends
  <2>1. HasEnd(y, l, s)
    BY <1>4, NoNewEnd DEF LinksOf
  <2>2. \/ <<l, s>> \in DOMAIN reliable_send_streams[y] \cup closed[y]
        \/ Enrolling(y, l, s)
    BY <2>1 DEF EndInv, EndsBacked
  <2>3. Enrolling(y, l, s) => Enrolling(y, l, s)'
    BY <1>3 DEF Enrolling
  <2>4. <<l, s>> \in DOMAIN reliable_send_streams[y] => <<l, s>> \in DOMAIN reliable_send_streams'[y] \cup closed'[y]
    <3>1. reliable_send_streams \in [Nodes -> Tables]
      BY DEF BaseInv, Typed, TypedLoop
    <3>2. DOMAIN Without(reliable_send_streams[x], key) = DOMAIN reliable_send_streams[x] \ {key}
      BY DEF Without
    <3>3. CASE y = x
      BY <1>3, <1>9, <3>1, <3>2, <3>3
    <3>4. CASE y # x
      BY <1>3, <3>1, <3>4
    <3>5. QED BY <3>3, <3>4
  <2>5. QED BY <1>3, <2>2, <2>3, <2>4
<1>11. QED BY <1>6, <1>8, <1>10 DEF EndInv

\* What is put into the queue of registrations.
LEMMA EnrolKeepsEnds ==
  ASSUME BaseInv, EndInv, Grown, NEW x \in Nodes, NEW l \in Links, NEW s \in Used, NEW i \in Nat,
         Enrol(x, l, s, i), i # 0 => HoldsEnd(x, bidis'[l][i]),
         \A y \in Nodes : \A m \in LinksOf(y), t \in Used :
           HasEnd(y, m, t)' => HasEnd(y, m, t) \/ (y = x /\ m = l /\ t = s /\ i # 0),
         \A y \in Nodes : ToSet(cmd_rx'[y]) \subseteq ToSet(cmd_rx[y]),
         UNCHANGED <<reliable_send_streams, closed, events>>
  PROVE  EndInv'
<1> DEFINE r == [conn |-> l, stream |-> s, bidi |-> i]
<1>1. /\ ToSet(stream_reg_rx'[x]) = ToSet(stream_reg_rx[x]) \cup {r}
      /\ \A y \in Nodes : y # x => stream_reg_rx'[y] = stream_reg_rx[y]
  <2>1. BaseInv /\ Enrol(x, l, s, i)
    OBVIOUS
  <2>2. stream_reg_rx \in [Nodes -> Seq(Regs)] /\ r \in Regs
    BY DEF BaseInv, Typed, TypedRegistrations, Regs
  <2>3. stream_reg_rx' = [stream_reg_rx EXCEPT ![x] = Append(stream_reg_rx[x], r)]
    BY <2>1 DEF Enrol
  <2> HIDE DEF r
  <2>4. PICK q \in Seq(Regs) : q = stream_reg_rx[x]
    BY <2>2
  <2>5. ToSet(Append(q, r)) = ToSet(q) \cup {r}
    BY <2>2, Put
  <2>6. QED BY <2>2, <2>3, <2>4, <2>5
<1>2. EventsHaveEnds' /\ SendsHaveEnds' /\ ClosesAsked'
  BY EndsKept
<1>3. RegistrationsHaveEnds'
  <2> SUFFICES ASSUME NEW y \in Nodes, NEW t \in ToSet(stream_reg_rx'[y]), t.bidi # 0
               PROVE  HoldsEnd(y, bidis'[t.conn][t.bidi])
    BY DEF RegistrationsHaveEnds
  <2>1. CASE y = x /\ t = r
    BY <2>1
  <2>2. CASE t \in ToSet(stream_reg_rx[y])
    <3>1. t.conn \in Links /\ t.bidi \in DOMAIN bidis[t.conn]
      BY <2>2, RegistrationsTyped DEF IsSendStream
    <3>2. HoldsEnd(y, bidis[t.conn][t.bidi])
      BY <2>2 DEF EndInv, RegistrationsHaveEnds
    <3>3. QED BY <3>1, <3>2 DEF Grown, Alike, HoldsEnd
  <2>3. QED BY <1>1, <2>1, <2>2
<1>4. EndsBacked'
  <2> SUFFICES ASSUME NEW y \in Nodes, NEW m \in LinksOf(y), NEW t \in Used, HasEnd(y, m, t)'
               PROVE  \/ <<m, t>> \in DOMAIN reliable_send_streams'[y] \cup closed'[y]
                      \/ Enrolling(y, m, t)'
    BY DEF EndsBacked, LinksOf, Ends
  <2>1. CASE HasEnd(y, m, t)
    <3>1. \/ <<m, t>> \in DOMAIN reliable_send_streams[y] \cup closed[y]
          \/ Enrolling(y, m, t)
      BY <2>1 DEF EndInv, EndsBacked
    <3>2. Enrolling(y, m, t) => Enrolling(y, m, t)'
      BY <1>1 DEF Enrolling
    <3>3. QED BY <3>1, <3>2
  <2>2. CASE y = x /\ m = l /\ t = s /\ i # 0
    <3>1. r \in ToSet(stream_reg_rx'[y]) /\ r.conn = m /\ r.stream = t /\ r.bidi # 0
      BY <1>1, <2>2
    <3>2. QED BY <3>1 DEF Enrolling
  <2>3. QED BY <2>1, <2>2 DEF LinksOf
<1>5. QED BY <1>2, <1>3, <1>4 DEF EndInv

\* Who opens a stream enrols its SendStream.
LEMMA OpenKeepsEnds ==
  ASSUME BaseInv, EndInv, NEW x \in Nodes, OpenCompletes(x)
  PROVE  EndInv'
<1>a. OpenBidi(x) /\ events' = events
  BY DEF OpenCompletes
<1>0. PICK l \in Links, s \in Used :
        /\ l = awaiting[x].link /\ s = awaiting[x].stream /\ awaiting[x].on = "stream"
        /\ l \in Heard(x) /\ s.reliability = "Reliable"
        /\ \E B \in Bidis(l) :
             /\ B.opener = x /\ B.stream = s /\ B.accepted = FALSE
             /\ bidis' = [bidis EXCEPT ![l] = Append(@, B)]
        /\ Len(bidis[l]) \in Nat
        /\ Enrol(x, l, s, Len(bidis[l]) + 1)
        /\ awaiting' = [awaiting EXCEPT ![x] = Idle]
        /\ UNCHANGED <<running, connections, reliable_send_streams, unreliable_send_streams, tasks,
                       cmd_rx, conn_reg_rx, link, datagrams, game, history>>
  BY <1>a, Opening
<1>1. PICK B \in Bidis(l) :
        /\ B.opener = x /\ B.stream = s /\ B.accepted = FALSE
        /\ bidis' = [bidis EXCEPT ![l] = Append(@, B)]
  BY <1>0
<1>2. WireTyped
  BY DEF BaseInv, Typed, TypedWire, WireTyped
<1> DEFINE n == Len(bidis[l])
<1>3. /\ n \in Nat
      /\ DOMAIN bidis[l] = 1 .. n /\ DOMAIN bidis'[l] = 1 .. n + 1
      /\ bidis'[l][n + 1] = B
      /\ \A i \in DOMAIN bidis[l] : bidis'[l][i] = bidis[l][i]
      /\ \A m \in Links : m # l => bidis'[m] = bidis[m]
  BY <1>1, <1>2, BidiOpened
<1> HIDE DEF n
<1>4. Grown
  <2>1. ASSUME NEW m \in Links
        PROVE  /\ DOMAIN bidis[m] \subseteq DOMAIN bidis'[m]
               /\ \A i \in DOMAIN bidis[m] : bidis'[m][i] = bidis[m][i]
    BY <1>3
  <2>2. QED BY <2>1 DEF Grown, Alike
<1>5. HoldsEnd(x, bidis'[l][n + 1])
  BY <1>1, <1>3 DEF HoldsEnd
<1>6. ASSUME NEW y \in Nodes, NEW m \in LinksOf(y), NEW t \in Used, HasEnd(y, m, t)'
      PROVE  HasEnd(y, m, t) \/ (y = x /\ m = l /\ t = s)
  <2>1. m \in Links
    BY DEF LinksOf
  <2>2. PICK i \in DOMAIN bidis'[m] : bidis'[m][i].stream = t /\ HoldsEnd(y, bidis'[m][i])
    BY <1>6 DEF HasEnd
  <2>3. CASE m = l /\ i = n + 1
    BY <1>1, <1>3, <2>2, <2>3 DEF HoldsEnd
  <2>4. CASE m # l \/ i # n + 1
    <3>1. i \in DOMAIN bidis[m] /\ bidis'[m][i] = bidis[m][i]
      BY <1>3, <2>1, <2>2, <2>4
    <3>2. QED BY <2>2, <3>1 DEF HasEnd
  <2>5. QED BY <2>3, <2>4
<1>7. Enrol(x, l, s, n + 1) /\ n + 1 \in Nat /\ n + 1 # 0
  BY <1>0, <1>3 DEF n
<1>8. UNCHANGED <<reliable_send_streams, closed, events, cmd_rx>>
  BY <1>0 DEF OpenCompletes, game
<1>9. PICK k \in Nat : k = n + 1
  BY <1>7
<1>10. QED BY <1>4, <1>5, <1>6, <1>7, <1>8, <1>9, EnrolKeepsEnds

\* Who accepts a stream enrols its SendStream.
LEMMA AcceptStreamKeepsEnds ==
  ASSUME BaseInv, EndInv, NEW x \in Nodes, NEW l \in LinksOf(x), AcceptStream(x, l)
  PROVE  EndInv'
<1>1. /\ l \in Links /\ l \in Heard(x) /\ DOMAIN bidis[l] \subseteq Nat \ {0}
      /\ \A i \in DOMAIN bidis[l] : bidis[l][i] \in Bidis(l) /\ bidis[l][i].stream \in Used
      /\ UNCHANGED <<loop, cmd_rx, events, game>>
  BY Accepting
<1>2. PICK i \in DOMAIN bidis[l] :
        /\ bidis[l][i].opener # x
        /\ bidis' = [bidis EXCEPT ![l][i].accepted = TRUE]
        /\ Enrol(x, l, bidis[l][i].stream, i)
  BY Accepting
<1>3. PICK s \in Used : s = bidis[l][i].stream
  BY <1>1
<1>4. WireTyped
  BY DEF BaseInv, Typed, TypedWire, WireTyped
<1>5. /\ SameBidis /\ bidis'[l][i].accepted
      /\ \A m \in Links : \A j \in DOMAIN bidis[m] : m # l \/ j # i => bidis'[m][j] = bidis[m][j]
  BY <1>1, <1>2, <1>4, BidiAccepted
<1>6. Grown
  BY <1>5, SameIsGrown
<1>7. HoldsEnd(x, bidis'[l][i])
  BY <1>5 DEF HoldsEnd
<1>8. ASSUME NEW y \in Nodes, NEW m \in LinksOf(y), NEW t \in Used, HasEnd(y, m, t)'
      PROVE  HasEnd(y, m, t) \/ (y = x /\ m = l /\ t = s)
  <2>1. m \in Links
    BY DEF LinksOf
  <2>2. PICK j \in DOMAIN bidis'[m] : bidis'[m][j].stream = t /\ HoldsEnd(y, bidis'[m][j])
    BY <1>8 DEF HasEnd
  <2>3. j \in DOMAIN bidis[m] /\ bidis[m][j].stream = t
    BY <1>5, <2>1, <2>2 DEF SameBidis, Alike
  <2>4. CASE m = l /\ j = i
    <3>1. bidis[l][i].opener \in Ends(l) /\ x \in Ends(l) /\ y \in Ends(l)
      BY <1>1, <2>4 DEF Bidis, LinksOf
    <3>2. y = x \/ y = bidis[l][i].opener
      BY <1>2, <3>1 DEF Ends
    <3>3. CASE y = x
      BY <1>3, <2>3, <2>4, <3>3
    <3>4. CASE y = bidis[l][i].opener
      BY <2>3, <2>4, <3>4 DEF HasEnd, HoldsEnd
    <3>5. QED BY <3>2, <3>3, <3>4
  <2>5. CASE m # l \/ j # i
    <3>1. bidis'[m][j] = bidis[m][j]
      BY <1>5, <2>1, <2>3, <2>5
    <3>2. QED BY <2>2, <2>3, <3>1 DEF HasEnd
  <2>6. QED BY <2>4, <2>5
<1>9. i \in Nat /\ i # 0 /\ Enrol(x, l, s, i)
  BY <1>1, <1>2, <1>3
<1>10. UNCHANGED <<reliable_send_streams, closed, events, cmd_rx>>
  BY <1>1 DEF loop, game
<1>11. QED BY <1>1, <1>6, <1>7, <1>8, <1>9, <1>10, EnrolKeepsEnds

\* A stream without a SendStream is enrolled.
LEMMA EnrolOtherKeepsEnds ==
  ASSUME BaseInv, EndInv, NEW x \in Nodes,
         CreateOther(x) \/ \E l \in LinksOf(x) : ReadDatagram(x, l)
  PROVE  EndInv'
<1>1. /\ UNCHANGED <<reliable_send_streams, closed, events, bidis>>
      /\ \A y \in Nodes : ToSet(cmd_rx'[y]) \subseteq ToSet(cmd_rx[y])
  <2>1. CASE CreateOther(x)
    BY <2>1, CommandTaken DEF CreateOther, loop, wire, game
  <2>2. CASE \E l \in LinksOf(x) : ReadDatagram(x, l)
    BY <2>2 DEF ReadDatagram, loop, game
  <2>3. QED BY <2>1, <2>2
<1>2. UNCHANGED stream_reg_rx \/ \E l \in Links, s \in Used : Enrol(x, l, s, 0)
  <2>1. CASE CreateOther(x)
    <3>1. PICK c \in Cmds : c = Command(x) /\ c.op = "CreateStream"
      BY <2>1, CommandTaken DEF CreateOther
    <3>2. c.conn \in Links /\ c.stream \in Used /\ Enrol(x, c.conn, c.stream, 0)
      BY <2>1, <3>1, StreamCommands DEF CreateOther
    <3>3. QED BY <3>2
  <2>2. ASSUME NEW l \in LinksOf(x), ReadDatagram(x, l)
        PROVE  UNCHANGED stream_reg_rx \/ \E s \in Used : Enrol(x, l, s, 0)
    <3>1. l \in Links
      BY DEF LinksOf
    <3>2. PICK dg \in datagrams[l] : UNCHANGED stream_reg_rx \/ Enrol(x, l, dg.stream, 0)
      BY <2>2 DEF ReadDatagram
    <3>3. dg.stream \in Used
      BY <3>1 DEF BaseInv, Typed, TypedWire, Datagrams
    <3>4. QED BY <3>2, <3>3
  <2>3. QED BY <2>1, <2>2 DEF LinksOf
<1>3. SameBidis /\ SameEnds /\ Grown
  <2>1. WireTyped
    BY DEF BaseInv, Typed, TypedWire, WireTyped
  <2>2. QED BY <1>1, <2>1, BidisUnchanged, SameIsGrown
<1>4. CASE UNCHANGED stream_reg_rx
  <2>1. EventsHaveEnds'
    BY <1>1, <1>3, EndsKept
  <2>2. QED BY <1>1, <1>3, <1>4, <2>1, StillKeepsEnds
<1>5. CASE \E l \in Links, s \in Used : Enrol(x, l, s, 0)
  <2>1. PICK l \in Links, s \in Used, i \in Nat : Enrol(x, l, s, i) /\ i = 0
    BY <1>5
  <2>2. \A y \in Nodes : \A m \in LinksOf(y), t \in Used : HasEnd(y, m, t)' => HasEnd(y, m, t)
    BY <1>3, NoNewEnd DEF LinksOf
  <2>3. QED BY <1>1, <1>3, <2>1, <2>2, EnrolKeepsEnds
<1>6. QED BY <1>2, <1>4, <1>5

-----------------------------------------------------------------------------
(* Most steps do nothing to the streams.                                   *)

\* Of the streams, all stays; a command may be taken, a handshake begun or ended.
Still ==
  /\ SameBidis /\ SameEnds
  /\ UNCHANGED <<reliable_send_streams, unreliable_send_streams, stream_reg_rx, created, closed>>
  /\ \A y \in Nodes : \/ cmd_rx'[y] = cmd_rx[y]
                      \/ cmd_rx[y] # <<>> /\ cmd_rx'[y] = Tail(cmd_rx[y])
  /\ \/ UNCHANGED events
     \/ \E y \in Nodes, e \in Events :
          /\ Emit(y, e) /\ e.type \in Telling
          /\ e.type = "Message" => ~is_reliable(e.stream)
  /\ \A y \in Nodes : awaiting'[y] = awaiting[y] \/ awaiting'[y].on # "stream"

\* The steps that do something.
Works(x) ==
  \/ Game(x) \/ RegisterStream(x) \/ CloseStream(x) \/ CreateReliable(x) \/ CreateOther(x)
  \/ OpenCompletes(x)
  \/ \E l \in LinksOf(x) : AcceptStream(x, l) \/ ReadDatagram(x, l) \/ ReadStream(x, l)

\* A command that is not about streams but for sending.
LEMMA StillCommands ==
  ASSUME BaseInv, NEW x \in Nodes,
         \/ Bind(x) \/ Connect(x) \/ Shutdown(x) \/ BindFails(x) \/ SendUnknown(x) \/ SendStreamless(x)
         \/ SendReliable(x) \/ SendDatagram(x)
  PROVE  Still
<1>1. WireTyped /\ TypedWire /\ awaiting \in [Nodes -> Awaitings]
  BY DEF BaseInv, Typed, TypedWire, TypedLoop, WireTyped
<1>2. /\ cmd_rx[x] # <<>> /\ cmd_rx'[x] = Tail(cmd_rx[x])
      /\ \A y \in Nodes : y # x => cmd_rx'[y] = cmd_rx[y]
  BY CommandTaken DEF Bind, Connect, Shutdown, BindFails, SendUnknown, SendStreamless, SendReliable, SendDatagram
<1>3. UNCHANGED <<reliable_send_streams, unreliable_send_streams, stream_reg_rx, created, closed>>
  BY DEF Bind, Connect, Shutdown, BindFails, SendUnknown, SendStreamless, SendReliable, SendDatagram,
     loop, registrations, game
<1>4. SameBidis /\ SameEnds
  <2>1. CASE Bind(x) \/ Connect(x) \/ SendUnknown(x) \/ SendStreamless(x) \/ SendDatagram(x)
    <3>1. UNCHANGED bidis
      BY <2>1 DEF Bind, Connect, SendUnknown, SendStreamless, SendDatagram, wire
    <3>2. QED BY <1>1, <3>1, BidisUnchanged
  <2>2. CASE Shutdown(x) \/ BindFails(x)
    <3>1. PICK D : Cut(D)
      BY <2>2 DEF Shutdown, BindFails, RunEnds
    <3>2. QED BY <1>1, <3>1, BidisCut
  <2>3. CASE SendReliable(x)
    <3>1. PICK c \in Cmds : c = Command(x) /\ c.op = "Send"
      BY <2>3, CommandTaken DEF SendReliable
    <3>2. PICK l \in Links, key \in Keys, d \in Nat : l = c.conn /\ key = <<l, c.stream>> /\ d = c.data
      BY <3>1, StreamCommands
    <3>3. /\ key \in DOMAIN reliable_send_streams[x]
          /\ \/ bidis' = [bidis EXCEPT ![l][reliable_send_streams[x][key]] = WriteFrame(@, Peer(l, x), d)]
             \/ UNCHANGED bidis
      BY <2>3, <3>1, <3>2 DEF SendReliable
    <3>4. reliable_send_streams[x][key] \in DOMAIN bidis[l]
      BY <3>2, <3>3 DEF BaseInv, StreamInv, TablesFit, IsSendStream
    <3>5. PICK i \in DOMAIN bidis[l] : i = reliable_send_streams[x][key]
      BY <3>4
    <3>6. CASE bidis' = [bidis EXCEPT ![l][i] = WriteFrame(@, Peer(l, x), d)]
      BY <1>1, <3>6, BidiWritten
    <3>7. CASE UNCHANGED bidis
      BY <1>1, <3>7, BidisUnchanged
    <3>8. QED BY <3>3, <3>5, <3>6, <3>7
  <2>4. QED BY <2>1, <2>2, <2>3
<1>5. \/ UNCHANGED events
      \/ \E e \in Events : Emit(x, e) /\ e.type \in Telling /\ e.type # "Message"
  <2>1. CASE Bind(x) \/ Connect(x) \/ Shutdown(x) \/ BindFails(x) \/ SendUnknown(x) \/ SendStreamless(x)
    BY <2>1 DEF Bind, Connect, Shutdown, BindFails, SendUnknown, SendStreamless
  <2>2. CASE SendReliable(x) \/ SendDatagram(x)
    <3>1. PICK c \in Cmds : c = Command(x) /\ c.op = "Send"
      BY <2>2, CommandTaken DEF SendReliable, SendDatagram
    <3>2. c.conn \in Links
      BY <3>1, StreamCommands
    <3>3. /\ Plain("Error", c.conn) \in Events /\ Plain("Error", c.conn).type \in Telling
          /\ Plain("Error", c.conn).type # "Message"
      BY <3>2 DEF Plain, Events, Telling
    <3>4. UNCHANGED events \/ Emit(x, Plain("Error", c.conn))
      BY <2>2, <3>1 DEF SendReliable, SendDatagram
    <3>5. QED BY <3>3, <3>4
  <2>3. QED BY <2>1, <2>2
<1>6. \A y \in Nodes : awaiting'[y] = awaiting[y] \/ awaiting'[y].on # "stream"
  <2>1. CASE Connect(x)
    <3>1. awaiting' = [awaiting EXCEPT ![x] = [on |-> "handshake", link |-> Command(x).conn]]
      BY <2>1 DEF Connect
    <3>2. QED BY <1>1, <3>1
  <2>2. CASE UNCHANGED awaiting
    BY <2>2
  <2>3. QED BY <2>1, <2>2 DEF Bind, Shutdown, BindFails, SendUnknown, SendStreamless, SendReliable, SendDatagram, loop
<1>7. QED BY <1>2, <1>3, <1>4, <1>5, <1>6 DEF Still

\* What the tasks do but for the streams.
LEMMA StillTasks ==
  ASSUME BaseInv, NEW x \in Nodes,
         \/ ConnectCompletes(x) \/ ConnectFails(x) \/ OpenFails(x) \/ RegisterConnection(x) \/ Accept(x)
         \/ \E l \in LinksOf(x) : AnnounceDatagram(x, l)
  PROVE  Still
<1>1. WireTyped /\ TypedWire /\ awaiting \in [Nodes -> Awaitings]
  BY DEF BaseInv, Typed, TypedWire, TypedLoop, WireTyped
<1>2. UNCHANGED <<reliable_send_streams, unreliable_send_streams, stream_reg_rx, created, closed, cmd_rx>>
  BY DEF ConnectCompletes, ConnectFails, OpenFails, RegisterConnection, Accept, AcceptRegister,
     AcceptConnected, AcceptFails, AnnounceDatagram, loop, registrations, game
<1>3. SameBidis /\ SameEnds
  <2>1. CASE ConnectFails(x) \/ OpenFails(x)
    <3>1. PICK D : Cut(D)
      BY <2>1 DEF ConnectFails, OpenFails, RunEnds
    <3>2. QED BY <1>1, <3>1, BidisCut
  <2>2. CASE UNCHANGED bidis
    BY <1>1, <2>2, BidisUnchanged
  <2>3. QED BY <2>1, <2>2 DEF ConnectCompletes, RegisterConnection, Accept, AcceptRegister,
     AcceptConnected, AcceptFails, AnnounceDatagram, wire
<1>4. \/ UNCHANGED events
      \/ \E e \in Events :
           /\ Emit(x, e) /\ e.type \in Telling
           /\ e.type = "Message" => ~is_reliable(e.stream)
  <2>1. ASSUME NEW l \in Links, Emit(x, Plain("Connected", l))
        PROVE  \E e \in Events : Emit(x, e) /\ e.type \in Telling /\ e.type # "Message"
    <3>1. /\ Plain("Connected", l) \in Events /\ Plain("Connected", l).type \in Telling
          /\ Plain("Connected", l).type # "Message"
      BY DEF Plain, Events, Telling
    <3>2. QED BY <2>1, <3>1
  <2>2. CASE ConnectCompletes(x)
    <3>1. awaiting[x] \in Awaitings /\ awaiting[x].on = "handshake"
      BY <1>1, <2>2 DEF ConnectCompletes
    <3>2. PICK l \in Links : l = awaiting[x].link
      BY <3>1 DEF Awaitings, Idle
    <3>3. Emit(x, Plain("Connected", l))
      BY <2>2, <3>2 DEF ConnectCompletes
    <3>4. QED BY <2>1, <3>3
  <2>3. CASE ConnectFails(x) \/ OpenFails(x) \/ RegisterConnection(x)
    BY <2>3 DEF ConnectFails, OpenFails, RegisterConnection
  <2>4. CASE Accept(x)
    BY <2>1, <2>4 DEF Accept, AcceptRegister, AcceptConnected, AcceptFails, LinksOf
  <2>5. ASSUME NEW l \in LinksOf(x), AnnounceDatagram(x, l)
        PROVE  \E e \in Events : Emit(x, e) /\ e.type \in Telling /\ ~is_reliable(e.stream)
    <3>1. PICK s \in Used, d \in Nat :
            ~is_reliable(s) /\ Tells(x, MessageOn(l, s, d)) /\ MessageOn(l, s, d) \in Events
      BY <2>5, AnnouncingDatagram
    <3>2. MessageOn(l, s, d).type \in Telling /\ MessageOn(l, s, d).stream = s
      BY DEF MessageOn, Telling
    <3>3. QED BY <3>1, <3>2 DEF Tells
  <2>6. QED BY <2>2, <2>3, <2>4, <2>5
<1>5. \A y \in Nodes : awaiting'[y] = awaiting[y] \/ awaiting'[y].on # "stream"
  <2>1. CASE ConnectCompletes(x)
    <3>1. awaiting' = [awaiting EXCEPT ![x] = Idle]
      BY <2>1 DEF ConnectCompletes
    <3>2. QED BY <1>1, <3>1 DEF Idle
  <2>2. CASE UNCHANGED awaiting
    BY <2>2
  <2>3. QED BY <2>1, <2>2 DEF ConnectFails, OpenFails, RegisterConnection, Accept, AcceptRegister,
     AcceptConnected, AcceptFails, AnnounceDatagram, loop
<1>6. QED BY <1>2, <1>3, <1>4, <1>5 DEF Still

\* Every step works on a stream or leaves them alone.
LEMMA WorksOrStill ==
  ASSUME BaseInv, [Next]_vars
  PROVE  Still \/ \E x \in Nodes : Works(x)
<1>1. WireTyped /\ TypedWire
  BY DEF BaseInv, Typed, TypedWire, WireTyped
<1>2. ASSUME UNCHANGED vars \/ \E l \in Links : LinkLost(l) \/ DatagramLost(l)
      PROVE  Still
  <2>1. UNCHANGED <<reliable_send_streams, unreliable_send_streams, stream_reg_rx, created, closed,
                    cmd_rx, events, awaiting>>
    BY <1>2 DEF vars, loop, registrations, game, LinkLost, DatagramLost
  <2>2. SameBidis /\ SameEnds
    <3>1. UNCHANGED bidis \/ \E D : Cut(D)
      BY <1>2 DEF vars, wire, LinkLost, DatagramLost
    <3>2. QED BY <1>1, <3>1, BidisUnchanged, BidisCut
  <2>3. QED BY <2>1, <2>2 DEF Still
<1>3. ASSUME NEW x \in Nodes,
             \/ Game(x) \/ RegisterConnection(x) \/ RegisterStream(x) \/ Commands(x)
             \/ Awaited(x) \/ Accept(x)
             \/ \E l \in LinksOf(x) : DatagramReader(x, l) \/ StreamReader(x, l)
      PROVE  Still \/ Works(x)
  <2>1. CASE Commands(x)
    BY <2>1, StillCommands DEF Commands, Works
  <2>2. CASE Awaited(x) \/ Accept(x) \/ RegisterConnection(x)
    BY <2>2, StillTasks DEF Awaited, Works
  <2>3. CASE \E l \in LinksOf(x) : DatagramReader(x, l) \/ StreamReader(x, l)
    BY <2>3, StillTasks DEF DatagramReader, StreamReader, Works
  <2>4. QED BY <1>3, <2>1, <2>2, <2>3 DEF Works
<1>4. QED BY <1>2, <1>3 DEF Next
-----------------------------------------------------------------------------
(* What the game has of a stream stays backed by its SendStream.           *)

\* A queue of which at most the first element is taken.
LEMMA ShorterQueue ==
  ASSUME NEW S, NEW q \in Seq(S), NEW p, p = q \/ (q # <<>> /\ p = Tail(q))
  PROVE  p \in Seq(S) /\ ToSet(p) \subseteq ToSet(q)
<1>1. CASE q # <<>> /\ p = Tail(q)
  <2>1. Tail(q) \in Seq(S) /\ ToSet(Tail(q)) \subseteq ToSet(q)
    BY <1>1, Taken
  <2>2. QED BY <1>1, <2>1
<1>2. QED BY <1>1

\* One step per action that works on a stream; the others leave all of it alone.
LEMMA EndsInvKept ==
  ASSUME BaseInv, EndInv, [Next]_vars
  PROVE  EndInv'
<1>1. cmd_rx \in [Nodes -> Seq(Cmds)] /\ WireTyped
  BY DEF BaseInv, Typed, TypedWire, WireTyped
<1>2. CASE Still
  <2>1. /\ SameBidis /\ SameEnds /\ Grown
        /\ UNCHANGED <<reliable_send_streams, stream_reg_rx, closed>>
    BY <1>2, SameIsGrown DEF Still
  <2>2. \A y \in Nodes : ToSet(cmd_rx'[y]) \subseteq ToSet(cmd_rx[y])
    BY <1>1, <1>2, ShorterQueue DEF Still
  <2>3. EventsHaveEnds'
    <3>1. CASE UNCHANGED events
      BY <2>1, <3>1, EndsKept
    <3>2. CASE \E y \in Nodes, e \in Events :
                 /\ Emit(y, e) /\ e.type \in Telling
                 /\ e.type = "Message" => ~is_reliable(e.stream)
      <4>1. PICK y \in Nodes, e \in Events :
                 /\ Emit(y, e) /\ e.type \in Telling
                 /\ e.type = "Message" => ~is_reliable(e.stream)
        BY <3>2
      <4>2. ~(e.type \in {"StreamCreated", "Message"} /\ e.stream.reliability = "Reliable")
        BY <4>1 DEF Telling, is_reliable
      <4>3. QED BY <2>1, <4>1, <4>2, TellingKeepsEnds
    <3>3. QED BY <1>2, <3>1, <3>2 DEF Still
  <2>4. QED BY <2>1, <2>2, <2>3, StillKeepsEnds
<1>3. ASSUME NEW x \in Nodes, CreateReliable(x) PROVE EndInv'
  <2>1. UNCHANGED <<reliable_send_streams, stream_reg_rx, closed, bidis, events>>
    BY <1>3 DEF CreateReliable, registrations, wire, game
  <2>2. SameBidis /\ SameEnds /\ Grown
    BY <1>1, <2>1, BidisUnchanged, SameIsGrown
  <2>3. \A y \in Nodes : ToSet(cmd_rx'[y]) \subseteq ToSet(cmd_rx[y])
    BY <1>3, CommandTaken DEF CreateReliable
  <2>4. EventsHaveEnds'
    BY <2>1, <2>2, EndsKept
  <2>5. QED BY <2>1, <2>2, <2>3, <2>4, StillKeepsEnds
<1>4. ASSUME NEW x \in Nodes, NEW l \in LinksOf(x), ReadStream(x, l) PROVE EndInv'
  <2>1. PICK i \in DOMAIN bidis[l], s \in Used, d \in Nat :
           /\ s = bidis[l][i].stream /\ (bidis[l][i].opener = x \/ bidis[l][i].accepted)
           /\ d = Head(bidis[l][i].wire[x]) /\ bidis[l][i].wire[x] # <<>>
           /\ bidis' = [bidis EXCEPT ![l][i].wire[x] = Tail(@)]
           /\ WireTyped' /\ SameBidis /\ SameEnds
           /\ MessageOn(l, s, d) \in Events /\ Tells(x, MessageOn(l, s, d))
           /\ UNCHANGED <<loop, tasks, cmd_rx, registrations, link, datagrams, game, history>>
    BY <1>4, Reading
  <2>2. PICK e \in Events : e = MessageOn(l, s, d)
    BY <2>1
  <2>3. Emit(x, e) /\ Grown /\ e.conn = l /\ e.stream = s
    BY <2>1, <2>2, SameIsGrown DEF Tells, MessageOn
  <2>4. HasEnd(x, l, s)'
    <3>1. HasEnd(x, l, s)
      BY <2>1 DEF HasEnd, HoldsEnd
    <3>2. QED BY <2>3, <3>1, EndKept DEF LinksOf
  <2>5. EventsHaveEnds'
    BY <2>3, <2>4, TellingKeepsEnds
  <2>6. UNCHANGED <<reliable_send_streams, stream_reg_rx, closed, cmd_rx>>
    BY <2>1 DEF loop, registrations, game
  <2>7. QED BY <2>1, <2>5, <2>6, StillKeepsEnds
<1>5. QED BY <1>2, <1>3, <1>4, WorksOrStill, GameKeepsEnds, RegisterKeepsEnds, CloseKeepsEnds,
             OpenKeepsEnds, EnrolOtherKeepsEnds, AcceptStreamKeepsEnds DEF Works

\* At first there is nothing to be backed.
LEMMA EndsAtFirst == Init => EndInv
<1> SUFFICES ASSUME Init PROVE EndInv
  OBVIOUS
<1>1. \A x \in Nodes : ToSet(events[x]) = {} /\ ToSet(stream_reg_rx[x]) = {}
  BY Empty DEF Init
<1>2. EventsHaveEnds /\ RegistrationsHaveEnds
  BY <1>1 DEF EventsHaveEnds, RegistrationsHaveEnds
<1>3. SendsHaveEnds /\ ClosesAsked
  <2>1. \A x \in Nodes : \A c \in ToSet(cmd_rx[x]) : c.op \in {"Bind", "Connect"}
    <3>1. \A x \in Nodes : cmd_rx[x] = FirstCommands(x)
      BY DEF Init
    <3>2. QED BY <3>1, FirstCommandsTyped
  <2>2. QED BY <2>1 DEF SendsHaveEnds, ClosesAsked
<1>4. \A x \in Nodes, l \in Links, s \in Used : ~HasEnd(x, l, s)
  BY DEF Init, HasEnd
<1>5. EndsBacked
  BY <1>4 DEF EndsBacked, LinksOf
<1>6. QED BY <1>2, <1>3, <1>5 DEF EndInv

\* No SendStream is lost on its way (RefusedOnlyEarly): if no game asks for an
\* Ordered stream, which this backend has no SendStream for, then a Send on a
\* stream the game may use is refused only because the game has closed it or
\* because its registration is still queued.
THEOREM QuicRefusedOnlyEarly ==
  ASSUME \A y \in Nodes : \A s \in Creates[y] : s.reliability # "Ordered"
  PROVE  Spec => RefusedOnlyEarly
<1>1. Init => EndInv
  BY EndsAtFirst
<1>2. BaseInv /\ EndInv /\ [Next]_vars => EndInv'
  BY EndsInvKept
<1> DEFINE Early ==
      \A x \in Nodes : SendStreamless(x) =>
        LET c == Command(x) IN
        \/ <<c.conn, c.stream>> \in closed[x]
        \/ \E r \in Range(stream_reg_rx[x]) :
             r.conn = c.conn /\ r.stream = c.stream /\ r.bidi # 0
<1>3. BaseInv /\ EndInv => Early
  <2> SUFFICES ASSUME BaseInv, EndInv, NEW x \in Nodes, SendStreamless(x),
                      <<Command(x).conn, Command(x).stream>> \notin closed[x]
               PROVE  \E r \in Range(stream_reg_rx[x]) :
                        r.conn = Command(x).conn /\ r.stream = Command(x).stream /\ r.bidi # 0
    OBVIOUS
  <2>1. PICK c \in Cmds : c = Command(x) /\ c.op = "Send" /\ c \in ToSet(cmd_rx[x])
    BY CommandTaken DEF SendStreamless
  <2>2. /\ c.conn \in Links /\ c.stream \in Used /\ is_reliable(c.stream)
        /\ <<c.conn, c.stream>> \notin DOMAIN reliable_send_streams[x]
    BY <2>1, StreamCommands DEF SendStreamless
  <2>3. c.stream.reliability = "Reliable"
    BY <2>2, UsedAreStreams DEF is_reliable, Used, Streams, Reliability
  <2>4. HasEnd(x, c.conn, c.stream)
    BY <2>1, <2>3 DEF EndInv, SendsHaveEnds
  <2>5. c.conn \in LinksOf(x)
    BY <2>1 DEF BaseInv, HeardInv, CommandsHeard, Heard
  <2>6. Enrolling(x, c.conn, c.stream)
    BY <2>1, <2>2, <2>4, <2>5 DEF EndInv, EndsBacked
  <2>7. QED BY <2>1, <2>6 DEF Enrolling, ToSet, Range
<1>4. BaseInv /\ EndInv /\ [Next]_vars => [Early]_vars
  BY <1>3
<1> HIDE DEF Early
<1>5. Spec => [][Early]_vars
  BY <1>1, <1>2, <1>4, BaseHolds, PTL DEF Spec
<1>6. QED BY <1>5 DEF Early, RefusedOnlyEarly

-----------------------------------------------------------------------------
(* The invariant: a stream goes through a backend once.                    *)

\* What of T is in a queue is there once.
Once(q, T) == \A i, j \in DOMAIN q : q[i] \in T /\ q[j] = q[i] => i = j

Creation(l, s) == [op |-> "CreateStream", conn |-> l, stream |-> s]
Creations == {c \in Cmds : c.op = "CreateStream"}

\* A creation that has been asked for and has not opened its stream yet.
Creating(x, l, s) ==
  \/ Creation(l, s) \in ToSet(cmd_rx[x])
  \/ awaiting[x].on = "stream" /\ awaiting[x].link = l /\ awaiting[x].stream = s

\* A game asks once for a stream, and the loop has it in one place.
AskedOnce ==
  \A x \in Nodes :
    /\ Once(cmd_rx[x], Creations)
    /\ \A key \in created[x] : key[2] \in Creates[x]
    /\ \A l \in Links, s \in Used : Creating(x, l, s) => <<l, s>> \in created[x]
    /\ awaiting[x].on = "stream" =>
         Creation(awaiting[x].link, awaiting[x].stream) \notin ToSet(cmd_rx[x])

\* What is open was asked for, is not asked for any more, and is open once.
OpenedOnce ==
  \A l \in Links : \A i \in DOMAIN bidis[l] :
    /\ <<l, bidis[l][i].stream>> \in created[bidis[l][i].opener]
    /\ ~Creating(bidis[l][i].opener, l, bidis[l][i].stream)
    /\ \A j \in DOMAIN bidis[l] : bidis[l][j].stream = bidis[l][i].stream => j = i

Handed == {r \in Regs : r.bidi # 0}

\* A SendStream is registered once, and the game is told after that.
EnrolledOnce ==
  \A x \in Nodes :
    /\ Once(stream_reg_rx[x], Handed)
    /\ \A r \in ToSet(stream_reg_rx[x]) :
         r.bidi # 0 => OfStream("StreamCreated", r.conn, r.stream) \notin ToSet(events[x])

\* The list of unreliable streams is what the game knows of.
ListedIfAnnounced ==
  \A x \in Nodes, l \in Links, s \in Used :
    s.reliability # "Reliable" /\ Announced(x, l, s) => <<l, s>> \in unreliable_send_streams[x]

OnceInv == AskedOnce /\ OpenedOnce /\ EnrolledOnce /\ ListedIfAnnounced /\ AnnouncedOnce

\* Of a Reliable stream, only one end of a connection is the creator.
OneCreator ==
  \A l \in Links : \A s \in Creates[Dialer[l]] \cap Creates[Acceptor[l]] : s.reliability # "Reliable"

\* Another element does not repeat what is there once.
LEMMA OnceMore ==
  ASSUME NEW S, NEW T, NEW q \in Seq(S), NEW e \in S, Once(q, T), e \notin T \/ e \notin ToSet(q)
  PROVE  Once(Append(q, e), T)
<1>1. /\ Len(q) \in Nat /\ DOMAIN q = 1 .. Len(q) /\ DOMAIN Append(q, e) = 1 .. Len(q) + 1
      /\ \A i \in 1 .. Len(q) : Append(q, e)[i] = q[i]
      /\ Append(q, e)[Len(q) + 1] = e
  BY Put
<1> SUFFICES ASSUME NEW i \in 1 .. Len(q) + 1, NEW j \in 1 .. Len(q) + 1,
                    Append(q, e)[i] \in T, Append(q, e)[j] = Append(q, e)[i]
             PROVE  i = j
  BY <1>1 DEF Once
<1>2. CASE i \in 1 .. Len(q) /\ j \in 1 .. Len(q)
  BY <1>1, <1>2 DEF Once
<1>3. CASE i = Len(q) + 1 /\ j \in 1 .. Len(q)
  BY <1>1, <1>3 DEF ToSet
<1>4. CASE i \in 1 .. Len(q) /\ j = Len(q) + 1
  BY <1>1, <1>4 DEF ToSet
<1>5. QED BY <1>1, <1>2, <1>3, <1>4

\* The rest of a queue does not repeat what was its head.
LEMMA OnceLess ==
  ASSUME NEW S, NEW T, NEW q \in Seq(S), q # <<>>, Once(q, T)
  PROVE  Once(Tail(q), T) /\ (Head(q) \in T => Head(q) \notin ToSet(Tail(q)))
<1>1. /\ Len(q) \in Nat \ {0} /\ DOMAIN q = 1 .. Len(q) /\ DOMAIN Tail(q) = 1 .. Len(q) - 1
      /\ Head(q) = q[1]
      /\ \A i \in 1 .. Len(q) - 1 : Tail(q)[i] = q[i + 1]
  BY Taken
<1>2. ASSUME NEW i \in 1 .. Len(q) - 1, NEW j \in 1 .. Len(q) - 1,
             Tail(q)[i] \in T, Tail(q)[j] = Tail(q)[i]
      PROVE  i = j
  <2>1. i + 1 \in DOMAIN q /\ j + 1 \in DOMAIN q
    BY <1>1
  <2>2. q[i + 1] \in T /\ q[j + 1] = q[i + 1]
    BY <1>1, <1>2
  <2>3. i + 1 = j + 1
    BY <2>1, <2>2 DEF Once
  <2>4. QED BY <1>1, <2>3
<1>3. ASSUME Head(q) \in T, Head(q) \in ToSet(Tail(q)) PROVE FALSE
  <2>1. PICK i \in 1 .. Len(q) - 1 : Tail(q)[i] = Head(q)
    BY <1>1, <1>3 DEF ToSet
  <2>2. i + 1 \in DOMAIN q /\ 1 \in DOMAIN q /\ q[i + 1] = q[1] /\ q[1] \in T
    BY <1>1, <1>3, <2>1
  <2>3. i + 1 = 1
    BY <2>2 DEF Once
  <2>4. QED BY <1>1, <2>3
<1>4. QED BY <1>1, <1>2, <1>3 DEF Once

\* One more event that is no second announcement.
LEMMA AnnouncedOnceMore ==
  ASSUME TypedEvents, AnnouncedOnce, NEW y \in Nodes, NEW e \in Events, Emit(y, e),
         e.type = "StreamCreated" => ~Announced(y, e.conn, e.stream)
  PROVE  AnnouncedOnce'
<1> SUFFICES ASSUME NEW x \in Nodes, NEW i \in DOMAIN events'[x], NEW j \in DOMAIN events'[x],
                    i < j, events'[x][i].type = "StreamCreated", events'[x][j] = events'[x][i]
             PROVE  \E m \in i .. j : events'[x][m] =
                      OfStream("StreamClosed", events'[x][i].conn, events'[x][i].stream)
  BY DEF AnnouncedOnce
<1>1. CASE x # y
  <2>1. events'[x] = events[x]
    BY <1>1, Emitted
  <2>2. QED BY <2>1 DEF AnnouncedOnce
<1>2. CASE x = y
  <2> DEFINE n == Len(events[x])
  <2>1. /\ n \in Nat /\ DOMAIN events[x] = 1 .. n /\ DOMAIN events'[x] = 1 .. n + 1
        /\ \A m \in 1 .. n : events'[x][m] = events[x][m]
        /\ events'[x][n + 1] = e
    BY <1>2, Emitted
  <2> HIDE DEF n
  <2>2. i \in 1 .. n /\ j \in 1 .. n + 1 /\ events'[x][i] = events[x][i]
    BY <2>1
  <2>3. CASE j \in 1 .. n
    <3>1. events[x][j] = events[x][i] /\ events[x][i].type = "StreamCreated"
      BY <2>1, <2>2, <2>3
    <3>2. PICK m \in i .. j : events[x][m] = OfStream("StreamClosed", events[x][i].conn, events[x][i].stream)
      BY <2>1, <2>2, <2>3, <3>1 DEF AnnouncedOnce
    <3>3. m \in 1 .. n
      BY <2>1, <2>2, <2>3
    <3>4. QED BY <2>1, <2>2, <3>2, <3>3
  <2>4. CASE j = n + 1
    <3>1. e = events[x][i] /\ e.type = "StreamCreated"
      BY <2>1, <2>2, <2>4
    <3>2. e = OfStream("StreamCreated", e.conn, e.stream)
      BY <3>1 DEF Events, OfStream
    <3>3. ~Announced(x, e.conn, e.stream)
      BY <1>2, <3>1
    <3>4. PICK m \in 1 .. n : m > i /\ events[x][m] = OfStream("StreamClosed", e.conn, e.stream)
      BY <2>1, <2>2, <3>1, <3>2, <3>3 DEF Announced
    <3>5. m \in i .. j
      BY <2>1, <2>2, <2>4, <3>4
    <3>6. QED BY <2>1, <2>2, <3>1, <3>4, <3>5
  <2>5. QED BY <2>1, <2>2, <2>3, <2>4
<1>3. QED BY <1>1, <1>2

-----------------------------------------------------------------------------
(* What a step that leaves a part alone keeps of it.                       *)

Advanced ==
  \A y \in Nodes : \/ cmd_rx'[y] = cmd_rx[y]
                   \/ cmd_rx[y] # <<>> /\ cmd_rx'[y] = Tail(cmd_rx[y])

Settled == \A y \in Nodes : awaiting'[y] = awaiting[y] \/ awaiting'[y].on # "stream"

\* The game is told at most something else than StreamCreated.
NothingNew ==
  UNCHANGED events \/ \E y \in Nodes, e \in Events : Emit(y, e) /\ e.type # "StreamCreated"

\* Nothing is asked for.
LEMMA AskedKept ==
  ASSUME BaseInv, AskedOnce, Advanced, Settled, UNCHANGED created
  PROVE  /\ AskedOnce'
         /\ \A y \in Nodes : \A l, s : Creating(y, l, s)' => Creating(y, l, s)
<1>1. cmd_rx \in [Nodes -> Seq(Cmds)]
  BY DEF BaseInv, Typed
<1>2. ASSUME NEW y \in Nodes
      PROVE  /\ ToSet(cmd_rx'[y]) \subseteq ToSet(cmd_rx[y]) /\ Once(cmd_rx'[y], Creations)
  <2>1. PICK q \in Seq(Cmds) : q = cmd_rx[y]
    BY <1>1
  <2>2. Once(q, Creations)
    BY <2>1 DEF AskedOnce
  <2>3. CASE cmd_rx'[y] = q
    BY <2>1, <2>2, <2>3
  <2>4. CASE q # <<>> /\ cmd_rx'[y] = Tail(q)
    <3>1. Once(Tail(q), Creations) /\ ToSet(Tail(q)) \subseteq ToSet(q)
      BY <2>2, <2>4, OnceLess, Taken
    <3>2. QED BY <2>1, <2>4, <3>1
  <2>5. QED BY <2>1, <2>3, <2>4 DEF Advanced
<1>3. ASSUME NEW y \in Nodes, NEW l, NEW s, Creating(y, l, s)'
      PROVE  Creating(y, l, s)
  BY <1>2, <1>3 DEF Creating, Settled
<1>4. \A x \in Nodes : awaiting'[x].on = "stream" =>
        Creation(awaiting'[x].link, awaiting'[x].stream) \notin ToSet(cmd_rx'[x])
  BY <1>2 DEF AskedOnce, Settled
<1>5. AskedOnce'
  BY <1>2, <1>3, <1>4 DEF AskedOnce
<1>6. QED BY <1>3, <1>5

\* Nothing is opened.
LEMMA OpenedKept ==
  ASSUME BaseInv, OpenedOnce, SameBidis, \A y \in Nodes : created[y] \subseteq created'[y],
         \A y \in Nodes, l \in Links, s \in Used :
           Creating(y, l, s)' => Creating(y, l, s) \/ <<l, s>> \notin created[y]
  PROVE  OpenedOnce'
<1> SUFFICES ASSUME NEW l \in Links, NEW i \in DOMAIN bidis'[l]
             PROVE  /\ <<l, bidis'[l][i].stream>> \in created'[bidis'[l][i].opener]
                    /\ ~Creating(bidis[l][i].opener, l, bidis[l][i].stream)'
                    /\ \A j \in DOMAIN bidis'[l] : bidis'[l][j].stream = bidis'[l][i].stream => j = i
  BY DEF OpenedOnce
<1>1. DOMAIN bidis'[l] = DOMAIN bidis[l]
  BY DEF SameBidis
<1>2. \A j \in DOMAIN bidis[l] : bidis'[l][j].opener = bidis[l][j].opener /\ bidis'[l][j].stream = bidis[l][j].stream
  BY DEF SameBidis, Alike
<1>3. PICK y, s : y = bidis[l][i].opener /\ s = bidis[l][i].stream
  OBVIOUS
<1>4. y \in Nodes /\ s \in Used
  <2>1. bidis[l][i] \in Bidis(l)
    BY <1>1, Elements DEF BaseInv, Typed, TypedWire
  <2>2. QED BY <1>3, <2>1, EndsOfLink DEF Bidis
<1>5. /\ <<l, s>> \in created[y] /\ ~Creating(y, l, s)
      /\ \A j \in DOMAIN bidis[l] : bidis[l][j].stream = s => j = i
  BY <1>1, <1>3 DEF OpenedOnce
<1>6. <<l, s>> \in created'[y] /\ ~Creating(y, l, s)'
  BY <1>4, <1>5
<1>7. bidis'[l][i].opener = y /\ bidis'[l][i].stream = s
  BY <1>1, <1>2, <1>3
<1>8. ~Creating(bidis[l][i].opener, l, bidis[l][i].stream)'
  BY <1>6, <1>7 DEF Creating
<1>9. QED BY <1>1, <1>2, <1>5, <1>6, <1>7, <1>8

\* Nothing is enrolled or announced.
LEMMA EnrolledKept ==
  ASSUME BaseInv, EnrolledOnce, UNCHANGED stream_reg_rx, NothingNew
  PROVE  EnrolledOnce'
<1>1. TypedEvents
  BY DEF BaseInv, Typed
<1>2. ASSUME NEW x \in Nodes, NEW l, NEW s, OfStream("StreamCreated", l, s) \in ToSet(events'[x])
      PROVE  OfStream("StreamCreated", l, s) \in ToSet(events[x])
  <2>1. CASE UNCHANGED events
    BY <1>2, <2>1
  <2>2. CASE \E y \in Nodes, e \in Events : Emit(y, e) /\ e.type # "StreamCreated"
    <3>1. PICK y \in Nodes, e \in Events : Emit(y, e) /\ e.type # "StreamCreated"
      BY <2>2
    <3>2. e # OfStream("StreamCreated", l, s)
      BY <3>1 DEF OfStream
    <3>3. /\ ToSet(events'[y]) = ToSet(events[y]) \cup {e}
          /\ \A z \in Nodes : z # y => events'[z] = events[z]
      BY <1>1, <3>1, Emitted
    <3>4. QED BY <1>2, <3>2, <3>3
  <2>3. QED BY <2>1, <2>2 DEF NothingNew
<1>3. QED BY <1>2 DEF EnrolledOnce

\* Nothing is listed, delisted or announced.
LEMMA ListedKept ==
  ASSUME BaseInv, ListedIfAnnounced, AnnouncedOnce, UNCHANGED unreliable_send_streams, NothingNew
  PROVE  ListedIfAnnounced' /\ AnnouncedOnce'
<1>1. TypedEvents
  BY DEF BaseInv, Typed
<1>2. CASE UNCHANGED events
  <2>1. AnnouncedOnce'
    BY <1>2 DEF AnnouncedOnce
  <2>2. ListedIfAnnounced'
    BY <1>2 DEF ListedIfAnnounced, Announced
  <2>3. QED BY <2>1, <2>2
<1>3. CASE \E y \in Nodes, e \in Events : Emit(y, e) /\ e.type # "StreamCreated"
  <2>1. PICK y \in Nodes, e \in Events : Emit(y, e) /\ e.type # "StreamCreated"
    BY <1>3
  <2>2. AnnouncedOnce'
    BY <1>1, <2>1, AnnouncedOnceMore
  <2>3. ASSUME NEW x \in Nodes, NEW l \in Links, NEW s \in Used, Announced(x, l, s)'
        PROVE  Announced(x, l, s)
    <3>1. e # OfStream("StreamCreated", l, s)
      BY <2>1 DEF OfStream
    <3>2. QED BY <1>1, <2>1, <2>3, <3>1, AnnouncedBefore
  <2>4. ListedIfAnnounced'
    BY <2>3 DEF ListedIfAnnounced
  <2>5. QED BY <2>2, <2>4
<1>4. QED BY <1>2, <1>3 DEF NothingNew

\* A step that asks for nothing, opens nothing, enrols nothing and announces nothing.
LEMMA CalmKeepsOnce ==
  ASSUME BaseInv, OnceInv, SameBidis, Advanced, Settled, NothingNew,
         UNCHANGED <<created, stream_reg_rx, unreliable_send_streams>>
  PROVE  OnceInv'
<1>1. AskedOnce' /\ \A y \in Nodes : \A l, s : Creating(y, l, s)' => Creating(y, l, s)
  BY AskedKept DEF OnceInv
<1>2. OpenedOnce'
  BY <1>1, OpenedKept DEF OnceInv
<1>3. EnrolledOnce' /\ ListedIfAnnounced' /\ AnnouncedOnce'
  BY EnrolledKept, ListedKept DEF OnceInv
<1>4. QED BY <1>1, <1>2, <1>3 DEF OnceInv

-----------------------------------------------------------------------------
(* A stream goes through a backend once.                                   *)

\* A creation is a command like no other.
LEMMA CreationsAre ==
  /\ \A c \in Creations : c = Creation(c.conn, c.stream) /\ c.conn \in Links /\ c.stream \in Used
  /\ \A l \in Links, s \in Used : Creation(l, s) \in Creations
  /\ \A l, s : Creation(l, s).op = "CreateStream" /\ Creation(l, s).conn = l /\ Creation(l, s).stream = s
BY DEF Creations, Creation, Cmds

\* The game issues a command; it asks for a stream only once.
LEMMA IssueKeepsOnce ==
  ASSUME BaseInv, OnceInv, NEW x \in Nodes, NEW c \in Cmds, Issue(x, c),
         c.op = "CreateStream" =>
           /\ c.stream \in Creates[x] /\ <<c.conn, c.stream>> \notin created[x]
           /\ created' = [created EXCEPT ![x] = @ \cup {<<c.conn, c.stream>>}],
         c.op # "CreateStream" => UNCHANGED created,
         UNCHANGED <<awaiting, bidis, stream_reg_rx, unreliable_send_streams, events>>
  PROVE  OnceInv'
<1>1. WireTyped /\ cmd_rx \in [Nodes -> Seq(Cmds)] /\ created \in [Nodes -> SUBSET Keys]
      /\ awaiting \in [Nodes -> Awaitings]
  BY DEF BaseInv, Typed, TypedWire, TypedLoop, TypedGame, WireTyped
<1>2. /\ cmd_rx[x] \in Seq(Cmds) /\ cmd_rx'[x] = Append(cmd_rx[x], c)
      /\ ToSet(cmd_rx'[x]) = ToSet(cmd_rx[x]) \cup {c}
      /\ \A y \in Nodes : y # x => cmd_rx'[y] = cmd_rx[y]
  BY <1>1, Issued DEF Issue
<1>3. /\ \A y \in Nodes : created[y] \subseteq created'[y]
      /\ \A y \in Nodes : \A key \in created'[y] \ created[y] :
           y = x /\ c.op = "CreateStream" /\ key = <<c.conn, c.stream>>
      /\ c.op = "CreateStream" => <<c.conn, c.stream>> \in created'[x]
  <2>1. CASE c.op = "CreateStream"
    BY <1>1, <2>1
  <2>2. CASE c.op # "CreateStream"
    BY <2>2
  <2>3. QED BY <2>1, <2>2
<1>4. ASSUME NEW y \in Nodes, NEW l, NEW s, Creating(y, l, s)'
      PROVE  \/ Creating(y, l, s)
             \/ y = x /\ c.op = "CreateStream" /\ l = c.conn /\ s = c.stream
  <2>1. PICK e : e = Creation(l, s) /\ e.op = "CreateStream" /\ e.conn = l /\ e.stream = s
    BY CreationsAre
  <2>2. e \in ToSet(cmd_rx'[y]) => e \in ToSet(cmd_rx[y]) \/ (y = x /\ e = c)
    BY <1>2
  <2>3. \/ e \in ToSet(cmd_rx'[y])
        \/ awaiting[y].on = "stream" /\ awaiting[y].link = l /\ awaiting[y].stream = s
    BY <1>4, <2>1 DEF Creating
  <2>4. QED BY <2>1, <2>2, <2>3 DEF Creating
<1>5. ASSUME c.op = "CreateStream"
      PROVE  /\ c = Creation(c.conn, c.stream) /\ c.conn \in Links /\ c.stream \in Used
             /\ ~Creating(x, c.conn, c.stream)
  <2>1. c \in Creations
    BY <1>5 DEF Creations
  <2>2. c = Creation(c.conn, c.stream) /\ c.conn \in Links /\ c.stream \in Used
    BY <2>1, CreationsAre
  <2>3. QED BY <1>5, <2>2 DEF OnceInv, AskedOnce
<1>6. c \notin Creations \/ c \notin ToSet(cmd_rx[x])
  BY <1>5 DEF Creations, Creating
<1>7. AskedOnce'
  <2>1. ASSUME NEW y \in Nodes PROVE Once(cmd_rx'[y], Creations)
    <3>1. Once(cmd_rx[y], Creations)
      BY DEF OnceInv, AskedOnce
    <3>2. CASE y = x
      <4>1. PICK q \in Seq(Cmds) : q = cmd_rx[x]
        BY <1>2
      <4>2. Once(Append(q, c), Creations)
        BY <1>6, <3>1, <3>2, <4>1, OnceMore
      <4>3. QED BY <1>2, <3>2, <4>1, <4>2
    <3>3. QED BY <1>2, <3>1, <3>2
  <2>2. ASSUME NEW y \in Nodes PROVE \A key \in created'[y] : key[2] \in Creates[y]
    BY <1>3 DEF OnceInv, AskedOnce
  <2>3. ASSUME NEW y \in Nodes, NEW l \in Links, NEW s \in Used, Creating(y, l, s)'
        PROVE  <<l, s>> \in created'[y]
    BY <1>3, <1>4, <2>3 DEF OnceInv, AskedOnce
  <2>4. ASSUME NEW y \in Nodes, awaiting'[y].on = "stream"
        PROVE  Creation(awaiting'[y].link, awaiting'[y].stream) \notin ToSet(cmd_rx'[y])
    <3>1. awaiting[y].on = "stream" /\ Creation(awaiting[y].link, awaiting[y].stream) \notin ToSet(cmd_rx[y])
      BY <2>4 DEF OnceInv, AskedOnce
    <3>2. ASSUME y = x, c = Creation(awaiting[y].link, awaiting[y].stream) PROVE FALSE
      <4>1. c.op = "CreateStream" /\ c.conn = awaiting[y].link /\ c.stream = awaiting[y].stream
        BY <3>2, CreationsAre
      <4>2. Creating(x, c.conn, c.stream)
        BY <3>1, <3>2, <4>1 DEF Creating
      <4>3. QED BY <1>5, <4>1, <4>2
    <3>3. QED BY <1>2, <3>1, <3>2
  <2>5. QED BY <2>1, <2>2, <2>3, <2>4 DEF AskedOnce
<1>8. OpenedOnce'
  <2>1. SameBidis
    BY <1>1, BidisUnchanged
  <2>2. \A y \in Nodes, l \in Links, s \in Used :
          Creating(y, l, s)' => Creating(y, l, s) \/ <<l, s>> \notin created[y]
    BY <1>4
  <2>3. QED BY <1>3, <2>1, <2>2, OpenedKept DEF OnceInv
<1>9. NothingNew
  BY DEF NothingNew
<1>10. EnrolledOnce' /\ ListedIfAnnounced' /\ AnnouncedOnce'
  BY <1>9, EnrolledKept, ListedKept DEF OnceInv
<1>11. QED BY <1>7, <1>8, <1>10 DEF OnceInv

\* The steps of a game.
LEMMA GameKeepsOnce ==
  ASSUME BaseInv, OnceInv, NEW x \in Nodes, Game(x)
  PROVE  OnceInv'
<1>0. WireTyped
  BY DEF BaseInv, Typed, TypedWire, WireTyped
<1>1. CASE Poll(x)
  <2>1. UNCHANGED <<awaiting, cmd_rx, created, stream_reg_rx, unreliable_send_streams, events, bidis>>
    BY <1>1 DEF Poll, loop, registrations, wire
  <2>2. SameBidis /\ Advanced /\ Settled /\ NothingNew
    BY <1>0, <2>1, BidisUnchanged DEF Advanced, Settled, NothingNew
  <2>3. QED BY <2>1, <2>2, CalmKeepsOnce
<1>2. CASE AskShutdown(x)
  <2>1. PICK c \in Cmds : c.op = "Shutdown" /\ Issue(x, c)
    <3>1. [op |-> "Shutdown"] \in Cmds
      BY DEF Cmds
    <3>2. QED BY <1>2, <3>1 DEF AskShutdown
  <2>2. UNCHANGED <<awaiting, bidis, created, stream_reg_rx, unreliable_send_streams, events>>
    BY <1>2 DEF AskShutdown, loop, registrations, wire, game
  <2>3. QED BY <2>1, <2>2, IssueKeepsOnce
<1>3. ASSUME NEW l \in LinksOf(x), NEW s \in Creates[x], AskCreate(x, l, s)
      PROVE  OnceInv'
  <2>1. PICK c \in Cmds : c.op = "CreateStream" /\ c.conn = l /\ c.stream = s /\ Issue(x, c)
    <3>1. [op |-> "CreateStream", conn |-> l, stream |-> s] \in Cmds
      BY DEF Cmds, LinksOf, Used
    <3>2. QED BY <1>3, <3>1 DEF AskCreate
  <2>2. /\ UNCHANGED <<awaiting, bidis, stream_reg_rx, unreliable_send_streams, events>>
        /\ <<l, s>> \notin created[x] /\ created' = [created EXCEPT ![x] = @ \cup {<<l, s>>}]
    BY <1>3 DEF AskCreate, loop, registrations, wire
  <2>3. QED BY <2>1, <2>2, IssueKeepsOnce
<1>4. ASSUME NEW l \in LinksOf(x), NEW s \in Creates[x], AskClose(x, l, s)
      PROVE  OnceInv'
  <2>1. PICK c \in Cmds : c.op = "CloseStream" /\ Issue(x, c)
    <3>1. [op |-> "CloseStream", conn |-> l, stream |-> s] \in Cmds
      BY DEF Cmds, LinksOf, Used
    <3>2. QED BY <1>4, <3>1 DEF AskClose
  <2>2. UNCHANGED <<awaiting, bidis, created, stream_reg_rx, unreliable_send_streams, events>>
    BY <1>4 DEF AskClose, loop, registrations, wire
  <2>3. QED BY <2>1, <2>2, IssueKeepsOnce
<1>5. ASSUME NEW l \in LinksOf(x), NEW s \in UNION {Creates[y] : y \in Ends(l)}, AskSend(x, l, s)
      PROVE  OnceInv'
  <2>1. PICK c \in Cmds : c.op = "Send" /\ Issue(x, c)
    <3>1. l \in Links /\ s \in Used
      BY EndsOfLink DEF LinksOf, Used
    <3>2. sends[x] + 1 \in Nat
      BY DEF BaseInv, Typed, TypedGame
    <3>3. [op |-> "Send", conn |-> l, stream |-> s, data |-> sends[x] + 1] \in Cmds
      BY <3>1, <3>2 DEF Cmds
    <3>4. QED BY <1>5, <3>3 DEF AskSend
  <2>2. UNCHANGED <<awaiting, bidis, created, stream_reg_rx, unreliable_send_streams, events>>
    BY <1>5 DEF AskSend, loop, registrations, wire
  <2>3. QED BY <2>1, <2>2, IssueKeepsOnce
<1>6. QED BY <1>1, <1>2, <1>3, <1>4, <1>5 DEF Game

\* The creation of a Reliable stream goes from the queue to the loop.
LEMMA CreateReliableKeepsOnce ==
  ASSUME BaseInv, OnceInv, NEW x \in Nodes, CreateReliable(x)
  PROVE  OnceInv'
<1>1. PICK c \in Cmds : c = Command(x) /\ c.op = "CreateStream"
  BY CommandTaken DEF CreateReliable
<1>2. /\ c \in Creations /\ c = Creation(c.conn, c.stream)
      /\ c.conn \in Links /\ c.stream \in Used
  BY <1>1, CreationsAre DEF Creations
<1>3. /\ awaiting[x] = Idle /\ Idle.on # "stream"
      /\ cmd_rx'[x] = Tail(cmd_rx[x]) /\ cmd_rx[x] \in Seq(Cmds) /\ cmd_rx[x] # <<>>
      /\ c \in ToSet(cmd_rx[x])
      /\ \A y \in Nodes : ToSet(cmd_rx'[y]) \subseteq ToSet(cmd_rx[y])
      /\ \A y \in Nodes : y # x => cmd_rx'[y] = cmd_rx[y]
  BY <1>1, CommandTaken DEF CreateReliable, Idle
<1>4. UNCHANGED <<bidis, created, stream_reg_rx, unreliable_send_streams, events>>
  BY DEF CreateReliable, registrations, wire, game
<1>5. WireTyped /\ awaiting \in [Nodes -> Awaitings]
  BY DEF BaseInv, Typed, TypedWire, TypedLoop, WireTyped
<1>6. /\ \/ awaiting'[x] = awaiting[x]
         \/ awaiting'[x].link = c.conn /\ awaiting'[x].stream = c.stream
      /\ \A y \in Nodes : y # x => awaiting'[y] = awaiting[y]
  <2>1. \/ awaiting' = awaiting
        \/ awaiting' = [awaiting EXCEPT ![x] = [on |-> "stream", link |-> c.conn, stream |-> c.stream]]
    BY <1>1 DEF CreateReliable
  <2>2. QED BY <1>5, <2>1
<1>7. PICK q \in Seq(Cmds) : q = cmd_rx[x]
  BY <1>3
<1>8. Once(Tail(q), Creations) /\ c \notin ToSet(Tail(q))
  <2>1. Once(q, Creations) /\ q # <<>> /\ c = Head(q)
    BY <1>1, <1>3, <1>7 DEF OnceInv, AskedOnce, Command
  <2>2. QED BY <1>2, <2>1, OnceLess
<1>9. ASSUME NEW y \in Nodes, NEW l, NEW s, Creating(y, l, s)'
      PROVE  Creating(y, l, s)
  <2>1. CASE y # x
    BY <1>3, <1>6, <1>9, <2>1 DEF Creating
  <2>2. CASE y = x /\ awaiting'[x] = awaiting[x]
    BY <1>3, <1>9, <2>2 DEF Creating
  <2>3. CASE y = x /\ awaiting'[x].link = c.conn /\ awaiting'[x].stream = c.stream
    <3>1. Creation(l, s) \in ToSet(cmd_rx'[x]) \/ (l = c.conn /\ s = c.stream)
      BY <1>9, <2>3 DEF Creating
    <3>2. Creation(l, s) \in ToSet(cmd_rx[x])
      BY <1>2, <1>3, <3>1
    <3>3. QED BY <2>3, <3>2 DEF Creating
  <2>4. QED BY <1>6, <2>1, <2>2, <2>3
<1>10. AskedOnce'
  <2>1. ASSUME NEW y \in Nodes PROVE Once(cmd_rx'[y], Creations)
    BY <1>3, <1>7, <1>8 DEF OnceInv, AskedOnce
  <2>2. ASSUME NEW y \in Nodes, NEW l \in Links, NEW s \in Used, Creating(y, l, s)'
        PROVE  <<l, s>> \in created'[y]
    BY <1>4, <1>9, <2>2 DEF OnceInv, AskedOnce
  <2>3. ASSUME NEW y \in Nodes, awaiting'[y].on = "stream"
        PROVE  Creation(awaiting'[y].link, awaiting'[y].stream) \notin ToSet(cmd_rx'[y])
    <3>1. CASE awaiting'[y] = awaiting[y]
      BY <1>3, <2>3, <3>1 DEF OnceInv, AskedOnce
    <3>2. CASE y = x /\ awaiting'[x].link = c.conn /\ awaiting'[x].stream = c.stream
      BY <1>2, <1>3, <1>7, <1>8, <3>2
    <3>3. QED BY <1>6, <3>1, <3>2
  <2>4. \A y \in Nodes : \A key \in created'[y] : key[2] \in Creates[y]
    BY <1>4 DEF OnceInv, AskedOnce
  <2>5. QED BY <2>1, <2>2, <2>3, <2>4 DEF AskedOnce
<1>11. OpenedOnce'
  <2>1. SameBidis
    BY <1>4, <1>5, BidisUnchanged
  <2>2. QED BY <1>4, <1>9, <2>1, OpenedKept DEF OnceInv
<1>12. EnrolledOnce' /\ ListedIfAnnounced' /\ AnnouncedOnce'
  <2>1. NothingNew
    BY <1>4 DEF NothingNew
  <2>2. QED BY <1>4, <2>1, EnrolledKept, ListedKept DEF OnceInv
<1>13. QED BY <1>10, <1>11, <1>12 DEF OnceInv

\* What is put into the queue of registrations is neither there nor announced,
\* if it is a SendStream.
LEMMA EnrolKeepsEnrolled ==
  ASSUME BaseInv, EnrolledOnce, NEW x \in Nodes, NEW l \in Links, NEW s \in Used, NEW i \in Nat,
         Enrol(x, l, s, i), UNCHANGED events,
         i # 0 => /\ [conn |-> l, stream |-> s, bidi |-> i] \notin ToSet(stream_reg_rx[x])
                  /\ OfStream("StreamCreated", l, s) \notin ToSet(events[x])
  PROVE  EnrolledOnce'
<1>1. PICK r \in Regs : r = [conn |-> l, stream |-> s, bidi |-> i]
  BY DEF Regs
<1>2. /\ stream_reg_rx'[x] = Append(stream_reg_rx[x], r)
      /\ ToSet(stream_reg_rx'[x]) = ToSet(stream_reg_rx[x]) \cup {r}
      /\ \A y \in Nodes : y # x => stream_reg_rx'[y] = stream_reg_rx[y]
  BY <1>1, Enrolled
<1>3. PICK q \in Seq(Regs) : q = stream_reg_rx[x]
  BY DEF BaseInv, Typed, TypedRegistrations
<1>4. Once(Append(q, r), Handed)
  <2>1. Once(q, Handed)
    BY <1>3 DEF EnrolledOnce
  <2>2. r \notin Handed \/ r \notin ToSet(q)
    BY <1>1, <1>3 DEF Handed
  <2>3. QED BY <2>1, <2>2, OnceMore
<1>5. \A y \in Nodes : Once(stream_reg_rx'[y], Handed)
  BY <1>2, <1>3, <1>4 DEF EnrolledOnce
<1>6. ASSUME NEW y \in Nodes, NEW t \in ToSet(stream_reg_rx'[y]), t.bidi # 0
      PROVE  OfStream("StreamCreated", t.conn, t.stream) \notin ToSet(events'[y])
  <2>1. CASE t \in ToSet(stream_reg_rx[y])
    BY <1>6, <2>1 DEF EnrolledOnce
  <2>2. CASE y = x /\ t = r
    BY <1>1, <1>6, <2>2
  <2>3. QED BY <1>2, <2>1, <2>2
<1>7. QED BY <1>5, <1>6 DEF EnrolledOnce

\* A stream without a SendStream is enrolled.
LEMMA EnrolOtherKeepsOnce ==
  ASSUME BaseInv, OnceInv, NEW x \in Nodes,
         CreateOther(x) \/ \E l \in LinksOf(x) : ReadDatagram(x, l)
  PROVE  OnceInv'
<1>1. /\ UNCHANGED <<awaiting, created, unreliable_send_streams, events, bidis>>
      /\ Advanced
  <2>1. CASE CreateOther(x)
    <3>1. Advanced
      BY <2>1, CommandTaken DEF CreateOther, Advanced
    <3>2. QED BY <2>1, <3>1 DEF CreateOther, loop, wire, game
  <2>2. CASE \E l \in LinksOf(x) : ReadDatagram(x, l)
    BY <2>2 DEF ReadDatagram, Advanced, loop, game
  <2>3. QED BY <2>1, <2>2
<1>2. UNCHANGED stream_reg_rx \/ \E l \in Links, s \in Used : Enrol(x, l, s, 0)
  <2>1. CASE CreateOther(x)
    <3>1. PICK c \in Cmds : c = Command(x) /\ c.op = "CreateStream"
      BY <2>1, CommandTaken DEF CreateOther
    <3>2. c.conn \in Links /\ c.stream \in Used /\ Enrol(x, c.conn, c.stream, 0)
      BY <2>1, <3>1, StreamCommands DEF CreateOther
    <3>3. QED BY <3>2
  <2>2. ASSUME NEW l \in LinksOf(x), ReadDatagram(x, l)
        PROVE  UNCHANGED stream_reg_rx \/ \E s \in Used : Enrol(x, l, s, 0)
    <3>1. l \in Links
      BY DEF LinksOf
    <3>2. PICK dg \in datagrams[l] : UNCHANGED stream_reg_rx \/ Enrol(x, l, dg.stream, 0)
      BY <2>2 DEF ReadDatagram
    <3>3. dg.stream \in Used
      BY <3>1 DEF BaseInv, Typed, TypedWire, Datagrams
    <3>4. QED BY <3>2, <3>3
  <2>3. QED BY <2>1, <2>2 DEF LinksOf
<1>3. SameBidis /\ Settled /\ NothingNew
  <2>1. WireTyped
    BY DEF BaseInv, Typed, TypedWire, WireTyped
  <2>2. QED BY <1>1, <2>1, BidisUnchanged DEF Settled, NothingNew
<1>4. AskedOnce' /\ OpenedOnce'
  <2>1. AskedOnce' /\ \A y \in Nodes : \A l, s : Creating(y, l, s)' => Creating(y, l, s)
    BY <1>1, <1>3, AskedKept DEF OnceInv
  <2>2. QED BY <1>1, <1>3, <2>1, OpenedKept DEF OnceInv
<1>5. ListedIfAnnounced' /\ AnnouncedOnce'
  BY <1>1, <1>3, ListedKept DEF OnceInv
<1>6. EnrolledOnce'
  <2>1. CASE UNCHANGED stream_reg_rx
    BY <1>3, <2>1, EnrolledKept DEF OnceInv
  <2>2. CASE \E l \in Links, s \in Used : Enrol(x, l, s, 0)
    <3>1. PICK l \in Links, s \in Used, i \in Nat : Enrol(x, l, s, i) /\ i = 0
      BY <2>2
    <3>2. QED BY <1>1, <3>1, EnrolKeepsEnrolled DEF OnceInv
  <2>3. QED BY <1>2, <2>1, <2>2
<1>7. QED BY <1>4, <1>5, <1>6 DEF OnceInv

\* The opened stream was open nowhere, and its SendStream is new.
LEMMA OpenKeepsOnce ==
  ASSUME OneCreator, BaseInv, EndInv, OnceInv, NEW x \in Nodes, OpenCompletes(x)
  PROVE  OnceInv'
<1>a. OpenBidi(x) /\ events' = events
  BY DEF OpenCompletes
<1>0. PICK l \in Links, s \in Used :
        /\ l = awaiting[x].link /\ s = awaiting[x].stream /\ awaiting[x].on = "stream"
        /\ l \in Heard(x) /\ s.reliability = "Reliable"
        /\ \E B \in Bidis(l) :
             /\ B.opener = x /\ B.stream = s /\ B.accepted = FALSE
             /\ bidis' = [bidis EXCEPT ![l] = Append(@, B)]
        /\ Len(bidis[l]) \in Nat
        /\ Enrol(x, l, s, Len(bidis[l]) + 1)
        /\ awaiting' = [awaiting EXCEPT ![x] = Idle]
        /\ UNCHANGED <<running, connections, reliable_send_streams, unreliable_send_streams, tasks,
                       cmd_rx, conn_reg_rx, link, datagrams, game, history>>
  BY <1>a, Opening
<1>1. PICK B \in Bidis(l) :
        /\ B.opener = x /\ B.stream = s /\ B.accepted = FALSE
        /\ bidis' = [bidis EXCEPT ![l] = Append(@, B)]
  BY <1>0
<1>2. WireTyped /\ awaiting \in [Nodes -> Awaitings]
  BY DEF BaseInv, Typed, TypedWire, TypedLoop, WireTyped
<1>3. PICK n \in Nat : n = Len(bidis[l])
  BY <1>0
<1>4. /\ DOMAIN bidis[l] = 1 .. n /\ DOMAIN bidis'[l] = 1 .. n + 1
      /\ bidis'[l][n + 1] = B
      /\ \A i \in DOMAIN bidis[l] : bidis'[l][i] = bidis[l][i]
      /\ \A m \in Links : m # l => bidis'[m] = bidis[m]
  BY <1>1, <1>2, <1>3, BidiOpened
<1>5. /\ Advanced /\ NothingNew
      /\ UNCHANGED <<created, unreliable_send_streams>>
  BY <1>a, <1>0 DEF Advanced, NothingNew, game
<1>6. Settled
  BY <1>0, <1>2 DEF Settled, Idle
<1>7. AskedOnce' /\ \A y \in Nodes : \A m, t : Creating(y, m, t)' => Creating(y, m, t)
  BY <1>5, <1>6, AskedKept DEF OnceInv
<1>8. Creating(x, l, s) /\ <<l, s>> \in created[x] /\ ~Creating(x, l, s)'
  <2>1. Creating(x, l, s)
    BY <1>0 DEF Creating
  <2>2. Creation(l, s) \notin ToSet(cmd_rx[x])
    BY <1>0 DEF OnceInv, AskedOnce
  <2>3. awaiting'[x].on # "stream"
    BY <1>0, <1>2 DEF Idle
  <2>4. QED BY <1>0, <2>1, <2>2, <2>3 DEF Creating, OnceInv, AskedOnce
<1>9. ASSUME NEW j \in DOMAIN bidis[l], bidis[l][j].stream = s PROVE FALSE
  <2>1. PICK y : y = bidis[l][j].opener
    OBVIOUS
  <2>2. y \in Ends(l) /\ x \in Ends(l) /\ y \in Nodes
    <3>1. bidis[l][j] \in Bidis(l)
      BY <1>2, <1>4, Elements DEF WireTyped
    <3>2. QED BY <1>0, <2>1, <3>1, EndsOfLink DEF Bidis, Heard, LinksOf
  <2>3. <<l, s>> \in created[y] /\ ~Creating(y, l, s)
    BY <1>9, <2>1 DEF OnceInv, OpenedOnce
  <2>4. y # x
    BY <1>8, <2>3
  <2>5. s \in Creates[x] /\ s \in Creates[y]
    <3>1. \A z \in Nodes : <<l, s>> \in created[z] => <<l, s>>[2] \in Creates[z]
      BY DEF OnceInv, AskedOnce
    <3>2. QED BY <1>8, <2>2, <2>3, <3>1
  <2>6. s \in Creates[Dialer[l]] \cap Creates[Acceptor[l]]
    BY <2>2, <2>4, <2>5 DEF Ends
  <2>7. QED BY <1>0, <2>6 DEF OneCreator
<1>10. OpenedOnce'
  <2> SUFFICES ASSUME NEW m \in Links, NEW i \in DOMAIN bidis'[m]
               PROVE  /\ <<m, bidis'[m][i].stream>> \in created'[bidis'[m][i].opener]
                      /\ ~Creating(bidis[m][i].opener, m, bidis[m][i].stream)'
                      /\ \A j \in DOMAIN bidis'[m] : bidis'[m][j].stream = bidis'[m][i].stream => j = i
    BY DEF OpenedOnce
  <2>1. CASE m = l /\ i = n + 1
    <3>1. <<m, bidis'[m][i].stream>> \in created'[bidis'[m][i].opener]
      BY <1>1, <1>4, <1>5, <1>8, <2>1
    <3>2. ~Creating(bidis[m][i].opener, m, bidis[m][i].stream)'
      <4>1. bidis'[m][i].opener = x /\ bidis'[m][i].stream = s
        BY <1>1, <1>4, <2>1
      <4>2. QED BY <1>8, <2>1, <4>1 DEF Creating
    <3>3. ASSUME NEW j \in DOMAIN bidis'[m], bidis'[m][j].stream = bidis'[m][i].stream
          PROVE  j = i
      <4>1. j \in 1 .. n + 1 /\ bidis'[l][j].stream = s
        BY <1>1, <1>4, <2>1, <3>3
      <4>2. j \notin DOMAIN bidis[l]
        BY <1>4, <1>9, <4>1
      <4>3. QED BY <1>3, <1>4, <2>1, <4>1, <4>2
    <3>4. QED BY <3>1, <3>2, <3>3
  <2>2. CASE m # l \/ i # n + 1
    <3>1. i \in DOMAIN bidis[m] /\ bidis'[m][i] = bidis[m][i]
      BY <1>4, <2>2
    <3>2. PICK y, t : y = bidis[m][i].opener /\ t = bidis[m][i].stream
      OBVIOUS
    <3>3. y \in Nodes
      <4>1. bidis[m][i] \in Bidis(m)
        BY <1>2, <3>1, Elements DEF WireTyped
      <4>2. QED BY <3>2, <4>1, EndsOfLink DEF Bidis
    <3>4. /\ <<m, t>> \in created[y] /\ ~Creating(y, m, t)
          /\ \A j \in DOMAIN bidis[m] : bidis[m][j].stream = t => j = i
      BY <3>1, <3>2 DEF OnceInv, OpenedOnce
    <3>5. ~Creating(y, m, t)'
      BY <1>7, <3>3, <3>4
    <3>6. bidis'[m][i].opener = y /\ bidis'[m][i].stream = t
      BY <3>1, <3>2
    <3>7. ~Creating(bidis[m][i].opener, m, bidis[m][i].stream)'
      BY <3>5, <3>6 DEF Creating
    <3>8. ASSUME NEW j \in DOMAIN bidis'[m], bidis'[m][j].stream = t
          PROVE  j = i
      <4>1. CASE m = l /\ j = n + 1
        <5>1. s = t
          BY <1>1, <1>4, <3>8, <4>1
        <5>2. QED BY <1>9, <3>1, <3>2, <4>1, <5>1
      <4>2. CASE m # l \/ j # n + 1
        <5>1. j \in DOMAIN bidis[m] /\ bidis'[m][j] = bidis[m][j]
          BY <1>4, <4>2
        <5>2. QED BY <3>4, <3>8, <5>1
      <4>3. QED BY <4>1, <4>2
    <3>9. QED BY <1>5, <3>4, <3>6, <3>7, <3>8
  <2>3. QED BY <2>1, <2>2
<1>11. EnrolledOnce'
  <2>1. PICK i \in Nat : i = n + 1
    OBVIOUS
  <2>2. [conn |-> l, stream |-> s, bidi |-> i] \notin ToSet(stream_reg_rx[x])
    <3>1. ASSUME NEW r \in ToSet(stream_reg_rx[x]), r.conn = l, r.bidi = i PROVE FALSE
      <4>1. i \in DOMAIN bidis[l]
        BY <2>1, <3>1, RegistrationsTyped DEF IsSendStream
      <4>2. QED BY <1>3, <1>4, <2>1, <4>1
    <3>2. QED BY <3>1
  <2>3. OfStream("StreamCreated", l, s) \notin ToSet(events[x])
    <3>1. ASSUME NEW e \in ToSet(events[x]), e = OfStream("StreamCreated", l, s) PROVE FALSE
      <4>1. e.type = "StreamCreated" /\ e.conn = l /\ e.stream = s
        BY <3>1 DEF OfStream
      <4>2. HasEnd(x, l, s)
        BY <1>0, <4>1 DEF EndInv, EventsHaveEnds
      <4>3. QED BY <1>9, <4>2 DEF HasEnd
    <3>2. QED BY <3>1
  <2>4. Enrol(x, l, s, i)
    BY <1>0, <1>3, <2>1
  <2>5. QED BY <1>a, <2>2, <2>3, <2>4, EnrolKeepsEnrolled DEF OnceInv
<1>12. ListedIfAnnounced' /\ AnnouncedOnce'
  BY <1>5, ListedKept DEF OnceInv
<1>13. QED BY <1>7, <1>10, <1>11, <1>12 DEF OnceInv

\* The accepted stream was not accepted before, and its SendStream is new.
LEMMA AcceptStreamKeepsOnce ==
  ASSUME BaseInv, EndInv, OnceInv, NEW x \in Nodes, NEW l \in LinksOf(x), AcceptStream(x, l)
  PROVE  OnceInv'
<1>1. /\ l \in Links /\ DOMAIN bidis[l] \subseteq Nat \ {0}
      /\ \A i \in DOMAIN bidis[l] : bidis[l][i] \in Bidis(l) /\ bidis[l][i].stream \in Used
      /\ UNCHANGED <<loop, cmd_rx, events, game>>
  BY Accepting
<1>2. PICK i \in DOMAIN bidis[l] :
        /\ bidis[l][i].opener # x /\ ~bidis[l][i].accepted
        /\ bidis' = [bidis EXCEPT ![l][i].accepted = TRUE]
        /\ Enrol(x, l, bidis[l][i].stream, i)
  BY Accepting
<1>3. PICK s \in Used : s = bidis[l][i].stream
  BY <1>1
<1>4. WireTyped
  BY DEF BaseInv, Typed, TypedWire, WireTyped
<1>5. SameBidis
  BY <1>1, <1>2, <1>4, BidiAccepted
<1>6. Advanced /\ Settled /\ NothingNew /\ UNCHANGED <<created, unreliable_send_streams>>
  BY <1>1 DEF Advanced, Settled, NothingNew, loop, game
<1>7. AskedOnce' /\ OpenedOnce'
  <2>1. AskedOnce' /\ \A y \in Nodes : \A m, t : Creating(y, m, t)' => Creating(y, m, t)
    BY <1>6, AskedKept DEF OnceInv
  <2>2. QED BY <1>5, <1>6, <2>1, OpenedKept DEF OnceInv
<1>8. ~HoldsEnd(x, bidis[l][i])
  BY <1>2 DEF HoldsEnd
<1>9. [conn |-> l, stream |-> s, bidi |-> i] \notin ToSet(stream_reg_rx[x])
  <2>1. ASSUME NEW r \in ToSet(stream_reg_rx[x]), r.conn = l, r.bidi = i PROVE FALSE
    BY <1>1, <1>8, <2>1 DEF EndInv, RegistrationsHaveEnds
  <2>2. QED BY <2>1
<1>10. OfStream("StreamCreated", l, s) \notin ToSet(events[x])
  <2>1. ASSUME NEW e \in ToSet(events[x]), e = OfStream("StreamCreated", l, s) PROVE FALSE
    <3>1. e.type = "StreamCreated" /\ e.conn = l /\ e.stream = s
      BY <2>1 DEF OfStream
    <3>2. s.reliability = "Reliable"
      BY <1>1, <1>2, <1>3 DEF BaseInv, StreamInv, BidisFit
    <3>3. HasEnd(x, l, s)
      BY <3>1, <3>2 DEF EndInv, EventsHaveEnds
    <3>4. PICK j \in DOMAIN bidis[l] : bidis[l][j].stream = s /\ HoldsEnd(x, bidis[l][j])
      BY <3>3 DEF HasEnd
    <3>5. j = i
      BY <1>1, <1>3, <3>4 DEF OnceInv, OpenedOnce
    <3>6. QED BY <1>8, <3>4, <3>5
  <2>2. QED BY <2>1
<1>11. EnrolledOnce'
  <2>1. PICK k \in Nat : k = i
    BY <1>1
  <2>2. Enrol(x, l, s, k)
    BY <1>2, <1>3, <2>1
  <2>3. QED BY <1>1, <1>9, <1>10, <2>1, <2>2, EnrolKeepsEnrolled DEF OnceInv
<1>12. ListedIfAnnounced' /\ AnnouncedOnce'
  BY <1>6, ListedKept DEF OnceInv
<1>13. QED BY <1>7, <1>11, <1>12 DEF OnceInv

\* A registered SendStream is announced for the first time, another stream only
\* if it is not listed.
LEMMA RegisterKeepsOnce ==
  ASSUME BaseInv, OnceInv, NEW x \in Nodes, RegisterStream(x)
  PROVE  OnceInv'
<1>1. PICK r \in Regs : r = Registration(x)
  BY RegistrationTaken
<1> DEFINE key == <<r.conn, r.stream>>
<1>2. PICK e : e = OfStream("StreamCreated", r.conn, r.stream)
  OBVIOUS
<1>3. /\ stream_reg_rx[x] \in Seq(Regs) /\ stream_reg_rx[x] # <<>>
      /\ stream_reg_rx'[x] = Tail(stream_reg_rx[x]) /\ r \in ToSet(stream_reg_rx[x])
      /\ \A y \in Nodes : y # x => stream_reg_rx'[y] = stream_reg_rx[y]
      /\ \A y \in Nodes : ToSet(stream_reg_rx'[y]) \subseteq ToSet(stream_reg_rx[y])
      /\ r.conn \in Links /\ r.stream \in Used
      /\ \/ r.bidi # 0 /\ IsSendStream(r.conn, r.stream, r.bidi) /\ RegisterReliable(x, key, r.bidi)
         \/ r.bidi = 0 /\ r.stream.reliability # "Reliable" /\ RegisterUnreliable(x, key)
      /\ UNCHANGED <<awaiting, cmd_rx, created>>
  BY <1>1, RegistrationTaken DEF game
<1>4. e \in Events /\ e.type = "StreamCreated" /\ e.conn = r.conn /\ e.stream = r.stream
  BY <1>2, <1>3 DEF Events, OfStream
<1>5. /\ TypedEvents /\ unreliable_send_streams \in [Nodes -> SUBSET Keys]
  BY DEF BaseInv, Typed, TypedLoop
<1>6. /\ UNCHANGED events \/ Emit(x, e)
      /\ r.bidi # 0 => Emit(x, e) /\ UNCHANGED unreliable_send_streams
      /\ r.bidi = 0 => /\ unreliable_send_streams' =
                            [unreliable_send_streams EXCEPT ![x] = @ \cup {key}]
                       /\ key \in unreliable_send_streams[x] \/ Emit(x, e)
                       /\ key \in unreliable_send_streams[x] => UNCHANGED events
  BY <1>2, <1>3 DEF RegisterReliable, RegisterUnreliable
<1>7. SameBidis
  BY Dropping
<1>8. AskedOnce' /\ OpenedOnce'
  <2>1. Advanced /\ Settled
    BY <1>3 DEF Advanced, Settled
  <2>2. AskedOnce' /\ \A y \in Nodes : \A l, s : Creating(y, l, s)' => Creating(y, l, s)
    BY <1>3, <2>1, AskedKept DEF OnceInv
  <2>3. QED BY <1>3, <1>7, <2>2, OpenedKept DEF OnceInv
<1>9. PICK q \in Seq(Regs) : q = stream_reg_rx[x]
  BY <1>3
<1>10. Once(Tail(q), Handed) /\ (r.bidi # 0 => r \notin ToSet(Tail(q)))
  <2>1. Once(q, Handed) /\ q # <<>> /\ r = Head(q)
    BY <1>1, <1>3, <1>9 DEF OnceInv, EnrolledOnce, Registration
  <2>2. QED BY <2>1, OnceLess DEF Handed
<1>11. ASSUME NEW y \in Nodes, NEW t \in ToSet(stream_reg_rx'[y]), t.bidi # 0
       PROVE  OfStream("StreamCreated", t.conn, t.stream) \notin ToSet(events'[y])
  <2>1. t \in ToSet(stream_reg_rx[y])
    BY <1>3
  <2>2. OfStream("StreamCreated", t.conn, t.stream) \notin ToSet(events[y])
    BY <1>11, <2>1 DEF OnceInv, EnrolledOnce
  <2>3. ASSUME y = x, OfStream("StreamCreated", t.conn, t.stream) = e PROVE FALSE
    <3>1. t.conn = r.conn /\ t.stream = r.stream
      BY <1>4, <2>3 DEF OfStream
    <3>2. t \in Regs /\ IsSendStream(t.conn, t.stream, t.bidi)
      BY <1>11, <2>1, RegistrationsTyped
    <3>3. CASE r.bidi = 0
      BY <1>3, <3>1, <3>2, <3>3 DEF IsSendStream
    <3>4. CASE r.bidi # 0
      <4>1. /\ t.bidi \in DOMAIN bidis[r.conn] /\ bidis[r.conn][t.bidi].stream = r.stream
            /\ r.bidi \in DOMAIN bidis[r.conn] /\ bidis[r.conn][r.bidi].stream = r.stream
        BY <1>3, <3>1, <3>2, <3>4 DEF IsSendStream
      <4>2. t.bidi = r.bidi
        <5>1. PICK l \in Links : l = r.conn
          BY <1>3
        <5>2. PICK i \in DOMAIN bidis[l], j \in DOMAIN bidis[l] : i = r.bidi /\ j = t.bidi
          BY <4>1, <5>1
        <5>3. bidis[l][j].stream = bidis[l][i].stream
          BY <4>1, <5>1, <5>2
        <5>4. j = i
          BY <5>3 DEF OnceInv, OpenedOnce
        <5>5. QED BY <5>2, <5>4
      <4>3. t = r
        BY <3>1, <3>2, <4>2 DEF Regs
      <4>4. QED BY <1>3, <1>9, <1>10, <2>3, <3>4, <4>3
    <3>5. QED BY <3>3, <3>4
  <2>4. CASE UNCHANGED events
    BY <2>2, <2>4
  <2>5. CASE Emit(x, e)
    <3>1. /\ ToSet(events'[x]) = ToSet(events[x]) \cup {e}
          /\ \A z \in Nodes : z # x => events'[z] = events[z]
      BY <1>4, <1>5, <2>5, Emitted
    <3>2. QED BY <2>2, <2>3, <3>1
  <2>6. QED BY <1>6, <2>4, <2>5
<1>12. EnrolledOnce'
  <2>1. \A y \in Nodes : Once(stream_reg_rx'[y], Handed)
    BY <1>3, <1>9, <1>10 DEF OnceInv, EnrolledOnce
  <2>2. QED BY <1>11, <2>1 DEF EnrolledOnce
<1>13. ASSUME ~UNCHANGED events PROVE ~Announced(x, e.conn, e.stream)
  <2>1. CASE r.bidi # 0
    <3>1. e \notin ToSet(events[x])
      BY <1>2, <1>3, <2>1 DEF OnceInv, EnrolledOnce
    <3>2. QED BY <1>2, <1>4, <3>1 DEF Announced, ToSet
  <2>2. CASE r.bidi = 0
    BY <1>3, <1>4, <1>6, <1>13, <2>2 DEF OnceInv, ListedIfAnnounced
  <2>3. QED BY <2>1, <2>2
<1>14. AnnouncedOnce'
  <2>1. CASE UNCHANGED events
    BY <2>1 DEF OnceInv, AnnouncedOnce
  <2>2. CASE ~UNCHANGED events
    BY <1>4, <1>5, <1>6, <1>13, <2>2, AnnouncedOnceMore DEF OnceInv
  <2>3. QED BY <2>1, <2>2
<1>15. ASSUME NEW y \in Nodes, NEW l \in Links, NEW s \in Used,
              s.reliability # "Reliable", Announced(y, l, s)'
       PROVE  <<l, s>> \in unreliable_send_streams'[y]
  <2>1. /\ unreliable_send_streams[y] \subseteq unreliable_send_streams'[y]
        /\ r.bidi = 0 => key \in unreliable_send_streams'[x]
    <3>1. CASE r.bidi = 0
      BY <1>5, <1>6, <3>1
    <3>2. CASE r.bidi # 0
      BY <1>6, <3>2
    <3>3. QED BY <3>1, <3>2
  <2>2. CASE UNCHANGED events
    BY <1>15, <2>1, <2>2 DEF OnceInv, ListedIfAnnounced, Announced
  <2>3. CASE Emit(x, e) /\ y = x /\ e = OfStream("StreamCreated", l, s)
    <3>1. l = r.conn /\ s = r.stream
      BY <1>4, <2>3 DEF OfStream
    <3>2. r.bidi = 0
      BY <1>3, <1>15, <3>1 DEF IsSendStream
    <3>3. QED BY <2>1, <2>3, <3>1, <3>2
  <2>4. CASE Emit(x, e) /\ (y # x \/ e # OfStream("StreamCreated", l, s))
    <3>1. Announced(y, l, s)
      BY <1>4, <1>5, <1>15, <2>4, AnnouncedBefore
    <3>2. QED BY <1>15, <2>1, <3>1 DEF OnceInv, ListedIfAnnounced
  <2>5. QED BY <1>6, <2>2, <2>3, <2>4
<1>16. ListedIfAnnounced'
  BY <1>15 DEF ListedIfAnnounced
<1>17. QED BY <1>8, <1>12, <1>14, <1>16 DEF OnceInv

\* A closed stream is not announced any more.
LEMMA CloseKeepsOnce ==
  ASSUME BaseInv, OnceInv, NEW x \in Nodes, CloseStream(x)
  PROVE  OnceInv'
<1>1. PICK c \in Cmds : c = Command(x) /\ c.op = "CloseStream"
  BY CommandTaken DEF CloseStream
<1>2. c.conn \in Links /\ c.stream \in Used
  BY <1>1, StreamCommands
<1>3. PICK e : e = OfStream("StreamClosed", c.conn, c.stream)
  OBVIOUS
<1>4. e \in Events /\ e.type = "StreamClosed" /\ Emit(x, e)
  BY <1>1, <1>2, <1>3 DEF CloseStream, Events, OfStream
<1>5. /\ unreliable_send_streams' =
           [unreliable_send_streams EXCEPT ![x] = @ \ {<<c.conn, c.stream>>}]
      /\ UNCHANGED <<awaiting, created, stream_reg_rx>>
  BY <1>1 DEF CloseStream, registrations, game
<1>6. TypedEvents /\ unreliable_send_streams \in [Nodes -> SUBSET Keys]
  BY DEF BaseInv, Typed, TypedLoop
<1>7. SameBidis /\ Advanced /\ Settled /\ NothingNew
  <2>1. Advanced
    BY CommandTaken DEF CloseStream, Advanced
  <2>2. NothingNew
    BY <1>4 DEF NothingNew
  <2>3. QED BY <1>5, <2>1, <2>2, Dropping DEF Settled
<1>8. AskedOnce' /\ OpenedOnce'
  <2>1. AskedOnce' /\ \A y \in Nodes : \A l, s : Creating(y, l, s)' => Creating(y, l, s)
    BY <1>5, <1>7, AskedKept DEF OnceInv
  <2>2. QED BY <1>5, <1>7, <2>1, OpenedKept DEF OnceInv
<1>9. EnrolledOnce'
  BY <1>5, <1>7, EnrolledKept DEF OnceInv
<1>10. AnnouncedOnce'
  BY <1>4, <1>6, AnnouncedOnceMore DEF OnceInv
<1>11. ListedIfAnnounced'
  <2> SUFFICES ASSUME NEW y \in Nodes, NEW l \in Links, NEW s \in Used,
                      s.reliability # "Reliable", Announced(y, l, s)'
               PROVE  <<l, s>> \in unreliable_send_streams'[y]
    BY DEF ListedIfAnnounced
  <2>1. e # OfStream("StreamCreated", l, s)
    BY <1>4 DEF OfStream
  <2>2. Announced(y, l, s) /\ (y # x \/ e # OfStream("StreamClosed", l, s))
    BY <1>4, <1>6, <2>1, AnnouncedBefore
  <2>3. <<l, s>> \in unreliable_send_streams[y]
    BY <2>2 DEF OnceInv, ListedIfAnnounced
  <2>4. CASE y # x
    BY <1>5, <1>6, <2>3, <2>4
  <2>5. CASE y = x
    <3>1. <<l, s>> # <<c.conn, c.stream>>
      BY <1>3, <2>2, <2>5
    <3>2. QED BY <1>5, <1>6, <2>3, <2>5, <3>1
  <2>6. QED BY <2>4, <2>5
<1>12. QED BY <1>8, <1>9, <1>10, <1>11 DEF OnceInv

\* Every step keeps it.
LEMMA OnceInvKept ==
  ASSUME OneCreator, BaseInv, EndInv, OnceInv, [Next]_vars
  PROVE  OnceInv'
<1>1. CASE Still
  <2>1. NothingNew
    <3>1. \A e \in Events : e.type \in Telling => e.type # "StreamCreated"
      BY DEF Telling
    <3>2. QED BY <1>1, <3>1 DEF Still, NothingNew
  <2>2. SameBidis /\ Advanced /\ Settled
    BY <1>1 DEF Still, Advanced, Settled
  <2>3. UNCHANGED <<created, stream_reg_rx, unreliable_send_streams>>
    BY <1>1 DEF Still
  <2>4. QED BY <2>1, <2>2, <2>3, CalmKeepsOnce
<1>2. ASSUME NEW x \in Nodes, NEW l \in LinksOf(x), ReadStream(x, l) PROVE OnceInv'
  <2>1. PICK i \in DOMAIN bidis[l], s \in Used, d \in Nat :
           /\ s = bidis[l][i].stream /\ (bidis[l][i].opener = x \/ bidis[l][i].accepted)
           /\ d = Head(bidis[l][i].wire[x]) /\ bidis[l][i].wire[x] # <<>>
           /\ bidis' = [bidis EXCEPT ![l][i].wire[x] = Tail(@)]
           /\ WireTyped' /\ SameBidis /\ SameEnds
           /\ MessageOn(l, s, d) \in Events /\ Tells(x, MessageOn(l, s, d))
           /\ UNCHANGED <<loop, tasks, cmd_rx, registrations, link, datagrams, game, history>>
    BY <1>2, Reading
  <2>2. MessageOn(l, s, d).type # "StreamCreated"
    BY DEF MessageOn
  <2>3. NothingNew
    BY <2>1, <2>2 DEF NothingNew, Tells
  <2>4. Advanced /\ Settled /\ UNCHANGED <<created, stream_reg_rx, unreliable_send_streams>>
    BY <2>1 DEF Advanced, Settled, loop, registrations, game
  <2>5. QED BY <2>1, <2>3, <2>4, CalmKeepsOnce
<1>3. QED BY <1>1, <1>2, WorksOrStill, GameKeepsOnce, RegisterKeepsOnce, CloseKeepsOnce,
             CreateReliableKeepsOnce, OpenKeepsOnce, EnrolOtherKeepsOnce,
             AcceptStreamKeepsOnce DEF Works

\* At first nothing has been asked for.
LEMMA OnceAtFirst == Init => OnceInv
<1> SUFFICES ASSUME Init PROVE OnceInv
  OBVIOUS
<1>1. \A x \in Nodes : ToSet(events[x]) = {} /\ ToSet(stream_reg_rx[x]) = {}
  BY Empty DEF Init
<1>2. ASSUME NEW x \in Nodes, NEW c \in ToSet(cmd_rx[x]) PROVE c \notin Creations
  <2>1. cmd_rx[x] = FirstCommands(x)
    BY DEF Init
  <2>2. c.op \in {"Bind", "Connect"}
    BY <2>1, FirstCommandsTyped
  <2>3. QED BY <2>2 DEF Creations
<1>3. ASSUME NEW x \in Nodes, NEW l \in Links, NEW s \in Used PROVE ~Creating(x, l, s)
  <2>1. Creation(l, s) \notin ToSet(cmd_rx[x])
    BY <1>2, CreationsAre
  <2>2. QED BY <2>1 DEF Init, Creating, Idle
<1>4. AskedOnce
  <2>1. \A x \in Nodes : Once(cmd_rx[x], Creations)
    BY <1>2 DEF Once, ToSet
  <2>2. \A x \in Nodes : created[x] = {} /\ awaiting[x].on # "stream"
    BY DEF Init, Idle
  <2>3. QED BY <1>3, <2>1, <2>2 DEF AskedOnce
<1>5. OpenedOnce
  BY DEF Init, OpenedOnce
<1>6. EnrolledOnce
  <2>1. \A x \in Nodes : Once(stream_reg_rx[x], Handed)
    BY DEF Init, Once
  <2>2. QED BY <1>1, <2>1 DEF EnrolledOnce
<1>7. ListedIfAnnounced /\ AnnouncedOnce
  BY DEF Init, ListedIfAnnounced, Announced, AnnouncedOnce
<1>8. QED BY <1>4, <1>5, <1>6, <1>7 DEF OnceInv

\* A stream is announced once until it is closed (AnnouncedOnce), although
\* commands, accepted streams and the datagram reader all register it, if of a
\* Reliable stream only one end of the connection is the creator.
THEOREM QuicAnnouncedOnce == ASSUME OneCreator PROVE Spec => []AnnouncedOnce
<1>1. Init => EndInv /\ OnceInv
  BY EndsAtFirst, OnceAtFirst
<1>2. BaseInv /\ EndInv /\ OnceInv /\ [Next]_vars => EndInv' /\ OnceInv'
  BY EndsInvKept, OnceInvKept
<1>3. OnceInv => AnnouncedOnce
  BY DEF OnceInv
<1>4. QED BY <1>1, <1>2, <1>3, BaseHolds, PTL DEF Spec

-----------------------------------------------------------------------------
(* The invariant: a stream of frames, from the queue of commands to the    *)
(* events of the other game.                                               *)

Connections == {c \in Cmds : c.op = "Connect"}

\* A connection is to be made once, by its dialer, and none that was lost is made again.
ConnectsFresh ==
  \A x \in Nodes :
    /\ Once(cmd_rx[x], Connections)
    /\ \A c \in ToSet(cmd_rx[x]) : c.op = "Connect" => link[c.conn] = "new"
    /\ awaiting[x].on = "handshake" => link[awaiting[x].link] = "dialing"

\* The numbers of the Sends in a queue increase.
Rising(q) ==
  \A i, j \in DOMAIN q : i < j /\ q[i].op = "Send" /\ q[j].op = "Send" => q[i].data < q[j].data

\* What was written comes before what is still to be, and both before what will be asked.
SendsNumbered ==
  \A x \in Nodes :
    /\ Rising(cmd_rx[x])
    /\ \A c \in ToSet(cmd_rx[x]) : c.op = "Send" =>
         c.data <= sends[x] /\ \A m \in written[x] : m.data < c.data
    /\ \A m \in written[x] : m.data \in Nat /\ m.data <= sends[x]

\* What was written, or came, was so on a stream that is open; nothing comes on an
\* Ordered stream.
WrittenOnStreams ==
  /\ DOMAIN written = Nodes
  /\ \A x \in Nodes :
       /\ \A m \in written[x] : m.conn \in Links /\ \E i \in Nat : IsSendStream(m.conn, m.stream, i)
       /\ \A e \in ToSet(events[x]) :
            e.type = "Message" /\ is_reliable(e.stream) => e.stream.reliability = "Reliable"

\* The frames q of a stream of which R came and W was written: in order, all that is
\* missing, or at least what comes next.
InOrder(q, R, W) ==
  /\ \A i, j \in DOMAIN q : i < j => q[i] < q[j]
  /\ R \cup ToSet(q) \subseteq W /\ R \cap ToSet(q) = {}
  /\ \A r \in R, d \in W \ R : r < d

\* The frame d is what comes after R.
ComesNext(d, R, W) == d \notin R /\ \A w : w \in R \cup {d} <=> w \in W /\ w <= d

\* None is missing.
Complete(q, R, W) == W = R \cup ToSet(q)

Came(x, l, s) == Received(x, l, s, Len(events[x]))

FramesInOrder ==
  \A l \in Links : \A i \in DOMAIN bidis[l] : \A x \in Ends(l) :
    LET q == bidis[l][i].wire[x]
        R == Came(x, l, bidis[l][i].stream)
        W == Written(Peer(l, x), l, bidis[l][i].stream)
    IN /\ InOrder(q, R, W)
       /\ IF link[l] = "down" THEN q = <<>> ELSE Complete(q, R, W)

FrameInv == ConnectsFresh /\ SendsNumbered /\ WrittenOnStreams /\ FramesInOrder /\ ReliableInOrder

\* Written last, a frame is the last one in flight.
LEMMA WriteInOrder ==
  ASSUME NEW q \in Seq(Nat), NEW R, NEW W \in SUBSET Nat, InOrder(q, R, W), Complete(q, R, W),
         NEW d \in Nat, \A w \in W : w < d
  PROVE  InOrder(Append(q, d), R, W \cup {d}) /\ Complete(Append(q, d), R, W \cup {d})
<1> DEFINE p == Append(q, d)
<1>1. /\ ToSet(p) = ToSet(q) \cup {d} /\ Len(q) \in Nat
      /\ DOMAIN q = 1 .. Len(q) /\ DOMAIN p = 1 .. Len(q) + 1
      /\ \A i \in 1 .. Len(q) : p[i] = q[i]
      /\ p[Len(q) + 1] = d
  BY Put
<1>2. \A i \in 1 .. Len(q) : q[i] \in ToSet(q) /\ q[i] \in W /\ q[i] \in Nat
  BY <1>1 DEF ToSet, InOrder
<1> HIDE DEF p
<1>3. ASSUME NEW i \in 1 .. Len(q) + 1, NEW j \in 1 .. Len(q) + 1, i < j PROVE p[i] < p[j]
  <2>1. i \in 1 .. Len(q)
    BY <1>1, <1>3
  <2>2. CASE j \in 1 .. Len(q)
    BY <1>1, <1>3, <2>1, <2>2 DEF InOrder
  <2>3. CASE j = Len(q) + 1
    BY <1>1, <1>2, <2>1, <2>3
  <2>4. QED BY <1>1, <2>2, <2>3
<1>4. d \notin W
  OBVIOUS
<1>5. R \cup ToSet(p) \subseteq W \cup {d} /\ R \cap ToSet(p) = {}
  BY <1>1, <1>4 DEF InOrder
<1>6. \A r \in R, w \in (W \cup {d}) \ R : r < w
  BY DEF InOrder, Complete
<1>7. QED BY <1>1, <1>3, <1>5, <1>6 DEF p, InOrder, Complete

\* What is read is what comes next.
LEMMA ReadInOrder ==
  ASSUME NEW q \in Seq(Nat), NEW R, NEW W \in SUBSET Nat, InOrder(q, R, W), Complete(q, R, W),
         q # <<>>, NEW d \in Nat, d = Head(q)
  PROVE  /\ ComesNext(d, R, W)
         /\ InOrder(Tail(q), R \cup {d}, W) /\ Complete(Tail(q), R \cup {d}, W)
<1> DEFINE p == Tail(q)
<1>1. /\ d \in Nat /\ d \in ToSet(q) /\ ToSet(p) \cup {d} = ToSet(q) /\ d = q[1]
      /\ Len(q) \in Nat \ {0} /\ DOMAIN q = 1 .. Len(q) /\ DOMAIN p = 1 .. Len(q) - 1
      /\ \A i \in 1 .. Len(q) - 1 : p[i] = q[i + 1]
  BY Taken
<1> HIDE DEF p
<1>2. \A i, j \in 1 .. Len(q) : i < j => q[i] < q[j]
  BY <1>1 DEF InOrder
<1>3. \A i \in 1 .. Len(q) - 1 : d < p[i]
  BY <1>1, <1>2
<1>4. \A w \in ToSet(p) : d < w
  BY <1>1, <1>3 DEF ToSet
<1>5. d \notin R /\ d \in W
  BY <1>1 DEF InOrder
<1>6. \A r \in R : r < d /\ r \in Nat
  BY <1>5 DEF InOrder
<1>7. \A w \in ToSet(p) : w \in W /\ w \in Nat
  BY <1>1 DEF Complete
<1>8. \A w : w \in R \cup {d} <=> w \in W /\ w <= d
  <2>1. \A w \in W : w \in R \/ w = d \/ w \in ToSet(p)
    BY <1>1 DEF Complete
  <2>2. R \subseteq W
    BY DEF InOrder
  <2>3. ASSUME NEW w \in W, w <= d PROVE w \in R \cup {d}
    <3>1. ASSUME w \in ToSet(p) PROVE FALSE
      BY <1>1, <1>4, <1>7, <2>3, <3>1
    <3>2. QED BY <2>1, <3>1
  <2>4. ASSUME NEW w \in R \cup {d} PROVE w \in W /\ w <= d
    BY <1>1, <1>5, <1>6, <2>2, <2>4
  <2>5. QED BY <2>3, <2>4
<1>9. ASSUME NEW i \in 1 .. Len(q) - 1, NEW j \in 1 .. Len(q) - 1, i < j PROVE p[i] < p[j]
  <2>1. i + 1 \in 1 .. Len(q) /\ j + 1 \in 1 .. Len(q) /\ i + 1 < j + 1
    BY <1>1, <1>9
  <2>2. q[i + 1] < q[j + 1]
    BY <1>2, <2>1
  <2>3. QED BY <1>1, <2>2
<1>10. W = R \cup {d} \cup ToSet(p)
  BY <1>1 DEF Complete
<1>11. (R \cup {d}) \cap ToSet(p) = {}
  BY <1>1, <1>4, <1>7 DEF InOrder
<1>12. \A r \in R \cup {d}, w \in W \ (R \cup {d}) : r < w
  BY <1>4, <1>10 DEF InOrder
<1>13. QED BY <1>1, <1>5, <1>8, <1>9, <1>10, <1>11, <1>12 DEF p, InOrder, Complete, ComesNext

\* Frames may be lost, if all are.
LEMMA CutInOrder ==
  ASSUME NEW q, NEW R, NEW W, InOrder(q, R, W)
  PROVE  InOrder(<<>>, R, W)
BY Empty DEF InOrder

\* At first nothing is in flight.
LEMMA NothingInOrder == InOrder(<<>>, {}, {}) /\ Complete(<<>>, {}, {})
BY Empty DEF InOrder, Complete

\* What came by a stream, after an event.
LEMMA ReceivedMore ==
  ASSUME TypedEvents, NEW y \in Nodes, NEW e \in Events, Emit(y, e), NEW x \in Nodes, NEW l, NEW s
  PROVE  /\ \A n \in 0 .. Len(events[x]) : Received(x, l, s, n)' = Received(x, l, s, n)
         /\ x # y \/ ~IsMessage(e, l, s) => Came(x, l, s)' = Came(x, l, s)
         /\ x = y /\ IsMessage(e, l, s) => Came(x, l, s)' = Came(x, l, s) \cup {e.data}
<1>1. /\ Len(events[x]) \in Nat /\ DOMAIN events[x] = 1 .. Len(events[x])
      /\ x # y => events'[x] = events[x]
      /\ x = y => /\ Len(events'[x]) = Len(events[x]) + 1 /\ events'[x][Len(events[x]) + 1] = e
                  /\ \A i \in 1 .. Len(events[x]) : events'[x][i] = events[x][i]
  <2>1. events[x] \in Seq(Events)
    BY DEF TypedEvents
  <2>2. QED BY <2>1, Elements, Emitted
<1>2. PICK k \in Nat : k = Len(events[x])
  BY <1>1
<1>3. \A i \in 1 .. k : events'[x][i] = events[x][i]
  BY <1>1, <1>2
<1>4. \A n \in Nat : Received(x, l, s, n)' =
        {events'[x][i].data : i \in {j \in 1 .. n : IsMessage(events'[x][j], l, s)}}
  BY DEF Received, IsMessage
<1>5. ASSUME NEW n \in 0 .. k PROVE Received(x, l, s, n)' = Received(x, l, s, n)
  <2>1. n \in Nat /\ \A i \in 1 .. n : events'[x][i] = events[x][i]
    BY <1>3
  <2>2. {j \in 1 .. n : IsMessage(events'[x][j], l, s)} = {j \in 1 .. n : IsMessage(events[x][j], l, s)}
    BY <2>1
  <2>3. QED BY <1>4, <2>1, <2>2 DEF Received
<1>6. CASE x # y
  <2>1. Came(x, l, s)' = Came(x, l, s)
    BY <1>1, <1>6 DEF Came, Received, IsMessage
  <2>2. QED BY <1>2, <1>5, <1>6, <2>1
<1>7. CASE x = y
  <2> DEFINE J == {j \in 1 .. k : IsMessage(events[x][j], l, s)}
             K == {j \in 1 .. k + 1 : IsMessage(events'[x][j], l, s)}
  <2>1. Came(x, l, s) = {events[x][i].data : i \in J} /\ Came(x, l, s)' = {events'[x][i].data : i \in K}
    BY <1>1, <1>2, <1>7 DEF Came, Received, IsMessage
  <2>2. 1 .. k + 1 = (1 .. k) \cup {k + 1}
    BY <1>2
  <2>3. K = IF IsMessage(e, l, s) THEN J \cup {k + 1} ELSE J
    BY <1>1, <1>2, <1>3, <1>7, <2>2
  <2>4. {events'[x][i].data : i \in J} = {events[x][i].data : i \in J}
    BY <1>3
  <2>5. events'[x][k + 1].data = e.data
    BY <1>1, <1>2, <1>7
  <2> HIDE DEF J, K
  <2>6. IsMessage(e, l, s) => Came(x, l, s)' = Came(x, l, s) \cup {e.data}
    BY <2>1, <2>3, <2>4, <2>5
  <2>7. ~IsMessage(e, l, s) => Came(x, l, s)' = Came(x, l, s)
    BY <2>1, <2>3, <2>4
  <2>8. QED BY <1>2, <1>5, <1>7, <2>6, <2>7
<1>8. QED BY <1>6, <1>7

-----------------------------------------------------------------------------
(* Most steps move no frame.                                               *)

\* No frame moves, but with a connection that is lost; and none is found again.
Motionless ==
  /\ SameBidis
  /\ \A l \in Links : link[l] = "down" => link'[l] = "down"
  /\ \A l \in Links : \A i \in DOMAIN bidis[l] : \A x \in Ends(l) :
       \/ bidis'[l][i].wire[x] = bidis[l][i].wire[x] /\ (link'[l] = "down" <=> link[l] = "down")
       \/ bidis'[l][i].wire[x] = <<>> /\ link'[l] = "down"

\* Nothing is told of a reliable stream that came by it.
Untold ==
  \/ UNCHANGED events
  \/ \E y \in Nodes, e \in Events : Emit(y, e) /\ (e.type = "Message" => ~is_reliable(e.stream))

\* A frame is written.
Sending(x) == SendReliable(x) /\ link[Command(x).conn] = "up"

\* Nothing happens on the wire.
LEMMA WiresSame ==
  ASSUME WireTyped, UNCHANGED bidis, \A l \in Links : link'[l] = "down" <=> link[l] = "down"
  PROVE  Motionless
BY BidisUnchanged DEF Motionless

\* One stream of a connection changes, but for its frames.
LEMMA WiresKept ==
  ASSUME WireTyped, NEW l \in Links, NEW i \in DOMAIN bidis[l], NEW B \in Bidis(l),
         Alike(bidis[l][i], B), B.wire = bidis[l][i].wire, UNCHANGED link,
         bidis' = [bidis EXCEPT ![l] = [bidis[l] EXCEPT ![i] = B]]
  PROVE  Motionless
<1>1. /\ SameBidis /\ bidis'[l][i] = B
      /\ \A m \in Links : \A j \in DOMAIN bidis[m] : m # l \/ j # i => bidis'[m][j] = bidis[m][j]
  BY BidiRewritten
<1>2. ASSUME NEW m \in Links, NEW j \in DOMAIN bidis[m] PROVE bidis'[m][j].wire = bidis[m][j].wire
  <2>1. CASE m = l /\ j = i
    <3>1. bidis'[m][j] = B /\ bidis[m][j] = bidis[l][i]
      BY <1>1, <2>1
    <3>2. QED BY <3>1
  <2>2. CASE m # l \/ j # i
    BY <1>1, <2>2
  <2>3. QED BY <2>1, <2>2
<1>3. QED BY <1>1, <1>2 DEF Motionless

\* A SendStream is dropped.
LEMMA WiresDropped ==
  ASSUME WireTyped, NEW l \in Links, NEW x, NEW i \in DOMAIN bidis[l], DropSendStream(x, l, i),
         UNCHANGED link
  PROVE  Motionless
<1> DEFINE b == bidis[l][i]
           B == Finished(b, Peer(l, x))
<1>1. b \in Bidis(l)
  BY Elements DEF WireTyped
<1>2. B = [b EXCEPT !.ended = [b.ended EXCEPT ![Peer(l, x)] = TRUE]]
  BY DEF Finished
<1>3. b.ended \in [Ends(l) -> BOOLEAN]
  BY <1>1 DEF Bidis
<1>4. [b.ended EXCEPT ![Peer(l, x)] = TRUE] \in [Ends(l) -> BOOLEAN]
  BY <1>3
<1>5. B \in Bidis(l) /\ Alike(b, B) /\ B.wire = b.wire
  BY <1>1, <1>2, <1>4 DEF Bidis, Alike
<1>6. bidis' = [bidis EXCEPT ![l] = [bidis[l] EXCEPT ![i] = B]]
  BY DEF DropSendStream
<1> HIDE DEF B
<1>7. QED BY <1>5, <1>6, WiresKept

\* A stream is accepted.
LEMMA WiresAccepted ==
  ASSUME WireTyped, NEW l \in Links, NEW i \in DOMAIN bidis[l],
         bidis' = [bidis EXCEPT ![l][i].accepted = TRUE], UNCHANGED link
  PROVE  Motionless
<1> DEFINE b == bidis[l][i]
           B == [b EXCEPT !.accepted = TRUE]
<1>1. b \in Bidis(l)
  BY Elements DEF WireTyped
<1>2. B \in Bidis(l) /\ Alike(b, B) /\ B.wire = b.wire
  BY <1>1 DEF Bidis, Alike
<1>3. bidis' = [bidis EXCEPT ![l] = [bidis[l] EXCEPT ![i] = B]]
  OBVIOUS
<1> HIDE DEF B
<1>4. QED BY <1>2, <1>3, WiresKept

\* Connections are lost.
LEMMA WiresCut ==
  ASSUME TypedWire, NEW D, Cut(D)
  PROVE  Motionless
<1>1. /\ link' = [l \in Links |-> IF l \in D THEN "down" ELSE link[l]]
      /\ bidis' = [l \in Links |->
           IF l \in D THEN [i \in DOMAIN bidis[l] |-> Broken(bidis[l][i])] ELSE bidis[l]]
  BY DEF Cut
<1>2. ASSUME NEW l \in Links, NEW i \in DOMAIN bidis[l], NEW x \in Ends(l)
      PROVE  \/ bidis'[l][i].wire[x] = bidis[l][i].wire[x] /\ link'[l] = link[l]
             \/ bidis'[l][i].wire[x] = <<>> /\ link'[l] = "down"
  <2>1. bidis[l][i] \in Bidis(l)
    BY Elements DEF TypedWire
  <2>2. DOMAIN bidis[l][i].wire = Ends(l)
    BY <2>1 DEF Bidis
  <2>3. CASE l \in D
    <3>1. bidis'[l][i] = Broken(bidis[l][i]) /\ link'[l] = "down"
      BY <1>1, <2>3
    <3>2. Broken(bidis[l][i]).wire = [y \in Ends(l) |-> <<>>]
      BY <2>1, <2>2 DEF Broken, Bidis
    <3>3. QED BY <3>1, <3>2
  <2>4. CASE l \notin D
    BY <1>1, <2>4
  <2>5. QED BY <2>3, <2>4
<1>3. \A l \in Links : link[l] = "down" => link'[l] = "down"
  BY <1>1
<1>4. QED BY <1>2, <1>3, BidisCut DEF Motionless

\* But for the reading loops, nothing is told that came by a reliable stream.
LEMMA ToldWithoutFrames ==
  ASSUME BaseInv, [Next]_vars
  PROVE  Untold \/ \E x \in Nodes : \E l \in LinksOf(x) : ReadStream(x, l)
<1>1. CASE Still
  BY <1>1 DEF Still, Untold
<1>2. ASSUME NEW x \in Nodes, RegisterStream(x) PROVE Untold
  <2>1. PICK r \in Regs : r = Registration(x)
    BY <1>2, RegistrationTaken
  <2>2. PICK e : e = OfStream("StreamCreated", r.conn, r.stream)
    OBVIOUS
  <2>3. e \in Events /\ e.type # "Message"
    BY <2>2 DEF Regs, Events, OfStream
  <2>4. UNCHANGED events \/ Emit(x, e)
    BY <1>2, <2>1, <2>2, RegistrationTaken DEF RegisterReliable, RegisterUnreliable
  <2>5. QED BY <2>3, <2>4 DEF Untold
<1>3. ASSUME NEW x \in Nodes, CloseStream(x) PROVE Untold
  <2>1. PICK c \in Cmds : c = Command(x) /\ c.op = "CloseStream"
    BY <1>3, CommandTaken DEF CloseStream
  <2>2. PICK e : e = OfStream("StreamClosed", c.conn, c.stream)
    OBVIOUS
  <2>3. e \in Events /\ e.type # "Message" /\ Emit(x, e)
    BY <1>3, <2>1, <2>2, StreamCommands DEF CloseStream, Events, OfStream
  <2>4. QED BY <2>3 DEF Untold
<1>4. ASSUME NEW x \in Nodes,
             \/ Game(x) \/ CreateReliable(x) \/ CreateOther(x) \/ OpenCompletes(x)
             \/ \E l \in LinksOf(x) : AcceptStream(x, l) \/ ReadDatagram(x, l)
      PROVE  UNCHANGED events
  BY <1>4 DEF Game, Poll, AskShutdown, AskCreate, AskClose, AskSend, CreateReliable, CreateOther,
     OpenCompletes, AcceptStream, ReadDatagram
<1>5. QED BY <1>1, <1>2, <1>3, <1>4, WorksOrStill DEF Works, Untold

\* A step that lets the streams be and does not touch the links.
LEMMA StandingStill ==
  ASSUME BaseInv, UNCHANGED <<link, bidis>>
  PROVE  Motionless
BY WiresSame DEF BaseInv, Typed, TypedWire, WireTyped

\* What the loop does moves no frame, but when it writes one or opens a stream.
LEMMA LoopMoves ==
  ASSUME BaseInv, ConnectsFresh, NEW x \in Nodes,
         RegisterConnection(x) \/ RegisterStream(x) \/ Commands(x) \/ Awaited(x)
  PROVE  (Motionless /\ UNCHANGED written) \/ OpenCompletes(x) \/ Sending(x)
<1>1. TypedWire /\ WireTyped
  BY DEF BaseInv, Typed, TypedWire, WireTyped
<1>2. CASE \/ RegisterConnection(x) \/ Bind(x) \/ CreateReliable(x) \/ CreateOther(x)
           \/ SendUnknown(x) \/ SendStreamless(x) \/ SendDatagram(x)
  <2>1. UNCHANGED <<link, bidis, written>>
    BY <1>2 DEF RegisterConnection, Bind, CreateReliable, CreateOther, SendUnknown, SendStreamless,
       SendDatagram, wire, history
  <2>2. QED BY <2>1, StandingStill
<1>3. CASE RegisterStream(x) \/ CloseStream(x)
  <2>1. UNCHANGED <<link, written>>
    BY <1>3, RegistrationTaken DEF RegisterStream, RegisterAs, CloseStream, history
  <2>2. \/ UNCHANGED bidis
        \/ \E key \in DOMAIN reliable_send_streams[x] :
             DropSendStream(x, key[1], reliable_send_streams[x][key])
    <3>1. CASE RegisterStream(x)
      BY <3>1, RegistrationTaken DEF RegisterReliable, RegisterUnreliable
    <3>2. CASE CloseStream(x)
      BY <3>2 DEF CloseStream
    <3>3. QED BY <1>3, <3>1, <3>2
  <2>3. ASSUME NEW key \in DOMAIN reliable_send_streams[x],
               DropSendStream(x, key[1], reliable_send_streams[x][key])
        PROVE  Motionless
    <3>1. reliable_send_streams[x][key] \in DOMAIN bidis[key[1]]
      BY <2>3 DEF BaseInv, StreamInv, TablesFit, IsSendStream
    <3>2. key[1] \in Links
      <4>1. reliable_send_streams[x] \in Tables
        BY DEF BaseInv, Typed, TypedLoop
      <4>2. key \in Keys
        BY <4>1 DEF Tables
      <4>3. QED BY <4>2 DEF Keys
    <3>3. PICK l \in Links : l = key[1]
      BY <3>2
    <3>4. PICK i \in DOMAIN bidis[l] : i = reliable_send_streams[x][key]
      BY <3>1, <3>3
    <3>5. DropSendStream(x, l, i)
      BY <2>3, <3>3, <3>4
    <3>6. QED BY <1>1, <2>1, <3>5, WiresDropped
  <2>4. QED BY <2>1, <2>2, <2>3, StandingStill
<1>4. CASE Shutdown(x) \/ BindFails(x) \/ ConnectFails(x) \/ OpenFails(x)
  <2>1. PICK D : Cut(D)
    BY <1>4 DEF Shutdown, BindFails, ConnectFails, OpenFails, RunEnds
  <2>2. UNCHANGED written
    BY <1>4 DEF Shutdown, BindFails, ConnectFails, OpenFails, history
  <2>3. QED BY <1>1, <2>1, <2>2, WiresCut
<1>5. CASE Connect(x)
  <2>1. PICK c \in Cmds : c = Command(x) /\ c.op = "Connect" /\ c \in ToSet(cmd_rx[x])
    BY <1>5, CommandTaken DEF Connect
  <2>2. PICK l \in Links : l = c.conn
    BY <2>1, StreamCommands
  <2>3. link[l] = "new"
    BY <2>1, <2>2 DEF ConnectsFresh
  <2>4. link' = [link EXCEPT ![l] = "dialing"] /\ UNCHANGED <<bidis, written>>
    BY <1>5, <2>1, <2>2 DEF Connect, history
  <2>5. \A m \in Links : link'[m] = "down" <=> link[m] = "down"
    BY <1>1, <2>3, <2>4 DEF TypedWire
  <2>6. QED BY <1>1, <2>4, <2>5, WiresSame
<1>6. CASE ConnectCompletes(x)
  <2>1. awaiting[x] \in Awaitings /\ awaiting[x].on = "handshake"
    BY <1>6 DEF ConnectCompletes, BaseInv, Typed, TypedLoop
  <2>2. PICK l \in Links : l = awaiting[x].link
    BY <2>1 DEF Awaitings, Idle
  <2>3. link[l] = "dialing"
    BY <2>1, <2>2 DEF ConnectsFresh
  <2>4. link' = [link EXCEPT ![l] = "up"] /\ UNCHANGED <<bidis, written>>
    BY <1>6, <2>2 DEF ConnectCompletes, history
  <2>5. \A m \in Links : link'[m] = "down" <=> link[m] = "down"
    BY <1>1, <2>3, <2>4 DEF TypedWire
  <2>6. QED BY <1>1, <2>4, <2>5, WiresSame
<1>7. CASE SendReliable(x)
  <2>1. CASE link[Command(x).conn] = "up"
    BY <1>7, <2>1 DEF Sending
  <2>2. CASE link[Command(x).conn] # "up"
    <3>1. UNCHANGED <<link, bidis, written>>
      BY <1>7, <2>2 DEF SendReliable
    <3>2. QED BY <3>1, StandingStill
  <2>3. QED BY <2>1, <2>2
<1>8. QED BY <1>2, <1>3, <1>4, <1>5, <1>6, <1>7 DEF Commands, Awaited

\* A step writes a frame, opens a stream, reads a frame, or moves none and tells of none.
LEMMA CalmSteps ==
  ASSUME BaseInv, ConnectsFresh, [Next]_vars
  PROVE  \/ Motionless /\ Untold /\ UNCHANGED written
         \/ \E x \in Nodes :
              Sending(x) \/ OpenCompletes(x) \/ \E l \in LinksOf(x) : ReadStream(x, l)
<1>1. TypedWire /\ WireTyped
  BY DEF BaseInv, Typed, TypedWire, WireTyped
<1>2. ASSUME NEW x \in Nodes, NEW l \in LinksOf(x), AcceptStream(x, l)
      PROVE  Motionless /\ UNCHANGED written
  <2>1. /\ l \in Links /\ UNCHANGED <<link, history>>
        /\ \E i \in DOMAIN bidis[l] : bidis' = [bidis EXCEPT ![l][i].accepted = TRUE]
    BY <1>2, Accepting
  <2>2. Motionless
    BY <1>1, <2>1, WiresAccepted
  <2>3. QED BY <2>1, <2>2 DEF history
<1>3. ASSUME NEW l \in Links, LinkLost(l) PROVE Motionless /\ UNCHANGED written
  <2>1. Cut({l}) /\ UNCHANGED written
    BY <1>3 DEF LinkLost, history
  <2>2. QED BY <1>1, <2>1, WiresCut
<1>4. ASSUME \/ UNCHANGED vars
             \/ \E x \in Nodes : \/ Game(x) \/ Accept(x)
                                 \/ \E l \in LinksOf(x) : DatagramReader(x, l)
             \/ \E l \in Links : DatagramLost(l)
      PROVE  Motionless /\ UNCHANGED written
  <2>1. ASSUME NEW x \in Nodes, Game(x) PROVE UNCHANGED <<link, bidis, written>>
    BY <2>1 DEF Game, Poll, AskShutdown, AskCreate, AskClose, AskSend, wire, history
  <2>2. ASSUME NEW x \in Nodes, Accept(x) PROVE UNCHANGED <<link, bidis, written>>
    BY <2>2 DEF Accept, AcceptRegister, AcceptConnected, AcceptFails, wire, history
  <2>3. ASSUME NEW x \in Nodes, NEW l \in LinksOf(x), DatagramReader(x, l)
        PROVE  UNCHANGED <<link, bidis, written>>
    BY <2>3 DEF DatagramReader, ReadDatagram, AnnounceDatagram, wire, history
  <2>4. ASSUME UNCHANGED vars \/ \E l \in Links : DatagramLost(l)
        PROVE  UNCHANGED <<link, bidis, written>>
    BY <2>4 DEF vars, DatagramLost, wire, history
  <2>5. UNCHANGED <<link, bidis, written>>
    BY <1>4, <2>1, <2>2, <2>3, <2>4
  <2>6. QED BY <2>5, StandingStill
<1>5. \/ Motionless /\ UNCHANGED written
      \/ \E x \in Nodes :
           Sending(x) \/ OpenCompletes(x) \/ \E l \in LinksOf(x) : ReadStream(x, l)
  BY <1>2, <1>3, <1>4, LoopMoves DEF Next, StreamReader
<1>6. QED BY <1>5, ToldWithoutFrames

-----------------------------------------------------------------------------
(* What a step that moves no frame keeps.                                  *)

\* Nothing more came by a reliable stream.
LEMMA UntoldReceives ==
  ASSUME TypedEvents, Untold, NEW x \in Nodes, NEW l, NEW s, is_reliable(s)
  PROVE  /\ Came(x, l, s)' = Came(x, l, s)
         /\ \A n \in 0 .. Len(events[x]) : Received(x, l, s, n)' = Received(x, l, s, n)
         /\ \A n \in DOMAIN events'[x] : IsMessage(events'[x][n], l, s) =>
              n \in DOMAIN events[x] /\ events'[x][n] = events[x][n]
<1>1. CASE UNCHANGED events
  BY <1>1 DEF Came, Received, IsMessage
<1>2. ASSUME NEW y \in Nodes, NEW e \in Events, Emit(y, e), e.type = "Message" => ~is_reliable(e.stream)
      PROVE  /\ Came(x, l, s)' = Came(x, l, s)
             /\ \A n \in 0 .. Len(events[x]) : Received(x, l, s, n)' = Received(x, l, s, n)
             /\ \A n \in DOMAIN events'[x] : IsMessage(events'[x][n], l, s) =>
                  n \in DOMAIN events[x] /\ events'[x][n] = events[x][n]
  <2>1. ~IsMessage(e, l, s)
    BY <1>2 DEF IsMessage
  <2>2. /\ Came(x, l, s)' = Came(x, l, s)
        /\ \A n \in 0 .. Len(events[x]) : Received(x, l, s, n)' = Received(x, l, s, n)
    BY <1>2, <2>1, ReceivedMore
  <2>3. ASSUME NEW n \in DOMAIN events'[x], IsMessage(events'[x][n], l, s)
        PROVE  n \in DOMAIN events[x] /\ events'[x][n] = events[x][n]
    <3>1. CASE x # y
      BY <1>2, <3>1, Emitted
    <3>2. CASE x = y
      <4>1. /\ Len(events[x]) \in Nat /\ DOMAIN events[x] = 1 .. Len(events[x])
            /\ DOMAIN events'[x] = 1 .. Len(events[x]) + 1
            /\ \A i \in 1 .. Len(events[x]) : events'[x][i] = events[x][i]
            /\ events'[x][Len(events[x]) + 1] = e
        BY <1>2, <3>2, Emitted
      <4>2. n # Len(events[x]) + 1
        BY <2>1, <2>3, <4>1
      <4>3. n \in 1 .. Len(events[x])
        BY <4>1, <4>2
      <4>4. QED BY <4>1, <4>3
    <3>3. QED BY <3>1, <3>2
  <2>4. QED BY <2>2, <2>3
<1>3. QED BY <1>1, <1>2 DEF Untold

\* What is written later does not disturb what came before.
LEMMA OrderKept ==
  ASSUME TypedEvents, ReliableInOrder, Untold,
         \A x \in Nodes : written[x] \subseteq written'[x],
         \A x \in Nodes : \A m \in written'[x] :
           m \in written[x] \/ (m.data \in Nat /\ \A w \in written[x] : w.data \in Nat /\ w.data < m.data)
  PROVE  ReliableInOrder'
<1> SUFFICES ASSUME NEW l \in Links, NEW x \in Ends(l), NEW s \in UNION {Creates[y] : y \in Ends(l)},
                    is_reliable(s), NEW n \in DOMAIN events'[x], IsMessage(events'[x][n], l, s)
             PROVE  /\ events'[x][n].data \notin Received(x, l, s, n - 1)'
                    /\ Received(x, l, s, n)' =
                         {w \in Written(Peer(l, x), l, s)' : w <= events'[x][n].data}
  BY DEF ReliableInOrder, IsMessage
<1>1. x \in Nodes /\ Peer(l, x) \in Nodes
  BY EndsOfLink
<1>2. PICK y \in Nodes : y = Peer(l, x)
  BY <1>1
<1>3. /\ n \in DOMAIN events[x] /\ events'[x][n] = events[x][n] /\ IsMessage(events[x][n], l, s)
      /\ \A k \in 0 .. Len(events[x]) : Received(x, l, s, k)' = Received(x, l, s, k)
  BY <1>1, UntoldReceives
<1>4. Len(events[x]) \in Nat /\ DOMAIN events[x] = 1 .. Len(events[x])
  BY <1>1, Elements DEF TypedEvents
<1>5. n \in 0 .. Len(events[x]) /\ n - 1 \in 0 .. Len(events[x]) /\ n \in 1 .. n
  BY <1>3, <1>4
<1>6. Received(x, l, s, n)' = Received(x, l, s, n) /\ Received(x, l, s, n - 1)' = Received(x, l, s, n - 1)
  <2>1. PICK a \in 0 .. Len(events[x]), b \in 0 .. Len(events[x]) : a = n /\ b = n - 1
    BY <1>5
  <2>2. Received(x, l, s, a)' = Received(x, l, s, a) /\ Received(x, l, s, b)' = Received(x, l, s, b)
    BY <1>3
  <2>3. QED BY <2>1, <2>2
<1>7. PICK d : d = events[x][n].data
  OBVIOUS
<1>8. d \notin Received(x, l, s, n - 1) /\ Received(x, l, s, n) = {w \in Written(y, l, s) : w <= d}
  BY <1>2, <1>3, <1>7 DEF ReliableInOrder
<1>9. d \in Received(x, l, s, n)
  BY <1>3, <1>5, <1>7 DEF Received
<1>10. PICK v \in written[y] : v.data = d
  BY <1>8, <1>9 DEF Written
<1>11. Written(y, l, s)' = {m.data : m \in {w \in written'[y] : w.conn = l /\ w.stream = s}}
  BY DEF Written
<1>12. Written(y, l, s) \subseteq Written(y, l, s)'
  BY <1>2, <1>11 DEF Written
<1>13. \A w \in Written(y, l, s)' : w \in Written(y, l, s) \/ ~(w <= d)
  <2> SUFFICES ASSUME NEW m \in written'[y], m.conn = l, m.stream = s
               PROVE  m.data \in Written(y, l, s) \/ ~(m.data <= d)
    BY <1>11
  <2>1. CASE m \in written[y]
    BY <2>1 DEF Written
  <2>2. CASE m.data \in Nat /\ d \in Nat /\ d < m.data
    BY <2>2
  <2>3. QED BY <1>2, <1>10, <2>1, <2>2
<1>14. {w \in Written(y, l, s)' : w <= d} = {w \in Written(y, l, s) : w <= d}
  BY <1>12, <1>13
<1>15. Received(x, l, s, n)' = {w \in Written(y, l, s)' : w <= d}
  BY <1>6, <1>8, <1>14
<1>16. Written(Peer(l, x), l, s)' = Written(y, l, s)'
  BY <1>2 DEF Peer, Ends, Written
<1>17. QED BY <1>3, <1>6, <1>7, <1>8, <1>15, <1>16

\* What is written names a stream of the connection still.
LEMMA WrittenKept ==
  ASSUME BaseInv, WrittenOnStreams, Grown, UNCHANGED written,
         \/ Untold
         \/ \E y \in Nodes, e \in Events : Emit(y, e) /\ e.stream.reliability = "Reliable"
  PROVE  WrittenOnStreams'
<1>1. ASSUME NEW x \in Nodes, NEW m \in written'[x]
      PROVE  m.conn \in Links /\ \E i \in Nat : IsSendStream(m.conn, m.stream, i)'
  <2>1. m \in written[x]
    BY <1>1
  <2>2. m.conn \in Links /\ \E i \in Nat : IsSendStream(m.conn, m.stream, i)
    BY <2>1 DEF WrittenOnStreams
  <2>3. QED BY <2>2, FitKept
<1>2. ASSUME NEW x \in Nodes, NEW e \in ToSet(events'[x]), e.type = "Message", is_reliable(e.stream)
      PROVE  e.stream.reliability = "Reliable"
  <2>1. CASE e \in ToSet(events[x])
    BY <1>2, <2>1 DEF WrittenOnStreams
  <2>2. ASSUME NEW y \in Nodes, NEW f \in Events, Emit(y, f),
               (f.type = "Message" => ~is_reliable(f.stream)) \/ f.stream.reliability = "Reliable"
        PROVE  e.stream.reliability = "Reliable"
    <3>1. e \in ToSet(events[x]) \/ e = f
      <4>1. /\ ToSet(events'[y]) = ToSet(events[y]) \cup {f}
            /\ \A z \in Nodes : z # y => events'[z] = events[z]
        BY <2>2, Emitted DEF BaseInv, Typed
      <4>2. QED BY <1>2, <4>1
    <3>2. QED BY <1>2, <2>1, <2>2, <3>1
  <2>3. CASE UNCHANGED events
    BY <1>2, <2>1, <2>3
  <2>4. QED BY <2>2, <2>3 DEF Untold
<1>3. DOMAIN written' = Nodes
  BY DEF WrittenOnStreams
<1>4. QED BY <1>1, <1>2, <1>3 DEF WrittenOnStreams

\* The streams stay in order.
LEMMA CalmKeepsFrames ==
  ASSUME BaseInv, WrittenOnStreams, FramesInOrder, ReliableInOrder,
         Motionless, Untold, UNCHANGED written
  PROVE  WrittenOnStreams' /\ FramesInOrder' /\ ReliableInOrder'
<1>1. TypedEvents /\ SameBidis /\ Grown
  BY SameIsGrown DEF BaseInv, Typed, Motionless
<1>2. WrittenOnStreams'
  BY <1>1, WrittenKept
<1>3. ReliableInOrder'
  BY <1>1, OrderKept
<1>4. ASSUME NEW l \in Links, NEW i \in DOMAIN bidis'[l], NEW x \in Ends(l)
      PROVE  LET q == bidis'[l][i].wire[x]
                 R == Came(x, l, bidis[l][i].stream)'
                 W == Written(Peer(l, x), l, bidis[l][i].stream)'
             IN /\ InOrder(q, R, W)
                /\ IF link'[l] = "down" THEN q = <<>> ELSE Complete(q, R, W)
  <2>1. i \in DOMAIN bidis[l] /\ bidis'[l][i].stream = bidis[l][i].stream
    BY <1>1 DEF SameBidis, Alike
  <2>2. x \in Nodes
    BY EndsOfLink
  <2>3. PICK s, y : s = bidis[l][i].stream /\ y = Peer(l, x)
    OBVIOUS
  <2>4. is_reliable(s)
    BY <2>1, <2>3 DEF BaseInv, StreamInv, BidisFit, is_reliable
  <2>5. Came(x, l, s)' = Came(x, l, s)
    BY <1>1, <2>2, <2>4, UntoldReceives
  <2>6. Written(y, l, s)' = Written(y, l, s)
    BY DEF Written
  <2>7. /\ Came(x, l, bidis[l][i].stream)' = Came(x, l, s)'
        /\ Written(Peer(l, x), l, bidis[l][i].stream)' = Written(y, l, s)'
    BY <2>1, <2>3 DEF Came, Received, Written, Peer, Ends
  <2>8. PICK q, R, W : q = bidis[l][i].wire[x] /\ R = Came(x, l, s) /\ W = Written(y, l, s)
    OBVIOUS
  <2>9. InOrder(q, R, W) /\ IF link[l] = "down" THEN q = <<>> ELSE Complete(q, R, W)
    BY <2>1, <2>3, <2>8 DEF FramesInOrder
  <2>10. CASE bidis'[l][i].wire[x] = q /\ (link'[l] = "down" <=> link[l] = "down")
    BY <2>5, <2>6, <2>7, <2>8, <2>9, <2>10
  <2>11. CASE bidis'[l][i].wire[x] = <<>> /\ link'[l] = "down"
    BY <2>5, <2>6, <2>7, <2>8, <2>9, <2>11, CutInOrder
  <2>12. QED BY <2>1, <2>8, <2>10, <2>11 DEF Motionless
<1>5. QED BY <1>2, <1>3, <1>4 DEF FramesInOrder

-----------------------------------------------------------------------------
(* A frame is written, a stream is opened, a frame is read.                *)

\* The frames of one stream become p, at one end.
Rewired(l, i, x, p) == bidis' = [bidis EXCEPT ![l][i].wire[x] = p]

\* The other frames are what they were.
LEMMA WireChanged ==
  ASSUME WireTyped, NEW l \in Links, NEW i \in DOMAIN bidis[l], NEW x \in Ends(l),
         NEW p \in Seq(Nat), Rewired(l, i, x, p)
  PROVE  /\ SameBidis
         /\ bidis'[l][i].wire[x] = p
         /\ \A m \in Links : \A j \in DOMAIN bidis[m] : \A z \in Ends(m) :
              m # l \/ j # i \/ z # x => bidis'[m][j].wire[z] = bidis[m][j].wire[z]
<1> DEFINE b == bidis[l][i]
           w == [b.wire EXCEPT ![x] = p]
           B == [b EXCEPT !.wire = w]
<1>1. b \in Bidis(l)
  BY Elements DEF WireTyped
<1>2. b.wire \in [Ends(l) -> Seq(Nat)]
  BY <1>1 DEF Bidis
<1>3. w \in [Ends(l) -> Seq(Nat)] /\ w[x] = p /\ \A z \in Ends(l) : z # x => w[z] = b.wire[z]
  BY <1>2
<1>4. bidis' = [bidis EXCEPT ![l] = [bidis[l] EXCEPT ![i] = B]]
  BY DEF Rewired
<1> HIDE DEF w
<1>5. B \in Bidis(l) /\ Alike(b, B) /\ B.wire = w
  BY <1>1, <1>3 DEF Bidis, Alike
<1> HIDE DEF B
<1>6. /\ SameBidis /\ bidis'[l][i] = B
      /\ \A m \in Links : \A j \in DOMAIN bidis[m] : m # l \/ j # i => bidis'[m][j] = bidis[m][j]
  BY <1>4, <1>5, BidiRewritten
<1>7. bidis'[l][i].wire[x] = p
  BY <1>3, <1>5, <1>6
<1>8. ASSUME NEW m \in Links, NEW j \in DOMAIN bidis[m], NEW z \in Ends(m), m # l \/ j # i \/ z # x
      PROVE  bidis'[m][j].wire[z] = bidis[m][j].wire[z]
  <2>1. CASE m # l \/ j # i
    BY <1>6, <2>1
  <2>2. CASE m = l /\ j = i /\ z # x
    <3>1. bidis'[m][j].wire[z] = w[z]
      BY <1>5, <1>6, <2>2
    <3>2. QED BY <1>3, <2>2, <3>1
  <2>3. QED BY <1>8, <2>1, <2>2
<1>9. QED BY <1>6, <1>7, <1>8

\* The other end's other end is this one.
LEMMA PeerOfPeer ==
  ASSUME NEW l \in Links, NEW x \in Ends(l), NEW z \in Ends(l)
  PROVE  Peer(l, z) = x <=> z = Peer(l, x)
BY EndsOfLink DEF Ends

\* What one stream of a connection holds.
FrameOrder(l, i, x) ==
  LET q == bidis[l][i].wire[x]
      R == Came(x, l, bidis[l][i].stream)
      W == Written(Peer(l, x), l, bidis[l][i].stream)
  IN /\ InOrder(q, R, W)
     /\ IF link[l] = "down" THEN q = <<>> ELSE Complete(q, R, W)

\* The order of frames in a stream none of whose parts changed.
LEMMA FrameOrderKept ==
  ASSUME FramesInOrder, NEW l \in Links, NEW i \in DOMAIN bidis[l], NEW x \in Ends(l),
         bidis'[l][i].wire[x] = bidis[l][i].wire[x], bidis'[l][i].stream = bidis[l][i].stream,
         link'[l] = link[l],
         \A s : s = bidis[l][i].stream =>
           /\ Came(x, l, s)' = Came(x, l, s)
           /\ \A y : y = Peer(l, x) => Written(y, l, s)' = Written(y, l, s)
  PROVE  FrameOrder(l, i, x)'
<1>1. FrameOrder(l, i, x)
  BY DEF FramesInOrder, FrameOrder
<1>2. PICK s, y : s = bidis[l][i].stream /\ y = Peer(l, x)
  OBVIOUS
<1>3. Came(x, l, s)' = Came(x, l, s) /\ Written(y, l, s)' = Written(y, l, s)
  BY <1>2
<1>4. /\ Came(x, l, bidis[l][i].stream)' = Came(x, l, s)'
      /\ Written(Peer(l, x), l, bidis[l][i].stream)' = Written(y, l, s)'
  BY <1>2 DEF Came, Received, Written, Peer, Ends
<1>5. QED BY <1>1, <1>2, <1>3, <1>4 DEF FrameOrder

\* What ReliableInOrder says of one message.
InOrderAt(l, x, s, n) ==
  /\ events[x][n].data \notin Received(x, l, s, n - 1)
  /\ Received(x, l, s, n) = {w \in Written(Peer(l, x), l, s) : w <= events[x][n].data}

\* It says so of each message on a reliable stream.
LEMMA CameInOrder ==
  ASSUME ReliableInOrder,
         NEW l \in Links, NEW x \in Ends(l), NEW s \in UNION {Creates[y] : y \in Ends(l)},
         is_reliable(s), NEW n \in DOMAIN events[x], IsMessage(events[x][n], l, s)
  PROVE  InOrderAt(l, x, s, n)
BY DEF ReliableInOrder, InOrderAt

\* The next frame of a stream is read.
LEMMA ReadKeepsFrames ==
  ASSUME BaseInv, OnceInv, WrittenOnStreams, SendsNumbered, FramesInOrder, ReliableInOrder,
         NEW x \in Nodes, NEW l \in LinksOf(x), ReadStream(x, l)
  PROVE  WrittenOnStreams' /\ FramesInOrder' /\ ReliableInOrder'
<1>1. PICK i \in DOMAIN bidis[l], s \in Used, d \in Nat :
         /\ s = bidis[l][i].stream /\ (bidis[l][i].opener = x \/ bidis[l][i].accepted)
         /\ d = Head(bidis[l][i].wire[x]) /\ bidis[l][i].wire[x] # <<>>
         /\ bidis' = [bidis EXCEPT ![l][i].wire[x] = Tail(@)]
         /\ WireTyped' /\ SameBidis /\ SameEnds
         /\ MessageOn(l, s, d) \in Events /\ Tells(x, MessageOn(l, s, d))
         /\ UNCHANGED <<loop, tasks, cmd_rx, registrations, link, datagrams, game, history>>
  BY Reading
<1>2. l \in Links /\ x \in Ends(l)
  BY DEF LinksOf
<1>3. TypedEvents /\ WireTyped /\ bidis[l][i] \in Bidis(l)
  BY <1>2, Elements DEF BaseInv, Typed, TypedWire, WireTyped
<1>4. PICK e \in Events : e = MessageOn(l, s, d)
  BY <1>1
<1>5. e.type = "Message" /\ e.conn = l /\ e.stream = s /\ e.data = d /\ Emit(x, e)
  BY <1>1, <1>4 DEF MessageOn, Tells
<1>6. s.reliability = "Reliable" /\ is_reliable(s)
  BY <1>1, <1>2 DEF BaseInv, StreamInv, BidisFit, is_reliable
<1>7. UNCHANGED <<link, written>> /\ SameBidis /\ Grown
  BY <1>1, SameIsGrown DEF history
<1>8. PICK q \in Seq(Nat) : q = bidis[l][i].wire[x]
  BY <1>2, <1>3 DEF Bidis
<1>9. PICK y \in Nodes : y = Peer(l, x)
  BY <1>2, EndsOfLink
<1>10. PICK R, W : R = Came(x, l, s) /\ W = Written(y, l, s)
  OBVIOUS
<1>11. W \in SUBSET Nat
  BY <1>9, <1>10 DEF Written, SendsNumbered
<1>12. InOrder(q, R, W) /\ Complete(q, R, W) /\ q # <<>> /\ d = Head(q) /\ link[l] # "down"
  <2>1. InOrder(q, R, W) /\ IF link[l] = "down" THEN q = <<>> ELSE Complete(q, R, W)
    BY <1>1, <1>2, <1>8, <1>9, <1>10 DEF FramesInOrder
  <2>2. QED BY <1>1, <1>8, <2>1
<1>13. /\ ComesNext(d, R, W)
       /\ InOrder(Tail(q), R \cup {d}, W) /\ Complete(Tail(q), R \cup {d}, W)
  <2>1. InOrder(q, R, W) /\ Complete(q, R, W) /\ q # <<>> /\ d = Head(q)
    BY <1>12
  <2>2. QED BY ONLY <1>11, <2>1, ReadInOrder
<1>14. Came(x, l, s)' = R \cup {d} /\ Written(y, l, s)' = W
  <2>1. IsMessage(e, l, s)
    BY <1>5 DEF IsMessage
  <2>2. Came(x, l, s)' = Came(x, l, s) \cup {e.data}
    BY <1>3, <1>5, <2>1, ReceivedMore
  <2>3. QED BY <1>5, <1>7, <1>10, <2>2 DEF Written
<1>15. ASSUME NEW z \in Nodes, NEW m, NEW t, z # x \/ m # l \/ t # s
       PROVE  Came(z, m, t)' = Came(z, m, t)
  <2>1. z # x \/ ~IsMessage(e, m, t)
    BY <1>5, <1>15 DEF IsMessage
  <2>2. QED BY <1>3, <1>5, <2>1, ReceivedMore
<1>16. WrittenOnStreams'
  BY <1>5, <1>6, <1>7, WrittenKept
<1>17. FramesInOrder'
  <2>1. Tail(q) \in Seq(Nat)
    BY <1>12, Taken
  <2>2. PICK p \in Seq(Nat) : p = Tail(q)
    BY <2>1
  <2>3. Rewired(l, i, x, p)
    BY <1>1, <1>8, <2>2 DEF Rewired
  <2>4. /\ bidis'[l][i].wire[x] = p
        /\ \A m \in Links : \A j \in DOMAIN bidis[m] : \A z \in Ends(m) :
             m # l \/ j # i \/ z # x => bidis'[m][j].wire[z] = bidis[m][j].wire[z]
    <3>1. WireTyped
      BY <1>3
    <3>2. QED BY ONLY <1>2, <2>3, <3>1, WireChanged
  <2>5. ASSUME NEW m \in Links, NEW j \in DOMAIN bidis[m], NEW z \in Ends(m)
        PROVE  FrameOrder(m, j, z)'
    <3>1. bidis'[m][j].stream = bidis[m][j].stream
      BY <1>7 DEF SameBidis, Alike
    <3>2. z \in Nodes
      BY EndsOfLink
    <3>3. CASE m = l /\ j = i /\ z = x
      <4>1. bidis'[l][i].stream = s
        BY <1>1, <3>1, <3>3
      <4>2. /\ Came(x, l, bidis[l][i].stream)' = Came(x, l, s)'
            /\ Written(Peer(l, x), l, bidis[l][i].stream)' = Written(y, l, s)'
        BY <1>9, <4>1 DEF Came, Received, Written, Peer, Ends
      <4>3. link'[l] # "down"
        BY <1>7, <1>12
      <4>4. FrameOrder(l, i, x)'
        BY <1>13, <1>14, <2>2, <2>4, <4>2, <4>3 DEF FrameOrder
      <4>5. QED BY <3>3, <4>4
    <3>4. CASE m # l \/ j # i \/ z # x
      <4>1. z # x \/ m # l \/ bidis[m][j].stream # s
        <5>1. ASSUME m = l, bidis[m][j].stream = s PROVE j = i
          BY <1>1, <1>2, <5>1 DEF OnceInv, OpenedOnce
        <5>2. QED BY <3>4, <5>1
      <4>2. bidis'[m][j].wire[z] = bidis[m][j].wire[z] /\ link'[m] = link[m]
        BY <1>7, <2>4, <3>4
      <4>3. ASSUME NEW t, t = bidis[m][j].stream
            PROVE  /\ Came(z, m, t)' = Came(z, m, t)
                   /\ \A v : v = Peer(m, z) => Written(v, m, t)' = Written(v, m, t)
        <5>1. Came(z, m, t)' = Came(z, m, t)
          BY <1>15, <3>2, <4>1, <4>3
        <5>2. QED BY <1>7, <5>1 DEF Written
      <4>4. QED BY <3>1, <4>2, <4>3, FrameOrderKept
    <3>5. QED BY <3>3, <3>4
  <2>6. QED BY <1>7, <2>5 DEF FramesInOrder, FrameOrder, SameBidis
<1>18. ReliableInOrder'
  <2> SUFFICES ASSUME NEW m \in Links, NEW z \in Ends(m), NEW t \in UNION {Creates[v] : v \in Ends(m)},
                      is_reliable(t), NEW n \in DOMAIN events'[z], IsMessage(events'[z][n], m, t)
               PROVE  /\ events'[z][n].data \notin Received(z, m, t, n - 1)'
                      /\ Received(z, m, t, n)' =
                           {w \in Written(Peer(m, z), m, t)' : w <= events'[z][n].data}
    BY DEF ReliableInOrder, IsMessage
  <2>1. z \in Nodes
    BY EndsOfLink
  <2>2. /\ events[z] \in Seq(Events) /\ Len(events[z]) \in Nat /\ DOMAIN events[z] = 1 .. Len(events[z])
        /\ z # x => events'[z] = events[z]
        /\ z = x => /\ Len(events'[z]) = Len(events[z]) + 1
                    /\ DOMAIN events'[z] = 1 .. Len(events[z]) + 1
                    /\ events'[z][Len(events[z]) + 1] = e
                    /\ \A k \in 1 .. Len(events[z]) : events'[z][k] = events[z][k]
    <3>1. events[z] \in Seq(Events)
      BY <1>3, <2>1 DEF TypedEvents
    <3>2. QED BY <1>3, <1>5, <2>1, <3>1, Elements, Emitted
  <2>3. PICK u : u = Peer(m, z)
    OBVIOUS
  <2>4. Written(Peer(m, z), m, t)' = Written(u, m, t) /\ Written(Peer(m, z), m, t) = Written(u, m, t)
    BY <1>7, <2>3 DEF Written, Peer, Ends
  <2>5. \A k \in 0 .. Len(events[z]) : Received(z, m, t, k)' = Received(z, m, t, k)
    BY <1>3, <1>5, <2>1, ReceivedMore
  <2>6. CASE n \in 1 .. Len(events[z])
    <3>1. n \in 0 .. Len(events[z]) /\ n - 1 \in 0 .. Len(events[z])
      BY <2>2, <2>6
    <3>2. PICK a \in 0 .. Len(events[z]), b \in 0 .. Len(events[z]) : a = n /\ b = n - 1
      BY <3>1
    <3>3. Received(z, m, t, a)' = Received(z, m, t, a) /\ Received(z, m, t, b)' = Received(z, m, t, b)
      BY <2>5
    <3>4. Received(z, m, t, n)' = Received(z, m, t, n) /\ Received(z, m, t, n - 1)' = Received(z, m, t, n - 1)
      BY <3>2, <3>3
    <3>5. n \in DOMAIN events[z] /\ events'[z][n] = events[z][n] /\ IsMessage(events[z][n], m, t)
      BY <2>2, <2>6
    <3>6. InOrderAt(m, z, t, n)
      BY <3>5, CameInOrder
    <3>7. QED BY <2>4, <3>4, <3>5, <3>6 DEF InOrderAt
  <2>7. CASE z = x /\ n = Len(events[z]) + 1
    <3>1. m = l /\ t = s /\ events'[z][n] = e
      BY <1>5, <2>2, <2>7 DEF IsMessage
    <3>2. PICK k \in 0 .. Len(events[z]) : k = Len(events[z])
      BY <2>2
    <3>3. Received(z, m, t, k)' = Received(z, m, t, k)
      BY <2>5
    <3>4. Received(z, m, t, n - 1)' = R
      <4>1. n - 1 = k
        BY <2>2, <2>7, <3>2
      <4>2. Received(z, m, t, k) = R
        BY <1>10, <2>7, <3>1, <3>2 DEF Came
      <4>3. QED BY <3>3, <4>1, <4>2
    <3>5. Received(z, m, t, n)' = R \cup {d}
      <4>1. n = Len(events'[x])
        BY <2>2, <2>7
      <4>2. Received(z, m, t, n)' = Came(x, l, s)'
        BY <2>7, <3>1, <4>1 DEF Came, Received, IsMessage
      <4>3. QED BY <1>14, <4>2
    <3>6. Written(Peer(m, z), m, t)' = W
      BY <1>9, <1>10, <2>3, <2>4, <2>7, <3>1
    <3>7. QED BY <1>5, <1>13, <3>1, <3>4, <3>5, <3>6 DEF ComesNext
  <2>8. QED BY <2>2, <2>6, <2>7
<1>19. QED BY <1>16, <1>17, <1>18

\* What the loop writes, and where.
LEMMA Writing ==
  ASSUME BaseInv, SendsNumbered, WrittenOnStreams, NEW x \in Nodes, Sending(x)
  PROVE  \E l \in Links, s \in Used, d \in Nat, i \in Nat :
           /\ x \in Ends(l) /\ IsSendStream(l, s, i) /\ link[l] = "up"
           /\ Command(x).op = "Send" /\ Command(x).data = d
           /\ \A m \in written[x] : m.data \in Nat /\ m.data < d
           /\ \A q : q = bidis[l][i].wire[Peer(l, x)] => Rewired(l, i, Peer(l, x), Append(q, d))
           /\ DOMAIN written = Nodes
           /\ written' = [written EXCEPT ![x] = written[x] \cup {MessageOn(l, s, d)}]
           /\ UNCHANGED <<events, link, sends>>
<1>1. PICK c \in Cmds : c = Command(x) /\ c \in ToSet(cmd_rx[x]) /\ c.op = "Send"
  BY CommandTaken DEF Sending, SendReliable
<1>2. PICK l \in Links, s \in Used, d \in Nat, key \in Keys :
        l = c.conn /\ s = c.stream /\ d = c.data /\ key = <<l, s>>
  BY <1>1, StreamCommands
<1>3. x \in Ends(l)
  BY <1>1, <1>2 DEF BaseInv, HeardInv, CommandsHeard, Heard, LinksOf
<1>4. /\ key \in DOMAIN reliable_send_streams[x] /\ link[l] = "up"
      /\ bidis' = [bidis EXCEPT ![l][reliable_send_streams[x][key]] = WriteFrame(@, Peer(l, x), d)]
      /\ written' = [written EXCEPT ![x] = written[x] \cup {MessageOn(l, s, d)}]
      /\ UNCHANGED <<events, link, sends>>
  BY <1>1, <1>2 DEF Sending, SendReliable, game
<1>5. PICK i : i = reliable_send_streams[x][key]
  OBVIOUS
<1>6. IsSendStream(l, s, i)
  BY <1>2, <1>4, <1>5 DEF BaseInv, StreamInv, TablesFit
<1>7. i \in Nat
  <2>1. bidis[l] \in Seq(Bidis(l))
    BY DEF BaseInv, Typed, TypedWire
  <2>2. Len(bidis[l]) \in Nat /\ DOMAIN bidis[l] = 1 .. Len(bidis[l])
    BY <2>1, Elements
  <2>3. QED BY <1>6, <2>2 DEF IsSendStream
<1>8. \A q : q = bidis[l][i].wire[Peer(l, x)] => Rewired(l, i, Peer(l, x), Append(q, d))
  BY <1>4, <1>5 DEF Rewired, WriteFrame
<1>9. \A m \in written[x] : m.data \in Nat /\ m.data < d
  BY <1>1, <1>2 DEF SendsNumbered
<1>10. DOMAIN written = Nodes
  BY DEF WrittenOnStreams
<1>11. QED BY <1>1, <1>2, <1>3, <1>4, <1>6, <1>7, <1>8, <1>9, <1>10

\* A frame is written at the end of a stream.
LEMMA SendKeepsFrames ==
  ASSUME BaseInv, OnceInv, WrittenOnStreams, SendsNumbered, FramesInOrder, ReliableInOrder,
         NEW x \in Nodes, Sending(x)
  PROVE  WrittenOnStreams' /\ FramesInOrder' /\ ReliableInOrder'
<1>1. PICK l \in Links, s \in Used, d \in Nat, i \in Nat :
           /\ x \in Ends(l) /\ IsSendStream(l, s, i) /\ link[l] = "up"
           /\ Command(x).op = "Send" /\ Command(x).data = d
           /\ \A m \in written[x] : m.data \in Nat /\ m.data < d
           /\ \A q : q = bidis[l][i].wire[Peer(l, x)] => Rewired(l, i, Peer(l, x), Append(q, d))
           /\ DOMAIN written = Nodes
           /\ written' = [written EXCEPT ![x] = written[x] \cup {MessageOn(l, s, d)}]
           /\ UNCHANGED <<events, link, sends>>
  BY Writing
<1>2. TypedEvents /\ WireTyped
  BY DEF BaseInv, Typed, TypedWire, WireTyped
<1>3. PICK y \in Ends(l) : y = Peer(l, x) /\ y \in Nodes /\ Peer(l, y) = x
  BY <1>1, EndsOfLink, PeerOfPeer
<1>4. i \in DOMAIN bidis[l] /\ bidis[l][i].stream = s /\ bidis[l][i] \in Bidis(l)
  BY <1>1, <1>2, Elements DEF IsSendStream, WireTyped
<1>5. PICK q \in Seq(Nat) : q = bidis[l][i].wire[y]
  BY <1>4 DEF Bidis
<1>6. PICK p \in Seq(Nat) : p = Append(q, d)
  BY <1>5, Put
<1>7. Rewired(l, i, y, p)
  BY <1>1, <1>3, <1>5, <1>6
<1>8. /\ SameBidis /\ bidis'[l][i].wire[y] = p
      /\ \A m \in Links : \A j \in DOMAIN bidis[m] : \A z \in Ends(m) :
           m # l \/ j # i \/ z # y => bidis'[m][j].wire[z] = bidis[m][j].wire[z]
  BY ONLY <1>2, <1>4, <1>7, WireChanged
<1>9. Grown
  BY <1>8, SameIsGrown
<1>10. PICK f : f = MessageOn(l, s, d)
  OBVIOUS
<1>11. /\ f.conn = l /\ f.stream = s /\ f.data = d
       /\ written'[x] = written[x] \cup {f} /\ \A v \in Nodes : v # x => written'[v] = written[v]
       /\ DOMAIN written' = Nodes
  BY <1>1, <1>10 DEF MessageOn
<1>12. WrittenOnStreams'
  <2>1. \A m \in Links : \A t, j : IsSendStream(m, t, j) => IsSendStream(m, t, j)'
    BY <1>9, FitKept
  <2>2. ASSUME NEW v \in Nodes, NEW m \in written[v]
        PROVE  m.conn \in Links /\ \E j \in Nat : IsSendStream(m.conn, m.stream, j)'
    BY <2>1, <2>2 DEF WrittenOnStreams
  <2>3. f.conn \in Links /\ \E j \in Nat : IsSendStream(f.conn, f.stream, j)'
    BY <1>1, <1>11, <2>1
  <2>4. \A v \in Nodes : \A m \in written'[v] :
          m.conn \in Links /\ \E j \in Nat : IsSendStream(m.conn, m.stream, j)'
    BY <1>11, <2>2, <2>3
  <2>5. \A v \in Nodes : \A e \in ToSet(events'[v]) :
          e.type = "Message" /\ is_reliable(e.stream) => e.stream.reliability = "Reliable"
    BY <1>1 DEF WrittenOnStreams
  <2>6. QED BY <1>11, <2>4, <2>5 DEF WrittenOnStreams
<1>13. ReliableInOrder'
  <2>1. Untold
    BY <1>1 DEF Untold
  <2>2. \A v \in Nodes : written[v] \subseteq written'[v]
    BY <1>11
  <2>3. \A v \in Nodes : \A m \in written'[v] :
          m \in written[v] \/ (m.data \in Nat /\ \A w \in written[v] : w.data \in Nat /\ w.data < m.data)
    BY <1>1, <1>11
  <2>4. QED BY <1>2, <2>1, <2>2, <2>3, OrderKept
<1>14. PICK R, W : R = Came(y, l, s) /\ W = Written(x, l, s)
  OBVIOUS
<1>15. W \in SUBSET Nat /\ \A w \in W : w < d
  BY <1>1, <1>14 DEF Written
<1>16. InOrder(q, R, W) /\ Complete(q, R, W)
  BY <1>1, <1>3, <1>4, <1>5, <1>14 DEF FramesInOrder
<1>17. InOrder(Append(q, d), R, W \cup {d}) /\ Complete(Append(q, d), R, W \cup {d})
  BY ONLY <1>15, <1>16, WriteInOrder
<1>18. \A z, m, t : Came(z, m, t)' = Came(z, m, t)
  BY <1>1 DEF Came, Received, IsMessage
<1>19. Written(x, l, s)' = W \cup {d}
  BY <1>11, <1>14 DEF Written
<1>20. ASSUME NEW v \in Nodes, NEW m, NEW t, v # x \/ m # l \/ t # s
       PROVE  Written(v, m, t)' = Written(v, m, t)
  <2>1. {w \in written'[v] : w.conn = m /\ w.stream = t} = {w \in written[v] : w.conn = m /\ w.stream = t}
    BY <1>11, <1>20
  <2>2. QED BY <2>1 DEF Written
<1>21. ASSUME NEW m \in Links, NEW j \in DOMAIN bidis[m], NEW z \in Ends(m)
       PROVE  FrameOrder(m, j, z)'
  <2>1. bidis'[m][j].stream = bidis[m][j].stream
    BY <1>8 DEF SameBidis, Alike
  <2>2. CASE m = l /\ j = i /\ z = y
    <3>1. bidis'[l][i].stream = s /\ link'[l] # "down"
      BY <1>1, <1>4, <2>1, <2>2
    <3>2. /\ Came(y, l, bidis[l][i].stream)' = Came(y, l, s)'
          /\ Written(Peer(l, y), l, bidis[l][i].stream)' = Written(x, l, s)'
      BY <1>3, <3>1 DEF Came, Received, Written, Peer, Ends
    <3>3. Came(y, l, s)' = R
      BY <1>14, <1>18
    <3>4. FrameOrder(l, i, y)'
      BY <1>6, <1>8, <1>17, <1>19, <3>1, <3>2, <3>3 DEF FrameOrder
    <3>5. QED BY <2>2, <3>4
  <2>3. CASE m # l \/ j # i \/ z # y
    <3>1. Peer(m, z) \in Nodes
      BY EndsOfLink
    <3>2. Peer(m, z) # x \/ m # l \/ bidis[m][j].stream # s
      <4>1. ASSUME m = l, bidis[m][j].stream = s PROVE j = i
        BY <1>4, <4>1 DEF OnceInv, OpenedOnce
      <4>2. ASSUME m = l, Peer(m, z) = x PROVE z = y
        BY <1>1, <1>3, <4>2, PeerOfPeer
      <4>3. QED BY <2>3, <4>1, <4>2
    <3>3. bidis'[m][j].wire[z] = bidis[m][j].wire[z] /\ link'[m] = link[m]
      BY <1>1, <1>8, <2>3
    <3>4. ASSUME NEW t, t = bidis[m][j].stream
          PROVE  /\ Came(z, m, t)' = Came(z, m, t)
                 /\ \A v : v = Peer(m, z) => Written(v, m, t)' = Written(v, m, t)
      <4>1. Came(z, m, t)' = Came(z, m, t)
        BY <1>18
      <4>2. ASSUME NEW v, v = Peer(m, z) PROVE Written(v, m, t)' = Written(v, m, t)
        BY <1>20, <3>1, <3>2, <3>4, <4>2
      <4>3. QED BY <4>1, <4>2
    <3>5. QED BY <2>1, <3>3, <3>4, FrameOrderKept
  <2>4. QED BY <2>2, <2>3
<1>22. FramesInOrder'
  BY <1>8, <1>21 DEF FramesInOrder, FrameOrder, SameBidis
<1>23. QED BY <1>12, <1>13, <1>22

\* A stream is opened: no frame of it is in flight, nor was one ever.
LEMMA OpenKeepsFrames ==
  ASSUME BaseInv, EndInv, OnceInv', WrittenOnStreams, FramesInOrder, ReliableInOrder,
         NEW x \in Nodes, OpenCompletes(x)
  PROVE  WrittenOnStreams' /\ FramesInOrder' /\ ReliableInOrder'
<1>1. OpenBidi(x) /\ UNCHANGED events
  BY DEF OpenCompletes
<1>2. PICK l \in Links, s \in Used :
        /\ l = awaiting[x].link /\ s = awaiting[x].stream /\ awaiting[x].on = "stream"
        /\ l \in Heard(x) /\ s.reliability = "Reliable"
        /\ \E B \in Bidis(l) :
             /\ B.opener = x /\ B.stream = s /\ B.accepted = FALSE
             /\ bidis' = [bidis EXCEPT ![l] = Append(@, B)]
        /\ Len(bidis[l]) \in Nat
        /\ Enrol(x, l, s, Len(bidis[l]) + 1)
        /\ awaiting' = [awaiting EXCEPT ![x] = Idle]
        /\ UNCHANGED <<running, connections, reliable_send_streams, unreliable_send_streams, tasks,
                       cmd_rx, conn_reg_rx, link, datagrams, game, history>>
  BY <1>1, Opening
<1>3. TypedEvents /\ WireTyped /\ UNCHANGED <<link, events, written>>
  BY <1>1, <1>2 DEF BaseInv, Typed, TypedWire, WireTyped, history
<1> DEFINE N == [opener |-> x, stream |-> s, accepted |-> FALSE,
                 wire |-> [y \in Ends(l) |-> <<>>], ended |-> [y \in Ends(l) |-> FALSE]]
<1>4. N \in Bidis(l) /\ N.stream = s /\ \A z \in Ends(l) : N.wire[z] = <<>>
  <2>1. [y \in Ends(l) |-> <<>>] \in [Ends(l) -> Seq(Nat)]
    BY Empty
  <2>2. [y \in Ends(l) |-> FALSE] \in [Ends(l) -> BOOLEAN]
    OBVIOUS
  <2>3. x \in Ends(l)
    BY <1>2 DEF Heard, LinksOf
  <2>4. QED BY <1>2, <2>1, <2>2, <2>3 DEF Bidis
<1>5. bidis' = [bidis EXCEPT ![l] = Append(@, N)]
  BY <1>1, <1>2 DEF OpenBidi
<1> HIDE DEF N
<1>6. PICK n \in Nat : n = Len(bidis[l])
  BY <1>2
<1>7. /\ DOMAIN bidis[l] = 1 .. n /\ DOMAIN bidis'[l] = 1 .. n + 1
      /\ bidis'[l][n + 1] = N
      /\ \A i \in DOMAIN bidis[l] : bidis'[l][i] = bidis[l][i]
      /\ \A m \in Links : m # l => bidis'[m] = bidis[m]
  BY <1>3, <1>4, <1>5, <1>6, BidiOpened
<1>8. Grown
  <2>1. ASSUME NEW m \in Links
        PROVE  /\ DOMAIN bidis[m] \subseteq DOMAIN bidis'[m]
               /\ \A i \in DOMAIN bidis[m] : bidis'[m][i] = bidis[m][i]
    <3>1. CASE m = l
      BY <1>6, <1>7, <3>1
    <3>2. CASE m # l
      BY <1>7, <3>2
    <3>3. QED BY <3>1, <3>2
  <2>2. QED BY <2>1 DEF Grown, Alike
<1>9. Untold
  BY <1>3 DEF Untold
<1>10. WrittenOnStreams'
  BY <1>3, <1>8, <1>9, WrittenKept
<1>11. ReliableInOrder'
  BY <1>3, <1>9, OrderKept
<1>12. ASSUME NEW i \in DOMAIN bidis[l], bidis[l][i].stream = s PROVE FALSE
  <2>1. i \in DOMAIN bidis'[l] /\ n + 1 \in DOMAIN bidis'[l] /\ i # n + 1
    BY <1>6, <1>7
  <2>2. bidis'[l][i].stream = bidis'[l][n + 1].stream
    BY <1>4, <1>7, <1>12
  <2>3. PICK j \in DOMAIN bidis'[l] : j = n + 1
    BY <2>1
  <2>4. i = j
    BY <2>1, <2>2, <2>3 DEF OnceInv, OpenedOnce
  <2>5. QED BY <2>1, <2>3, <2>4
<1>13. ASSUME NEW y \in Nodes PROVE Written(y, l, s) = {}
  <2>1. ASSUME NEW m \in written[y], m.conn = l, m.stream = s PROVE FALSE
    <3>1. PICK i \in Nat : IsSendStream(m.conn, m.stream, i)
      BY <2>1 DEF WrittenOnStreams
    <3>2. QED BY <1>12, <2>1, <3>1 DEF IsSendStream
  <2>2. QED BY <2>1 DEF Written
<1>14. ASSUME NEW y \in Nodes PROVE Came(y, l, s) = {}
  <2>1. ASSUME NEW e \in ToSet(events[y]), IsMessage(e, l, s) PROVE FALSE
    <3>1. HasEnd(y, e.conn, e.stream)
      BY <1>2, <2>1 DEF EndInv, EventsHaveEnds, IsMessage
    <3>2. QED BY <1>12, <2>1, <3>1 DEF HasEnd, IsMessage
  <2>2. DOMAIN events[y] = 1 .. Len(events[y])
    BY <1>3 DEF TypedEvents
  <2>3. QED BY <2>1, <2>2 DEF Came, Received, ToSet
<1>15. ASSUME NEW m \in Links, NEW j \in DOMAIN bidis'[m], NEW z \in Ends(m)
       PROVE  FrameOrder(m, j, z)'
  <2>1. z \in Nodes /\ Peer(m, z) \in Nodes
    BY EndsOfLink
  <2>2. CASE j \in DOMAIN bidis[m]
    <3>1. bidis'[m][j] = bidis[m][j]
      BY <1>7, <2>2
    <3>2. \A t : /\ Came(z, m, t)' = Came(z, m, t)
                 /\ \A v : Written(v, m, t)' = Written(v, m, t)
      BY <1>3 DEF Came, Received, IsMessage, Written
    <3>3. QED BY <1>3, <2>2, <3>1, <3>2, FrameOrderKept
  <2>3. CASE j \notin DOMAIN bidis[m]
    <3>1. m = l /\ j = n + 1
      BY <1>6, <1>7, <2>3
    <3>2. bidis'[m][j].wire[z] = <<>> /\ bidis'[m][j].stream = s
      BY <1>4, <1>7, <3>1
    <3>3. PICK y \in Nodes : y = Peer(m, z)
      BY <2>1
    <3>4. Came(z, l, s)' = {} /\ Written(y, l, s)' = {}
      <4>1. Came(z, l, s)' = Came(z, l, s) /\ Written(y, l, s)' = Written(y, l, s)
        BY <1>3 DEF Came, Received, IsMessage, Written
      <4>2. QED BY <1>13, <1>14, <2>1, <4>1
    <3>5. /\ Came(z, m, bidis[m][j].stream)' = Came(z, l, s)'
          /\ Written(Peer(m, z), m, bidis[m][j].stream)' = Written(y, l, s)'
      BY <3>1, <3>2, <3>3 DEF Came, Received, Written, Peer, Ends
    <3>6. QED BY <3>2, <3>4, <3>5, NothingInOrder DEF FrameOrder
  <2>4. QED BY <2>2, <2>3
<1>16. FramesInOrder'
  BY <1>15 DEF FramesInOrder, FrameOrder
<1>17. QED BY <1>10, <1>11, <1>16

-----------------------------------------------------------------------------
(* The order of the commands.                                              *)

\* A queue from which at most the first command is taken.
LEMMA StillRising ==
  ASSUME NEW q \in Seq(Cmds), q # <<>>, Rising(q)
  PROVE  /\ Rising(Tail(q))
         /\ \A c \in ToSet(Tail(q)) : Head(q).op = "Send" /\ c.op = "Send" => Head(q).data < c.data
<1>1. /\ Len(q) \in Nat \ {0} /\ DOMAIN q = 1 .. Len(q) /\ DOMAIN Tail(q) = 1 .. Len(q) - 1
      /\ Head(q) = q[1]
      /\ \A i \in 1 .. Len(q) - 1 : Tail(q)[i] = q[i + 1]
  BY Taken
<1>2. ASSUME NEW i \in 1 .. Len(q) - 1, NEW j \in 1 .. Len(q) - 1, i < j,
             Tail(q)[i].op = "Send", Tail(q)[j].op = "Send"
      PROVE  Tail(q)[i].data < Tail(q)[j].data
  <2>1. i + 1 \in DOMAIN q /\ j + 1 \in DOMAIN q /\ i + 1 < j + 1
    BY <1>1, <1>2
  <2>2. q[i + 1].op = "Send" /\ q[j + 1].op = "Send"
    BY <1>1, <1>2
  <2>3. q[i + 1].data < q[j + 1].data
    BY <2>1, <2>2 DEF Rising
  <2>4. QED BY <1>1, <2>3
<1>3. ASSUME NEW c \in ToSet(Tail(q)), Head(q).op = "Send", c.op = "Send"
      PROVE  Head(q).data < c.data
  <2>1. PICK i \in 1 .. Len(q) - 1 : c = Tail(q)[i]
    BY <1>1 DEF ToSet
  <2>2. i + 1 \in DOMAIN q /\ 1 \in DOMAIN q /\ 1 < i + 1 /\ q[i + 1] = c
    BY <1>1, <2>1
  <2>3. q[1].op = "Send" /\ q[i + 1].op = "Send"
    BY <1>1, <1>3, <2>2
  <2>4. q[1].data < q[i + 1].data
    BY <2>2, <2>3 DEF Rising
  <2>5. QED BY <1>1, <2>2, <2>4
<1>4. QED BY <1>1, <1>2, <1>3 DEF Rising

\* A queue to which a later Send is added, or another command.
LEMMA RisingMore ==
  ASSUME NEW q \in Seq(Cmds), NEW c \in Cmds, Rising(q),
         \A b \in ToSet(q) : b.op = "Send" /\ c.op = "Send" => b.data < c.data
  PROVE  Rising(Append(q, c))
<1>1. /\ Len(q) \in Nat /\ DOMAIN q = 1 .. Len(q) /\ DOMAIN Append(q, c) = 1 .. Len(q) + 1
      /\ \A i \in 1 .. Len(q) : Append(q, c)[i] = q[i]
      /\ Append(q, c)[Len(q) + 1] = c
  BY Put
<1>2. PICK p : p = Append(q, c)
  OBVIOUS
<1>3. ASSUME NEW i \in 1 .. Len(q) + 1, NEW j \in 1 .. Len(q) + 1, i < j,
             p[i].op = "Send", p[j].op = "Send"
      PROVE  p[i].data < p[j].data
  <2>1. i \in 1 .. Len(q) /\ p[i] = q[i]
    BY <1>1, <1>2, <1>3
  <2>2. CASE j \in 1 .. Len(q)
    <3>1. p[j] = q[j]
      BY <1>1, <1>2, <2>2
    <3>2. QED BY <1>1, <1>3, <2>1, <2>2, <3>1 DEF Rising
  <2>3. CASE j = Len(q) + 1
    <3>1. p[j] = c /\ q[i] \in ToSet(q)
      BY <1>1, <1>2, <2>1, <2>3 DEF ToSet
    <3>2. QED BY <1>3, <2>1, <3>1
  <2>4. QED BY <1>1, <2>2, <2>3
<1>4. QED BY <1>1, <1>2, <1>3 DEF Rising

\* A queue after a step in which no command is issued.
LEMMA QueueAdvanced ==
  ASSUME cmd_rx \in [Nodes -> Seq(Cmds)], Advanced, NEW x \in Nodes
  PROVE  /\ ToSet(cmd_rx'[x]) \subseteq ToSet(cmd_rx[x])
         /\ Rising(cmd_rx[x]) => Rising(cmd_rx'[x])
         /\ \A T : Once(cmd_rx[x], T) => Once(cmd_rx'[x], T)
<1>1. PICK q \in Seq(Cmds) : q = cmd_rx[x]
  OBVIOUS
<1>2. PICK p : p = cmd_rx'[x]
  OBVIOUS
<1>3. p = q \/ (q # <<>> /\ p = Tail(q))
  BY <1>1, <1>2 DEF Advanced
<1>4. CASE q # <<>> /\ p = Tail(q)
  <2>1. ToSet(p) \subseteq ToSet(q)
    BY <1>4, Taken
  <2>2. Rising(q) => Rising(p)
    BY <1>4, StillRising
  <2>3. ASSUME NEW T, Once(q, T) PROVE Once(p, T)
    BY <1>4, <2>3, OnceLess
  <2>4. QED BY <1>1, <1>2, <2>1, <2>2, <2>3
<1>5. QED BY <1>1, <1>2, <1>3, <1>4

\* What the game asks for in a step, if anything.
Asks(x, c) ==
  /\ c \in Cmds /\ c.op # "Connect" /\ Issue(x, c) /\ UNCHANGED <<link, awaiting, written>>
  /\ IF c.op = "Send"
     THEN sends[x] < MaxSends /\ c.data = sends[x] + 1 /\ sends' = [sends EXCEPT ![x] = @ + 1]
     ELSE UNCHANGED sends

\* A step of the game issues one command, or none.
LEMMA GameAsks ==
  ASSUME BaseInv, NEW x \in Nodes, Game(x)
  PROVE  (Advanced /\ UNCHANGED sends) \/ \E c \in Cmds : Asks(x, c)
<1>1. UNCHANGED <<link, awaiting, written>>
  BY DEF Game, Poll, AskShutdown, AskCreate, AskClose, AskSend, loop, wire, history
<1>2. \A l \in LinksOf(x) : l \in Links /\ \A y \in Ends(l) : Creates[y] \subseteq Used
  BY EndsOfLink DEF LinksOf, Used
<1>3. CASE Poll(x)
  BY <1>3 DEF Poll, Advanced
<1>4. CASE AskShutdown(x)
  <2>1. PICK c : c = [op |-> "Shutdown"]
    OBVIOUS
  <2>2. c \in Cmds /\ c.op = "Shutdown"
    BY <2>1 DEF Cmds
  <2>3. Issue(x, c) /\ UNCHANGED sends
    BY <1>4, <2>1 DEF AskShutdown, game
  <2>4. QED BY <1>1, <2>2, <2>3 DEF Asks
<1>5. ASSUME NEW l \in LinksOf(x), NEW s \in Creates[x], AskCreate(x, l, s) \/ AskClose(x, l, s)
      PROVE  \E c \in Cmds : Asks(x, c)
  <2>1. PICK o \in {"CreateStream", "CloseStream"} :
          Issue(x, [op |-> o, conn |-> l, stream |-> s]) /\ UNCHANGED sends
    BY <1>5 DEF AskCreate, AskClose
  <2>2. PICK c : c = [op |-> o, conn |-> l, stream |-> s]
    OBVIOUS
  <2>3. s \in Used
    BY DEF Used
  <2>4. c \in Cmds /\ c.op = o /\ o # "Send" /\ o # "Connect"
    BY <1>2, <2>2, <2>3 DEF Cmds
  <2>5. QED BY <1>1, <2>1, <2>2, <2>4 DEF Asks
<1>6. ASSUME NEW l \in LinksOf(x), NEW s \in UNION {Creates[y] : y \in Ends(l)}, AskSend(x, l, s)
      PROVE  \E c \in Cmds : Asks(x, c)
  <2>1. sends[x] \in Nat
    BY DEF BaseInv, Typed, TypedGame
  <2>2. PICK c : c = [op |-> "Send", conn |-> l, stream |-> s, data |-> sends[x] + 1]
    OBVIOUS
  <2>3. s \in Used
    BY <1>2
  <2>4. c \in Cmds /\ c.op = "Send" /\ c.data = sends[x] + 1
    BY <1>2, <2>1, <2>2, <2>3 DEF Cmds
  <2>5. Issue(x, c) /\ sends[x] < MaxSends /\ sends' = [sends EXCEPT ![x] = @ + 1]
    BY <1>6, <2>2 DEF AskSend
  <2>6. QED BY <1>1, <2>4, <2>5 DEF Asks
<1>7. QED BY <1>3, <1>4, <1>5, <1>6 DEF Game

\* In a step a game asks for something, or the queues advance.
LEMMA QueueSteps ==
  ASSUME BaseInv, [Next]_vars
  PROVE  (Advanced /\ UNCHANGED sends) \/ \E x \in Nodes, c \in Cmds : Asks(x, c)
<1>1. ASSUME NEW x \in Nodes, Commands(x) PROVE Advanced /\ UNCHANGED sends
  <2>1. UNCHANGED sends
    <3>1. CASE Bind(x) \/ Connect(x) \/ CreateReliable(x) \/ CreateOther(x) \/ CloseStream(x)
      BY <3>1 DEF Bind, Connect, CreateReliable, CreateOther, CloseStream, game
    <3>2. CASE Shutdown(x) \/ BindFails(x) \/ SendUnknown(x) \/ SendStreamless(x) \/ SendReliable(x) \/ SendDatagram(x)
      BY <3>2 DEF Shutdown, BindFails, SendUnknown, SendStreamless, SendReliable, SendDatagram, game
    <3>3. QED BY <1>1, <3>1, <3>2 DEF Commands
  <2>2. \E op : TakeCommand(x, op)
    BY <1>1 DEF Commands, Bind, Connect, CreateReliable, CreateOther, CloseStream, Shutdown, BindFails,
       SendUnknown, SendStreamless, SendReliable, SendDatagram
  <2>3. Advanced
    BY <2>2, CommandTaken DEF Advanced
  <2>4. QED BY <2>1, <2>3
<1>2. ASSUME NEW x \in Nodes, RegisterConnection(x) \/ RegisterStream(x) \/ Awaited(x) \/ Accept(x)
      PROVE  UNCHANGED <<cmd_rx, sends>>
  <2>1. CASE RegisterConnection(x) \/ RegisterStream(x)
    BY <2>1 DEF RegisterConnection, RegisterStream, RegisterAs, game
  <2>2. CASE Awaited(x)
    BY <2>2 DEF Awaited, ConnectCompletes, ConnectFails, OpenCompletes, OpenBidi, OpenFails, game
  <2>3. CASE Accept(x)
    BY <2>3 DEF Accept, AcceptRegister, AcceptConnected, AcceptFails, game
  <2>4. QED BY <1>2, <2>1, <2>2, <2>3
<1>3. ASSUME NEW x \in Nodes, NEW l \in LinksOf(x), DatagramReader(x, l) \/ StreamReader(x, l)
      PROVE  UNCHANGED <<cmd_rx, sends>>
  BY <1>3 DEF DatagramReader, ReadDatagram, AnnounceDatagram, StreamReader, AcceptStream, ReadStream, game
<1>4. ASSUME NEW l \in Links, LinkLost(l) \/ DatagramLost(l) PROVE UNCHANGED <<cmd_rx, sends>>
  BY <1>4 DEF LinkLost, DatagramLost, game
<1>5. UNCHANGED vars => UNCHANGED <<cmd_rx, sends>>
  BY DEF vars, game
<1>6. UNCHANGED <<cmd_rx, sends>> => Advanced /\ UNCHANGED sends
  BY DEF Advanced
<1>7. QED BY <1>1, <1>2, <1>3, <1>4, <1>5, <1>6, GameAsks DEF Next

\* The Sends stay numbered when none is issued and nothing is written.
LEMMA NumbersKept ==
  ASSUME BaseInv, SendsNumbered, Advanced, UNCHANGED <<sends, written>>
  PROVE  SendsNumbered'
<1>1. cmd_rx \in [Nodes -> Seq(Cmds)]
  BY DEF BaseInv, Typed
<1>2. \A x \in Nodes : ToSet(cmd_rx'[x]) \subseteq ToSet(cmd_rx[x]) /\ Rising(cmd_rx'[x])
  BY <1>1, QueueAdvanced DEF SendsNumbered
<1>3. QED BY <1>2 DEF SendsNumbered, Rising

\* A Send that is issued has a greater number than all before it.
LEMMA NumbersAsked ==
  ASSUME BaseInv, SendsNumbered, NEW x \in Nodes, NEW c \in Cmds, Asks(x, c)
  PROVE  SendsNumbered'
<1>1. cmd_rx \in [Nodes -> Seq(Cmds)] /\ sends \in [Nodes -> Nat] /\ Issue(x, c) /\ UNCHANGED written
  BY DEF BaseInv, Typed, TypedGame, Asks
<1>2. /\ ToSet(cmd_rx'[x]) = ToSet(cmd_rx[x]) \cup {c}
      /\ cmd_rx'[x] = Append(cmd_rx[x], c)
      /\ \A y \in Nodes : y # x => cmd_rx'[y] = cmd_rx[y]
  BY <1>1, Issued
<1>3. /\ c.op = "Send" => c.data = sends[x] + 1 /\ sends'[x] = sends[x] + 1
      /\ \A y \in Nodes : sends[y] \in Nat /\ sends'[y] \in Nat /\ sends[y] <= sends'[y]
  <2>1. CASE c.op = "Send"
    <3>1. c.data = sends[x] + 1 /\ sends' = [sends EXCEPT ![x] = @ + 1]
      BY <2>1 DEF Asks
    <3>2. QED BY <1>1, <3>1
  <2>2. CASE c.op # "Send"
    <3>1. UNCHANGED sends
      BY <2>2 DEF Asks
    <3>2. QED BY <1>1, <2>2, <3>1
  <2>3. QED BY <2>1, <2>2
<1>4. PICK q \in Seq(Cmds) : q = cmd_rx[x]
  BY <1>1
<1>5. \A b \in ToSet(q) : b \in Cmds /\ (b.op = "Send" => b.data \in Nat /\ b.data <= sends[x])
  BY <1>4, Elements, StreamCommands DEF SendsNumbered
<1>6. Rising(Append(q, c))
  <2>1. \A b \in ToSet(q) : b.op = "Send" /\ c.op = "Send" => b.data < c.data
    BY <1>3, <1>5
  <2>2. QED BY <1>4, <2>1, RisingMore DEF SendsNumbered
<1>7. ASSUME NEW y \in Nodes
      PROVE  /\ Rising(cmd_rx'[y])
             /\ \A b \in ToSet(cmd_rx'[y]) : b.op = "Send" =>
                  b.data <= sends'[y] /\ \A m \in written[y] : m.data < b.data
             /\ \A m \in written[y] : m.data \in Nat /\ m.data <= sends'[y]
  <2>1. \A m \in written[y] : m.data \in Nat /\ m.data <= sends[y] /\ m.data <= sends'[y]
    BY <1>3 DEF SendsNumbered
  <2>2. \A b \in ToSet(cmd_rx[y]) : b.op = "Send" =>
          b.data \in Nat /\ b.data <= sends[y] /\ \A m \in written[y] : m.data < b.data
    <3>1. \A b \in ToSet(cmd_rx[y]) : b \in Cmds
      BY <1>1, Elements
    <3>2. QED BY <3>1, StreamCommands DEF SendsNumbered
  <2>3. \A b \in ToSet(cmd_rx[y]) : b.op = "Send" =>
          b.data <= sends'[y] /\ \A m \in written[y] : m.data < b.data
    BY <1>3, <2>2
  <2>4. CASE y # x
    BY <1>2, <2>1, <2>3, <2>4 DEF SendsNumbered
  <2>5. CASE y = x
    <3>1. c.op = "Send" => c.data <= sends'[y] /\ \A m \in written[y] : m.data < c.data
      BY <1>3, <2>1, <2>5
    <3>2. QED BY <1>2, <1>4, <1>6, <2>1, <2>3, <2>5, <3>1
  <2>6. QED BY <2>4, <2>5
<1>8. QED BY <1>1, <1>7 DEF SendsNumbered, Rising

\* A frame that is written has a smaller number than those still to be.
LEMMA NumbersWritten ==
  ASSUME BaseInv, SendsNumbered, WrittenOnStreams, NEW x \in Nodes, Sending(x)
  PROVE  SendsNumbered'
<1>1. PICK l \in Links, s \in Used, d \in Nat, i \in Nat :
           /\ x \in Ends(l) /\ IsSendStream(l, s, i) /\ link[l] = "up"
           /\ Command(x).op = "Send" /\ Command(x).data = d
           /\ \A m \in written[x] : m.data \in Nat /\ m.data < d
           /\ \A q : q = bidis[l][i].wire[Peer(l, x)] => Rewired(l, i, Peer(l, x), Append(q, d))
           /\ DOMAIN written = Nodes
           /\ written' = [written EXCEPT ![x] = written[x] \cup {MessageOn(l, s, d)}]
           /\ UNCHANGED <<events, link, sends>>
  BY Writing
<1>2. /\ cmd_rx \in [Nodes -> Seq(Cmds)] /\ cmd_rx[x] # <<>>
      /\ cmd_rx'[x] = Tail(cmd_rx[x]) /\ \A y \in Nodes : y # x => cmd_rx'[y] = cmd_rx[y]
      /\ Command(x) \in ToSet(cmd_rx[x])
  BY CommandTaken DEF Sending, SendReliable, BaseInv, Typed
<1>3. Advanced
  BY <1>2 DEF Advanced
<1>4. \A y \in Nodes : ToSet(cmd_rx'[y]) \subseteq ToSet(cmd_rx[y]) /\ Rising(cmd_rx'[y])
  BY <1>2, <1>3, QueueAdvanced DEF SendsNumbered
<1>5. PICK q \in Seq(Cmds) : q = cmd_rx[x]
  BY <1>2
<1>6. \A c \in ToSet(Tail(q)) : c.op = "Send" => d < c.data
  <2>1. Rising(q) /\ q # <<>>
    BY <1>2, <1>5 DEF SendsNumbered
  <2>2. Head(q).op = "Send" /\ Head(q).data = d
    BY <1>1, <1>5 DEF Command
  <2>3. QED BY <2>1, <2>2, StillRising
<1>7. d <= sends[x]
  BY <1>1, <1>2 DEF SendsNumbered
<1>8. PICK f : f = MessageOn(l, s, d)
  OBVIOUS
<1>9. /\ f.data = d /\ written'[x] = written[x] \cup {f}
      /\ \A y \in Nodes : y # x => written'[y] = written[y]
  BY <1>1, <1>8 DEF MessageOn
<1>10. ASSUME NEW y \in Nodes
       PROVE  /\ Rising(cmd_rx'[y])
              /\ \A c \in ToSet(cmd_rx'[y]) : c.op = "Send" =>
                   c.data <= sends[y] /\ \A m \in written'[y] : m.data < c.data
              /\ \A m \in written'[y] : m.data \in Nat /\ m.data <= sends[y]
  <2>1. CASE y # x
    BY <1>4, <1>9, <2>1 DEF SendsNumbered
  <2>2. CASE y = x
    <3>1. \A c \in ToSet(cmd_rx'[y]) : c.op = "Send" =>
            c.data <= sends[y] /\ \A m \in written[y] : m.data < c.data
      BY <1>4 DEF SendsNumbered
    <3>2. \A c \in ToSet(cmd_rx'[y]) : c.op = "Send" => f.data < c.data
      BY <1>2, <1>5, <1>6, <1>9, <2>2
    <3>3. \A m \in written[y] : m.data \in Nat /\ m.data <= sends[y]
      BY DEF SendsNumbered
    <3>4. QED BY <1>4, <1>7, <1>9, <2>2, <3>1, <3>2, <3>3
  <2>3. QED BY <2>1, <2>2
<1>11. QED BY <1>1, <1>10 DEF SendsNumbered, Rising

-----------------------------------------------------------------------------
(* A connection is made once.                                              *)

\* What is to be connected is to be once still.
LEMMA ConnectsQueued ==
  ASSUME BaseInv, ConnectsFresh, [Next]_vars, NEW x \in Nodes
  PROVE  /\ Once(cmd_rx'[x], Connections)
         /\ \A c \in ToSet(cmd_rx'[x]) : c.op = "Connect" => c \in ToSet(cmd_rx[x])
<1>1. cmd_rx \in [Nodes -> Seq(Cmds)] /\ Once(cmd_rx[x], Connections)
  BY DEF BaseInv, Typed, ConnectsFresh
<1>2. CASE Advanced
  BY <1>1, <1>2, QueueAdvanced
<1>3. ASSUME NEW y \in Nodes, NEW c \in Cmds, Asks(y, c)
      PROVE  /\ Once(cmd_rx'[x], Connections)
             /\ \A b \in ToSet(cmd_rx'[x]) : b.op = "Connect" => b \in ToSet(cmd_rx[x])
  <2>1. /\ ToSet(cmd_rx'[y]) = ToSet(cmd_rx[y]) \cup {c}
        /\ cmd_rx'[y] = Append(cmd_rx[y], c)
        /\ \A z \in Nodes : z # y => cmd_rx'[z] = cmd_rx[z]
        /\ c.op # "Connect"
    BY <1>1, <1>3, Issued DEF Asks
  <2>2. CASE x = y
    <3>1. PICK q \in Seq(Cmds) : q = cmd_rx[x]
      BY <1>1
    <3>2. Once(Append(q, c), Connections)
      BY <1>1, <2>1, <3>1, OnceMore DEF Connections
    <3>3. QED BY <2>1, <2>2, <3>1, <3>2
  <2>3. CASE x # y
    BY <1>1, <2>1, <2>3
  <2>4. QED BY <2>2, <2>3
<1>4. QED BY <1>2, <1>3, QueueSteps

\* A link that is to be made, and a loop that makes one, stay what they are.
Unmade ==
  /\ \A l \in Links : link[l] \in {"new", "dialing"} => link'[l] = link[l]
  /\ \A y \in Nodes : awaiting'[y] = awaiting[y] \/ awaiting'[y].on # "handshake"

\* Only a link that is up is cut.
LEMMA CutUnmade ==
  ASSUME NEW D, Cut(D), \A l \in D : link[l] = "up", UNCHANGED awaiting
  PROVE  Unmade
BY DEF Cut, Unmade

\* But for the making of a connection, no step touches one that is to be made.
LEMMA UnmadeSteps ==
  ASSUME BaseInv, [Next]_vars
  PROVE  Unmade \/ \E x \in Nodes : Connect(x) \/ ConnectCompletes(x)
<1>1. awaiting \in [Nodes -> Awaitings]
  BY DEF BaseInv, Typed, TypedLoop
<1>2. UNCHANGED <<link, awaiting>> => Unmade
  BY DEF Unmade
<1>3. ASSUME NEW x \in Nodes, Shutdown(x) \/ BindFails(x) \/ ConnectFails(x) \/ OpenFails(x) PROVE Unmade
  <2>1. RunEnds(x) /\ UNCHANGED awaiting
    BY <1>3 DEF Shutdown, BindFails, ConnectFails, OpenFails
  <2>2. Cut({l \in LinksOf(x) : link[l] = "up"})
    BY <2>1 DEF RunEnds
  <2>3. QED BY <2>1, <2>2, CutUnmade
<1>4. ASSUME NEW l \in Links, LinkLost(l) PROVE Unmade
  BY <1>4, CutUnmade DEF LinkLost, loop
<1>5. ASSUME NEW x \in Nodes, CreateReliable(x) PROVE Unmade
  <2>1. /\ UNCHANGED link
        /\ \/ UNCHANGED awaiting
           \/ \E l, s : awaiting' = [awaiting EXCEPT ![x] = [on |-> "stream", link |-> l, stream |-> s]]
    BY <1>5 DEF CreateReliable, wire
  <2>2. QED BY <1>1, <2>1 DEF Unmade
<1>6. ASSUME NEW x \in Nodes, OpenCompletes(x) PROVE Unmade
  <2>1. UNCHANGED link /\ awaiting' = [awaiting EXCEPT ![x] = Idle]
    BY <1>6 DEF OpenCompletes, OpenBidi
  <2>2. QED BY <1>1, <2>1 DEF Unmade, Idle
<1>7. ASSUME NEW x \in Nodes,
             \/ Bind(x) \/ CreateOther(x) \/ CloseStream(x) \/ SendUnknown(x) \/ SendStreamless(x)
             \/ SendReliable(x) \/ SendDatagram(x)
      PROVE  UNCHANGED <<link, awaiting>>
  <2>1. CASE Bind(x) \/ CreateOther(x) \/ CloseStream(x)
    BY <2>1 DEF Bind, CreateOther, CloseStream, loop, wire
  <2>2. CASE SendUnknown(x) \/ SendStreamless(x) \/ SendReliable(x) \/ SendDatagram(x)
    BY <2>2 DEF SendUnknown, SendStreamless, SendReliable, SendDatagram, loop, wire
  <2>3. QED BY <1>7, <2>1, <2>2
<1>8. ASSUME NEW x \in Nodes, Game(x) \/ RegisterConnection(x) \/ RegisterStream(x) \/ Accept(x)
      PROVE  UNCHANGED <<link, awaiting>>
  <2>1. CASE Game(x)
    BY <2>1 DEF Game, Poll, AskShutdown, AskCreate, AskClose, AskSend, loop, wire
  <2>2. CASE RegisterConnection(x) \/ RegisterStream(x)
    BY <2>2 DEF RegisterConnection, RegisterStream, RegisterAs, wire
  <2>3. CASE Accept(x)
    BY <2>3 DEF Accept, AcceptRegister, AcceptConnected, AcceptFails, loop, wire
  <2>4. QED BY <1>8, <2>1, <2>2, <2>3
<1>9. ASSUME NEW x \in Nodes, NEW l \in LinksOf(x), DatagramReader(x, l) \/ StreamReader(x, l)
      PROVE  UNCHANGED <<link, awaiting>>
  BY <1>9 DEF DatagramReader, ReadDatagram, AnnounceDatagram, StreamReader, AcceptStream, ReadStream,
     loop, wire
<1>10. ASSUME UNCHANGED vars \/ \E l \in Links : DatagramLost(l) PROVE UNCHANGED <<link, awaiting>>
  BY <1>10 DEF DatagramLost, vars, loop, wire
<1>11. ASSUME NEW x \in Nodes, Commands(x) \/ Awaited(x)
       PROVE  Unmade \/ Connect(x) \/ ConnectCompletes(x)
  BY <1>2, <1>3, <1>5, <1>6, <1>7, <1>11 DEF Commands, Awaited
<1>12. QED BY <1>2, <1>4, <1>8, <1>9, <1>10, <1>11 DEF Next

\* Each connection is made once.
LEMMA ConnectsKept ==
  ASSUME BaseInv, ConnectsFresh, [Next]_vars
  PROVE  ConnectsFresh'
<1>1. /\ cmd_rx \in [Nodes -> Seq(Cmds)] /\ awaiting \in [Nodes -> Awaitings]
      /\ link \in [Links -> {"new", "dialing", "up", "down"}]
  BY DEF BaseInv, Typed, TypedLoop, TypedWire
<1>2. \A x \in Nodes :
        /\ Once(cmd_rx'[x], Connections)
        /\ \A c \in ToSet(cmd_rx'[x]) : c.op = "Connect" => c \in ToSet(cmd_rx[x])
  BY ConnectsQueued
<1>3. \A x \in Nodes : \A c \in ToSet(cmd_rx[x]) : c.op = "Connect" =>
        c \in Connections /\ c.conn \in Links /\ Dialer[c.conn] = x /\ link[c.conn] = "new"
  <2>1. \A x \in Nodes : \A c \in ToSet(cmd_rx[x]) : c \in Cmds
    BY <1>1, Elements
  <2>2. QED BY <2>1, StreamCommands DEF BaseInv, HeardInv, CommandsHeard, ConnectsFresh, Connections
<1>4. \A x \in Nodes : awaiting[x].on = "handshake" =>
        /\ awaiting[x].link \in Links /\ Dialer[awaiting[x].link] = x
        /\ link[awaiting[x].link] = "dialing"
  <2>1. \A x \in Nodes : awaiting[x].on = "handshake" => awaiting[x].link \in Links
    BY <1>1 DEF Awaitings, Idle
  <2>2. QED BY <2>1 DEF BaseInv, HeardInv, AwaitedHeard, ConnectsFresh
<1>5. SUFFICES ASSUME NEW x \in Nodes
      PROVE  /\ \A c \in ToSet(cmd_rx'[x]) : c.op = "Connect" => link'[c.conn] = "new"
             /\ awaiting'[x].on = "handshake" => link'[awaiting'[x].link] = "dialing"
  BY <1>2 DEF ConnectsFresh
<1>6. CASE Unmade
  BY <1>2, <1>3, <1>4, <1>6 DEF Unmade
<1>7. ASSUME NEW y \in Nodes, Connect(y)
      PROVE  /\ \A c \in ToSet(cmd_rx'[x]) : c.op = "Connect" => link'[c.conn] = "new"
             /\ awaiting'[x].on = "handshake" => link'[awaiting'[x].link] = "dialing"
  <2>1. PICK b \in Cmds : b = Command(y) /\ b \in ToSet(cmd_rx[y]) /\ b.op = "Connect"
    BY <1>7, CommandTaken DEF Connect
  <2>2. PICK l \in Links : l = b.conn
    BY <1>3, <2>1
  <2>3. Dialer[l] = y /\ link[l] = "new" /\ b \in Connections
    BY <1>3, <2>1, <2>2
  <2>4. /\ link' = [link EXCEPT ![l] = "dialing"]
        /\ awaiting' = [awaiting EXCEPT ![y] = [on |-> "handshake", link |-> l]]
    BY <1>7, <2>1, <2>2 DEF Connect
  <2>5. PICK q \in Seq(Cmds) : q = cmd_rx[y] /\ q # <<>> /\ cmd_rx'[y] = Tail(q) /\ Head(q) = b
    BY <1>7, <2>1, CommandTaken DEF Connect, Command
  <2>6. b \notin ToSet(cmd_rx'[y])
    BY <2>3, <2>5, OnceLess DEF ConnectsFresh
  <2>7. ASSUME NEW c \in ToSet(cmd_rx'[x]), c.op = "Connect" PROVE link'[c.conn] = "new"
    <3>1. c \in ToSet(cmd_rx[x]) /\ c.conn \in Links /\ Dialer[c.conn] = x /\ link[c.conn] = "new"
          /\ c \in Connections
      BY <1>2, <1>3, <2>7
    <3>2. ASSUME c.conn = l PROVE FALSE
      <4>1. x = y
        BY <2>3, <3>1, <3>2
      <4>2. c = b
        BY <2>1, <2>2, <2>7, <3>1, <3>2 DEF Cmds, Connections
      <4>3. QED BY <2>6, <2>7, <4>1, <4>2
    <3>3. QED BY <1>1, <2>4, <3>1, <3>2
  <2>8. ASSUME awaiting'[x].on = "handshake" PROVE link'[awaiting'[x].link] = "dialing"
    <3>1. CASE x = y
      BY <1>1, <2>4, <3>1
    <3>2. CASE x # y
      BY <1>1, <1>4, <2>3, <2>4, <2>8, <3>2
    <3>3. QED BY <3>1, <3>2
  <2>9. QED BY <2>7, <2>8
<1>8. ASSUME NEW y \in Nodes, ConnectCompletes(y)
      PROVE  /\ \A c \in ToSet(cmd_rx'[x]) : c.op = "Connect" => link'[c.conn] = "new"
             /\ awaiting'[x].on = "handshake" => link'[awaiting'[x].link] = "dialing"
  <2>1. PICK l : l = awaiting[y].link
    OBVIOUS
  <2>2. l \in Links /\ Dialer[l] = y /\ link[l] = "dialing"
    BY <1>4, <1>8, <2>1 DEF ConnectCompletes
  <2>3. link' = [link EXCEPT ![l] = "up"] /\ awaiting' = [awaiting EXCEPT ![y] = Idle]
    BY <1>8, <2>1 DEF ConnectCompletes
  <2>4. \A c \in ToSet(cmd_rx'[x]) : c.op = "Connect" => link'[c.conn] = "new"
    BY <1>1, <1>2, <1>3, <2>2, <2>3
  <2>5. ASSUME awaiting'[x].on = "handshake" PROVE link'[awaiting'[x].link] = "dialing"
    <3>1. x # y
      BY <1>1, <2>3, <2>5 DEF Idle
    <3>2. awaiting'[x] = awaiting[x]
      BY <1>1, <2>3, <3>1
    <3>3. awaiting[x].link # l
      BY <1>4, <2>2, <2>5, <3>1, <3>2
    <3>4. QED BY <1>1, <1>4, <2>3, <2>5, <3>2, <3>3
  <2>6. QED BY <2>4, <2>5
<1>9. QED BY <1>6, <1>7, <1>8, UnmadeSteps

\* Whatever the step, the Sends stay numbered.
LEMMA NumbersStay ==
  ASSUME BaseInv, ConnectsFresh, SendsNumbered, WrittenOnStreams, [Next]_vars
  PROVE  SendsNumbered'
<1>1. CASE \E x \in Nodes, c \in Cmds : Asks(x, c)
  BY <1>1, NumbersAsked
<1>2. CASE Advanced /\ UNCHANGED sends
  <2>1. CASE UNCHANGED written
    BY <1>2, <2>1, NumbersKept
  <2>2. ASSUME NEW x \in Nodes, Sending(x) PROVE SendsNumbered'
    BY <2>2, NumbersWritten
  <2>3. ASSUME NEW x \in Nodes, OpenCompletes(x) PROVE UNCHANGED written
    BY <2>3 DEF OpenCompletes, OpenBidi, history
  <2>4. ASSUME NEW x \in Nodes, NEW l \in LinksOf(x), ReadStream(x, l) PROVE UNCHANGED written
    BY <2>4 DEF ReadStream, history
  <2>5. QED BY <2>1, <2>2, <2>3, <2>4, CalmSteps
<1>3. QED BY <1>1, <1>2, QueueSteps

\* The invariant of frames is kept by every step.
LEMMA FramesKept ==
  ASSUME BaseInv, EndInv, OnceInv, OnceInv', FrameInv, [Next]_vars
  PROVE  FrameInv'
<1>1. ConnectsFresh /\ SendsNumbered /\ WrittenOnStreams /\ FramesInOrder /\ ReliableInOrder
  BY DEF FrameInv
<1>2. ConnectsFresh'
  BY <1>1, ConnectsKept
<1>3. SendsNumbered'
  BY <1>1, NumbersStay
<1>4. WrittenOnStreams' /\ FramesInOrder' /\ ReliableInOrder'
  <2>1. CASE Motionless /\ Untold /\ UNCHANGED written
    BY <1>1, <2>1, CalmKeepsFrames
  <2>2. ASSUME NEW x \in Nodes, Sending(x)
        PROVE  WrittenOnStreams' /\ FramesInOrder' /\ ReliableInOrder'
    BY <1>1, <2>2, SendKeepsFrames
  <2>3. ASSUME NEW x \in Nodes, OpenCompletes(x)
        PROVE  WrittenOnStreams' /\ FramesInOrder' /\ ReliableInOrder'
    BY <1>1, <2>3, OpenKeepsFrames
  <2>4. ASSUME NEW x \in Nodes, NEW l \in LinksOf(x), ReadStream(x, l)
        PROVE  WrittenOnStreams' /\ FramesInOrder' /\ ReliableInOrder'
    BY <1>1, <2>4, ReadKeepsFrames
  <2>5. QED BY <1>1, <2>1, <2>2, <2>3, <2>4, CalmSteps
<1>5. QED BY <1>2, <1>3, <1>4 DEF FrameInv

\* A game asks for each of its connections once.
LEMMA FirstConnectsOnce ==
  ASSUME NEW x \in Nodes
  PROVE  Once(FirstCommands(x), Connections)
<1> DEFINE K == {k \in Links : Dialer[k] = x}
           S == {[op |-> "Connect", conn |-> l] : l \in K}
           B == [op |-> "Bind"]
           a == IF \E l \in Links : Acceptor[l] = x THEN <<B>> ELSE <<>>
           q == SetToSeq(S)
           f == [l \in K |-> [op |-> "Connect", conn |-> l]]
<1>1. IsFiniteSet(K)
  BY LinksAssumption, FS_Subset
<1>2. f \in Surjection(K, S)
  BY DEF Surjection
<1>3. FirstCommands(x) = a \o q
  BY DEF FirstCommands
<1>4. B.op = "Bind" /\ \A c \in Connections : c.op = "Connect"
  BY DEF Connections
<1> HIDE DEF K, S, f, B
<1>5. Cardinality(S) \in Nat /\ ExistsBijection(1 .. Cardinality(S), S)
  BY <1>1, <1>2, FS_Surjection, FS_CardinalityType
<1>6. \E g \in [1 .. Cardinality(S) -> S] : IsInjective(g)
  BY <1>5 DEF ExistsBijection, Bijection, Injection
<1>7. q \in [1 .. Cardinality(S) -> S] /\ IsInjective(q)
  BY <1>6 DEF SetToSeq
<1> HIDE DEF q
<1>8. q \in Seq(S) /\ \A i, j \in DOMAIN q : q[i] = q[j] => i = j
  BY <1>5, <1>7 DEF IsInjective
<1>9. CASE a = <<>>
  <2>1. FirstCommands(x) = q
    BY <1>3, <1>8, <1>9
  <2>2. QED BY <1>8, <2>1 DEF Once
<1>10. CASE a = <<B>>
  <2> DEFINE F == FirstCommands(x)
  <2>1. F = <<B>> \o q
    BY <1>3, <1>10
  <2> HIDE DEF F
  <2>2. /\ F[1] = B
        /\ \A i \in DOMAIN F : i # 1 => i - 1 \in DOMAIN q /\ F[i] = q[i - 1]
        /\ DOMAIN F \subseteq Nat
    BY <1>8, <2>1
  <2>3. ASSUME NEW i \in DOMAIN F, NEW j \in DOMAIN F, F[i] \in Connections, F[j] = F[i]
        PROVE  i = j
    <3>1. i # 1 /\ j # 1
      BY <1>4, <2>2, <2>3
    <3>2. i - 1 = j - 1
      BY <1>8, <2>2, <2>3, <3>1
    <3>3. i \in Nat /\ j \in Nat
      BY <2>2
    <3>4. QED BY <3>2, <3>3
  <2>4. QED BY <2>3 DEF Once, F
<1>11. QED BY <1>9, <1>10

\* At first nothing is asked for but connections, and nothing is written.
LEMMA FramesAtFirst == Init => FrameInv
<1> SUFFICES ASSUME Init PROVE FrameInv
  OBVIOUS
<1>1. \A x \in Nodes :
        /\ cmd_rx[x] = FirstCommands(x) /\ awaiting[x] = Idle /\ events[x] = <<>>
        /\ written[x] = {} /\ sends[x] = 0
  BY DEF Init
<1>2. /\ \A l \in Links : link[l] = "new" /\ bidis[l] = <<>>
      /\ DOMAIN written = Nodes
  BY DEF Init
<1>3. \A x \in Nodes : \A c \in ToSet(cmd_rx[x]) :
        c.op # "Send" /\ (c.op = "Connect" => c.conn \in Links)
  <2>1. ASSUME NEW x \in Nodes, NEW c \in ToSet(cmd_rx[x])
        PROVE  c.op # "Send" /\ (c.op = "Connect" => c.conn \in Links)
    <3>1. \/ c = [op |-> "Bind"]
          \/ \E l \in Links : Dialer[l] = x /\ c = [op |-> "Connect", conn |-> l]
      BY <1>1, <2>1, FirstCommandsTyped
    <3>2. QED BY <3>1
  <2>2. QED BY <2>1
<1>4. ConnectsFresh
  BY <1>1, <1>2, <1>3, FirstConnectsOnce DEF ConnectsFresh, Idle
<1>5. SendsNumbered
  <2>1. \A x \in Nodes : Rising(cmd_rx[x])
    <3>1. \A x \in Nodes : \A i \in DOMAIN cmd_rx[x] : cmd_rx[x][i].op # "Send"
      BY <1>3 DEF ToSet
    <3>2. QED BY <3>1 DEF Rising
  <2>2. QED BY <1>1, <1>3, <2>1 DEF SendsNumbered
<1>6. WrittenOnStreams
  <2>1. \A x \in Nodes : ToSet(events[x]) = {}
    BY <1>1, Empty
  <2>2. QED BY <1>1, <1>2, <2>1 DEF WrittenOnStreams
<1>7. FramesInOrder
  BY <1>2 DEF FramesInOrder
<1>8. ReliableInOrder
  <2>1. \A l \in Links : \A x \in Ends(l) : DOMAIN events[x] = {}
    BY <1>1, LinksAssumption DEF Ends
  <2>2. QED BY <2>1 DEF ReliableInOrder
<1>9. QED BY <1>4, <1>5, <1>6, <1>7, <1>8 DEF FrameInv

\* A game receives on a reliable stream a prefix of what the other one wrote to it,
\* each piece once and in order (ReliableInOrder), whatever the order of the tasks in
\* between and even if the connection is lost, if of a Reliable stream only one end of
\* the connection is the creator.
THEOREM QuicReliableInOrder == ASSUME OneCreator PROVE Spec => []ReliableInOrder
<1>1. Init => EndInv /\ OnceInv /\ FrameInv
  BY EndsAtFirst, OnceAtFirst, FramesAtFirst
<1>2. BaseInv /\ EndInv /\ OnceInv /\ FrameInv /\ [Next]_vars => EndInv' /\ OnceInv' /\ FrameInv'
  BY EndsInvKept, OnceInvKept, FramesKept
<1>3. FrameInv => ReliableInOrder
  BY DEF FrameInv
<1>4. QED BY <1>1, <1>2, <1>3, BaseHolds, PTL DEF Spec

-----------------------------------------------------------------------------
(* The refinement of Pipe: what is in flight on a stream, and what came    *)
(* last.                                                                   *)

\* What a way holds, what came by it last, and whether it is cut.
Transit == [w \in ReliableWays |-> InFlight(w[1], w[2], w[3])]
LastGot == [w \in ReliableWays |-> LastCame(Peer(w[2], w[1]), w[2], w[3])]
IsCut   == [w \in ReliableWays |-> link[w[2]] = "down"]

\* A stream of a connection has a way from either end.
LEMMA WaysOfStreams ==
  /\ \A w \in ReliableWays :
       /\ w[1] \in Nodes /\ w[2] \in Links /\ w[3] \in Used /\ w[1] \in Ends(w[2])
       /\ is_reliable(w[3]) /\ w = <<w[1], w[2], w[3]>>
       /\ Peer(w[2], w[1]) \in Ends(w[2]) /\ Peer(w[2], w[1]) \in Nodes
  /\ \A l \in Links : \A x \in Ends(l) : \A s \in Used :
       is_reliable(s) => <<x, l, s>> \in ReliableWays
<1>1. ASSUME NEW w \in ReliableWays
      PROVE  /\ w[1] \in Nodes /\ w[2] \in Links /\ w[3] \in Used /\ w[1] \in Ends(w[2])
             /\ is_reliable(w[3]) /\ w = <<w[1], w[2], w[3]>>
             /\ Peer(w[2], w[1]) \in Ends(w[2]) /\ Peer(w[2], w[1]) \in Nodes
  <2>1. /\ w[1] \in Nodes /\ w[2] \in Links /\ w[3] \in Used /\ w[1] \in Ends(w[2])
        /\ is_reliable(w[3]) /\ w = <<w[1], w[2], w[3]>>
    BY DEF ReliableWays, Used
  <2>2. QED BY <2>1, EndsOfLink
<1>2. ASSUME NEW l \in Links, NEW x \in Ends(l), NEW s \in Used, is_reliable(s)
      PROVE  <<x, l, s>> \in ReliableWays
  <2>1. x \in Nodes
    BY EndsOfLink
  <2>2. QED BY <1>2, <2>1 DEF ReliableWays, Used
<1>3. QED BY <1>1, <1>2

\* The frames for y on the stream s, among the streams q of a connection.
FlightIn(q, y, s) ==
  LET I == {i \in DOMAIN q : q[i].stream = s} IN
  IF I = {} THEN <<>> ELSE q[CHOOSE i \in I : TRUE].wire[y]

\* They are those of the only stream of that number, or there are none.
LEMMA Flight ==
  ASSUME NEW q, NEW y, NEW s
  PROVE  /\ \A i \in DOMAIN q :
              q[i].stream = s /\ (\A j \in DOMAIN q : q[j].stream = s => j = i) =>
                FlightIn(q, y, s) = q[i].wire[y]
         /\ (\A i \in DOMAIN q : q[i].stream # s) => FlightIn(q, y, s) = <<>>
<1>1. ASSUME NEW i \in DOMAIN q, q[i].stream = s, \A j \in DOMAIN q : q[j].stream = s => j = i
      PROVE  FlightIn(q, y, s) = q[i].wire[y]
  <2>1. PICK I : I = {j \in DOMAIN q : q[j].stream = s}
    OBVIOUS
  <2>2. I = {i}
    BY <1>1, <2>1
  <2>3. (CHOOSE j \in I : TRUE) = i
    BY <2>2
  <2>4. QED BY <2>1, <2>2, <2>3 DEF FlightIn
<1>2. QED BY <1>1 DEF FlightIn

\* What is in flight, before and after a step.
LEMMA FlightOnLink ==
  ASSUME NEW l \in Links, NEW x, NEW s, NEW y, y = Peer(l, x)
  PROVE  /\ InFlight(x, l, s) = FlightIn(bidis[l], y, s)
         /\ InFlight(x, l, s)' = FlightIn(bidis'[l], y, s)
<1>1. InFlight(x, l, s) = FlightIn(bidis[l], y, s)
  BY DEF InFlight, FlightIn
<1>2. InFlight(x, l, s)' = FlightIn(bidis'[l], y, s)
  BY DEF InFlight, FlightIn, Peer, Ends
<1>3. QED BY <1>1, <1>2

\* A set of numbers up to n has a greatest one: of the sets of those above one of
\* them, one has no smaller set below it.
LEMMA Latest ==
  ASSUME NEW n \in Nat, NEW I \in SUBSET (1 .. n), I # {}
  PROVE  Max(I) \in I /\ \A i \in I : i <= Max(I)
<1> DEFINE Above(i) == {j \in I : j > i}
           T == {Above(i) : i \in I}
<1>1. IsFiniteSet(I)
  <2>1. IsFiniteSet(1 .. n)
    BY FS_Interval
  <2>2. QED BY <2>1, FS_Subset
<1>2. IsWellFoundedOn(StrictSubsetOrdering(I), SUBSET I)
  BY <1>1, FS_StrictSubsetOrderingWellFounded, FS_FiniteSubsetsOfFinite
<1>3. T \subseteq SUBSET I /\ T # {}
  OBVIOUS
<1>4. PICK A \in T : \A B \in T : <<B, A>> \notin StrictSubsetOrdering(I)
  <2> HIDE DEF T
  <2>1. QED BY <1>2, <1>3, WFMin
<1>5. PICK m \in I : A = Above(m)
  OBVIOUS
<1>6. ASSUME NEW i \in I, i > m PROVE FALSE
  <2>1. i \in Above(m) /\ i \notin Above(i) /\ Above(i) \subseteq Above(m)
    <3>1. \A j \in I : j \in Nat
      OBVIOUS
    <3>2. \A j \in I : j > i => j > m
      BY <1>6, <3>1
    <3>3. ~(i > i)
      BY <3>1
    <3>4. QED BY <1>6, <3>2, <3>3
  <2>2. Above(i) \in T /\ Above(i) \in SUBSET I /\ Above(m) \in SUBSET I
    OBVIOUS
  <2> HIDE DEF Above, T
  <2>3. <<Above(i), Above(m)>> \in StrictSubsetOrdering(I)
    BY <2>1, <2>2 DEF StrictSubsetOrdering
  <2>4. QED BY <1>4, <1>5, <2>2, <2>3
<1>7. \A i \in I : m >= i
  <2>1. \A i \in I : i \in Nat
    OBVIOUS
  <2>2. QED BY <1>6, <2>1
<1>8. Max(I) \in I /\ \A i \in I : Max(I) >= i
  BY <1>7 DEF Max
<1>9. QED BY <1>8

\* What came last on the stream s of l, among the events q.
LastIn(q, l, s) ==
  LET I == {i \in DOMAIN q : IsMessage(q[i], l, s)} IN IF I = {} THEN 0 ELSE q[Max(I)].data

\* Another event is the last one that came by a stream, or none that did.
LEMMA LastOfMore ==
  ASSUME NEW q \in Seq(Events), NEW e \in Events, NEW l, NEW s
  PROVE  LastIn(Append(q, e), l, s) = IF IsMessage(e, l, s) THEN e.data ELSE LastIn(q, l, s)
<1>1. PICK p : p = Append(q, e)
  OBVIOUS
<1>2. PICK n \in Nat : n = Len(q)
  BY Put
<1>3. /\ DOMAIN q = 1 .. n /\ DOMAIN p = 1 .. n + 1 /\ p[n + 1] = e
      /\ \A i \in 1 .. n : p[i] = q[i]
  BY <1>1, <1>2, Put
<1>4. PICK I, J : I = {i \in DOMAIN q : IsMessage(q[i], l, s)} /\ J = {i \in DOMAIN p : IsMessage(p[i], l, s)}
  OBVIOUS
<1>5. I \in SUBSET (1 .. n) /\ J \in SUBSET (1 .. n + 1)
  BY <1>3, <1>4
<1>6. CASE IsMessage(e, l, s)
  <2>1. n + 1 \in J
    BY <1>3, <1>4, <1>6
  <2>2. PICK k \in Nat : k = n + 1
    OBVIOUS
  <2>3. Max(J) = n + 1
    <3>1. J \in SUBSET (1 .. k) /\ J # {} /\ k \in J
      BY <1>5, <2>1, <2>2
    <3>2. Max(J) \in J /\ \A j \in J : j <= Max(J)
      BY ONLY k \in Nat, <3>1, Latest
    <3>3. PICK m \in 1 .. k : m = Max(J)
      BY <3>1, <3>2
    <3>4. k <= m
      BY <3>1, <3>2, <3>3
    <3>5. QED BY <2>2, <3>3, <3>4
  <2>4. LastIn(p, l, s) = p[Max(J)].data
    BY <1>4, <2>1 DEF LastIn
  <2>5. QED BY <1>1, <1>3, <1>6, <2>3, <2>4
<1>7. CASE ~IsMessage(e, l, s)
  <2>1. J = I
    <3>1. \A i \in 1 .. n + 1 : i \in 1 .. n \/ i = n + 1
      OBVIOUS
    <3>2. \A i \in 1 .. n : i \in 1 .. n + 1
      OBVIOUS
    <3>3. QED BY <1>3, <1>4, <1>7, <3>1, <3>2
  <2>2. I # {} => p[Max(I)] = q[Max(I)]
    BY <1>3, <1>5, Latest
  <2>3. LastIn(p, l, s) = LastIn(q, l, s)
    BY <1>4, <2>1, <2>2 DEF LastIn
  <2>4. QED BY <1>1, <1>7, <2>3
<1>8. QED BY <1>6, <1>7

\* What came last, after a step that tells something.
LEMMA LastTold ==
  ASSUME TypedEvents, NEW y \in Nodes, NEW e \in Events, Emit(y, e), NEW x \in Nodes, NEW l, NEW s
  PROVE  LastCame(x, l, s)' = IF x = y /\ IsMessage(e, l, s) THEN e.data ELSE LastCame(x, l, s)
<1>1. LastCame(x, l, s) = LastIn(events[x], l, s)
  BY DEF LastCame, LastIn
<1>2. LastCame(x, l, s)' = LastIn(events'[x], l, s)
  BY DEF LastCame, LastIn, IsMessage
<1>3. CASE x # y
  <2>1. events'[x] = events[x]
    BY <1>3, Emitted
  <2>2. QED BY <1>1, <1>2, <1>3, <2>1
<1>4. CASE x = y
  <2>1. events'[x] = Append(events[x], e) /\ events[x] \in Seq(Events)
    BY <1>4, Emitted
  <2>2. LastIn(events'[x], l, s) = IF IsMessage(e, l, s) THEN e.data ELSE LastIn(events[x], l, s)
    BY <2>1, LastOfMore
  <2>3. QED BY <1>1, <1>2, <1>4, <2>2
<1>5. QED BY <1>3, <1>4

\* After a step that tells of no frame, the last one is the same.
LEMMA LastKept ==
  ASSUME TypedEvents, Untold, NEW x \in Nodes, NEW l, NEW s, is_reliable(s)
  PROVE  LastCame(x, l, s)' = LastCame(x, l, s)
<1>1. CASE UNCHANGED events
  BY <1>1 DEF LastCame, IsMessage
<1>2. ASSUME NEW y \in Nodes, NEW e \in Events, Emit(y, e), e.type = "Message" => ~is_reliable(e.stream)
      PROVE  LastCame(x, l, s)' = LastCame(x, l, s)
  <2>1. ~IsMessage(e, l, s)
    BY <1>2 DEF IsMessage
  <2>2. QED BY <1>2, <2>1, LastTold
<1>3. QED BY <1>1, <1>2 DEF Untold

\* A stream that is there is there after the step, with what is in flight on it.
LEMMA FlightFollows ==
  ASSUME OpenedOnce, SameBidis, NEW w \in ReliableWays, NEW y, y = Peer(w[2], w[1])
  PROVE  \/ InFlight(w[1], w[2], w[3]) = <<>> /\ InFlight(w[1], w[2], w[3])' = <<>>
         \/ \E i \in DOMAIN bidis[w[2]] :
              /\ bidis[w[2]][i].stream = w[3]
              /\ InFlight(w[1], w[2], w[3]) = bidis[w[2]][i].wire[y]
              /\ InFlight(w[1], w[2], w[3])' = bidis'[w[2]][i].wire[y]
<1>1. PICK x \in Nodes, l \in Links, s \in Used : x = w[1] /\ l = w[2] /\ s = w[3]
  BY WaysOfStreams
<1>2. InFlight(x, l, s) = FlightIn(bidis[l], y, s) /\ InFlight(x, l, s)' = FlightIn(bidis'[l], y, s)
  BY <1>1, FlightOnLink
<1>3. PICK q, p : q = bidis[l] /\ p = bidis'[l]
  OBVIOUS
<1>4. DOMAIN p = DOMAIN q /\ \A i \in DOMAIN q : p[i].stream = q[i].stream
  BY <1>3 DEF SameBidis, Alike
<1>5. CASE \A i \in DOMAIN q : q[i].stream # s
  <2>1. FlightIn(q, y, s) = <<>> /\ FlightIn(p, y, s) = <<>>
    BY <1>4, <1>5, Flight
  <2>2. QED BY <1>1, <1>2, <1>3, <2>1
<1>6. ASSUME NEW i \in DOMAIN q, q[i].stream = s
      PROVE  FlightIn(q, y, s) = q[i].wire[y] /\ FlightIn(p, y, s) = p[i].wire[y]
  <2>1. \A j \in DOMAIN q : q[j].stream = s => j = i
    BY <1>3, <1>6 DEF OpenedOnce
  <2>2. QED BY <1>4, <1>6, <2>1, Flight
<1>7. QED BY <1>1, <1>2, <1>3, <1>5, <1>6

\* What is in flight is a sequence of numbers.
LEMMA FlightTyped ==
  ASSUME WireTyped, OpenedOnce, NEW w \in ReliableWays
  PROVE  InFlight(w[1], w[2], w[3]) \in Seq(Nat)
<1>1. PICK x \in Nodes, l \in Links, s \in Used, y \in Nodes :
        x = w[1] /\ l = w[2] /\ s = w[3] /\ y = Peer(l, x) /\ y \in Ends(l)
  BY WaysOfStreams
<1>2. InFlight(x, l, s) = FlightIn(bidis[l], y, s)
  BY <1>1, FlightOnLink
<1>3. CASE \A i \in DOMAIN bidis[l] : bidis[l][i].stream # s
  <2>1. FlightIn(bidis[l], y, s) = <<>>
    BY <1>3, Flight
  <2>2. QED BY <1>1, <1>2, <2>1, Empty
<1>4. ASSUME NEW i \in DOMAIN bidis[l], bidis[l][i].stream = s
      PROVE  InFlight(x, l, s) \in Seq(Nat)
  <2>1. \A j \in DOMAIN bidis[l] : bidis[l][j].stream = s => j = i
    BY <1>4 DEF OpenedOnce
  <2>2. InFlight(x, l, s) = bidis[l][i].wire[y]
    BY <1>2, <1>4, <2>1, Flight
  <2>3. bidis[l][i] \in Bidis(l)
    BY Elements DEF WireTyped
  <2>4. QED BY <1>1, <2>2, <2>3 DEF Bidis
<1>5. QED BY <1>1, <1>3, <1>4

\* The abstract variables, way by way.
LEMMA Mapped ==
  /\ Transit' = [w \in ReliableWays |-> InFlight(w[1], w[2], w[3])']
  /\ LastGot' = [w \in ReliableWays |-> LastCame(Peer(w[2], w[1]), w[2], w[3])']
  /\ IsCut' = [w \in ReliableWays |-> link'[w[2]] = "down"]
<1>1. Transit' = [w \in ReliableWays |-> InFlight(w[1], w[2], w[3])']
  BY DEF Transit, ReliableWays, Ends, is_reliable
<1>2. LastGot' = [w \in ReliableWays |-> LastCame(Peer(w[2], w[1]), w[2], w[3])']
  BY DEF LastGot, ReliableWays, Ends, is_reliable, Peer
<1>3. IsCut' = [w \in ReliableWays |-> link'[w[2]] = "down"]
  BY DEF IsCut, ReliableWays, Ends, is_reliable
<1>4. QED BY <1>1, <1>2, <1>3

\* A sequence is a prefix of itself, and the empty one of every other.
LEMMA PrefixOfItself ==
  ASSUME NEW S, NEW q \in Seq(S)
  PROVE  IsPrefix(q, q) /\ IsPrefix(<<>>, q)
<1>1. Len(q) \in Nat /\ Len(<<>>) = 0
  BY LenProperties
<1>2. SubSeq(<<>>, 1, 0) = SubSeq(q, 1, 0)
  BY SubSeqEmpty
<1>3. QED BY <1>1, <1>2 DEF IsPrefix

\* A step that takes what is in flight on links that are lost, if anything.
LEMMA PipeCut ==
  ASSUME WireTyped, OpenedOnce,
         \A w \in ReliableWays :
           /\ \/ InFlight(w[1], w[2], w[3])' = InFlight(w[1], w[2], w[3])
              \/ InFlight(w[1], w[2], w[3])' = <<>> /\ link'[w[2]] = "down"
           /\ LastCame(Peer(w[2], w[1]), w[2], w[3])' = LastCame(Peer(w[2], w[1]), w[2], w[3]),
         \A l \in Links : link[l] = "down" => link'[l] = "down"
  PROVE  AbstractPipe!PipeNext
<1>0. PICK W \in SUBSET ReliableWays : \A w \in ReliableWays : w \in W <=> link'[w[2]] = "down"
  <2>1. {w \in ReliableWays : link'[w[2]] = "down"} \in SUBSET ReliableWays
    OBVIOUS
  <2>2. QED BY <2>1
<1>1. IsCut' = [w \in ReliableWays |-> w \in W \/ IsCut[w]]
  <2>1. \A w \in ReliableWays : (link'[w[2]] = "down") = (w \in W \/ link[w[2]] = "down")
    BY <1>0, WaysOfStreams
  <2>2. \A w \in ReliableWays : IsCut[w] = (link[w[2]] = "down")
    BY DEF IsCut
  <2>3. QED BY <2>1, <2>2, Mapped
<1>2. DOMAIN Transit' = ReliableWays
  BY Mapped
<1>3. LastGot' = LastGot
  BY Mapped DEF LastGot
<1>4. ASSUME NEW w \in ReliableWays
      PROVE  /\ AbstractPipe!IsPrefix(Transit'[w], Transit[w])
             /\ ~IsCut'[w] => Transit'[w] = Transit[w]
  <2>1. /\ Transit'[w] = InFlight(w[1], w[2], w[3])' /\ Transit[w] = InFlight(w[1], w[2], w[3])
        /\ IsCut'[w] <=> link'[w[2]] = "down"
    BY Mapped DEF Transit
  <2>2. Transit[w] \in Seq(Nat)
    BY <2>1, FlightTyped
  <2>3. AbstractPipe!IsPrefix(Transit[w], Transit[w]) /\ AbstractPipe!IsPrefix(<<>>, Transit[w])
    <3>1. IsPrefix(Transit[w], Transit[w]) /\ IsPrefix(<<>>, Transit[w])
      BY <2>2, PrefixOfItself
    <3>2. QED BY <3>1 DEF IsPrefix, AbstractPipe!IsPrefix
  <2>4. QED BY <2>1, <2>3
<1>5. AbstractPipe!Cut(W)
  BY <1>1, <1>2, <1>3, <1>4 DEF AbstractPipe!Cut, Transit, LastGot, IsCut
<1>6. QED BY <1>5 DEF AbstractPipe!PipeNext

\* A step that moves no frame is none of the pipe, but for what is lost with a link.
LEMMA CalmIsCut ==
  ASSUME BaseInv, OnceInv, Motionless, Untold
  PROVE  AbstractPipe!PipeNext
<1>1. WireTyped /\ OpenedOnce /\ TypedEvents /\ SameBidis
  BY DEF BaseInv, Typed, TypedWire, WireTyped, OnceInv, Motionless
<1>2. ASSUME NEW w \in ReliableWays
      PROVE  /\ \/ InFlight(w[1], w[2], w[3])' = InFlight(w[1], w[2], w[3])
                \/ InFlight(w[1], w[2], w[3])' = <<>> /\ link'[w[2]] = "down"
             /\ LastCame(Peer(w[2], w[1]), w[2], w[3])' = LastCame(Peer(w[2], w[1]), w[2], w[3])
  <2>1. PICK x \in Nodes, l \in Links, s \in Used, y \in Nodes :
          /\ x = w[1] /\ l = w[2] /\ s = w[3] /\ y = Peer(l, x) /\ y \in Ends(l) /\ is_reliable(s)
    BY WaysOfStreams
  <2>2. \/ InFlight(x, l, s) = <<>> /\ InFlight(x, l, s)' = <<>>
        \/ \E i \in DOMAIN bidis[l] :
             /\ InFlight(x, l, s) = bidis[l][i].wire[y]
             /\ InFlight(x, l, s)' = bidis'[l][i].wire[y]
    BY <1>1, <2>1, FlightFollows
  <2>3. \A i \in DOMAIN bidis[l] :
          \/ bidis'[l][i].wire[y] = bidis[l][i].wire[y]
          \/ bidis'[l][i].wire[y] = <<>> /\ link'[l] = "down"
    BY <2>1 DEF Motionless
  <2>4. \/ InFlight(x, l, s)' = InFlight(x, l, s)
        \/ InFlight(x, l, s)' = <<>> /\ link'[l] = "down"
    BY <2>2, <2>3
  <2>5. LastCame(y, l, s)' = LastCame(y, l, s)
    BY <1>1, <2>1, LastKept
  <2>6. LastCame(Peer(l, x), l, s)' = LastCame(y, l, s)'
    BY <2>1 DEF LastCame, IsMessage, Peer, Ends
  <2>7. QED BY <2>1, <2>4, <2>5, <2>6
<1>3. \A l \in Links : link[l] = "down" => link'[l] = "down"
  BY DEF Motionless
<1>4. QED BY <1>1, <1>2, <1>3, PipeCut

\* The frames of one stream become p, at the end of y: what is in flight to y on that
\* stream, and on no other.
LEMMA WayRewired ==
  ASSUME WireTyped, OpenedOnce, NEW l \in Links, NEW i \in DOMAIN bidis[l],
         NEW x \in Ends(l), NEW y \in Ends(l), y = Peer(l, x),
         NEW s \in Used, s = bidis[l][i].stream, is_reliable(s),
         NEW p \in Seq(Nat), Rewired(l, i, y, p)
  PROVE  /\ <<x, l, s>> \in ReliableWays
         /\ Transit[<<x, l, s>>] = bidis[l][i].wire[y]
         /\ Transit' = [Transit EXCEPT ![<<x, l, s>>] = p]
<1>1. PICK v : v = <<x, l, s>>
  OBVIOUS
<1>2. v \in ReliableWays /\ v[1] = x /\ v[2] = l /\ v[3] = s
  BY <1>1, WaysOfStreams
<1>3. /\ SameBidis /\ bidis'[l][i].wire[y] = p
      /\ \A m \in Links : \A j \in DOMAIN bidis[m] : \A z \in Ends(m) :
           m # l \/ j # i \/ z # y => bidis'[m][j].wire[z] = bidis[m][j].wire[z]
  BY WireChanged
<1>4. Peer(l, y) = x
  BY PeerOfPeer
<1>5. InFlight(x, l, s) = bidis[l][i].wire[y] /\ InFlight(x, l, s)' = p
  <2>1. PICK q, r : q = bidis[l] /\ r = bidis'[l]
    OBVIOUS
  <2>2. \A j \in DOMAIN q : q[j].stream = s => j = i
    BY <2>1 DEF OpenedOnce
  <2>3. DOMAIN r = DOMAIN q /\ \A j \in DOMAIN q : r[j].stream = q[j].stream
    BY <1>3, <2>1 DEF SameBidis, Alike
  <2>4. FlightIn(q, y, s) = q[i].wire[y] /\ FlightIn(r, y, s) = r[i].wire[y]
    BY <2>1, <2>2, <2>3, Flight
  <2>5. InFlight(x, l, s) = FlightIn(q, y, s) /\ InFlight(x, l, s)' = FlightIn(r, y, s)
    BY <2>1, FlightOnLink
  <2>6. QED BY <1>3, <2>1, <2>4, <2>5
<1>6. ASSUME NEW w \in ReliableWays, w # v
      PROVE  InFlight(w[1], w[2], w[3])' = InFlight(w[1], w[2], w[3])
  <2>1. PICK z \in Nodes, a \in Nodes, m \in Links, t \in Used :
          /\ a = w[1] /\ m = w[2] /\ t = w[3] /\ z = Peer(m, a) /\ z \in Ends(m) /\ a \in Ends(m)
          /\ w = <<a, m, t>>
    BY WaysOfStreams
  <2>2. CASE InFlight(w[1], w[2], w[3]) = <<>> /\ InFlight(w[1], w[2], w[3])' = <<>>
    BY <2>2
  <2>3. ASSUME NEW j \in DOMAIN bidis[m],
               bidis[m][j].stream = t,
               InFlight(w[1], w[2], w[3]) = bidis[m][j].wire[z],
               InFlight(w[1], w[2], w[3])' = bidis'[m][j].wire[z]
        PROVE  InFlight(w[1], w[2], w[3])' = InFlight(w[1], w[2], w[3])
    <3>1. m # l \/ j # i \/ z # y
      <4>1. ASSUME m = l, j = i, z = y PROVE FALSE
        <5>1. a = x
          BY <1>4, <2>1, <4>1, PeerOfPeer
        <5>2. QED BY <1>1, <1>6, <2>1, <2>3, <4>1, <5>1
      <4>2. QED BY <4>1
    <3>2. bidis'[m][j].wire[z] = bidis[m][j].wire[z]
      BY <1>3, <2>1, <3>1
    <3>3. QED BY <2>3, <3>2
  <2>4. QED BY <1>3, <2>1, <2>2, <2>3, FlightFollows
<1>7. Transit' = [w \in ReliableWays |-> IF w = v THEN p ELSE Transit[w]]
  <2>1. ASSUME NEW w \in ReliableWays
        PROVE  InFlight(w[1], w[2], w[3])' = IF w = v THEN p ELSE Transit[w]
    <3>1. CASE w # v
      BY <1>6, <3>1 DEF Transit
    <3>2. CASE w = v
      <4>1. InFlight(w[1], w[2], w[3])' = InFlight(x, l, s)'
        BY <1>2, <3>2
      <4>2. QED BY <1>5, <3>2, <4>1
    <3>3. QED BY <3>1, <3>2
  <2>2. QED BY <2>1, Mapped
<1>8. Transit[v] = bidis[l][i].wire[y]
  BY <1>2, <1>5 DEF Transit
<1>9. Transit' = [Transit EXCEPT ![v] = p]
  BY <1>2, <1>7 DEF Transit
<1>10. QED BY <1>1, <1>2, <1>8, <1>9

\* What came last by the other ways does not change with what is told of this one.
LEMMA WayTold ==
  ASSUME TypedEvents, NEW l \in Links, NEW x \in Ends(l), NEW y \in Ends(l), y = Peer(l, x),
         NEW s \in Used, is_reliable(s), NEW e \in Events, IsMessage(e, l, s), Emit(y, e)
  PROVE  LastGot' = [LastGot EXCEPT ![<<x, l, s>>] = e.data]
<1>1. PICK v : v = <<x, l, s>>
  OBVIOUS
<1>2. v \in ReliableWays /\ v[1] = x /\ v[2] = l /\ v[3] = s /\ Peer(l, y) = x /\ y \in Nodes
  BY <1>1, WaysOfStreams, PeerOfPeer, EndsOfLink
<1>3. ASSUME NEW w \in ReliableWays
      PROVE  LastCame(Peer(w[2], w[1]), w[2], w[3])' = IF w = v THEN e.data ELSE LastGot[w]
  <2>1. PICK z \in Nodes, a \in Nodes, m \in Links, t \in Used :
          /\ a = w[1] /\ m = w[2] /\ t = w[3] /\ z = Peer(m, a) /\ z \in Ends(m) /\ a \in Ends(m)
          /\ w = <<a, m, t>>
    BY WaysOfStreams
  <2>2. z = y /\ IsMessage(e, m, t) <=> w = v
    <3>1. IsMessage(e, m, t) <=> m = l /\ t = s
      BY DEF IsMessage
    <3>2. m = l => (z = y <=> a = x)
      BY <1>2, <2>1, PeerOfPeer
    <3>3. QED BY <1>1, <2>1, <3>1, <3>2
  <2>3. LastCame(z, m, t)' = IF w = v THEN e.data ELSE LastCame(z, m, t)
    BY <1>2, <2>2, LastTold
  <2>4. LastCame(Peer(w[2], w[1]), w[2], w[3])' = LastCame(z, m, t)'
    BY <2>1
  <2>5. LastGot[w] = LastCame(z, m, t)
    BY <2>1 DEF LastGot
  <2>6. QED BY <2>3, <2>4, <2>5
<1>4. LastGot' = [w \in ReliableWays |-> IF w = v THEN e.data ELSE LastGot[w]]
  BY <1>3, Mapped
<1>5. QED BY <1>1, <1>2, <1>4 DEF LastGot

\* A game issues at most MaxSends Sends, and numbers them.
SendsBounded ==
  \A x \in Nodes :
    /\ sends[x] <= MaxSends
    /\ \A c \in ToSet(cmd_rx[x]) : c.op = "Send" => c.data \in 1 .. MaxSends

LEMMA BoundedAtFirst == Init => SendsBounded
<1> SUFFICES ASSUME Init, NEW x \in Nodes
             PROVE  /\ sends[x] <= MaxSends
                    /\ \A c \in ToSet(cmd_rx[x]) : c.op = "Send" => c.data \in 1 .. MaxSends
  BY DEF SendsBounded
<1>1. cmd_rx[x] = FirstCommands(x) /\ sends[x] = 0
  BY DEF Init
<1>2. \A c \in ToSet(cmd_rx[x]) : c.op # "Send"
  <2>1. ASSUME NEW c \in ToSet(cmd_rx[x]) PROVE c.op # "Send"
    <3>1. \/ c = [op |-> "Bind"]
          \/ \E l \in Links : Dialer[l] = x /\ c = [op |-> "Connect", conn |-> l]
      BY <1>1, <2>1, FirstCommandsTyped
    <3>2. QED BY <3>1
  <2>2. QED BY <2>1
<1>3. QED BY <1>1, <1>2, BoundsAssumption

LEMMA BoundedKept == ASSUME BaseInv, SendsBounded, [Next]_vars PROVE SendsBounded'
<1>1. cmd_rx \in [Nodes -> Seq(Cmds)] /\ sends \in [Nodes -> Nat] /\ MaxSends \in Nat
  BY BoundsAssumption DEF BaseInv, Typed, TypedGame
<1>2. CASE Advanced /\ UNCHANGED sends
  <2>1. \A x \in Nodes : ToSet(cmd_rx'[x]) \subseteq ToSet(cmd_rx[x])
    BY <1>1, <1>2, QueueAdvanced
  <2>2. QED BY <1>2, <2>1 DEF SendsBounded
<1>3. ASSUME NEW x \in Nodes, NEW c \in Cmds, Asks(x, c) PROVE SendsBounded'
  <2>1. /\ ToSet(cmd_rx'[x]) = ToSet(cmd_rx[x]) \cup {c}
        /\ \A y \in Nodes : y # x => cmd_rx'[y] = cmd_rx[y]
    BY <1>1, <1>3, Issued DEF Asks
  <2>2. CASE c.op = "Send"
    <3>1. sends[x] < MaxSends /\ c.data = sends[x] + 1 /\ sends' = [sends EXCEPT ![x] = @ + 1]
      BY <1>3, <2>2 DEF Asks
    <3>2. c.data \in 1 .. MaxSends /\ sends'[x] <= MaxSends /\ \A y \in Nodes : y # x => sends'[y] = sends[y]
      BY <1>1, <3>1
    <3>3. QED BY <2>1, <3>2 DEF SendsBounded
  <2>3. CASE c.op # "Send"
    <3>1. UNCHANGED sends
      BY <1>3, <2>3 DEF Asks
    <3>2. QED BY <2>1, <2>3, <3>1 DEF SendsBounded
  <2>4. QED BY <2>2, <2>3
<1>4. QED BY <1>2, <1>3, QueueSteps

\* A frame is written: it is handed over.
LEMMA SendingHands ==
  ASSUME BaseInv, OnceInv, SendsNumbered, WrittenOnStreams, SendsBounded,
         NEW x \in Nodes, Sending(x)
  PROVE  AbstractPipe!PipeNext
<1>1. PICK l \in Links, s \in Used, d \in Nat, i \in Nat :
           /\ x \in Ends(l) /\ IsSendStream(l, s, i) /\ link[l] = "up"
           /\ Command(x).op = "Send" /\ Command(x).data = d
           /\ \A m \in written[x] : m.data \in Nat /\ m.data < d
           /\ \A q : q = bidis[l][i].wire[Peer(l, x)] => Rewired(l, i, Peer(l, x), Append(q, d))
           /\ DOMAIN written = Nodes
           /\ written' = [written EXCEPT ![x] = written[x] \cup {MessageOn(l, s, d)}]
           /\ UNCHANGED <<events, link, sends>>
  BY Writing
<1>2. WireTyped /\ OpenedOnce
  BY DEF BaseInv, Typed, TypedWire, WireTyped, OnceInv
<1>3. PICK y \in Ends(l) : y = Peer(l, x)
  BY <1>1, EndsOfLink
<1>4. /\ i \in DOMAIN bidis[l] /\ bidis[l][i].stream = s /\ bidis[l][i] \in Bidis(l)
      /\ is_reliable(s)
  BY <1>1, <1>2, Elements DEF IsSendStream, WireTyped, is_reliable
<1>5. d \in 1 .. MaxSends
  <2>1. Command(x) \in ToSet(cmd_rx[x])
    BY CommandTaken DEF Sending, SendReliable
  <2>2. QED BY <1>1, <2>1 DEF SendsBounded
<1>6. PICK q \in Seq(Nat) : q = bidis[l][i].wire[y]
  BY <1>3, <1>4 DEF Bidis
<1>7. PICK p \in Seq(Nat) : p = Append(q, d)
  BY <1>6, Put
<1>8. Rewired(l, i, y, p)
  BY <1>1, <1>3, <1>6, <1>7
<1>9. PICK v : v = <<x, l, s>>
  OBVIOUS
<1>10. v \in ReliableWays /\ Transit[v] = q /\ Transit' = [Transit EXCEPT ![v] = p]
  BY <1>1, <1>2, <1>3, <1>4, <1>6, <1>8, <1>9, WayRewired
<1>11. Transit' = [Transit EXCEPT ![v] = Append(@, d)]
  BY <1>7, <1>10
<1>12. LastGot' = LastGot
  <2>1. \A w \in ReliableWays :
          LastCame(Peer(w[2], w[1]), w[2], w[3])' = LastCame(Peer(w[2], w[1]), w[2], w[3])
    BY <1>1 DEF LastCame, IsMessage, Peer, Ends
  <2>2. QED BY <2>1, Mapped DEF LastGot
<1>13. IsCut' = IsCut
  BY <1>1, Mapped DEF IsCut
<1>14. AbstractPipe!Hand(v)
  BY <1>5, <1>11, <1>12, <1>13 DEF AbstractPipe!Hand, Transit, LastGot, IsCut
<1>15. QED BY <1>10, <1>14 DEF AbstractPipe!PipeNext

\* A frame is read and announced: it is got.
LEMMA ReadingGets ==
  ASSUME BaseInv, OnceInv, NEW x \in Nodes, NEW l \in LinksOf(x), ReadStream(x, l)
  PROVE  AbstractPipe!PipeNext
<1>1. PICK i \in DOMAIN bidis[l], s \in Used, d \in Nat :
         /\ s = bidis[l][i].stream /\ (bidis[l][i].opener = x \/ bidis[l][i].accepted)
         /\ d = Head(bidis[l][i].wire[x]) /\ bidis[l][i].wire[x] # <<>>
         /\ bidis' = [bidis EXCEPT ![l][i].wire[x] = Tail(@)]
         /\ WireTyped' /\ SameBidis /\ SameEnds
         /\ MessageOn(l, s, d) \in Events /\ Tells(x, MessageOn(l, s, d))
         /\ UNCHANGED <<loop, tasks, cmd_rx, registrations, link, datagrams, game, history>>
  BY Reading
<1>2. l \in Links /\ x \in Ends(l)
  BY DEF LinksOf
<1>3. TypedEvents /\ WireTyped /\ OpenedOnce /\ bidis[l][i] \in Bidis(l)
  BY <1>2, Elements DEF BaseInv, Typed, TypedWire, WireTyped, OnceInv
<1>4. PICK y \in Ends(l) : y = Peer(l, x) /\ x = Peer(l, y)
  BY <1>2, EndsOfLink, PeerOfPeer
<1>5. is_reliable(s)
  BY <1>1, <1>2 DEF BaseInv, StreamInv, BidisFit, is_reliable
<1>6. PICK q \in Seq(Nat) : q = bidis[l][i].wire[x] /\ q # <<>> /\ d = Head(q)
  BY <1>1, <1>2, <1>3 DEF Bidis
<1>7. PICK p \in Seq(Nat) : p = Tail(q)
  BY <1>6, Taken
<1>8. Rewired(l, i, x, p)
  BY <1>1, <1>6, <1>7 DEF Rewired
<1>9. PICK v : v = <<y, l, s>>
  OBVIOUS
<1>10. v \in ReliableWays /\ Transit[v] = q /\ Transit' = [Transit EXCEPT ![v] = p]
  <2>1. /\ WireTyped /\ OpenedOnce /\ l \in Links /\ i \in DOMAIN bidis[l]
        /\ y \in Ends(l) /\ x \in Ends(l) /\ x = Peer(l, y)
        /\ s \in Used /\ s = bidis[l][i].stream /\ is_reliable(s)
        /\ p \in Seq(Nat) /\ Rewired(l, i, x, p)
    BY <1>1, <1>2, <1>3, <1>4, <1>5, <1>7, <1>8
  <2>2. /\ <<y, l, s>> \in ReliableWays /\ Transit[<<y, l, s>>] = bidis[l][i].wire[x]
        /\ Transit' = [Transit EXCEPT ![<<y, l, s>>] = p]
    BY ONLY <2>1, WayRewired
  <2>3. QED BY <1>6, <1>9, <2>2
<1>11. Transit[v] # <<>> /\ Transit' = [Transit EXCEPT ![v] = Tail(@)]
  BY <1>6, <1>7, <1>10
<1>12. LastGot' = [LastGot EXCEPT ![v] = Head(Transit[v])]
  <2>1. PICK e \in Events : e = MessageOn(l, s, d)
    BY <1>1
  <2>2. IsMessage(e, l, s) /\ e.data = d /\ Emit(x, e)
    BY <1>1, <2>1 DEF IsMessage, MessageOn, Tells
  <2>3. LastGot' = [LastGot EXCEPT ![v] = e.data]
    <3>1. /\ TypedEvents /\ l \in Links /\ y \in Ends(l) /\ x \in Ends(l) /\ x = Peer(l, y)
          /\ s \in Used /\ is_reliable(s) /\ e \in Events /\ IsMessage(e, l, s) /\ Emit(x, e)
      BY <1>2, <1>3, <1>4, <1>5, <2>2
    <3>2. LastGot' = [LastGot EXCEPT ![<<y, l, s>>] = e.data]
      BY ONLY <3>1, WayTold
    <3>3. QED BY <1>9, <3>2
  <2>4. QED BY <1>6, <1>10, <2>2, <2>3
<1>13. IsCut' = IsCut
  BY <1>1, Mapped DEF IsCut
<1>14. AbstractPipe!Get(v)
  BY <1>11, <1>12, <1>13 DEF AbstractPipe!Get, Transit, LastGot, IsCut
<1>15. QED BY <1>10, <1>14 DEF AbstractPipe!PipeNext

\* A stream is opened: nothing is in flight on it, and all else stays.
LEMMA OpeningRests ==
  ASSUME BaseInv, OnceInv, OnceInv', NEW x \in Nodes, OpenCompletes(x)
  PROVE  AbstractPipe!PipeNext
<1>1. OpenBidi(x) /\ UNCHANGED events
  BY DEF OpenCompletes
<1>2. PICK l \in Links, s \in Used :
        /\ l = awaiting[x].link /\ s = awaiting[x].stream /\ awaiting[x].on = "stream"
        /\ l \in Heard(x) /\ s.reliability = "Reliable"
        /\ \E B \in Bidis(l) :
             /\ B.opener = x /\ B.stream = s /\ B.accepted = FALSE
             /\ bidis' = [bidis EXCEPT ![l] = Append(@, B)]
        /\ Len(bidis[l]) \in Nat
        /\ Enrol(x, l, s, Len(bidis[l]) + 1)
        /\ awaiting' = [awaiting EXCEPT ![x] = Idle]
        /\ UNCHANGED <<running, connections, reliable_send_streams, unreliable_send_streams, tasks,
                       cmd_rx, conn_reg_rx, link, datagrams, game, history>>
  BY <1>1, Opening
<1>3. WireTyped /\ OpenedOnce /\ OpenedOnce' /\ UNCHANGED <<link, events>>
  BY <1>1, <1>2 DEF BaseInv, Typed, TypedWire, WireTyped, OnceInv
<1> DEFINE N == [opener |-> x, stream |-> s, accepted |-> FALSE,
                 wire |-> [y \in Ends(l) |-> <<>>], ended |-> [y \in Ends(l) |-> FALSE]]
<1>4. N \in Bidis(l) /\ N.stream = s /\ \A z \in Ends(l) : N.wire[z] = <<>>
  <2>1. [y \in Ends(l) |-> <<>>] \in [Ends(l) -> Seq(Nat)]
    BY Empty
  <2>2. [y \in Ends(l) |-> FALSE] \in [Ends(l) -> BOOLEAN]
    OBVIOUS
  <2>3. x \in Ends(l)
    BY <1>2 DEF Heard, LinksOf
  <2>4. QED BY <1>2, <2>1, <2>2, <2>3 DEF Bidis
<1>5. bidis' = [bidis EXCEPT ![l] = Append(@, N)]
  BY <1>1, <1>2 DEF OpenBidi
<1> HIDE DEF N
<1>6. PICK n \in Nat : n = Len(bidis[l])
  BY <1>2
<1>7. /\ DOMAIN bidis[l] = 1 .. n /\ DOMAIN bidis'[l] = 1 .. n + 1
      /\ bidis'[l][n + 1] = N
      /\ \A i \in DOMAIN bidis[l] : bidis'[l][i] = bidis[l][i]
      /\ \A m \in Links : m # l => bidis'[m] = bidis[m]
  BY <1>3, <1>4, <1>5, <1>6, BidiOpened
<1>8. ASSUME NEW m \in Links, NEW y \in Ends(m), NEW t
      PROVE  FlightIn(bidis'[m], y, t) = FlightIn(bidis[m], y, t)
  <2>1. CASE m # l
    BY <1>7, <2>1
  <2>2. CASE m = l
    <3>1. PICK q, p : q = bidis[l] /\ p = bidis'[l]
      OBVIOUS
    <3>2. /\ DOMAIN q = 1 .. n /\ DOMAIN p = 1 .. n + 1 /\ p[n + 1] = N
          /\ \A i \in 1 .. n : i \in 1 .. n + 1 /\ p[i] = q[i]
          /\ \A i \in 1 .. n + 1 : i \in 1 .. n \/ i = n + 1
          /\ n + 1 \in 1 .. n + 1
      BY <1>7, <3>1
    <3>3. \A i, j \in 1 .. n + 1 : p[i].stream = p[j].stream => i = j
      BY <1>3, <3>1, <3>2 DEF OpenedOnce
    <3>4. ASSUME NEW i \in DOMAIN q, q[i].stream = t PROVE FlightIn(p, y, t) = FlightIn(q, y, t)
      <4>1. i \in DOMAIN p /\ p[i] = q[i]
        BY <3>2
      <4>2. \A j \in DOMAIN p : p[j].stream = t => j = i
        BY <3>2, <3>3, <3>4, <4>1
      <4>3. \A j \in DOMAIN q : q[j].stream = t => j = i
        BY <3>2, <4>2
      <4>4. FlightIn(p, y, t) = p[i].wire[y]
        BY <3>4, <4>1, <4>2, Flight
      <4>5. FlightIn(q, y, t) = q[i].wire[y]
        BY <3>4, <4>3, Flight
      <4>6. QED BY <4>1, <4>4, <4>5
    <3>5. CASE \A i \in DOMAIN q : q[i].stream # t
      <4>1. FlightIn(q, y, t) = <<>>
        BY <3>5, Flight
      <4>2. CASE N.stream = t
        <5>1. PICK i \in DOMAIN p : i = n + 1
          BY <3>2
        <5>2. p[i] = N /\ \A j \in DOMAIN p : p[j].stream = t => j = i
          BY <3>2, <3>5, <5>1
        <5>3. FlightIn(p, y, t) = N.wire[y]
          BY <4>2, <5>2, Flight
        <5>4. QED BY <1>4, <2>2, <3>1, <4>1, <5>3
      <4>3. CASE N.stream # t
        <5>1. \A i \in DOMAIN p : p[i].stream # t
          BY <3>2, <3>5, <4>3
        <5>2. FlightIn(p, y, t) = <<>>
          BY <5>1, Flight
        <5>3. QED BY <2>2, <3>1, <4>1, <5>2
      <4>4. QED BY <4>2, <4>3
    <3>6. QED BY <2>2, <3>1, <3>4, <3>5
  <2>3. QED BY <2>1, <2>2
<1>9. ASSUME NEW w \in ReliableWays
      PROVE  /\ InFlight(w[1], w[2], w[3])' = InFlight(w[1], w[2], w[3])
             /\ LastCame(Peer(w[2], w[1]), w[2], w[3])' = LastCame(Peer(w[2], w[1]), w[2], w[3])
  <2>1. PICK y \in Nodes, a \in Nodes, m \in Links, t \in Used :
          a = w[1] /\ m = w[2] /\ t = w[3] /\ y = Peer(m, a) /\ y \in Ends(m)
    BY WaysOfStreams
  <2>2. InFlight(a, m, t)' = InFlight(a, m, t)
    BY <1>8, <2>1, FlightOnLink
  <2>3. LastCame(Peer(w[2], w[1]), w[2], w[3])' = LastCame(Peer(w[2], w[1]), w[2], w[3])
    BY <1>3 DEF LastCame, IsMessage, Peer, Ends
  <2>4. QED BY <2>1, <2>2, <2>3
<1>10. QED BY <1>3, <1>9, PipeCut

\* At first nothing is in flight, came or is cut.
LEMMA PipeAtFirst == Init => AbstractPipe!PipeInit
<1> SUFFICES ASSUME Init PROVE AbstractPipe!PipeInit
  OBVIOUS
<1>1. ASSUME NEW w \in ReliableWays
      PROVE  /\ InFlight(w[1], w[2], w[3]) = <<>>
             /\ LastCame(Peer(w[2], w[1]), w[2], w[3]) = 0
             /\ (link[w[2]] = "down") = FALSE
  <2>1. w[2] \in Links /\ Peer(w[2], w[1]) \in Nodes
    BY WaysOfStreams
  <2>2. bidis[w[2]] = <<>> /\ events[Peer(w[2], w[1])] = <<>> /\ link[w[2]] = "new"
    BY <2>1 DEF Init
  <2>3. QED BY <2>2 DEF InFlight, LastCame
<1>2. QED BY <1>1 DEF AbstractPipe!PipeInit

\* Every step of the backends is a step of each Pipe.
LEMMA PipeSteps ==
  ASSUME BaseInv, OnceInv, OnceInv', FrameInv, SendsBounded, [Next]_vars
  PROVE  AbstractPipe!PipeNext
<1>1. ConnectsFresh /\ SendsNumbered /\ WrittenOnStreams
  BY DEF FrameInv
<1>2. QED BY <1>1, CalmSteps, CalmIsCut, SendingHands, OpeningRests, ReadingGets

\* The reliable streams of a QUIC connection are pipes (ImplementsPipe): what is written
\* to one comes out at the other end, in order and once, and is lost only with the
\* connection, if of a Reliable stream only one end of the connection is the creator.
THEOREM QuicImplementsPipe == ASSUME OneCreator PROVE Spec => ImplementsPipe
<1> DEFINE IInv == EndInv /\ OnceInv /\ FrameInv /\ SendsBounded
<1>1. Init => IInv
  BY EndsAtFirst, OnceAtFirst, FramesAtFirst, BoundedAtFirst
<1>2. BaseInv /\ IInv /\ [Next]_vars => IInv'
  BY EndsInvKept, OnceInvKept, FramesKept, BoundedKept
<1>3. BaseInv /\ IInv /\ IInv' /\ [Next]_vars => AbstractPipe!PipeNext
  BY PipeSteps
<1> HIDE DEF IInv
<1>4. QED
  BY <1>1, <1>2, <1>3, BaseHolds, PipeAtFirst, PTL
     DEF Spec, ImplementsPipe, AbstractPipe!Spec, Transit, LastGot, IsCut
=============================================================================
