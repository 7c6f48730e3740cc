------------------------------ MODULE TcpProofs ------------------------------
(***************************************************************************)
(* Proofs about TcpBackend, for any nodes, connections, streams, capacities *)
(* of the channels and the buffers, and bounds: its types, the order of    *)
(* what it tells the games, which Sends it drops, and that it implements   *)
(* Pipe.                                                                   *)
(***************************************************************************)
EXTENDS TcpBackend, GameSocketProofs, FiniteSetTheorems

\* What the loop gets when it starts: each connection is dialled once.
Dialled(x) == {k \in Links : Dialer[k] = x}

Distinct(q) ==
  \A i, j \in DOMAIN q : q[i].op = "Connect" /\ i # j => q[i] # q[j]

-----------------------------------------------------------------------------
(* Commands.                                                               *)

\* The dialled connections, each once, in some order.
LEMMA DialledOnce ==
  ASSUME NEW x \in Nodes
  PROVE  LET S == {Command("Connect", l) : l \in Dialled(x)}
             q == SetToSeq(S) IN
         q \in Seq(S) /\ \A i, j \in DOMAIN q : q[i] = q[j] => i = j
<1> DEFINE S == {Command("Connect", l) : l \in Dialled(x)}
           q == SetToSeq(S)
           f == [l \in Dialled(x) |-> Command("Connect", l)]
<1>1. IsFiniteSet(Dialled(x))
  BY LinksAssumption, FS_Subset DEF Dialled
<1>2. f \in Surjection(Dialled(x), S)
  BY DEF Surjection
<1>3. IsFiniteSet(S)
  BY <1>1, <1>2, FS_Surjection
<1> HIDE DEF S, f
<1>4. Cardinality(S) \in Nat /\ ExistsBijection(1 .. Cardinality(S), S)
  BY <1>3, FS_CardinalityType
<1>5. \E g \in [1 .. Cardinality(S) -> S] : IsInjective(g)
  BY <1>4 DEF ExistsBijection, Bijection, Injection
<1>6. q \in [1 .. Cardinality(S) -> S] /\ IsInjective(q)
  BY <1>5 DEF SetToSeq
<1> HIDE DEF q
<1>7. q \in Seq(S) /\ \A i, j \in DOMAIN q : q[i] = q[j] => i = j
  BY <1>4, <1>6 DEF IsInjective
<1>8. QED BY <1>7 DEF q, S

\* The first commands of a game are commands, each of them given once.
LEMMA FirstCommandsDistinct ==
  ASSUME NEW x \in Nodes, NEW S, Command("Bind", NoLink) \in S,
         \A l \in Dialled(x) : Command("Connect", l) \in S
  PROVE  FirstCommands(x) \in Seq(S) /\ Distinct(FirstCommands(x))
<1> DEFINE C == {Command("Connect", l) : l \in Dialled(x)}
           q == SetToSeq(C)
           p == IF Listens(x) THEN <<Command("Bind", NoLink)>> ELSE <<>>
<1>1. q \in Seq(C) /\ \A i, j \in DOMAIN q : q[i] = q[j] => i = j
  BY DialledOnce
<1>2. C \subseteq S
  OBVIOUS
<1>3. FirstCommands(x) = p \o q
  BY DEF FirstCommands, Dialled
<1> HIDE DEF C, q
<1>4. q \in Seq(S)
  BY <1>1, <1>2, MoreAllowed
<1>5. CASE Listens(x)
  <2>1. p = <<Command("Bind", NoLink)>>
    BY <1>5
  <2> DEFINE b == Command("Bind", NoLink)
  <2>2. b.op # "Connect" /\ b \in S
    BY DEF Command
  <2> HIDE DEF b
  <2>3. /\ p \o q \in Seq(S)
        /\ (p \o q)[1] = b
        /\ \A i \in DOMAIN (p \o q) : i # 1 => i - 1 \in DOMAIN q /\ (p \o q)[i] = q[i - 1]
    BY <1>4, <2>1, <2>2 DEF b
  <2>4. \A i, j \in DOMAIN (p \o q) :
          (p \o q)[i].op = "Connect" /\ i # j => (p \o q)[i] # (p \o q)[j]
    <3> SUFFICES ASSUME NEW i \in DOMAIN (p \o q), NEW j \in DOMAIN (p \o q),
                        (p \o q)[i].op = "Connect", i # j
                 PROVE  (p \o q)[i] # (p \o q)[j]
      OBVIOUS
    <3>1. i # 1 /\ i - 1 \in DOMAIN q /\ (p \o q)[i] = q[i - 1]
      BY <2>2, <2>3
    <3>2. CASE j = 1
      BY <2>2, <2>3, <3>2
    <3>3. CASE j # 1
      <4>1. j - 1 \in DOMAIN q /\ (p \o q)[j] = q[j - 1]
        BY <2>3, <3>3
      <4>2. i - 1 # j - 1
        BY <2>3, <1>4, <2>1
      <4>3. QED BY <1>1, <3>1, <4>1, <4>2
    <3>4. QED BY <3>2, <3>3
  <2>5. QED BY <1>3, <2>3, <2>4 DEF Distinct
<1>6. CASE ~Listens(x)
  <2>1. p \o q = q
    BY <1>4, <1>6
  <2>2. QED BY <1>1, <1>3, <1>4, <2>1 DEF Distinct
<1>7. QED BY <1>5, <1>6

\* A queue stays free of repetitions when it loses its head, or gets a command
\* that is no Connect.
LEMMA DistinctTail ==
  ASSUME NEW S, NEW q \in Seq(S), q # <<>>, Distinct(q)
  PROVE  /\ Distinct(Tail(q))
         /\ Head(q).op = "Connect" => \A i \in DOMAIN Tail(q) : Tail(q)[i] # Head(q)
<1>1. Len(q) \in Nat /\ Len(q) # 0 /\ DOMAIN q = 1 .. Len(q) /\ Head(q) = q[1]
  BY EmptySeq
<1>2. Tail(q) \in Seq(S) /\ Len(Tail(q)) = Len(q) - 1
  BY <1>1, HeadTailProperties
<1>3. ASSUME NEW i \in DOMAIN Tail(q)
      PROVE  i \in Nat /\ i + 1 # 1 /\ i + 1 \in DOMAIN q /\ Tail(q)[i] = q[i + 1]
  <2>1. i \in 1 .. (Len(q) - 1)
    BY <1>2
  <2>2. i \in Nat /\ i + 1 # 1 /\ i + 1 \in 1 .. Len(q)
    BY <1>1, <2>1
  <2>3. Tail(q)[i] = q[i + 1]
    BY <1>1, <2>1, <2>2, HeadTailProperties
  <2>4. QED BY <1>1, <2>2, <2>3
<1>4. Distinct(Tail(q))
  BY <1>3 DEF Distinct
<1>5. QED BY <1>1, <1>3, <1>4 DEF Distinct

\* A new element keeps a queue without repetitions.
LEMMA DistinctAppend ==
  ASSUME NEW S, NEW q \in Seq(S), NEW e, e.op # "Connect", Distinct(q)
  PROVE  Distinct(Append(q, e))
<1>1. Len(q) \in Nat /\ DOMAIN q = 1 .. Len(q) /\ DOMAIN Append(q, e) = 1 .. (Len(q) + 1)
  OBVIOUS
<1>2. /\ \A i \in DOMAIN q : Append(q, e)[i] = q[i]
      /\ Append(q, e)[Len(q) + 1] = e
  OBVIOUS
<1>3. \A i \in DOMAIN Append(q, e) : i \in DOMAIN q \/ i = Len(q) + 1
  BY <1>1
<1>4. QED BY <1>2, <1>3 DEF Distinct

\* The command the loop takes has its fields, and so has one it awaits.
LEMMA TakenCommand ==
  ASSUME TypeOK, NEW x \in Nodes, NEW op, TakeCommand(x, op)
  PROVE  /\ cmd_rx' \in [Nodes -> Seq(Commanded)]
         /\ Head(cmd_rx[x]) \in Commanded /\ Head(cmd_rx[x]).op = op
         /\ awaiting[x] = <<>>
         /\ op \notin {"Bind", "Shutdown"} => Head(cmd_rx[x]).conn \in Links
         /\ op = "Send" => Head(cmd_rx[x]).packet \in Packets
         /\ op \in {"CreateStream", "CloseStream"} => Head(cmd_rx[x]).stream \in Streams
<1>1. cmd_rx[x] \in Seq(Commanded) /\ cmd_rx[x] # <<>> /\ Head(cmd_rx[x]).op = op
  BY DEF TypeOK, TakeCommand
<1>2. Head(cmd_rx[x]) \in Commanded /\ Tail(cmd_rx[x]) \in Seq(Commanded)
  BY <1>1
<1>3. cmd_rx' \in [Nodes -> Seq(Commanded)] /\ awaiting[x] = <<>>
  BY <1>2 DEF TypeOK, TakeCommand, Selecting
<1>4. QED BY <1>1, <1>2, <1>3 DEF Commanded

\* What the loop awaits, it awaits for a command about a connection.
LEMMA AwaitedCommand ==
  ASSUME TypeOK, NEW x \in Nodes, NEW op \in {"Connect", "Send"}, Awaits(x, op)
  PROVE  /\ awaiting[x][1] \in Commanded /\ awaiting[x][1].op = op
         /\ awaiting[x][1].conn \in Links
         /\ op = "Send" => awaiting[x][1].packet \in Packets
<1>1. awaiting[x] \in Seq(Commanded) /\ awaiting[x] # <<>> /\ awaiting[x][1].op = op
  BY DEF TypeOK, Awaits
<1>2. awaiting[x][1] \in Commanded
  BY <1>1
<1>3. QED BY <1>1, <1>2 DEF Commanded

-----------------------------------------------------------------------------
(* Types.                                                                  *)

Bounded ==
  \A x \in Nodes :
    /\ Len(awaiting[x]) <= 1 /\ Len(peer_reg_rx[x]) <= Registrations
    /\ \A l \in Links : /\ Len(write_rx[x][l]) <= Channel
                       /\ Len(socket[x][l]) <= Buffer
                       /\ Len(writing[x][l]) <= 1

Typed ==
  /\ running \in [Nodes -> BOOLEAN] /\ listening \in [Nodes -> BOOLEAN]
  /\ accepting \in [Nodes -> Links \cup {NoLink}]
  /\ link \in [Links -> {"new", "open", "down", "refused"}]
  /\ sent \in [Nodes -> Nat]
  /\ peers \in [Nodes -> SUBSET Links] /\ ignored \in [Nodes -> SUBSET Links]
  /\ cmd_rx \in [Nodes -> Seq(Commanded)] /\ awaiting \in [Nodes -> Seq(Commanded)]
  /\ peer_reg_rx \in [Nodes -> Seq(Links)]
  /\ handler \in [Nodes -> [Links -> {"none", "alive", "ended"}]]
  /\ known_streams \in [Nodes -> [Links -> SUBSET Streams]]
  /\ write_rx \in [Nodes -> [Links -> Seq(Packets)]]
  /\ writing \in [Nodes -> [Links -> Seq(Packets)]]
  /\ socket \in [Nodes -> [Links -> Seq(Packets)]]
  /\ got \in [Nodes -> [Links -> Packets \cup {NoPacket}]]

\* The type invariant in its two parts.
LEMMA TypeParts == (TypeOK <=> Typed /\ Bounded) /\ (TypeOK' <=> Typed' /\ Bounded')
BY DEF TypeOK, Typed, Bounded

\* The backend starts with its types.
LEMMA TcpTypeInit == Init => TypeOK
<1> SUFFICES ASSUME Init PROVE Typed /\ Bounded
  BY TypeParts
<1>1. \A x \in Nodes : FirstCommands(x) \in Seq(Commanded)
  <2>1. Command("Bind", NoLink) \in Commanded /\ \A l \in Links : Command("Connect", l) \in Commanded
    BY DEF Command, Commanded
  <2>2. QED BY <2>1, FirstCommandsDistinct DEF Dialled
<1>2. Typed
  BY <1>1 DEF Init, Typed, PerEnd
<1>3. Bounded
  BY CapacityAssumption DEF Init, Bounded, PerEnd
<1>4. QED BY <1>2, <1>3

\* What the games ask for.
LEMMA IssueTypes ==
  ASSUME Typed, NEW x \in Nodes, NEW cmd \in Commanded, Issue(x, cmd)
  PROVE  cmd_rx' \in [Nodes -> Seq(Commanded)]
<1>1. Append(cmd_rx[x], cmd) \in Seq(Commanded)
  BY DEF Typed
<1>2. QED BY <1>1 DEF Typed, Issue

\* The game asks its backend for something, on a connection it knows.
Asks(x) ==
  \E cmd \in Commanded :
    /\ Issue(x, cmd)
    /\ cmd.op # "Connect"
    /\ cmd.op # "Shutdown" => cmd.conn \in LinksOf(x) /\ Knows(x, cmd.conn)

\* A game asks for something and changes little else.
LEMMA GameIssues ==
  ASSUME TypeOK, NEW x \in Nodes, Game(x)
  PROVE  /\ Asks(x)
         /\ sent' \in [Nodes -> Nat]
         /\ UNCHANGED <<loop, peer_reg_rx, tasks, emitted, network, got, ignored>>
<1>1. CASE AskShutdown(x)
  <2>1. Command("Shutdown", NoLink) \in Commanded /\ Command("Shutdown", NoLink).op = "Shutdown"
    BY DEF Command, Commanded
  <2>2. QED BY <1>1, <2>1 DEF AskShutdown, Asks, TypeOK
<1>2. ASSUME NEW l \in LinksOf(x), NEW s \in Streams, AskSend(x, l, s)
      PROVE  /\ Asks(x)
             /\ sent' \in [Nodes -> Nat]
             /\ UNCHANGED <<loop, peer_reg_rx, tasks, emitted, network, got, ignored>>
  <2> DEFINE p == [stream |-> s, data |-> sent[x] + 1]
             cmd == [op |-> "Send", conn |-> l, packet |-> p]
  <2>1. sent[x] \in Nat /\ MaxSends[x] \in Nat /\ sent[x] < MaxSends[x]
    BY <1>2, CapacityAssumption DEF AskSend, TypeOK
  <2>2. p \in Packets
    BY <2>1 DEF Packets
  <2>3. cmd \in Commanded /\ cmd.op = "Send" /\ cmd.conn = l
    BY <2>2 DEF Commanded, LinksOf
  <2>4. Issue(x, cmd) /\ Knows(x, l) /\ sent' = [sent EXCEPT ![x] = @ + 1]
    BY <1>2 DEF AskSend
  <2>5. sent' \in [Nodes -> Nat]
    BY <2>1, <2>4 DEF TypeOK
  <2> HIDE DEF cmd
  <2>6. QED BY <1>2, <2>3, <2>4, <2>5 DEF AskSend, Asks
<1>3. ASSUME NEW l \in LinksOf(x), NEW s \in Streams, AskStream(x, l, s)
      PROVE  /\ Asks(x)
             /\ sent' \in [Nodes -> Nat]
             /\ UNCHANGED <<loop, peer_reg_rx, tasks, emitted, network, got, ignored>>
  <2>1. PICK op \in {"CreateStream", "CloseStream"} :
          Issue(x, [op |-> op, conn |-> l, stream |-> s])
    BY <1>3 DEF AskStream
  <2>2. [op |-> op, conn |-> l, stream |-> s] \in Commanded
    BY DEF Commanded, LinksOf
  <2>3. QED BY <1>3, <2>1, <2>2 DEF AskStream, Asks, TypeOK
<1>4. QED BY <1>1, <1>2, <1>3 DEF Game

\* What a reset leaves in the buffers.
LEMMA ResetLeaves ==
  ASSUME TypeOK, NEW D \in SUBSET Links, Resets(D)
  PROVE  /\ link' = [l \in Links |-> IF l \in D THEN "down" ELSE link[l]]
         /\ socket' \in [Nodes -> [Links -> Seq(Packets)]]
         /\ \A x \in Nodes, l \in Links : IsPrefix(socket'[x][l], socket[x][l])
         /\ \A x \in Nodes, l \in Links \ D : socket'[x][l] = socket[x][l]
<1>1. PICK kept \in [Nodes -> [D -> 0 .. Buffer]] :
        /\ \A x \in Nodes : \A l \in D : kept[x][l] <= Len(socket[x][l])
        /\ socket' = [x \in Nodes |-> [l \in Links |->
             IF l \in D THEN SubSeq(socket[x][l], 1, kept[x][l]) ELSE socket[x][l]]]
  BY DEF Resets, Truncated
<1>2. ASSUME NEW x \in Nodes, NEW l \in Links
      PROVE  /\ socket'[x][l] \in Seq(Packets)
             /\ IsPrefix(socket'[x][l], socket[x][l])
             /\ l \notin D => socket'[x][l] = socket[x][l]
  <2>1. socket[x][l] \in Seq(Packets) /\ Len(socket[x][l]) \in Nat
    BY DEF TypeOK
  <2>2. CASE l \notin D
    <3>1. socket'[x][l] = socket[x][l]
      BY <1>1, <2>2
    <3>2. QED BY <2>1, <3>1, <2>2 DEF IsPrefix
  <2>3. CASE l \in D
    <3> DEFINE n == kept[x][l]
               t == socket[x][l]
               u == SubSeq(t, 1, n)
    <3>1. n \in Nat /\ n <= Len(t) /\ socket'[x][l] = u
      BY <1>1, <2>3, CapacityAssumption
    <3> HIDE DEF n, t
    <3>2. t \in Seq(Packets) /\ Len(t) \in Nat
      BY <2>1 DEF t
    <3>3. u \in Seq(Packets) /\ Len(u) = n /\ \A i \in 1 .. n : u[i] = t[i]
      BY <3>1, <3>2, SubSeqProperties
    <3> HIDE DEF u
    <3>4. SubSeq(u, 1, n) = u
      BY <3>1, <3>3, SubSeqFull
    <3>5. IsPrefix(u, t)
      BY <3>1, <3>3, <3>4 DEF IsPrefix, u
    <3>6. QED BY <2>3, <3>1, <3>3, <3>5 DEF t
  <2>4. QED BY <2>2, <2>3
<1>3. socket' \in [Nodes -> [Links -> Seq(Packets)]]
  BY <1>1, <1>2
<1>4. QED BY <1>2, <1>3 DEF Resets

\* A prefix is no longer than what it begins.
LEMMA BufferKept ==
  ASSUME TypeOK, NEW D \in SUBSET Links, Resets(D)
  PROVE  \A x \in Nodes, l \in Links : Len(socket'[x][l]) <= Buffer
<1> SUFFICES ASSUME NEW x \in Nodes, NEW l \in Links PROVE Len(socket'[x][l]) <= Buffer
  OBVIOUS
<1>1. Len(socket'[x][l]) <= Len(socket[x][l]) /\ socket'[x][l] \in Seq(Packets)
  BY ResetLeaves DEF IsPrefix
<1>2. Len(socket[x][l]) <= Buffer /\ socket[x][l] \in Seq(Packets)
  BY DEF TypeOK
<1>3. QED BY <1>1, <1>2, CapacityAssumption

\* A packet handed to a handler keeps the types.
LEMMA EnqueueTypes ==
  ASSUME TypeOK, NEW x \in Nodes, NEW cmd, cmd.conn \in Links, cmd.packet \in Packets,
         (Enqueue(x, cmd) /\ ~Full(x, cmd.conn)) \/ UNCHANGED write_rx
  PROVE  /\ write_rx' \in [Nodes -> [Links -> Seq(Packets)]]
         /\ \A y \in Nodes, l \in Links : Len(write_rx'[y][l]) <= Channel
<1>1. CASE UNCHANGED write_rx
  BY <1>1 DEF TypeOK
<1>2. CASE Enqueue(x, cmd) /\ ~Full(x, cmd.conn)
  <2> DEFINE q == write_rx[x][cmd.conn]
             n == Append(q, cmd.packet)
  <2>1. q \in Seq(Packets) /\ ~(Len(q) >= Channel)
    BY <1>2 DEF TypeOK, Full
  <2>2. n \in Seq(Packets) /\ Len(n) <= Channel
    BY <2>1, CapacityAssumption
  <2> HIDE DEF n
  <2>3. write_rx' = [write_rx EXCEPT ![x][cmd.conn] = n]
    BY <1>2 DEF Enqueue, n
  <2>4. write_rx \in [Nodes -> [Links -> Seq(Packets)]]
        /\ \A y \in Nodes, l \in Links : Len(write_rx[y][l]) <= Channel
    BY DEF TypeOK
  <2>5. QED BY <2>2, <2>3, <2>4
<1>3. QED BY <1>1, <1>2

\* A packet handed to a handler is handed to no other.
LEMMA EnqueueElsewhere ==
  ASSUME Typed, NEW x \in Nodes, NEW cmd, UNCHANGED write_rx \/ Enqueue(x, cmd)
  PROVE  \A y \in Nodes, l \in Links : y # x \/ l # cmd.conn => write_rx'[y][l] = write_rx[y][l]
<1>1. CASE UNCHANGED write_rx
  BY <1>1
<1>2. CASE Enqueue(x, cmd)
  <2> DEFINE k == cmd.conn
             n == Append(write_rx[x][k], cmd.packet)
  <2>1. write_rx' = [write_rx EXCEPT ![x][k] = n]
    BY <1>2 DEF Enqueue
  <2> HIDE DEF n, k
  <2>2. write_rx \in [Nodes -> [Links -> Seq(Packets)]]
    BY DEF Typed
  <2>3. \A y \in Nodes, l \in Links : y # x \/ l # k => write_rx'[y][l] = write_rx[y][l]
    BY <2>1, <2>2
  <2>4. QED BY <2>3 DEF k
<1>3. QED BY <1>1, <1>2

\* The end of a backend keeps the types.
LEMMA RunEndsTypes ==
  ASSUME TypeOK, NEW x \in Nodes, RunEnds(x), cmd_rx' \in [Nodes -> Seq(Commanded)]
  PROVE  TypeOK'
<1> DEFINE D == {l \in LinksOf(x) : link[l] = "open"}
<1>1. D \in SUBSET Links /\ Resets(D)
  BY DEF RunEnds, LinksOf
<1> HIDE DEF D
<1>2. /\ link' \in [Links -> {"new", "open", "down", "refused"}]
      /\ socket' \in [Nodes -> [Links -> Seq(Packets)]]
  BY <1>1, ResetLeaves DEF TypeOK
<1>3. /\ running' = [running EXCEPT ![x] = FALSE]
      /\ listening' = [listening EXCEPT ![x] = FALSE]
      /\ handler' = [handler EXCEPT ![x] =
           [l \in Links |-> IF handler[x][l] = "alive" THEN "ended" ELSE handler[x][l]]]
      /\ write_rx' = [write_rx EXCEPT ![x] = [l \in Links |-> <<>>]]
      /\ writing' = [writing EXCEPT ![x] = [l \in Links |-> <<>>]]
      /\ UNCHANGED <<awaiting, peers, peer_reg_rx, accepting, known_streams, sent, got, ignored>>
  BY DEF RunEnds
<1>4. Typed'
  BY <1>2, <1>3 DEF TypeOK, Typed
<1>5. Bounded'
  <2>1. \A y \in Nodes, l \in Links : Len(socket'[y][l]) <= Buffer
    BY <1>1, BufferKept
  <2>2. \A y \in Nodes, l \in Links :
          /\ write_rx'[y][l] \in {<<>>, write_rx[y][l]}
          /\ writing'[y][l] \in {<<>>, writing[y][l]}
    BY <1>3 DEF TypeOK
  <2>3. Len(<<>>) = 0 /\ 0 <= 1 /\ 0 <= Channel
    BY CapacityAssumption
  <2>4. Bounded
    BY TypeParts
  <2>5. QED BY <1>3, <2>1, <2>2, <2>3, <2>4 DEF Bounded
<1>6. QED BY <1>4, <1>5, TypeParts

\* The steps of the loop.
LEMMA LoopTypes ==
  ASSUME TypeOK, NEW x \in Nodes, Loop(x)
  PROVE  TypeOK'
<1>0. Typed /\ Bounded
  BY TypeParts
<1>1. CASE RegisterPeer(x)
  <2>1. /\ peer_reg_rx[x] \in Seq(Links) /\ peer_reg_rx[x] # <<>>
        /\ Len(peer_reg_rx[x]) <= Registrations
    BY <1>0, <1>1 DEF RegisterPeer, Typed, Bounded
  <2>2. /\ Head(peer_reg_rx[x]) \in Links /\ Tail(peer_reg_rx[x]) \in Seq(Links)
        /\ Len(Tail(peer_reg_rx[x])) <= Registrations
    BY <2>1, CapacityAssumption
  <2>3. Typed'
    BY <1>0, <1>1, <2>2 DEF RegisterPeer, Typed, tasks, network
  <2>4. Bounded'
    BY <1>0, <1>1, <2>2 DEF RegisterPeer, Bounded, tasks, network
  <2>5. QED BY <2>3, <2>4, TypeParts
<1>2. CASE Bind(x)
  <2>1. cmd_rx' \in [Nodes -> Seq(Commanded)]
    BY <1>2, TakenCommand DEF Bind
  <2>2. Typed' /\ Bounded'
    BY <1>0, <1>2, <2>1 DEF Bind, Typed, Bounded, loop, network
  <2>3. QED BY <2>2, TypeParts
<1>3. CASE Shutdown(x) \/ BindFails(x)
  <2>1. cmd_rx' \in [Nodes -> Seq(Commanded)] /\ RunEnds(x)
    BY <1>3, TakenCommand DEF Shutdown, BindFails
  <2>2. QED BY <2>1, RunEndsTypes
<1>4. CASE Connect(x)
  <2>1. cmd_rx' \in [Nodes -> Seq(Commanded)] /\ Head(cmd_rx[x]) \in Commanded
    BY <1>4, TakenCommand DEF Connect
  <2>2. <<Head(cmd_rx[x])>> \in Seq(Commanded) /\ Len(<<Head(cmd_rx[x])>>) <= 1
    BY <2>1
  <2>3. Typed' /\ Bounded'
    BY <1>0, <1>4, <2>1, <2>2 DEF Connect, Typed, Bounded, tasks, network
  <2>4. QED BY <2>3, TypeParts
<1>5. CASE ConnectCompletes(x)
  <2>1. awaiting[x][1].conn \in Links
    BY <1>5, AwaitedCommand DEF ConnectCompletes
  <2> DEFINE l == awaiting[x][1].conn
  <2>2. Typed'
    <3>1. /\ awaiting' = [awaiting EXCEPT ![x] = <<>>]
          /\ link' = [link EXCEPT ![l] = "open"]
          /\ handler' = [handler EXCEPT ![x][l] = "alive"]
          /\ peers' = [peers EXCEPT ![x] = @ \cup {l}]
          /\ UNCHANGED <<running, cmd_rx, peer_reg_rx, listening, accepting, known_streams,
                         write_rx, writing, socket, sent, got, ignored>>
      BY <1>5 DEF ConnectCompletes, SpawnHandler
    <3> HIDE DEF l
    <3>2. l \in Links
      BY <2>1 DEF l
    <3>3. QED BY <1>0, <3>1, <3>2 DEF Typed
  <2>3. Bounded'
    BY <1>0, <1>5 DEF ConnectCompletes, Bounded
  <2>4. QED BY <2>2, <2>3, TypeParts
<1>6. CASE ConnectFails(x)
  <2>1. awaiting[x][1].conn \in Links
    BY <1>6, AwaitedCommand DEF ConnectFails
  <2>2. Typed' /\ Bounded'
    BY <1>0, <1>6, <2>1 DEF ConnectFails, Typed, Bounded, tasks
  <2>3. QED BY <2>2, TypeParts
<1>7. CASE Send(x)
  <2> DEFINE cmd == Head(cmd_rx[x])
             open == cmd.conn \in peers[x] /\ handler[x][cmd.conn] = "alive"
  <2>1. /\ cmd_rx' \in [Nodes -> Seq(Commanded)] /\ cmd \in Commanded
        /\ cmd.conn \in Links /\ cmd.packet \in Packets
    BY <1>7, TakenCommand DEF Send
  <2>2. (Enqueue(x, cmd) /\ ~Full(x, cmd.conn)) \/ UNCHANGED write_rx
    BY <1>0, <1>7 DEF Send
  <2>3. /\ write_rx' \in [Nodes -> [Links -> Seq(Packets)]]
        /\ \A y \in Nodes, l \in Links : Len(write_rx'[y][l]) <= Channel
    BY <2>1, <2>2, EnqueueTypes
  <2>4. <<cmd>> \in Seq(Commanded) /\ Len(<<cmd>>) = 1 /\ Len(<<>>) = 0 /\ <<>> \in Seq(Commanded)
    BY <2>1
  <2>5. \E a \in {<<>>, <<cmd>>} : awaiting' = [awaiting EXCEPT ![x] = a]
    BY <1>0, <1>7 DEF Send
  <2>6. ignored' \in [Nodes -> SUBSET Links]
    BY <1>0, <1>7, <2>1 DEF Send, Typed
  <2>7. UNCHANGED <<running, peers, peer_reg_rx, listening, accepting, handler, known_streams,
                    writing, link, socket, sent, got>>
    BY <1>0, <1>7 DEF Send, network
  <2> HIDE DEF cmd, open
  <2>8. awaiting' \in [Nodes -> Seq(Commanded)] /\ \A y \in Nodes : Len(awaiting'[y]) <= 1
    <3>1. PICK a \in {<<>>, <<cmd>>} : awaiting' = [awaiting EXCEPT ![x] = a]
      BY <2>5
    <3>2. a \in Seq(Commanded) /\ Len(a) <= 1
      <4>1. CASE a = <<>>
        BY <4>1
      <4>2. CASE a = <<cmd>>
        BY <2>1, <4>2
      <4>3. QED BY <4>1, <4>2
    <3>3. QED BY <1>0, <3>1, <3>2 DEF Typed, Bounded
  <2>9. Typed' /\ Bounded'
    BY <1>0, <2>1, <2>3, <2>6, <2>7, <2>8 DEF Typed, Bounded
  <2>10. QED BY <2>9, TypeParts
<1>8. CASE SendResumes(x)
  <2> DEFINE cmd == awaiting[x][1]
  <2>1. cmd.conn \in Links /\ cmd.packet \in Packets
    BY <1>0, <1>8, AwaitedCommand DEF SendResumes
  <2>2. (Enqueue(x, cmd) /\ ~Full(x, cmd.conn)) \/ UNCHANGED write_rx
    BY <1>0, <1>8 DEF SendResumes
  <2>3. /\ write_rx' \in [Nodes -> [Links -> Seq(Packets)]]
        /\ \A y \in Nodes, l \in Links : Len(write_rx'[y][l]) <= Channel
    BY <2>1, <2>2, EnqueueTypes
  <2>4. /\ awaiting' = [awaiting EXCEPT ![x] = <<>>]
        /\ UNCHANGED <<running, peers, cmd_rx, peer_reg_rx, listening, accepting, handler,
                       known_streams, writing, link, socket, sent, got, ignored>>
    BY <1>0, <1>8 DEF SendResumes, network
  <2>5. Typed' /\ Bounded'
    BY <1>0, <2>3, <2>4 DEF Typed, Bounded
  <2>6. QED BY <2>5, TypeParts
<1>9. CASE StreamCommand(x)
  <2>1. cmd_rx' \in [Nodes -> Seq(Commanded)]
    BY <1>9, TakenCommand DEF StreamCommand
  <2>2. Typed' /\ Bounded'
    BY <1>0, <1>9, <2>1 DEF StreamCommand, Typed, Bounded, loop, tasks, network
  <2>3. QED BY <2>2, TypeParts
<1>10. QED BY <1>1, <1>2, <1>3, <1>4, <1>5, <1>6, <1>7, <1>8, <1>9 DEF Loop

\* The steps of the listener.
LEMMA ListenerTypes ==
  ASSUME TypeOK, NEW x \in Nodes, Listener(x) \/ AcceptFails(x)
  PROVE  TypeOK'
<1>0. Typed /\ Bounded
  BY TypeParts
<1>1. CASE AcceptRegister(x)
  <2>1. /\ accepting[x] \in Links /\ peer_reg_rx[x] \in Seq(Links)
        /\ Len(peer_reg_rx[x]) < Registrations
    BY <1>0, <1>1 DEF AcceptRegister, Typed
  <2> DEFINE q == Append(peer_reg_rx[x], accepting[x])
  <2>2. q \in Seq(Links) /\ Len(q) <= Registrations
    BY <2>1, CapacityAssumption
  <2>3. /\ peer_reg_rx' = [peer_reg_rx EXCEPT ![x] = q]
        /\ accepting' = [accepting EXCEPT ![x] = NoLink]
        /\ UNCHANGED <<running, awaiting, peers, cmd_rx, listening, handler, known_streams,
                       write_rx, writing, link, socket, sent, got, ignored>>
    BY <1>1 DEF AcceptRegister, loop, network
  <2> HIDE DEF q
  <2>4. Typed' /\ Bounded'
    BY <1>0, <2>2, <2>3 DEF Typed, Bounded
  <2>5. QED BY <2>4, TypeParts
<1>2. ASSUME NEW l \in LinksOf(x), Accept(x, l) PROVE TypeOK'
  <2>1. /\ l \in Links
        /\ handler' = [handler EXCEPT ![x][l] = "alive"]
        /\ accepting' = [accepting EXCEPT ![x] = l]
        /\ UNCHANGED <<running, awaiting, peers, cmd_rx, peer_reg_rx, listening, known_streams,
                       write_rx, writing, link, socket, sent, got, ignored>>
    BY <1>2 DEF Accept, SpawnHandler, LinksOf, loop, network
  <2>2. Typed' /\ Bounded'
    BY <1>0, <2>1 DEF Typed, Bounded
  <2>3. QED BY <2>2, TypeParts
<1>3. CASE AcceptFails(x)
  <2> DEFINE D == {l \in Backlog(x) : link[l] = "open"}
  <2>1. D \in SUBSET Links /\ Resets(D)
    BY <1>3 DEF AcceptFails, Backlog
  <2> HIDE DEF D
  <2>2. /\ link' \in [Links -> {"new", "open", "down", "refused"}]
        /\ socket' \in [Nodes -> [Links -> Seq(Packets)]]
        /\ \A y \in Nodes, l \in Links : Len(socket'[y][l]) <= Buffer
    BY <1>0, <2>1, ResetLeaves, BufferKept DEF Typed
  <2>3. /\ listening' = [listening EXCEPT ![x] = FALSE]
        /\ UNCHANGED <<running, awaiting, peers, cmd_rx, peer_reg_rx, accepting, handler,
                       known_streams, write_rx, writing, sent, got, ignored>>
    BY <1>3 DEF AcceptFails, loop
  <2>4. Typed' /\ Bounded'
    BY <1>0, <2>2, <2>3 DEF Typed, Bounded
  <2>5. QED BY <2>4, TypeParts
<1>4. QED BY <1>1, <1>2, <1>3 DEF Listener

\* The steps of a handler.
LEMMA HandlerTypes ==
  ASSUME TypeOK, NEW x \in Nodes, NEW l \in LinksOf(x), Handler(x, l)
  PROVE  TypeOK'
<1>0. Typed /\ Bounded /\ l \in Links /\ Peer(l, x) \in Nodes
  BY TypeParts, LinksAssumption DEF LinksOf, Peer
<1>1. CASE Read(x, l)
  <2> DEFINE y == Peer(l, x)
             p == Head(socket[y][l])
             t == Tail(socket[y][l])
  <2>1. socket[y][l] \in Seq(Packets) /\ socket[y][l] # <<>> /\ Len(socket[y][l]) <= Buffer
    BY <1>0, <1>1 DEF Read, Incoming, Typed, Bounded
  <2>2. p \in Packets /\ p.stream \in Streams /\ t \in Seq(Packets) /\ Len(t) <= Buffer
    <3>1. /\ p \in Packets /\ t \in Seq(Packets)
          /\ Len(t) <= Len(socket[y][l]) /\ Len(t) \in Nat /\ Len(socket[y][l]) \in Nat
      BY <2>1, TakenFrom
    <3>2. Len(t) <= Buffer
      BY <2>1, <3>1, CapacityAssumption
    <3> HIDE DEF p
    <3>3. p.stream \in Streams
      BY <3>1 DEF Packets
    <3>4. QED BY <3>1, <3>2, <3>3
  <2>3. /\ socket' = [socket EXCEPT ![y][l] = t]
        /\ known_streams' = [known_streams EXCEPT ![x][l] = @ \cup {p.stream}]
        /\ got' = [got EXCEPT ![x][l] = p]
        /\ UNCHANGED <<running, awaiting, peers, cmd_rx, peer_reg_rx, listening, accepting,
                       handler, write_rx, writing, link, sent, ignored>>
    BY <1>1 DEF Read, Incoming, loop
  <2>4. y \in Nodes
    BY <1>0
  <2> HIDE DEF y, p, t
  <2>5. Typed' /\ Bounded'
    BY <1>0, <2>2, <2>3, <2>4 DEF Typed, Bounded
  <2>6. QED BY <2>5, TypeParts
<1>2. CASE ReadEnd(x, l)
  <2>1. /\ handler' = [handler EXCEPT ![x][l] = "ended"]
        /\ write_rx' = [write_rx EXCEPT ![x][l] = <<>>]
        /\ UNCHANGED <<running, awaiting, peers, cmd_rx, peer_reg_rx, listening, accepting,
                       known_streams, writing, link, socket, sent, got, ignored>>
    BY <1>2 DEF ReadEnd, loop, network
  <2>2. Typed'
    <3>1. handler' \in [Nodes -> [Links -> {"none", "alive", "ended"}]]
      BY <1>0, <2>1 DEF Typed
    <3>2. write_rx' \in [Nodes -> [Links -> Seq(Packets)]]
      <4>1. <<>> \in Seq(Packets)
        OBVIOUS
      <4>2. QED BY <1>0, <2>1, <4>1 DEF Typed
    <3>3. QED BY <1>0, <2>1, <3>1, <3>2 DEF Typed
  <2>3. Bounded'
    <3>1. \A y \in Nodes, k \in Links : write_rx'[y][k] \in {<<>>, write_rx[y][k]}
      BY <1>0, <2>1 DEF Typed
    <3>2. Len(<<>>) = 0 /\ 0 <= Channel
      BY CapacityAssumption
    <3>3. QED BY <1>0, <2>1, <3>1, <3>2 DEF Bounded
  <2>4. QED BY <2>2, <2>3, TypeParts
<1>3. CASE TakePacket(x, l)
  <2> DEFINE h == <<Head(write_rx[x][l])>>
             t == Tail(write_rx[x][l])
  <2>1. write_rx[x][l] \in Seq(Packets) /\ write_rx[x][l] # <<>> /\ Len(write_rx[x][l]) <= Channel
    BY <1>0, <1>3 DEF TakePacket, Typed, Bounded
  <2>2. h \in Seq(Packets) /\ Len(h) <= 1 /\ t \in Seq(Packets) /\ Len(t) <= Channel
    BY <2>1, CapacityAssumption
  <2>3. /\ writing' = [writing EXCEPT ![x][l] = h]
        /\ write_rx' = [write_rx EXCEPT ![x][l] = t]
        /\ UNCHANGED <<running, awaiting, peers, cmd_rx, peer_reg_rx, listening, accepting,
                       handler, known_streams, link, socket, sent, got, ignored>>
    BY <1>3 DEF TakePacket, loop, network
  <2> HIDE DEF h, t
  <2>4. Typed' /\ Bounded'
    BY <1>0, <2>2, <2>3 DEF Typed, Bounded
  <2>5. QED BY <2>4, TypeParts
<1>4. CASE Write(x, l)
  <2> DEFINE b == socket[x][l] \o writing[x][l]
  <2>1. /\ socket[x][l] \in Seq(Packets) /\ writing[x][l] \in Seq(Packets)
        /\ Len(writing[x][l]) <= 1
    BY <1>0 DEF Typed, Bounded
  <2>2. b \in Seq(Packets) /\ (Len(socket[x][l]) < Buffer => Len(b) <= Buffer)
    <3>1. /\ b \in Seq(Packets) /\ Len(b) = Len(socket[x][l]) + Len(writing[x][l])
          /\ Len(socket[x][l]) \in Nat /\ Len(writing[x][l]) \in Nat
      BY <2>1, ConcatProperties
    <3>2. Buffer \in Nat
      BY CapacityAssumption
    <3>3. ASSUME Len(socket[x][l]) < Buffer PROVE Len(b) <= Buffer
      <4>1. \A i, j, k \in Nat : i < k /\ j <= 1 => i + j <= k
        OBVIOUS
      <4>2. QED BY <2>1, <3>1, <3>2, <3>3, <4>1
    <3>4. QED BY <3>1, <3>3
  <2>3. /\ UNCHANGED socket \/ (Len(socket[x][l]) < Buffer /\ socket' = [socket EXCEPT ![x][l] = b])
        /\ x \in Nodes /\ l \in Links
        /\ writing' = [writing EXCEPT ![x][l] = <<>>]
        /\ UNCHANGED <<running, awaiting, peers, cmd_rx, peer_reg_rx, listening, accepting,
                       handler, known_streams, write_rx, link, sent, got, ignored>>
    BY <1>0, <1>4 DEF Write, loop
  <2> HIDE DEF b
  <2>4. Typed'
    <3>1. socket' \in [Nodes -> [Links -> Seq(Packets)]]
      <4>1. CASE UNCHANGED socket
        BY <1>0, <4>1 DEF Typed
      <4>2. CASE socket' = [socket EXCEPT ![x][l] = b]
        BY <1>0, <2>2, <2>3, <4>2 DEF Typed
      <4>3. QED BY <2>3, <4>1, <4>2
    <3>2. writing' \in [Nodes -> [Links -> Seq(Packets)]]
      <4>1. <<>> \in Seq(Packets)
        OBVIOUS
      <4>2. QED BY <1>0, <2>3, <4>1 DEF Typed
    <3>3. QED BY <1>0, <2>3, <3>1, <3>2 DEF Typed
  <2>5. Bounded'
    <3>1. \A y \in Nodes, k \in Links : writing'[y][k] \in {<<>>, writing[y][k]}
      BY <1>0, <2>3 DEF Typed
    <3>2. \A y \in Nodes, k \in Links : Len(socket'[y][k]) <= Buffer
      <4>1. \A y \in Nodes, k \in Links :
              socket'[y][k] = socket[y][k] \/ (socket'[y][k] = b /\ Len(socket[x][l]) < Buffer)
        <5>1. CASE UNCHANGED socket
          BY <5>1
        <5>2. CASE Len(socket[x][l]) < Buffer /\ socket' = [socket EXCEPT ![x][l] = b]
          BY <1>0, <2>3, <5>2 DEF Typed
        <5>3. QED BY <2>3, <5>1, <5>2
      <4>2. QED BY <1>0, <2>2, <4>1 DEF Bounded
    <3>3. Len(<<>>) = 0 /\ 0 <= 1
      OBVIOUS
    <3>4. QED BY <1>0, <2>3, <3>1, <3>2, <3>3 DEF Bounded
  <2>6. QED BY <2>4, <2>5, TypeParts
<1>5. QED BY <1>1, <1>2, <1>3, <1>4 DEF Handler

\* One step per action of the backend.
LEMMA TcpTypeStep == TypeOK /\ [Next]_vars => TypeOK'
<1> SUFFICES ASSUME TypeOK, [Next]_vars PROVE TypeOK'
  OBVIOUS
<1>0. Typed /\ Bounded
  BY TypeParts
<1>1. ASSUME NEW x \in Nodes, Game(x) PROVE TypeOK'
  <2>1. /\ cmd_rx' \in [Nodes -> Seq(Commanded)]
        /\ sent' \in [Nodes -> Nat]
        /\ UNCHANGED <<running, awaiting, peers, peer_reg_rx, listening, accepting, handler,
                       known_streams, write_rx, writing, link, socket, got, ignored>>
    <3>0. Asks(x)
      BY <1>1, GameIssues
    <3>1. PICK cmd \in Commanded : Issue(x, cmd)
      BY <3>0 DEF Asks
    <3>2. cmd_rx' \in [Nodes -> Seq(Commanded)]
      BY <1>0, <3>1, IssueTypes
    <3>3. QED BY <1>1, <3>2, GameIssues DEF loop, tasks, network
  <2>2. Typed' /\ Bounded'
    BY <1>0, <2>1 DEF Typed, Bounded
  <2>3. QED BY <2>2, TypeParts
<1>2. ASSUME NEW l \in Links, ResetLink(l) PROVE TypeOK'
  <2> DEFINE D == {l}
  <2>1. D \in SUBSET Links /\ Resets(D)
    BY <1>2 DEF ResetLink
  <2> HIDE DEF D
  <2>2. /\ link' \in [Links -> {"new", "open", "down", "refused"}]
        /\ socket' \in [Nodes -> [Links -> Seq(Packets)]]
        /\ \A y \in Nodes, k \in Links : Len(socket'[y][k]) <= Buffer
    BY <1>0, <2>1, ResetLeaves, BufferKept DEF Typed
  <2>3. UNCHANGED <<running, awaiting, peers, cmd_rx, peer_reg_rx, listening, accepting, handler,
                    known_streams, write_rx, writing, sent, got, ignored>>
    BY <1>2 DEF ResetLink, loop, tasks
  <2>4. Typed' /\ Bounded'
    BY <1>0, <2>2, <2>3 DEF Typed, Bounded
  <2>5. QED BY <2>4, TypeParts
<1>3. CASE UNCHANGED vars
  <2>1. Typed' /\ Bounded'
    BY <1>0, <1>3 DEF vars, loop, tasks, network, Typed, Bounded
  <2>2. QED BY <2>1, TypeParts
<1>4. QED
  BY <1>1, <1>2, <1>3, LoopTypes, ListenerTypes, HandlerTypes DEF Next

\* The variables of the TCP backend have their types, and its channels and
\* buffers are never filled beyond their capacities.
THEOREM TcpTypeCorrect == Spec => []TypeOK
BY TcpTypeInit, TcpTypeStep, PTL DEF Spec

-----------------------------------------------------------------------------
(* What the games are told, and which Sends are dropped.                   *)

\* A game was told exactly of the connections that have or had a handler here,
\* and of the streams the handler knows; of the end of none that goes on.
HandlersTold ==
  \A x \in Nodes, l \in Links :
    /\ Connected(l) \in told[x] <=> handler[x][l] # "none"
    /\ Disconnected(l) \in told[x] => handler[x][l] = "ended"
    /\ \A s \in Streams :
         s \in known_streams[x][l] <=> StreamCreated(l, s, "peer") \in told[x]

\* A handler belongs to an end of a connection that was made, and the loop of the
\* dialer has its handle; it ends with the connection, and its channel with it.
HandlersLinked ==
  \A x \in Nodes, l \in Links :
    /\ handler[x][l] # "none" =>
         /\ x \in Ends(l) /\ link[l] \in {"open", "down"}
         /\ x = Dialer[l] => l \in peers[x]
    /\ handler[x][l] = "ended" => link[l] = "down"
    /\ handler[x][l] # "alive" => write_rx[x][l] = <<>> /\ writing[x][l] = <<>>

\* What the loop may be asked: to make a connection of its own, not made before,
\* or something on one its game was told of.
OnConn == {"Send", "CreateStream", "CloseStream"}

Allowed(x) ==
  {cmd \in Commanded :
     /\ cmd.op = "Connect" => Dialer[cmd.conn] = x /\ link[cmd.conn] = "new"
     /\ cmd.op \in OnConn => x \in Ends(cmd.conn) /\ handler[x][cmd.conn] # "none"}

\* And each connection is to be made once.
CommandsAllowed ==
  \A x \in Nodes :
    /\ cmd_rx[x] \in Seq(Allowed(x)) /\ awaiting[x] \in Seq(Allowed(x))
    /\ Distinct(cmd_rx[x])
    /\ awaiting[x] # <<>> /\ awaiting[x][1].op = "Connect" =>
         \A i \in DOMAIN cmd_rx[x] : cmd_rx[x][i] # awaiting[x][1]

OrderInv ==
  /\ TypeOK /\ ToldTypes /\ HandlersTold /\ HandlersLinked /\ CommandsAllowed
  /\ OrderlyEvents /\ DialerNeverIgnored

\* What is allowed stays so while no connection is made or refused, and no
\* handler is undone.
LEMMA AllowedStays ==
  ASSUME TypeOK, \A l \in Links : link[l] = "new" => link'[l] = "new",
         \A y \in Nodes, l \in Links : handler[y][l] # "none" => handler'[y][l] # "none"
  PROVE  \A y \in Nodes : Allowed(y) \subseteq Allowed(y)' /\ Seq(Allowed(y)) \subseteq Seq(Allowed(y)')
<1>1. ASSUME NEW y \in Nodes PROVE Allowed(y) \subseteq Allowed(y)'
  <2> SUFFICES ASSUME NEW cmd \in Allowed(y) PROVE cmd \in Allowed(y)'
    OBVIOUS
  <2>1. /\ cmd \in Commanded
        /\ cmd.op = "Connect" => Dialer[cmd.conn] = y /\ link[cmd.conn] = "new"
        /\ cmd.op \in OnConn => y \in Ends(cmd.conn) /\ handler[y][cmd.conn] # "none"
    BY DEF Allowed
  <2>2. cmd.op \in OnConn \cup {"Connect"} => cmd.conn \in Links
    BY <2>1 DEF Commanded, OnConn
  <2>3. QED BY <2>1, <2>2 DEF Allowed
<1>2. QED BY <1>1, MoreAllowed

\* The queues, when nothing is asked, or the game asks.
LEMMA CommandsKept ==
  ASSUME TypeOK, CommandsAllowed, NEW x \in Nodes,
         \A y \in Nodes : Allowed(y) \subseteq Allowed(y)' /\ Seq(Allowed(y)) \subseteq Seq(Allowed(y)'),
         UNCHANGED awaiting,
         \/ UNCHANGED cmd_rx
         \/ \E cmd \in Allowed(x) :
              cmd.op # "Connect" /\ cmd_rx' = [cmd_rx EXCEPT ![x] = Append(@, cmd)]
  PROVE  CommandsAllowed'
<1>1. CASE UNCHANGED cmd_rx
  BY <1>1 DEF CommandsAllowed, Distinct
<1>2. ASSUME NEW cmd \in Allowed(x), cmd.op # "Connect",
             cmd_rx' = [cmd_rx EXCEPT ![x] = Append(@, cmd)]
      PROVE  CommandsAllowed'
  <2>1. /\ cmd_rx'[x] = Append(cmd_rx[x], cmd)
        /\ \A y \in Nodes : y # x => cmd_rx'[y] = cmd_rx[y]
    BY <1>2 DEF TypeOK
  <2>2. /\ cmd_rx[x] \in Seq(Allowed(x)) /\ Distinct(cmd_rx[x])
        /\ awaiting[x] # <<>> /\ awaiting[x][1].op = "Connect" =>
             \A i \in DOMAIN cmd_rx[x] : cmd_rx[x][i] # awaiting[x][1]
    BY DEF CommandsAllowed
  <2>3. cmd_rx'[x] \in Seq(Allowed(x)) /\ Distinct(cmd_rx'[x])
    BY <1>2, <2>1, <2>2, DistinctAppend
  <2>4. ASSUME awaiting[x] # <<>>, awaiting[x][1].op = "Connect", NEW i \in DOMAIN cmd_rx'[x]
        PROVE  cmd_rx'[x][i] # awaiting[x][1]
    <3>1. (i \in DOMAIN cmd_rx[x] /\ cmd_rx'[x][i] = cmd_rx[x][i]) \/ cmd_rx'[x][i] = cmd
      BY <2>1, <2>2, <2>4
    <3>2. QED BY <1>2, <2>2, <2>4, <3>1
  <2>5. ASSUME NEW y \in Nodes
        PROVE  /\ cmd_rx'[y] \in Seq(Allowed(y)') /\ awaiting'[y] \in Seq(Allowed(y)')
               /\ Distinct(cmd_rx'[y])
               /\ awaiting'[y] # <<>> /\ awaiting'[y][1].op = "Connect" =>
                    \A i \in DOMAIN cmd_rx'[y] : cmd_rx'[y][i] # awaiting'[y][1]
    <3>1. CASE y # x
      <4>1. cmd_rx'[y] = cmd_rx[y] /\ awaiting'[y] = awaiting[y]
        BY <2>1, <3>1
      <4>2. /\ cmd_rx[y] \in Seq(Allowed(y)) /\ awaiting[y] \in Seq(Allowed(y))
            /\ Distinct(cmd_rx[y])
            /\ awaiting[y] # <<>> /\ awaiting[y][1].op = "Connect" =>
                 \A i \in DOMAIN cmd_rx[y] : cmd_rx[y][i] # awaiting[y][1]
        BY DEF CommandsAllowed
      <4>3. QED BY <4>1, <4>2
    <3>2. CASE y = x
      <4>1. awaiting'[x] = awaiting[x] /\ awaiting[x] \in Seq(Allowed(x))
        BY DEF CommandsAllowed
      <4>2. QED BY <2>3, <2>4, <3>2, <4>1
    <3>3. QED BY <3>1, <3>2
  <2>6. QED BY <2>5 DEF CommandsAllowed, Distinct
<1>3. QED BY <1>1, <1>2

\* The queues, when the loop takes a command, and may then await it.
LEMMA CommandsTaken ==
  ASSUME TypeOK, CommandsAllowed, NEW x \in Nodes, NEW op, TakeCommand(x, op),
         \A y \in Nodes : Allowed(y) \subseteq Allowed(y)' /\ Seq(Allowed(y)) \subseteq Seq(Allowed(y)'),
         UNCHANGED awaiting \/ \E a \in {<<>>, <<Head(cmd_rx[x])>>} : awaiting' = [awaiting EXCEPT ![x] = a]
  PROVE  CommandsAllowed'
<1> DEFINE q == cmd_rx[x]
<1>1. /\ q \in Seq(Allowed(x)) /\ q # <<>> /\ Distinct(q) /\ awaiting[x] = <<>>
      /\ cmd_rx' = [cmd_rx EXCEPT ![x] = Tail(q)]
  BY DEF CommandsAllowed, TakeCommand, Selecting
<1>2. /\ Head(q) \in Allowed(x) /\ Tail(q) \in Seq(Allowed(x)) /\ Distinct(Tail(q))
      /\ Head(q).op = "Connect" => \A i \in DOMAIN Tail(q) : Tail(q)[i] # Head(q)
  BY <1>1, TakenFrom, DistinctTail
<1>3. /\ cmd_rx'[x] = Tail(q)
      /\ \A y \in Nodes : y # x => cmd_rx'[y] = cmd_rx[y]
  BY <1>1 DEF TypeOK
<1>4. /\ awaiting'[x] = <<>> \/ awaiting'[x] = <<Head(q)>>
      /\ \A y \in Nodes : y # x => awaiting'[y] = awaiting[y]
  BY <1>1 DEF TypeOK
<1> HIDE DEF q
<1>5. awaiting'[x] \in Seq(Allowed(x))
  <2>1. <<>> \in Seq(Allowed(x)) /\ <<Head(q)>> \in Seq(Allowed(x))
    BY <1>2
  <2>2. QED BY <1>4, <2>1
<1>6. awaiting'[x] # <<>> => awaiting'[x][1] = Head(q)
  BY <1>4
<1>7. ASSUME NEW y \in Nodes
      PROVE  /\ cmd_rx'[y] \in Seq(Allowed(y)') /\ awaiting'[y] \in Seq(Allowed(y)')
             /\ Distinct(cmd_rx'[y])
             /\ awaiting'[y] # <<>> /\ awaiting'[y][1].op = "Connect" =>
                  \A i \in DOMAIN cmd_rx'[y] : cmd_rx'[y][i] # awaiting'[y][1]
  <2>1. Seq(Allowed(y)) \subseteq Seq(Allowed(y)')
    OBVIOUS
  <2>2. CASE y = x
    BY <1>2, <1>3, <1>5, <1>6, <2>1, <2>2
  <2>3. CASE y # x
    BY <1>3, <1>4, <2>1, <2>3 DEF CommandsAllowed
  <2>4. QED BY <2>2, <2>3
<1>8. QED BY <1>7 DEF CommandsAllowed, Distinct

\* The queues, when what the loop awaited is done.
LEMMA CommandsDone ==
  ASSUME TypeOK, CommandsAllowed, NEW x \in Nodes,
         \A y \in Nodes : Allowed(y) \subseteq Allowed(y)' /\ Seq(Allowed(y)) \subseteq Seq(Allowed(y)'),
         UNCHANGED cmd_rx, awaiting' = [awaiting EXCEPT ![x] = <<>>]
  PROVE  CommandsAllowed'
<1>1. awaiting'[x] = <<>> /\ \A y \in Nodes : y # x => awaiting'[y] = awaiting[y]
  BY DEF TypeOK
<1>2. QED BY <1>1 DEF CommandsAllowed, Distinct

\* A step that tells nobody anything and leaves connections and handlers alone.
LEMMA QuietStep ==
  ASSUME OrderInv, TypeOK', UNCHANGED <<told, surprised, handler, known_streams, link>>,
         \A y \in Nodes : peers[y] \subseteq peers'[y],
         \A y \in Nodes, l \in Links :
           handler[y][l] # "alive" => write_rx'[y][l] = <<>> /\ writing'[y][l] = <<>>,
         CommandsAllowed', DialerNeverIgnored'
  PROVE  OrderInv'
<1>1. ToldTypes' /\ HandlersTold' /\ OrderlyEvents'
  BY DEF OrderInv, ToldTypes, HandlersTold, OrderlyEvents
<1>2. HandlersLinked'
  BY DEF OrderInv, HandlersLinked
<1>3. QED BY <1>1, <1>2 DEF OrderInv

\* A step by which connections are lost, and handlers end with them.
LEMMA LinksLost ==
  ASSUME OrderInv, TypeOK', UNCHANGED <<told, surprised, known_streams, peers, ignored>>,
         \A l \in Links : link'[l] = link[l] \/ (link[l] = "open" /\ link'[l] = "down"),
         \A y \in Nodes, l \in Links :
           \/ UNCHANGED <<handler[y][l], write_rx[y][l], writing[y][l]>>
           \/ /\ handler[y][l] = "alive" /\ handler'[y][l] = "ended" /\ link'[l] = "down"
              /\ write_rx'[y][l] = <<>> /\ writing'[y][l] = <<>>,
         CommandsAllowed'
  PROVE  OrderInv'
<1>1. ToldTypes' /\ OrderlyEvents' /\ DialerNeverIgnored'
  BY DEF OrderInv, ToldTypes, OrderlyEvents, DialerNeverIgnored
<1>2. HandlersTold'
  <2> SUFFICES ASSUME NEW y \in Nodes, NEW l \in Links
               PROVE  /\ Connected(l) \in told[y] <=> handler'[y][l] # "none"
                      /\ Disconnected(l) \in told[y] => handler'[y][l] = "ended"
                      /\ \A s \in Streams :
                           s \in known_streams[y][l] <=> StreamCreated(l, s, "peer") \in told[y]
    BY DEF HandlersTold
  <2>1. /\ Connected(l) \in told[y] <=> handler[y][l] # "none"
        /\ Disconnected(l) \in told[y] => handler[y][l] = "ended"
        /\ \A s \in Streams :
             s \in known_streams[y][l] <=> StreamCreated(l, s, "peer") \in told[y]
    BY DEF OrderInv, HandlersTold
  <2>2. handler'[y][l] = handler[y][l] \/ (handler[y][l] = "alive" /\ handler'[y][l] = "ended")
    OBVIOUS
  <2>3. QED BY <2>1, <2>2
<1>3. HandlersLinked'
  <2> SUFFICES ASSUME NEW y \in Nodes, NEW l \in Links
               PROVE  /\ handler'[y][l] # "none" =>
                           /\ y \in Ends(l) /\ link'[l] \in {"open", "down"}
                           /\ y = Dialer[l] => l \in peers[y]
                      /\ handler'[y][l] = "ended" => link'[l] = "down"
                      /\ handler'[y][l] # "alive" => write_rx'[y][l] = <<>> /\ writing'[y][l] = <<>>
    BY DEF HandlersLinked, Ends
  <2>1. /\ handler[y][l] # "none" =>
             /\ y \in Ends(l) /\ link[l] \in {"open", "down"}
             /\ y = Dialer[l] => l \in peers[y]
        /\ handler[y][l] = "ended" => link[l] = "down"
        /\ handler[y][l] # "alive" => write_rx[y][l] = <<>> /\ writing[y][l] = <<>>
    BY DEF OrderInv, HandlersLinked
  <2>2. link'[l] = link[l] \/ (link[l] = "open" /\ link'[l] = "down")
    OBVIOUS
  <2>3. CASE UNCHANGED <<handler[y][l], write_rx[y][l], writing[y][l]>>
    BY <2>1, <2>2, <2>3
  <2>4. CASE /\ handler[y][l] = "alive" /\ handler'[y][l] = "ended" /\ link'[l] = "down"
             /\ write_rx'[y][l] = <<>> /\ writing'[y][l] = <<>>
    BY <2>1, <2>4
  <2>5. QED BY <2>3, <2>4
<1>4. QED BY <1>1, <1>2, <1>3 DEF OrderInv

\* Nothing has been told at first.
LEMMA OrderInit == Init => OrderInv
<1> SUFFICES ASSUME Init PROVE OrderInv
  OBVIOUS
<1>1. TypeOK
  BY TcpTypeInit
<1>2. told = [x \in Nodes |-> {}] /\ surprised = {} /\ ignored = [x \in Nodes |-> {}]
  BY DEF Init, EventsInit
<1>3. /\ handler = [x \in Nodes |-> [l \in Links |-> "none"]]
      /\ known_streams = [x \in Nodes |-> [l \in Links |-> {}]]
      /\ write_rx = [x \in Nodes |-> [l \in Links |-> <<>>]]
      /\ writing = [x \in Nodes |-> [l \in Links |-> <<>>]]
  BY DEF Init, PerEnd
<1>4. ToldTypes /\ OrderlyEvents /\ DialerNeverIgnored
  BY <1>2 DEF ToldTypes, OrderlyEvents, DialerNeverIgnored
<1>5. HandlersTold /\ HandlersLinked
  BY <1>2, <1>3 DEF HandlersTold, HandlersLinked
<1>6. CommandsAllowed
  <2>1. \A x \in Nodes : /\ Command("Bind", NoLink) \in Allowed(x)
                        /\ \A l \in Dialled(x) : Command("Connect", l) \in Allowed(x)
    BY DEF Init, Command, Commanded, Allowed, OnConn, Dialled
  <2>2. \A x \in Nodes : FirstCommands(x) \in Seq(Allowed(x)) /\ Distinct(FirstCommands(x))
    BY <2>1, FirstCommandsDistinct
  <2>3. \A x \in Nodes : cmd_rx[x] = FirstCommands(x) /\ awaiting[x] = <<>>
    BY DEF Init
  <2>4. \A x \in Nodes : <<>> \in Seq(Allowed(x))
    OBVIOUS
  <2>5. QED BY <2>2, <2>3, <2>4 DEF CommandsAllowed
<1>7. QED BY <1>1, <1>4, <1>5, <1>6 DEF OrderInv

\* Steps of the loop that only work on its queues.
LEMMA QueueSteps ==
  ASSUME OrderInv, TypeOK', NEW x \in Nodes,
         Game(x) \/ RegisterPeer(x) \/ Bind(x) \/ Connect(x) \/ Send(x) \/ SendResumes(x)
  PROVE  OrderInv'
<1> USE DEF loop, tasks, network, emitted
<1>0. TypeOK /\ CommandsAllowed /\ DialerNeverIgnored /\ HandlersLinked /\ HandlersTold
  BY DEF OrderInv
<1>1. UNCHANGED <<told, surprised, handler, known_streams, link>> /\ UNCHANGED writing
  <2>1. CASE Game(x)
    BY <1>0, <2>1, GameIssues
  <2>2. QED BY <2>1 DEF RegisterPeer, Bind, Connect, Send, SendResumes
<1>2. \A y \in Nodes : Allowed(y) \subseteq Allowed(y)' /\ Seq(Allowed(y)) \subseteq Seq(Allowed(y)')
  BY <1>0, <1>1, AllowedStays
<1>3. \A y \in Nodes, l \in Links :
        handler[y][l] # "alive" => write_rx[y][l] = <<>> /\ writing[y][l] = <<>>
  BY <1>0 DEF HandlersLinked
<1>4. CASE Game(x)
  <2>1. Asks(x) /\ UNCHANGED <<peers, write_rx, awaiting, ignored>>
    BY <1>0, <1>4, GameIssues
  <2>2. PICK cmd \in Commanded :
          /\ Issue(x, cmd) /\ cmd.op # "Connect"
          /\ cmd.op # "Shutdown" => cmd.conn \in LinksOf(x) /\ Knows(x, cmd.conn)
    BY <2>1 DEF Asks
  <2>3. cmd \in Allowed(x)
    <3>1. CASE cmd.op \in OnConn
      <4>1. cmd.conn \in Links /\ x \in Ends(cmd.conn) /\ handler[x][cmd.conn] # "none"
        BY <1>0, <2>2, <3>1 DEF OnConn, LinksOf, Knows, HandlersTold
      <4>2. QED BY <2>2, <4>1 DEF Allowed
    <3>2. CASE cmd.op \notin OnConn
      BY <2>2, <3>2 DEF Allowed
    <3>3. QED BY <3>1, <3>2
  <2>4. CommandsAllowed'
    <3>1. cmd_rx' = [cmd_rx EXCEPT ![x] = Append(@, cmd)]
      BY <2>2 DEF Issue
    <3>2. QED BY <1>0, <1>2, <2>1, <2>2, <2>3, <3>1, CommandsKept
  <2>5. DialerNeverIgnored'
    BY <1>0, <2>1 DEF DialerNeverIgnored
  <2>6. QED BY <1>1, <1>3, <2>1, <2>4, <2>5, QuietStep
<1>5. CASE RegisterPeer(x)
  <2>1. UNCHANGED <<cmd_rx, awaiting, write_rx, ignored>>
    BY <1>5 DEF RegisterPeer
  <2>2. CommandsAllowed' /\ DialerNeverIgnored'
    BY <1>0, <1>2, <2>1, CommandsKept DEF DialerNeverIgnored
  <2>3. \A y \in Nodes : peers[y] \subseteq peers'[y]
    BY <1>0, <1>5 DEF RegisterPeer, TypeOK
  <2>4. QED BY <1>1, <1>3, <2>1, <2>2, <2>3, QuietStep
<1>6. CASE Bind(x)
  <2>1. TakeCommand(x, "Bind") /\ UNCHANGED <<awaiting, peers, write_rx, ignored>>
    BY <1>6 DEF Bind
  <2>2. CommandsAllowed' /\ DialerNeverIgnored'
    BY <1>0, <1>2, <2>1, CommandsTaken DEF DialerNeverIgnored
  <2>3. QED BY <1>1, <1>3, <2>1, <2>2, QuietStep
<1>7. CASE Connect(x)
  <2>1. /\ TakeCommand(x, "Connect") /\ awaiting' = [awaiting EXCEPT ![x] = <<Head(cmd_rx[x])>>]
        /\ UNCHANGED <<peers, write_rx, ignored>>
    BY <1>7 DEF Connect
  <2>2. CommandsAllowed' /\ DialerNeverIgnored'
    BY <1>0, <1>2, <2>1, CommandsTaken DEF DialerNeverIgnored
  <2>3. QED BY <1>1, <1>3, <2>1, <2>2, QuietStep
<1>8. CASE Send(x)
  <2> DEFINE cmd == Head(cmd_rx[x])
  <2>1. /\ TakeCommand(x, "Send") /\ UNCHANGED peers
        /\ \E a \in {<<>>, <<cmd>>} : awaiting' = [awaiting EXCEPT ![x] = a]
    BY <1>8 DEF Send
  <2>2. CommandsAllowed'
    BY <1>0, <1>2, <2>1, CommandsTaken
  <2>3. cmd \in Allowed(x) /\ cmd.op = "Send"
    <3>1. cmd_rx[x] \in Seq(Allowed(x)) /\ cmd_rx[x] # <<>>
      BY <1>0, <2>1 DEF CommandsAllowed, TakeCommand
    <3>2. QED BY <2>1, <3>1, TakenFrom DEF TakeCommand
  <2>4. /\ cmd.conn \in Links /\ x \in Ends(cmd.conn)
        /\ x = Dialer[cmd.conn] => cmd.conn \in peers[x]
    <3>1. cmd.conn \in Links /\ x \in Ends(cmd.conn) /\ handler[x][cmd.conn] # "none"
      BY <2>3 DEF Allowed, OnConn, Commanded
    <3>2. QED BY <1>0, <3>1 DEF HandlersLinked
  <2>5. DialerNeverIgnored'
    <3>1. \/ ignored' = ignored
          \/ cmd.conn \notin peers[x] /\ ignored' = [ignored EXCEPT ![x] = @ \cup {cmd.conn}]
      BY <1>8 DEF Send
    <3>2. cmd.conn \notin peers[x] => Acceptor[cmd.conn] = x
      BY <2>4 DEF Ends
    <3> HIDE DEF cmd
    <3>3. CASE ignored' = ignored
      BY <1>0, <3>3 DEF DialerNeverIgnored
    <3>4. CASE cmd.conn \notin peers[x] /\ ignored' = [ignored EXCEPT ![x] = @ \cup {cmd.conn}]
      <4>1. \A y \in Nodes : \A l \in ignored'[y] : l \in ignored[y] \/ (y = x /\ l = cmd.conn)
        BY <1>0, <3>4 DEF TypeOK
      <4>2. QED BY <1>0, <3>2, <3>4, <4>1 DEF DialerNeverIgnored
    <3>5. QED BY <3>1, <3>3, <3>4
  <2>6. \A y \in Nodes, l \in Links : handler[y][l] # "alive" => write_rx'[y][l] = write_rx[y][l]
    <3>1. UNCHANGED write_rx \/ (handler[x][cmd.conn] = "alive" /\ Enqueue(x, cmd))
      BY <1>8 DEF Send
    <3>2. QED BY <1>0, <3>1, TypeParts, EnqueueElsewhere
  <2>7. QED BY <1>1, <1>3, <2>1, <2>2, <2>5, <2>6, QuietStep
<1>9. CASE SendResumes(x)
  <2> DEFINE cmd == awaiting[x][1]
  <2>1. awaiting' = [awaiting EXCEPT ![x] = <<>>] /\ UNCHANGED <<cmd_rx, peers, ignored>>
    BY <1>9 DEF SendResumes
  <2>2. CommandsAllowed' /\ DialerNeverIgnored'
    BY <1>0, <1>2, <2>1, CommandsDone DEF DialerNeverIgnored
  <2>3. cmd.conn \in Links
    BY <1>0, <1>9, AwaitedCommand DEF SendResumes
  <2>4. \A y \in Nodes, l \in Links : handler[y][l] # "alive" => write_rx'[y][l] = write_rx[y][l]
    <3>1. UNCHANGED write_rx \/ (handler[x][cmd.conn] = "alive" /\ Enqueue(x, cmd))
      BY <1>9 DEF SendResumes
    <3>2. QED BY <1>0, <3>1, TypeParts, EnqueueElsewhere
  <2>5. QED BY <1>1, <1>3, <2>1, <2>2, <2>4, QuietStep
<1>10. QED BY <1>4, <1>5, <1>6, <1>7, <1>8, <1>9

\* Steps by which connections are lost.
LEMMA LossSteps ==
  ASSUME OrderInv, TypeOK',
         \/ \E x \in Nodes : Shutdown(x) \/ BindFails(x) \/ AcceptFails(x)
         \/ \E l \in Links : ResetLink(l)
  PROVE  OrderInv'
<1>0. TypeOK /\ CommandsAllowed /\ HandlersLinked
  BY DEF OrderInv
<1>1. ASSUME NEW x \in Nodes, Shutdown(x) \/ BindFails(x) PROVE OrderInv'
  <2> DEFINE D == {l \in LinksOf(x) : link[l] = "open"}
  <2>1. RunEnds(x) /\ (TakeCommand(x, "Shutdown") \/ TakeCommand(x, "Bind"))
    BY <1>1 DEF Shutdown, BindFails
  <2>2. D \in SUBSET Links /\ Resets(D)
    BY <1>1 DEF Shutdown, BindFails, RunEnds, LinksOf
  <2>3. /\ handler' = [handler EXCEPT ![x] =
             [l \in Links |-> IF handler[x][l] = "alive" THEN "ended" ELSE handler[x][l]]]
        /\ write_rx' = [write_rx EXCEPT ![x] = [l \in Links |-> <<>>]]
        /\ writing' = [writing EXCEPT ![x] = [l \in Links |-> <<>>]]
        /\ UNCHANGED <<awaiting, peers, known_streams, told, surprised, ignored>>
    BY <1>1 DEF Shutdown, BindFails, RunEnds, emitted
  <2>4. \A l \in Links : link'[l] = IF l \in D THEN "down" ELSE link[l]
    BY <2>2 DEF Resets
  <2>5. \A l \in Links : link'[l] = link[l] \/ (link[l] = "open" /\ link'[l] = "down")
    BY <2>4
  <2>6. ASSUME NEW y \in Nodes, NEW l \in Links
        PROVE  \/ UNCHANGED <<handler[y][l], write_rx[y][l], writing[y][l]>>
               \/ /\ handler[y][l] = "alive" /\ handler'[y][l] = "ended" /\ link'[l] = "down"
                  /\ write_rx'[y][l] = <<>> /\ writing'[y][l] = <<>>
    <3>1. CASE y # x
      BY <1>0, <2>3, <3>1 DEF TypeOK
    <3>2. CASE y = x
      <4>1. /\ handler'[y][l] = IF handler[x][l] = "alive" THEN "ended" ELSE handler[x][l]
            /\ write_rx'[y][l] = <<>> /\ writing'[y][l] = <<>>
        BY <1>0, <2>3, <3>2 DEF TypeOK
      <4>2. CASE handler[x][l] = "alive"
        <5>1. x \in Ends(l) /\ link[l] \in {"open", "down"}
          BY <1>0, <4>2 DEF HandlersLinked
        <5>2. link'[l] = "down"
          BY <2>4, <5>1 DEF LinksOf
        <5>3. QED BY <3>2, <4>1, <4>2, <5>2
      <4>3. CASE handler[x][l] # "alive"
        BY <1>0, <3>2, <4>1, <4>3 DEF HandlersLinked
      <4>4. QED BY <4>2, <4>3
    <3>3. QED BY <3>1, <3>2
  <2>7. \A y \in Nodes, l \in Links : handler[y][l] # "none" => handler'[y][l] # "none"
    BY <2>6
  <2>8. \A y \in Nodes : Allowed(y) \subseteq Allowed(y)' /\ Seq(Allowed(y)) \subseteq Seq(Allowed(y)')
    BY <1>0, <2>5, <2>7, AllowedStays
  <2>9. CommandsAllowed'
    BY <1>0, <2>1, <2>3, <2>8, CommandsTaken
  <2>10. QED BY <2>3, <2>5, <2>6, <2>9, LinksLost
<1>2. ASSUME NEW D \in SUBSET Links, Resets(D), \A l \in D : link[l] = "open",
             UNCHANGED <<awaiting, cmd_rx, peers, known_streams, told, surprised, ignored,
                         handler, write_rx, writing>>
      PROVE  OrderInv'
  <2>1. \A l \in Links : link'[l] = link[l] \/ (link[l] = "open" /\ link'[l] = "down")
    BY <1>2 DEF Resets
  <2>2. \A y \in Nodes : Allowed(y) \subseteq Allowed(y)' /\ Seq(Allowed(y)) \subseteq Seq(Allowed(y)')
    BY <1>0, <1>2, <2>1, AllowedStays
  <2>3. CommandsAllowed'
    <3>1. CASE Nodes = {}
      BY <3>1 DEF CommandsAllowed
    <3>2. ASSUME NEW x \in Nodes PROVE CommandsAllowed'
      BY <1>0, <1>2, <2>2, CommandsKept
    <3>3. QED BY <3>1, <3>2
  <2>4. QED BY <1>2, <2>1, <2>3, LinksLost
<1>3. ASSUME NEW x \in Nodes, AcceptFails(x) PROVE OrderInv'
  <2> DEFINE D == {l \in Backlog(x) : link[l] = "open"}
  <2>1. D \in SUBSET Links /\ Resets(D) /\ \A l \in D : link[l] = "open"
    BY <1>3 DEF AcceptFails, Backlog
  <2> HIDE DEF D
  <2>2. QED BY <1>2, <1>3, <2>1 DEF AcceptFails, loop, emitted
<1>4. ASSUME NEW l \in Links, ResetLink(l) PROVE OrderInv'
  <2> DEFINE D == {l}
  <2>1. D \in SUBSET Links /\ Resets(D) /\ \A k \in D : link[k] = "open"
    BY <1>4 DEF ResetLink
  <2> HIDE DEF D
  <2>2. QED BY <1>2, <1>4, <2>1 DEF ResetLink, loop, tasks, emitted
<1>5. QED BY <1>1, <1>3, <1>4

\* What is kept per end of a connection, when one of them changes.
LEMMA OneEndChanged ==
  ASSUME NEW S, NEW f \in [Nodes -> [Links -> S]], NEW x \in Nodes, NEW l \in Links, NEW v,
         NEW g, g = [f EXCEPT ![x][l] = v]
  PROVE  \A y \in Nodes, k \in Links : g[y][k] = IF y = x /\ k = l THEN v ELSE f[y][k]
OBVIOUS

\* Steps of the tasks that tell the game nothing.
LEMMA TaskSteps ==
  ASSUME OrderInv, TypeOK', NEW x \in Nodes,
         AcceptRegister(x) \/ \E l \in LinksOf(x) : TakePacket(x, l) \/ Write(x, l)
  PROVE  OrderInv'
<1> USE DEF loop, network, emitted
<1>0. TypeOK /\ CommandsAllowed /\ DialerNeverIgnored /\ HandlersLinked
  BY DEF OrderInv
<1>1. UNCHANGED <<told, surprised, handler, known_streams, link, cmd_rx, awaiting, peers, ignored>>
  BY DEF AcceptRegister, TakePacket, Write
<1>2. \A y \in Nodes : Allowed(y) \subseteq Allowed(y)' /\ Seq(Allowed(y)) \subseteq Seq(Allowed(y)')
  BY <1>0, <1>1, AllowedStays
<1>3. CommandsAllowed' /\ DialerNeverIgnored'
  BY <1>0, <1>1, <1>2, CommandsKept DEF DialerNeverIgnored
<1>4. \A y \in Nodes, l \in Links :
        handler[y][l] # "alive" => write_rx[y][l] = <<>> /\ writing[y][l] = <<>>
  BY <1>0 DEF HandlersLinked
<1>5. ASSUME NEW y \in Nodes, NEW k \in Links, handler[y][k] # "alive"
      PROVE  write_rx'[y][k] = <<>> /\ writing'[y][k] = <<>>
  <2>1. CASE AcceptRegister(x)
    BY <1>4, <1>5, <2>1 DEF AcceptRegister
  <2>2. ASSUME NEW l \in LinksOf(x), TakePacket(x, l)
        PROVE  write_rx'[y][k] = <<>> /\ writing'[y][k] = <<>>
    <3>1. y # x \/ k # l
      BY <1>5, <2>2 DEF TakePacket, Handles
    <3> DEFINE h == <<Head(write_rx[x][l])>>
               t == Tail(write_rx[x][l])
    <3>2. writing' = [writing EXCEPT ![x][l] = h] /\ write_rx' = [write_rx EXCEPT ![x][l] = t]
      BY <2>2 DEF TakePacket
    <3> HIDE DEF h, t
    <3>3. write_rx'[y][k] = write_rx[y][k] /\ writing'[y][k] = writing[y][k]
      <4>1. l \in Links /\ {write_rx, writing} \subseteq [Nodes -> [Links -> Seq(Packets)]]
        BY <1>0 DEF LinksOf, TypeOK
      <4>2. QED BY <3>1, <3>2, <4>1, OneEndChanged
    <3>4. QED BY <1>4, <1>5, <3>3
  <2>3. ASSUME NEW l \in LinksOf(x), Write(x, l)
        PROVE  write_rx'[y][k] = <<>> /\ writing'[y][k] = <<>>
    <3>1. write_rx'[y][k] = write_rx[y][k] /\ writing'[y][k] \in {writing[y][k], <<>>}
      BY <1>0, <2>3 DEF Write, TypeOK
    <3>2. QED BY <1>4, <1>5, <3>1
  <2>4. QED BY <2>1, <2>2, <2>3
<1>6. QED BY <1>1, <1>3, <1>5, QuietStep

\* A game is told of a connection when its handler is spawned.
LEMMA HandlerSpawned ==
  ASSUME OrderInv, TypeOK', CommandsAllowed', NEW x \in Nodes, NEW l \in Links,
         x \in Ends(l), handler[x][l] = "none",
         SpawnHandler(x, l), Emit(x, <<Connected(l)>>),
         link'[l] \in {"open", "down"}, link[l] = "down" => link'[l] = "down",
         \A k \in Links \ {l} : link'[k] = link[k],
         \A y \in Nodes : peers[y] \subseteq peers'[y],
         x = Dialer[l] => l \in peers'[x],
         UNCHANGED <<known_streams, write_rx, writing, ignored>>
  PROVE  OrderInv'
<1>1. ToldTypes /\ Connected(l) \notin told[x] /\ Remembered(Connected(l))
  BY DEF OrderInv, HandlersTold, Remembered, Connected
<1>2. told' = [told EXCEPT ![x] = @ \cup {Connected(l)}] /\ surprised' = surprised
  BY <1>1, EmitConnected
<1>3. /\ ToldTypes'
      /\ told'[x] = told[x] \cup {Connected(l)}
      /\ \A y \in Nodes \ {x} : told'[y] = told[y]
  BY <1>1, <1>2, ToldOne
<1>4. \A y \in Nodes, k \in Links :
        handler'[y][k] = IF y = x /\ k = l THEN "alive" ELSE handler[y][k]
  <2>1. handler \in [Nodes -> [Links -> {"none", "alive", "ended"}]]
    BY DEF OrderInv, TypeOK
  <2>2. QED BY <2>1, OneEndChanged DEF SpawnHandler
<1>5. \A k, r : /\ Connected(k) = Connected(l) <=> k = l
                /\ Disconnected(k) # Connected(l)
                /\ StreamCreated(k, r, "peer") # Connected(l)
  BY DEF Connected, Disconnected, StreamCreated
<1>6. HandlersTold'
  <2> SUFFICES ASSUME NEW y \in Nodes, NEW k \in Links
               PROVE  /\ Connected(k) \in told'[y] <=> handler'[y][k] # "none"
                      /\ Disconnected(k) \in told'[y] => handler'[y][k] = "ended"
                      /\ \A s \in Streams :
                           s \in known_streams[y][k] <=> StreamCreated(k, s, "peer") \in told'[y]
    BY DEF HandlersTold
  <2>1. /\ Connected(k) \in told[y] <=> handler[y][k] # "none"
        /\ Disconnected(k) \in told[y] => handler[y][k] = "ended"
        /\ \A s \in Streams :
             s \in known_streams[y][k] <=> StreamCreated(k, s, "peer") \in told[y]
    BY DEF OrderInv, HandlersTold
  <2>2. CASE y = x /\ k = l
    BY <1>3, <1>4, <1>5, <2>1, <2>2
  <2>3. CASE y = x /\ k # l
    BY <1>3, <1>4, <1>5, <2>1, <2>3
  <2>4. CASE y # x
    BY <1>3, <1>4, <2>1, <2>4
  <2>5. QED BY <2>2, <2>3, <2>4
<1>7. HandlersLinked'
  <2> SUFFICES ASSUME NEW y \in Nodes, NEW k \in Links
               PROVE  /\ handler'[y][k] # "none" =>
                           /\ y \in Ends(k) /\ link'[k] \in {"open", "down"}
                           /\ y = Dialer[k] => k \in peers'[y]
                      /\ handler'[y][k] = "ended" => link'[k] = "down"
                      /\ handler'[y][k] # "alive" => write_rx[y][k] = <<>> /\ writing[y][k] = <<>>
    BY DEF HandlersLinked, Ends
  <2>1. /\ handler[y][k] # "none" =>
             /\ y \in Ends(k) /\ link[k] \in {"open", "down"}
             /\ y = Dialer[k] => k \in peers'[y]
        /\ handler[y][k] = "ended" => link[k] = "down"
        /\ handler[y][k] # "alive" => write_rx[y][k] = <<>> /\ writing[y][k] = <<>>
    BY DEF OrderInv, HandlersLinked
  <2>2. CASE y = x /\ k = l
    BY <1>4, <2>2
  <2>3. CASE y # x /\ k = l
    <3>1. handler'[y][k] = handler[y][k]
      BY <1>4, <2>3
    <3>2. QED BY <2>1, <2>3, <3>1
  <2>4. CASE k # l
    BY <1>4, <2>1, <2>4
  <2>5. QED BY <2>2, <2>3, <2>4
<1>8. QED BY <1>2, <1>3, <1>6, <1>7 DEF OrderInv, OrderlyEvents, DialerNeverIgnored

\* The end of the connection the loop was making: it is no longer new, but none
\* of the commands that wait is about it.
LEMMA AttemptEnds ==
  ASSUME OrderInv, NEW x \in Nodes, Awaits(x, "Connect"),
         UNCHANGED cmd_rx, awaiting' = [awaiting EXCEPT ![x] = <<>>],
         \A k \in Links : k # awaiting[x][1].conn => link'[k] = link[k],
         \A y \in Nodes, k \in Links : handler[y][k] # "none" => handler'[y][k] # "none"
  PROVE  /\ CommandsAllowed'
         /\ awaiting[x][1].conn \in Links /\ Dialer[awaiting[x][1].conn] = x
         /\ link[awaiting[x][1].conn] = "new"
<1> DEFINE c == awaiting[x][1]
           l == c.conn
<1>0. TypeOK /\ CommandsAllowed
  BY DEF OrderInv
<1>1. c \in Allowed(x) /\ c.op = "Connect"
  <2>1. awaiting[x] \in Seq(Allowed(x)) /\ awaiting[x] # <<>>
    BY <1>0 DEF CommandsAllowed, Awaits
  <2>2. QED BY <2>1 DEF Awaits
<1>2. c \in Commanded /\ l \in Links /\ Dialer[l] = x /\ link[l] = "new"
  BY <1>1 DEF Allowed, Commanded
<1>3. \A i \in DOMAIN cmd_rx[x] : cmd_rx[x][i] # c
  BY <1>0, <1>1 DEF CommandsAllowed, Awaits
<1> HIDE DEF c, l
<1>4. ASSUME NEW y \in Nodes, NEW d \in Allowed(y), d # c PROVE d \in Allowed(y)'
  <2>1. /\ d \in Commanded
        /\ d.op = "Connect" => Dialer[d.conn] = y /\ link[d.conn] = "new"
        /\ d.op \in OnConn => y \in Ends(d.conn) /\ handler[y][d.conn] # "none"
    BY DEF Allowed
  <2>2. CASE d.op = "Connect"
    <3>1. d.conn \in Links /\ d.conn # l
      BY <1>1, <1>2, <1>4, <2>1, <2>2 DEF Commanded, l
    <3>2. link'[d.conn] = "new"
      BY <2>1, <2>2, <3>1 DEF l, c
    <3>3. QED BY <2>1, <2>2, <3>2 DEF Allowed, OnConn
  <2>3. CASE d.op \in OnConn
    <3>1. d.conn \in Links
      BY <2>1, <2>3 DEF Commanded, OnConn
    <3>2. QED BY <2>1, <2>3, <3>1 DEF Allowed, OnConn
  <2>4. CASE d.op \notin OnConn \cup {"Connect"}
    BY <2>1, <2>4 DEF Allowed
  <2>5. QED BY <2>2, <2>3, <2>4
<1>5. ASSUME NEW y \in Nodes, NEW q \in Seq(Allowed(y)), \A i \in DOMAIN q : q[i] # c
      PROVE  q \in Seq(Allowed(y)')
  <2>1. \A i \in DOMAIN q : q[i] \in Allowed(y)'
    BY <1>4, <1>5
  <2>2. QED BY <1>5, <2>1
<1>6. ASSUME NEW y \in Nodes, y # x
      PROVE  cmd_rx[y] \in Seq(Allowed(y)') /\ awaiting[y] \in Seq(Allowed(y)')
  <2>1. c \notin Allowed(y)
    BY <1>1, <1>2, <1>6 DEF Allowed, l
  <2>2. Allowed(y) \subseteq Allowed(y)'
    BY <1>4, <2>1
  <2>3. QED BY <1>0, <2>2, MoreAllowed DEF CommandsAllowed
<1>7. cmd_rx[x] \in Seq(Allowed(x)')
  BY <1>0, <1>3, <1>5 DEF CommandsAllowed
<1>8. awaiting'[x] = <<>> /\ \A y \in Nodes : y # x => awaiting'[y] = awaiting[y]
  BY <1>0 DEF TypeOK
<1>9. <<>> \in Seq(Allowed(x)')
  OBVIOUS
<1>10. CommandsAllowed'
  BY <1>0, <1>6, <1>7, <1>8, <1>9 DEF CommandsAllowed, Distinct
<1>11. QED BY <1>2, <1>10 DEF l, c

\* The game that dialled is told of its connection.
LEMMA ConnectionMade ==
  ASSUME OrderInv, TypeOK', NEW x \in Nodes, ConnectCompletes(x)
  PROVE  OrderInv'
<1> DEFINE l == awaiting[x][1].conn
<1>1. /\ Awaits(x, "Connect") /\ awaiting' = [awaiting EXCEPT ![x] = <<>>]
      /\ link' = [link EXCEPT ![l] = "open"] /\ peers' = [peers EXCEPT ![x] = @ \cup {l}]
      /\ SpawnHandler(x, l) /\ Emit(x, <<Connected(l)>>)
      /\ UNCHANGED <<cmd_rx, known_streams, write_rx, writing, ignored>>
  BY DEF ConnectCompletes
<1>2. /\ handler \in [Nodes -> [Links -> {"none", "alive", "ended"}]]
      /\ peers \in [Nodes -> SUBSET Links]
      /\ link \in [Links -> {"new", "open", "down", "refused"}] /\ l \in Links
  BY <1>1, AwaitedCommand DEF OrderInv, TypeOK
<1>3. /\ \A k \in Links : k # l => link'[k] = link[k]
      /\ link'[l] = "open"
  BY <1>1, <1>2
<1>4. \A y \in Nodes, k \in Links : handler[y][k] # "none" => handler'[y][k] # "none"
  BY <1>1, <1>2, OneEndChanged DEF SpawnHandler
<1>5. CommandsAllowed' /\ Dialer[l] = x /\ link[l] = "new"
  BY <1>1, <1>3, <1>4, AttemptEnds
<1>6. x \in Ends(l) /\ handler[x][l] = "none"
  BY <1>2, <1>5 DEF OrderInv, HandlersLinked, Ends
<1>7. (\A y \in Nodes : peers[y] \subseteq peers'[y]) /\ l \in peers'[x]
  BY <1>1, <1>2
<1> HIDE DEF l
<1>8. QED BY <1>1, <1>2, <1>3, <1>5, <1>6, <1>7, HandlerSpawned

\* The game that dialled is told of its failure.
LEMMA ConnectionRefused ==
  ASSUME OrderInv, TypeOK', NEW x \in Nodes, ConnectFails(x)
  PROVE  OrderInv'
<1> DEFINE l == awaiting[x][1].conn
<1>1. /\ Awaits(x, "Connect") /\ awaiting' = [awaiting EXCEPT ![x] = <<>>]
      /\ link' = [link EXCEPT ![l] = "refused"] /\ Emit(x, <<ConnectionError>>)
      /\ UNCHANGED <<cmd_rx, handler, known_streams, write_rx, writing, ignored, peers>>
  BY DEF ConnectFails, tasks
<1>2. link \in [Links -> {"new", "open", "down", "refused"}] /\ l \in Links /\ ToldTypes
  BY <1>1, AwaitedCommand DEF OrderInv, TypeOK
<1>3. \A k \in Links : k # l => link'[k] = link[k]
  BY <1>1, <1>2
<1>5. CommandsAllowed' /\ link[l] = "new"
  BY <1>1, <1>3, AttemptEnds
<1> HIDE DEF l
<1>6. told' = [told EXCEPT ![x] = @ \cup {}] /\ surprised' = surprised
  BY <1>1, <1>2, EmitError
<1>7. told' = told
  BY <1>2, <1>6 DEF ToldTypes
<1>8. HandlersLinked'
  BY <1>1, <1>3, <1>5 DEF OrderInv, HandlersLinked
<1>9. ToldTypes' /\ HandlersTold' /\ OrderlyEvents' /\ DialerNeverIgnored'
  BY <1>1, <1>6, <1>7 DEF OrderInv, ToldTypes, HandlersTold, OrderlyEvents, DialerNeverIgnored
<1>10. QED BY <1>5, <1>8, <1>9 DEF OrderInv

\* The game that listens is told of a connection.
LEMMA ConnectionAccepted ==
  ASSUME OrderInv, TypeOK', NEW x \in Nodes, NEW l \in LinksOf(x), Accept(x, l)
  PROVE  OrderInv'
<1>1. /\ l \in Links /\ x \in Ends(l) /\ link[l] \in {"open", "down"}
      /\ handler[x][l] = "none" /\ Acceptor[l] = x /\ SpawnHandler(x, l) /\ Emit(x, <<Connected(l)>>)
      /\ UNCHANGED <<cmd_rx, awaiting, peers, known_streams, write_rx, writing, link, ignored>>
  BY DEF Accept, Backlog, LinksOf, loop, network
<1>2. handler \in [Nodes -> [Links -> {"none", "alive", "ended"}]] /\ TypeOK /\ CommandsAllowed
  BY DEF OrderInv, TypeOK
<1>3. \A y \in Nodes, k \in Links : handler[y][k] # "none" => handler'[y][k] # "none"
  BY <1>1, <1>2, OneEndChanged DEF SpawnHandler
<1>4. \A y \in Nodes : Allowed(y) \subseteq Allowed(y)' /\ Seq(Allowed(y)) \subseteq Seq(Allowed(y)')
  BY <1>1, <1>2, <1>3, AllowedStays
<1>5. CommandsAllowed'
  BY <1>1, <1>2, <1>4, CommandsKept
<1>6. x # Dialer[l]
  BY <1>1, LinksAssumption
<1>7. QED BY <1>1, <1>5, <1>6, HandlerSpawned

\* The answers to the stream commands of a game.
LEMMA CommandAnswered ==
  ASSUME OrderInv, TypeOK', NEW x \in Nodes, StreamCommand(x)
  PROVE  OrderInv'
<1> DEFINE cmd == Head(cmd_rx[x])
<1>1. /\ \/ TakeCommand(x, "CreateStream") /\ Emit(x, <<StreamCreated(cmd.conn, cmd.stream, "game")>>)
         \/ TakeCommand(x, "CloseStream") /\ Emit(x, <<StreamClosed(cmd.conn, cmd.stream)>>)
      /\ UNCHANGED <<awaiting, peers, handler, known_streams, write_rx, writing, link, ignored>>
  BY DEF StreamCommand, loop, tasks, network
<1>2. TypeOK /\ ToldTypes /\ CommandsAllowed /\ HandlersTold /\ DialerNeverIgnored /\ HandlersLinked
  BY DEF OrderInv
<1>3. cmd \in Allowed(x) /\ cmd.op \in OnConn
  <2>1. cmd_rx[x] \in Seq(Allowed(x)) /\ cmd_rx[x] # <<>>
    BY <1>1, <1>2 DEF CommandsAllowed, TakeCommand
  <2>2. QED BY <1>1, <2>1, TakenFrom DEF TakeCommand, OnConn
<1>4. Connected(cmd.conn) \in told[x]
  BY <1>2, <1>3 DEF Allowed, Commanded, OnConn, HandlersTold
<1>5. \A y \in Nodes : Allowed(y) \subseteq Allowed(y)' /\ Seq(Allowed(y)) \subseteq Seq(Allowed(y)')
  BY <1>1, <1>2, AllowedStays
<1>6. CommandsAllowed'
  BY <1>1, <1>2, <1>5, CommandsTaken
<1> HIDE DEF cmd
<1>7. told' = [told EXCEPT ![x] = @ \cup {}] /\ surprised' = surprised
  BY <1>1, <1>2, <1>4, EmitAnswer
<1>8. told' = told
  BY <1>2, <1>7 DEF ToldTypes
<1>9. DialerNeverIgnored'
  BY <1>1, <1>2 DEF DialerNeverIgnored
<1>10. \A y \in Nodes, k \in Links :
         handler[y][k] # "alive" => write_rx'[y][k] = <<>> /\ writing'[y][k] = <<>>
  BY <1>1, <1>2 DEF HandlersLinked
<1>11. QED BY <1>1, <1>6, <1>7, <1>8, <1>9, <1>10, QuietStep

\* A packet is read, and announced.
LEMMA PacketRead ==
  ASSUME OrderInv, TypeOK', NEW x \in Nodes, NEW l \in LinksOf(x), Read(x, l)
  PROVE  OrderInv'
<1> DEFINE s == Head(Incoming(x, l)).stream
<1>1. /\ handler[x][l] = "alive" /\ Incoming(x, l) # <<>> /\ l \in Links
      /\ Emit(x, Announce(l, s, known_streams[x][l]))
      /\ known_streams' = [known_streams EXCEPT ![x][l] = @ \cup {s}]
      /\ UNCHANGED <<cmd_rx, awaiting, peers, handler, write_rx, writing, link, ignored>>
  BY DEF Read, Handles, LinksOf, loop
<1>2. /\ TypeOK /\ ToldTypes /\ CommandsAllowed /\ HandlersTold /\ DialerNeverIgnored
      /\ HandlersLinked /\ known_streams \in [Nodes -> [Links -> SUBSET Streams]]
  BY DEF OrderInv, TypeOK
<1>3. s \in Streams
  <2>1. Incoming(x, l) \in Seq(Packets)
    <3>1. Peer(l, x) \in Nodes /\ socket \in [Nodes -> [Links -> Seq(Packets)]]
      BY <1>1, <1>2, LinksAssumption DEF TypeOK, Peer
    <3>2. QED BY <1>1, <3>1 DEF Incoming
  <2>2. Head(Incoming(x, l)) \in Packets
    BY <1>1, <2>1, TakenFrom
  <2>3. QED BY <2>2 DEF Packets
<1> HIDE DEF s
<1>4. /\ Connected(l) \in told[x] /\ Disconnected(l) \notin told[x]
      /\ s \in known_streams[x][l] <=> StreamCreated(l, s, "peer") \in told[x]
  BY <1>1, <1>2, <1>3 DEF HandlersTold
<1>5. /\ told' = [told EXCEPT ![x] = @ \cup {StreamCreated(l, s, "peer")}]
      /\ surprised' = surprised
  BY <1>1, <1>2, <1>4, EmitAnnounce
<1>6. /\ ToldTypes'
      /\ told'[x] = told[x] \cup {StreamCreated(l, s, "peer")}
      /\ \A y \in Nodes \ {x} : told'[y] = told[y]
  <2>1. Remembered(StreamCreated(l, s, "peer"))
    BY DEF Remembered, StreamCreated
  <2>2. QED BY <1>2, <1>5, <2>1, ToldOne
<1>7. \A y \in Nodes, k \in Links :
        known_streams'[y][k] = IF y = x /\ k = l THEN known_streams[x][l] \cup {s} ELSE known_streams[y][k]
  <2> DEFINE v == known_streams[x][l] \cup {s}
  <2>1. known_streams' = [known_streams EXCEPT ![x][l] = v]
    BY <1>1
  <2> HIDE DEF v
  <2>2. \A y \in Nodes, k \in Links :
          known_streams'[y][k] = IF y = x /\ k = l THEN v ELSE known_streams[y][k]
    <3>1. l \in Links /\ known_streams \in [Nodes -> [Links -> SUBSET Streams]]
      BY <1>1, <1>2
    <3>2. QED BY <2>1, <3>1, OneEndChanged
  <2>3. QED BY <2>2 DEF v
<1>8. \A k, r : /\ Connected(k) # StreamCreated(l, s, "peer")
                /\ Disconnected(k) # StreamCreated(l, s, "peer")
                /\ StreamCreated(k, r, "peer") = StreamCreated(l, s, "peer") <=> k = l /\ r = s
  BY DEF Connected, Disconnected, StreamCreated
<1>9. HandlersTold'
  <2> SUFFICES ASSUME NEW y \in Nodes, NEW k \in Links
               PROVE  /\ Connected(k) \in told'[y] <=> handler[y][k] # "none"
                      /\ Disconnected(k) \in told'[y] => handler[y][k] = "ended"
                      /\ \A r \in Streams :
                           r \in known_streams'[y][k] <=> StreamCreated(k, r, "peer") \in told'[y]
    BY <1>1 DEF HandlersTold
  <2>1. /\ Connected(k) \in told[y] <=> handler[y][k] # "none"
        /\ Disconnected(k) \in told[y] => handler[y][k] = "ended"
        /\ \A r \in Streams :
             r \in known_streams[y][k] <=> StreamCreated(k, r, "peer") \in told[y]
    BY <1>2 DEF HandlersTold
  <2>2. CASE y = x
    BY <1>6, <1>7, <1>8, <2>1, <2>2
  <2>3. CASE y # x
    BY <1>6, <1>7, <2>1, <2>3
  <2>4. QED BY <2>2, <2>3
<1>10. \A y \in Nodes : Allowed(y) \subseteq Allowed(y)' /\ Seq(Allowed(y)) \subseteq Seq(Allowed(y)')
  BY <1>1, <1>2, AllowedStays
<1>11. CommandsAllowed'
  BY <1>1, <1>2, <1>10, CommandsKept
<1>12. HandlersLinked' /\ DialerNeverIgnored'
  BY <1>1, <1>2 DEF HandlersLinked, DialerNeverIgnored
<1>13. QED BY <1>5, <1>6, <1>9, <1>11, <1>12 DEF OrderInv, OrderlyEvents

\* The end of the connection is read, and told: the handler ends.
LEMMA EndRead ==
  ASSUME OrderInv, TypeOK', NEW x \in Nodes, NEW l \in LinksOf(x), ReadEnd(x, l)
  PROVE  OrderInv'
<1>1. /\ handler[x][l] = "alive" /\ writing[x][l] = <<>> /\ link[l] = "down" /\ l \in Links
      /\ Emit(x, <<Disconnected(l)>>)
      /\ handler' = [handler EXCEPT ![x][l] = "ended"]
      /\ write_rx' = [write_rx EXCEPT ![x][l] = <<>>]
      /\ UNCHANGED <<cmd_rx, awaiting, peers, known_streams, writing, link, ignored>>
  BY DEF ReadEnd, Handles, LinksOf, loop, network
<1>2. /\ TypeOK /\ ToldTypes /\ CommandsAllowed /\ HandlersTold /\ DialerNeverIgnored
      /\ HandlersLinked /\ handler \in [Nodes -> [Links -> {"none", "alive", "ended"}]]
      /\ write_rx \in [Nodes -> [Links -> Seq(Packets)]]
  BY DEF OrderInv, TypeOK
<1>3. Connected(l) \in told[x] /\ Disconnected(l) \notin told[x]
  BY <1>1, <1>2 DEF HandlersTold
<1>4. told' = [told EXCEPT ![x] = @ \cup {Disconnected(l)}] /\ surprised' = surprised
  BY <1>1, <1>3, EmitDisconnected
<1>5. /\ ToldTypes'
      /\ told'[x] = told[x] \cup {Disconnected(l)}
      /\ \A y \in Nodes \ {x} : told'[y] = told[y]
  <2>1. Remembered(Disconnected(l))
    BY DEF Remembered, Disconnected
  <2>2. QED BY <1>2, <1>4, <2>1, ToldOne
<1>6. \A y \in Nodes, k \in Links :
        /\ handler'[y][k] = IF y = x /\ k = l THEN "ended" ELSE handler[y][k]
        /\ write_rx'[y][k] = IF y = x /\ k = l THEN <<>> ELSE write_rx[y][k]
  BY <1>1, <1>2, OneEndChanged
<1>7. \A k, r : /\ Connected(k) # Disconnected(l)
                /\ Disconnected(k) = Disconnected(l) <=> k = l
                /\ StreamCreated(k, r, "peer") # Disconnected(l)
  BY DEF Connected, Disconnected, StreamCreated
<1>8. HandlersTold'
  <2> SUFFICES ASSUME NEW y \in Nodes, NEW k \in Links
               PROVE  /\ Connected(k) \in told'[y] <=> handler'[y][k] # "none"
                      /\ Disconnected(k) \in told'[y] => handler'[y][k] = "ended"
                      /\ \A r \in Streams :
                           r \in known_streams[y][k] <=> StreamCreated(k, r, "peer") \in told'[y]
    BY <1>1 DEF HandlersTold
  <2>1. /\ Connected(k) \in told[y] <=> handler[y][k] # "none"
        /\ Disconnected(k) \in told[y] => handler[y][k] = "ended"
        /\ \A r \in Streams :
             r \in known_streams[y][k] <=> StreamCreated(k, r, "peer") \in told[y]
    BY <1>2 DEF HandlersTold
  <2>2. CASE y = x
    <3>1. CASE k = l
      BY <1>1, <1>5, <1>6, <1>7, <2>1, <2>2, <3>1
    <3>2. CASE k # l
      BY <1>5, <1>6, <1>7, <2>1, <2>2, <3>2
    <3>3. QED BY <3>1, <3>2
  <2>3. CASE y # x
    BY <1>5, <1>6, <2>1, <2>3
  <2>4. QED BY <2>2, <2>3
<1>9. HandlersLinked'
  BY <1>1, <1>2, <1>6 DEF HandlersLinked
<1>10. \A y \in Nodes : Allowed(y) \subseteq Allowed(y)' /\ Seq(Allowed(y)) \subseteq Seq(Allowed(y)')
  BY <1>1, <1>2, <1>6, AllowedStays
<1>11. CommandsAllowed'
  BY <1>1, <1>2, <1>10, CommandsKept
<1>12. QED BY <1>1, <1>2, <1>4, <1>5, <1>8, <1>9, <1>11 DEF OrderInv, OrderlyEvents, DialerNeverIgnored

\* One step per action that tells a game something.
LEMMA OrderStep == OrderInv /\ [Next]_vars => OrderInv'
<1> SUFFICES ASSUME OrderInv, [Next]_vars PROVE OrderInv'
  OBVIOUS
<1>1. TypeOK'
  BY TcpTypeStep DEF OrderInv
<1>2. CASE UNCHANGED vars
  <2>1. TypeOK /\ CommandsAllowed /\ HandlersLinked /\ DialerNeverIgnored
    BY DEF OrderInv
  <2>2. /\ UNCHANGED <<told, surprised, handler, known_streams, link>>
        /\ UNCHANGED <<cmd_rx, awaiting, peers, write_rx, writing, ignored>>
    BY <1>2 DEF vars, loop, tasks, emitted, network
  <2>3. CommandsAllowed' /\ DialerNeverIgnored' /\ HandlersLinked'
    BY <2>1, <2>2
       DEF CommandsAllowed, Allowed, DialerNeverIgnored, HandlersLinked, Distinct
  <2>4. QED BY <1>1, <2>1, <2>2, <2>3 DEF OrderInv, ToldTypes, HandlersTold, OrderlyEvents
<1>3. ASSUME NEW x \in Nodes, Game(x) \/ Loop(x) \/ Listener(x) \/ AcceptFails(x)
      PROVE  OrderInv'
  <2>1. CASE Game(x) \/ RegisterPeer(x) \/ Bind(x) \/ Connect(x) \/ Send(x) \/ SendResumes(x)
    BY <1>1, <2>1, QueueSteps
  <2>2. CASE Shutdown(x) \/ BindFails(x) \/ AcceptFails(x)
    BY <1>1, <2>2, LossSteps
  <2>3. CASE ConnectCompletes(x) \/ ConnectFails(x) \/ StreamCommand(x)
    BY <1>1, <2>3, ConnectionMade, ConnectionRefused, CommandAnswered
  <2>4. CASE Listener(x)
    BY <1>1, <2>4, TaskSteps, ConnectionAccepted DEF Listener
  <2>5. QED BY <1>3, <2>1, <2>2, <2>3, <2>4 DEF Loop
<1>4. ASSUME NEW x \in Nodes, NEW l \in LinksOf(x), Handler(x, l) PROVE OrderInv'
  BY <1>1, <1>4, TaskSteps, PacketRead, EndRead DEF Handler
<1>5. ASSUME NEW l \in Links, ResetLink(l) PROVE OrderInv'
  BY <1>1, <1>5, LossSteps
<1>6. QED BY <1>2, <1>3, <1>4, <1>5 DEF Next

\* Whatever the loop, the listener and the handlers do in the meantime, each game
\* hears of a connection, of its streams, of its messages and of its end in order.
THEOREM TcpEventsOrderly == Spec => []OrderlyEvents
<1>1. OrderInv => OrderlyEvents
  BY DEF OrderInv
<1>2. QED BY <1>1, OrderInit, OrderStep, PTL DEF Spec

\* The loop of the game that dialled knows the connection before it takes a Send
\* on it: only the Sends of the game that accepted can be dropped as unknown.
THEOREM DialersNeverIgnored == Spec => []DialerNeverIgnored
<1>1. OrderInv => DialerNeverIgnored
  BY DEF OrderInv
<1>2. QED BY <1>1, OrderInit, OrderStep, PTL DEF Spec

-----------------------------------------------------------------------------
(* The refinement of Pipe: what is in transit, from the buffers back to    *)
(* the channel of the sender.                                              *)

Transit == [w \in AllWays |-> InTransit(w[1], w[2])]
Heard   == [w \in AllWays |-> got[Peer(w[2], w[1])][w[2]]]
IsCut   == [w \in AllWays |-> link[w[2]] = "down"]

\* A connection has two ends and a way to either of them.
LEMMA Ways ==
  /\ \A l \in Links : \A x \in Ends(l) :
       /\ x \in Nodes /\ Peer(l, x) \in Ends(l) /\ Peer(l, x) \in Nodes /\ Peer(l, x) # x
       /\ Peer(l, Peer(l, x)) = x /\ <<x, l>> \in AllWays
  /\ \A w \in AllWays :
       w[1] \in Nodes /\ w[2] \in Links /\ w[1] \in Ends(w[2]) /\ w = <<w[1], w[2]>>
<1>1. ASSUME NEW l \in Links, NEW x \in Ends(l)
      PROVE  /\ x \in Nodes /\ Peer(l, x) \in Ends(l) /\ Peer(l, x) \in Nodes /\ Peer(l, x) # x
             /\ Peer(l, Peer(l, x)) = x
  BY <1>1, LinksAssumption DEF Ends, Peer
<1>2. QED BY <1>1 DEF AllWays

\* Moving the boundary between the channel, the packet being written and the
\* buffers moves nothing in transit.
LEMMA QueueMoves ==
  ASSUME NEW S, NEW b \in Seq(S), NEW w \in Seq(S), NEW q \in Seq(S)
  PROVE  /\ b \o w \o q \in Seq(S)
         /\ (b \o w) \o <<>> \o q = b \o w \o q
         /\ q # <<>> => b \o <<Head(q)>> \o Tail(q) = b \o <<>> \o q
         /\ \A p \in S : b \o w \o Append(q, p) = Append(b \o w \o q, p)
         /\ b # <<>> => /\ b \o w \o q # <<>>
                        /\ Head(b \o w \o q) = Head(b)
                        /\ Tail(b \o w \o q) = Tail(b) \o w \o q
<1>1. b \o w \in Seq(S) /\ b \o w \o q \in Seq(S) /\ <<>> \in Seq(S)
  BY ConcatProperties
<1>2. (b \o w) \o <<>> \o q = b \o w \o q
  BY <1>1, ConcatEmptySeq
<1>3. q # <<>> => b \o <<Head(q)>> \o Tail(q) = b \o <<>> \o q
  <2> SUFFICES ASSUME q # <<>> PROVE b \o <<Head(q)>> \o Tail(q) = b \o q
    BY ConcatEmptySeq
  <2>1. Head(q) \in S /\ Tail(q) \in Seq(S) /\ q = <<Head(q)>> \o Tail(q)
    BY TakenFrom
  <2>2. <<Head(q)>> \in Seq(S)
    BY <2>1
  <2>3. (b \o <<Head(q)>>) \o Tail(q) = b \o (<<Head(q)>> \o Tail(q))
    BY <2>1, <2>2, ConcatAssociative
  <2>4. QED BY <2>1, <2>3
<1>4. ASSUME NEW p \in S PROVE b \o w \o Append(q, p) = Append(b \o w \o q, p)
  <2>1. <<p>> \in Seq(S)
    OBVIOUS
  <2>2. Append(q, p) = q \o <<p>> /\ Append(b \o w \o q, p) = (b \o w \o q) \o <<p>>
    BY <1>1, AppendIsConcat
  <2>3. QED BY <1>1, <2>1, <2>2, ConcatAssociative
<1>5. b # <<>> => /\ b \o w \o q # <<>>
                  /\ Head(b \o w \o q) = Head(b)
                  /\ Tail(b \o w \o q) = Tail(b) \o w \o q
  <2> SUFFICES ASSUME b # <<>>
               PROVE  /\ b \o w \o q # <<>>
                      /\ Head(b \o w \o q) = Head(b)
                      /\ Tail(b \o w \o q) = Tail(b) \o w \o q
    OBVIOUS
  <2> DEFINE h == Head(b)
             t == Tail(b)
             r == t \o w \o q
  <2>1. h \in S /\ t \in Seq(S) /\ b = <<h>> \o t /\ <<h>> \in Seq(S)
    BY TakenFrom
  <2> HIDE DEF h, t
  <2>2. t \o w \in Seq(S) /\ r \in Seq(S)
    BY <2>1, ConcatProperties
  <2>3. b \o w = <<h>> \o (t \o w)
    BY <2>1, ConcatAssociative
  <2>4. b \o w \o q = <<h>> \o r
    BY <2>1, <2>2, <2>3, ConcatAssociative
  <2> HIDE DEF r
  <2>5. /\ <<h>> \o r # <<>> /\ Head(<<h>> \o r) = h
        /\ Tail(<<h>> \o r) \in Seq(S) /\ <<h>> \o r \in Seq(S)
    BY <2>1, <2>2
  <2>6. Tail(<<h>> \o r) = r
    <3>1. Len(r) \in Nat /\ Len(<<h>> \o r) = 1 + Len(r) /\ Len(Tail(<<h>> \o r)) = Len(r)
      BY <2>1, <2>2, <2>5, ConcatProperties, HeadTailProperties, LenProperties
    <3>2. \A i \in 1 .. Len(r) : Tail(<<h>> \o r)[i] = r[i]
      BY <2>1, <2>2, <2>5, <3>1
    <3>3. QED BY <2>2, <2>5, <3>1, <3>2, SeqEqual
  <2>7. QED BY <2>4, <2>5, <2>6 DEF h, t, r
<1>6. QED BY <1>1, <1>2, <1>3, <1>4, <1>5

\* Prefixes.
LEMMA PrefixOfItself ==
  ASSUME NEW S, NEW q \in Seq(S)
  PROVE  IsPrefix(q, q) /\ IsPrefix(<<>>, q)
<1>1. Len(q) \in Nat /\ Len(<<>>) = 0
  BY LenProperties
<1>2. SubSeq(<<>>, 1, 0) = SubSeq(q, 1, 0)
  BY SubSeqEmpty
<1>3. QED BY <1>1, <1>2 DEF IsPrefix

\* A prefix of a sequence is one of every longer one.
LEMMA PrefixOfMore ==
  ASSUME NEW S, NEW p \in Seq(S), NEW b \in Seq(S), NEW w \in Seq(S), NEW q \in Seq(S),
         IsPrefix(p, b)
  PROVE  IsPrefix(p, b \o w \o q)
<1> DEFINE r == b \o w \o q
           n == Len(p)
<1>1. r \in Seq(S) /\ n \in Nat /\ Len(b) \in Nat /\ n <= Len(b)
  BY QueueMoves, LenProperties DEF IsPrefix
<1>2. Len(r) \in Nat /\ Len(b) <= Len(r) /\ \A i \in 1 .. Len(b) : r[i] = b[i]
  <2>1. b \o w \in Seq(S) /\ Len(b \o w) = Len(b) + Len(w) /\ Len(w) \in Nat /\ Len(q) \in Nat
        /\ \A i \in 1 .. Len(b) : (b \o w)[i] = b[i]
    BY <1>1, ConcatProperties, LenProperties
  <2>2. Len(r) = Len(b \o w) + Len(q) /\ \A i \in 1 .. Len(b \o w) : r[i] = (b \o w)[i]
    BY <2>1, ConcatProperties
  <2>3. QED BY <1>1, <2>1, <2>2
<1> HIDE DEF r, n
<1>3. \A i \in 1 .. n : b[i] \in S /\ r[i] = b[i]
  BY <1>1, <1>2, ElementOfSeq
<1>4. SubSeq(b, 1, n) \in Seq(S) /\ SubSeq(r, 1, n) \in Seq(S)
      /\ Len(SubSeq(b, 1, n)) = n /\ Len(SubSeq(r, 1, n)) = n
      /\ \A i \in 1 .. n : SubSeq(b, 1, n)[i] = b[i] /\ SubSeq(r, 1, n)[i] = r[i]
  BY <1>1, <1>3, SubSeqProperties
<1>5. SubSeq(b, 1, n) = SubSeq(r, 1, n)
  BY <1>3, <1>4, SeqEqual
<1>6. QED BY <1>1, <1>2, <1>5 DEF IsPrefix, n, r

\* A step that moves nothing is none of the pipe.
LEMMA PipeRests ==
  ASSUME UNCHANGED got, \A w \in AllWays : InTransit(w[1], w[2])' = InTransit(w[1], w[2]),
         \A l \in Links : (link'[l] = "down") = (link[l] = "down")
  PROVE  UNCHANGED <<Transit, Heard, IsCut>>
<1>1. Transit' = Transit
  BY DEF Transit, AllWays, Ends
<1>2. Heard' = Heard
  BY DEF Heard, AllWays, Ends, Peer
<1>3. IsCut' = IsCut
  BY Ways DEF IsCut, AllWays, Ends
<1>4. QED BY <1>1, <1>2, <1>3

\* What is in transit on one way, from what its parts hold.
LEMMA TransitParts ==
  ASSUME TypeOK, NEW w \in AllWays
  PROVE  /\ socket[w[1]][w[2]] \in Seq(Packets) /\ writing[w[1]][w[2]] \in Seq(Packets)
         /\ write_rx[w[1]][w[2]] \in Seq(Packets) /\ InTransit(w[1], w[2]) \in Seq(Packets)
<1>1. w[1] \in Nodes /\ w[2] \in Links
  BY Ways
<1>2. /\ socket[w[1]][w[2]] \in Seq(Packets) /\ writing[w[1]][w[2]] \in Seq(Packets)
      /\ write_rx[w[1]][w[2]] \in Seq(Packets)
  BY <1>1 DEF TypeOK
<1>3. /\ <<>> \in Seq(Packets)
      /\ socket[w[1]][w[2]] \o writing[w[1]][w[2]] \o write_rx[w[1]][w[2]] \in Seq(Packets)
  BY <1>2, QueueMoves
<1>4. QED BY <1>2, <1>3 DEF InTransit

\* Handing a packet to the channel of a handler.
LEMMA PipeTakes ==
  ASSUME OrderInv, NEW x \in Nodes, NEW cmd, cmd.conn \in Links, x \in Ends(cmd.conn),
         cmd.packet \in Packets, Enqueue(x, cmd),
         UNCHANGED <<handler, link, socket, writing, got>>
  PROVE  [AbstractPipe!PipeNext]_<<Transit, Heard, IsCut>>
<1> DEFINE k == cmd.conn
           p == cmd.packet
           v == <<x, k>>
           n == Append(write_rx[x][k], p)
<1>0. TypeOK /\ k \in Links /\ p \in Packets /\ x \in Ends(k) /\ v \in AllWays
      /\ v[1] = x /\ v[2] = k
  BY Ways DEF OrderInv
<1>1. write_rx' = [write_rx EXCEPT ![x][k] = n]
  BY DEF Enqueue
<1>2. write_rx[x][k] \in Seq(Packets) /\ writing[x][k] \in Seq(Packets) /\ socket[x][k] \in Seq(Packets)
      /\ Transit[v] = InTransit(x, k) /\ InTransit(x, k) \in Seq(Packets)
  BY <1>0, TransitParts DEF Transit
<1> HIDE DEF n, k, p, v
<1>3. \A y \in Nodes, l \in Links : write_rx'[y][l] = IF y = x /\ l = k THEN n ELSE write_rx[y][l]
  <2>1. write_rx \in [Nodes -> [Links -> Seq(Packets)]]
    BY <1>0 DEF TypeOK
  <2>2. QED BY <1>0, <1>1, <2>1, OneEndChanged
<1>4. \A w \in AllWays : w # v => InTransit(w[1], w[2])' = InTransit(w[1], w[2])
  <2> SUFFICES ASSUME NEW w \in AllWays, w # v
               PROVE  InTransit(w[1], w[2])' = InTransit(w[1], w[2])
    OBVIOUS
  <2>1. w[1] \in Nodes /\ w[2] \in Links /\ ~(w[1] = x /\ w[2] = k)
    BY <1>0, Ways DEF v
  <2>2. write_rx'[w[1]][w[2]] = write_rx[w[1]][w[2]]
    BY <1>3, <2>1
  <2>3. QED BY <2>2 DEF InTransit
<1>5. Heard' = Heard /\ IsCut' = IsCut
  BY DEF Heard, IsCut, AllWays, Ends, Peer
<1>6. CASE handler[Peer(k, x)][k] = "ended" \/ link[k] = "down"
  <2>1. InTransit(x, k)' = InTransit(x, k)
    BY <1>6 DEF InTransit
  <2>2. \A w \in AllWays : InTransit(w[1], w[2])' = InTransit(w[1], w[2])
    BY <1>0, <1>4, <2>1
  <2>3. UNCHANGED <<Transit, Heard, IsCut>>
    BY <2>2, PipeRests
  <2>4. QED BY <2>3
<1>7. CASE ~(handler[Peer(k, x)][k] = "ended" \/ link[k] = "down")
  <2>1. write_rx'[x][k] = n
    BY <1>0, <1>3
  <2>2. InTransit(x, k)' = socket[x][k] \o writing[x][k] \o n
    BY <1>7, <2>1 DEF InTransit
  <2>3. InTransit(x, k) = socket[x][k] \o writing[x][k] \o write_rx[x][k]
    BY <1>7 DEF InTransit
  <2>4. InTransit(x, k)' = Append(InTransit(x, k), p)
    <3>1. \A b, u, q \in Seq(Packets) : b \o u \o Append(q, p) = Append(b \o u \o q, p)
      BY <1>0, QueueMoves
    <3>2. InTransit(x, k)' = Append(socket[x][k] \o writing[x][k] \o write_rx[x][k], p)
      BY <1>2, <2>2, <3>1 DEF n
    <3>3. QED BY <2>3, <3>2
  <2>5. Transit' = [Transit EXCEPT ![v] = Append(@, p)]
    <3> DEFINE a == Append(InTransit(x, k), p)
    <3>1. \A w \in AllWays : InTransit(w[1], w[2])' = IF w = v THEN a ELSE InTransit(w[1], w[2])
      BY <1>0, <1>4, <2>4
    <3>2. Transit' = [w \in AllWays |-> IF w = v THEN a ELSE Transit[w]]
      BY <3>1 DEF Transit, AllWays, Ends
    <3>3. Append(Transit[v], p) = a
      BY <1>2
    <3> HIDE DEF a
    <3>4. QED BY <3>2, <3>3, <1>0 DEF Transit
  <2>6. AbstractPipe!Hand(v)
    BY <1>0, <1>5, <2>5 DEF AbstractPipe!Hand, Transit, Heard, IsCut
  <2>7. QED BY <1>0, <2>6 DEF AbstractPipe!PipeNext
<1>8. QED BY <1>6, <1>7

\* Reading one.
LEMMA PipeGives ==
  ASSUME OrderInv, NEW x \in Nodes, NEW l \in LinksOf(x), Read(x, l)
  PROVE  AbstractPipe!PipeNext
<1> DEFINE y == Peer(l, x)
           v == <<y, l>>
           p == Head(socket[y][l])
           t == Tail(socket[y][l])
<1>0. /\ TypeOK /\ l \in Links /\ x \in Ends(l) /\ v \in AllWays /\ v[1] = y /\ v[2] = l
      /\ y \in Nodes /\ Peer(l, y) = x
  BY Ways DEF OrderInv, LinksOf
<1>1. /\ handler[x][l] = "alive" /\ socket[y][l] # <<>>
      /\ socket' = [socket EXCEPT ![y][l] = t]
      /\ got' = [got EXCEPT ![x][l] = p]
      /\ UNCHANGED <<handler, write_rx, writing, link>>
  BY DEF Read, Handles, Incoming
<1>2. write_rx[y][l] \in Seq(Packets) /\ writing[y][l] \in Seq(Packets) /\ socket[y][l] \in Seq(Packets)
      /\ Transit[v] = InTransit(y, l) /\ InTransit(y, l) \in Seq(Packets)
  BY <1>0, TransitParts DEF Transit
<1>3. p \in Packets /\ t \in Seq(Packets)
  BY <1>1, <1>2, TakenFrom
<1> HIDE DEF y, v, p, t
<1>4. \A z \in Nodes, k \in Links :
        /\ socket'[z][k] = IF z = y /\ k = l THEN t ELSE socket[z][k]
        /\ got'[z][k] = IF z = x /\ k = l THEN p ELSE got[z][k]
  <2>1. socket \in [Nodes -> [Links -> Seq(Packets)]] /\ got \in [Nodes -> [Links -> Packets \cup {NoPacket}]]
    BY <1>0 DEF TypeOK
  <2>2. QED BY <1>0, <1>1, <2>1, OneEndChanged
<1>5. /\ InTransit(y, l) # <<>> /\ Head(InTransit(y, l)) = p
      /\ InTransit(y, l)' = Tail(InTransit(y, l))
  <2>1. socket'[y][l] = t
    BY <1>0, <1>4
  <2>2. CASE link[l] = "down"
    <3>1. InTransit(y, l) = socket[y][l] /\ InTransit(y, l)' = t
      BY <1>0, <1>1, <2>1, <2>2 DEF InTransit
    <3>2. QED BY <1>1, <3>1 DEF p, t
  <2>3. CASE link[l] # "down"
    <3>1. InTransit(y, l) = socket[y][l] \o writing[y][l] \o write_rx[y][l]
      BY <1>0, <1>1, <2>3 DEF InTransit
    <3>2. InTransit(y, l)' = t \o writing[y][l] \o write_rx[y][l]
      BY <1>0, <1>1, <2>1, <2>3 DEF InTransit
    <3>3. \A b, u, q \in Seq(Packets) :
            b # <<>> => /\ b \o u \o q # <<>> /\ Head(b \o u \o q) = Head(b)
                        /\ Tail(b \o u \o q) = Tail(b) \o u \o q
      BY QueueMoves
    <3>4. /\ InTransit(y, l) # <<>> /\ Head(InTransit(y, l)) = Head(socket[y][l])
          /\ Tail(InTransit(y, l)) = t \o writing[y][l] \o write_rx[y][l]
      <4> DEFINE b == socket[y][l]
                 u == writing[y][l]
                 q == write_rx[y][l]
      <4>1. b \in Seq(Packets) /\ u \in Seq(Packets) /\ q \in Seq(Packets) /\ b # <<>>
            /\ InTransit(y, l) = b \o u \o q
        BY <1>1, <1>2, <3>1
      <4> HIDE DEF b, u, q
      <4>2. b \o u \o q # <<>> /\ Head(b \o u \o q) = Head(b) /\ Tail(b \o u \o q) = Tail(b) \o u \o q
        BY <3>3, <4>1
      <4>3. QED BY <4>1, <4>2 DEF t, b, u, q
    <3>5. QED BY <3>2, <3>4 DEF p
  <2>4. QED BY <2>2, <2>3
<1>6. \A w \in AllWays : w # v => InTransit(w[1], w[2])' = InTransit(w[1], w[2])
  <2> SUFFICES ASSUME NEW w \in AllWays, w # v
               PROVE  InTransit(w[1], w[2])' = InTransit(w[1], w[2])
    OBVIOUS
  <2>1. w[1] \in Nodes /\ w[2] \in Links /\ ~(w[1] = y /\ w[2] = l)
    BY <1>0, Ways DEF v
  <2>2. socket'[w[1]][w[2]] = socket[w[1]][w[2]]
    BY <1>4, <2>1
  <2>3. QED BY <1>1, <2>2 DEF InTransit
<1>7. Transit[v] # <<>> /\ Head(Transit[v]) = p
  BY <1>2, <1>5
<1>8. Transit' = [Transit EXCEPT ![v] = Tail(@)]
  <2> DEFINE a == Tail(InTransit(y, l))
  <2>1. \A w \in AllWays : InTransit(w[1], w[2])' = IF w = v THEN a ELSE InTransit(w[1], w[2])
    BY <1>0, <1>5, <1>6
  <2>2. Transit' = [w \in AllWays |-> IF w = v THEN a ELSE Transit[w]]
    BY <2>1 DEF Transit, AllWays, Ends
  <2>3. Tail(Transit[v]) = a
    BY <1>2
  <2> HIDE DEF a
  <2>4. QED BY <2>2, <2>3, <1>0 DEF Transit
<1>9. Heard' = [Heard EXCEPT ![v] = p]
  <2>1. ASSUME NEW w \in AllWays
        PROVE  got'[Peer(w[2], w[1])][w[2]] = IF w = v THEN p ELSE got[Peer(w[2], w[1])][w[2]]
    <3>1. CASE w = v
      BY <1>0, <1>4, <3>1
    <3>2. CASE w # v
      <4>1. /\ w[1] \in Nodes /\ w[2] \in Links /\ Peer(w[2], w[1]) \in Nodes
            /\ Peer(w[2], Peer(w[2], w[1])) = w[1]
        BY Ways
      <4>2. ~(Peer(w[2], w[1]) = x /\ w[2] = l)
        <5>1. w[1] # y \/ w[2] # l
          BY <3>2, Ways DEF v
        <5>2. QED BY <4>1, <5>1 DEF y
      <4>3. QED BY <1>4, <3>2, <4>1, <4>2
    <3>3. QED BY <3>1, <3>2
  <2>2. Heard' = [w \in AllWays |-> IF w = v THEN p ELSE Heard[w]]
    BY <2>1 DEF Heard, AllWays, Ends, Peer
  <2>3. QED BY <1>0, <2>2 DEF Heard
<1>10. IsCut' = IsCut
  BY <1>1 DEF IsCut, AllWays, Ends
<1>11. AbstractPipe!Get(v)
  BY <1>7, <1>8, <1>9, <1>10 DEF AbstractPipe!Get, Transit, Heard, IsCut
<1>12. QED BY <1>0, <1>11 DEF AbstractPipe!PipeNext

\* Steps by which connections are lost: what is lost is the end of what was in
\* transit on them.
LEMMA PipeLoses ==
  ASSUME OrderInv, UNCHANGED got,
         \A l \in Links : link'[l] = link[l] \/ (link[l] = "open" /\ link'[l] = "down"),
         \A y \in Nodes, l \in Links :
           /\ handler'[y][l] = handler[y][l] \/ (handler'[y][l] = "ended" /\ link'[l] = "down")
           /\ IsPrefix(socket'[y][l], socket[y][l]) /\ socket'[y][l] \in Seq(Packets)
           /\ link'[l] = link[l] => socket'[y][l] = socket[y][l]
           /\ link'[l] # "down" => UNCHANGED <<write_rx[y][l], writing[y][l]>>
  PROVE  AbstractPipe!PipeNext
<1>0. PICK W \in SUBSET AllWays : \A w \in AllWays : w \in W <=> link'[w[2]] = "down"
  <2>1. {w \in AllWays : link'[w[2]] = "down"} \in SUBSET AllWays
    OBVIOUS
  <2>2. QED BY <2>1
<1>1. IsCut' = [w \in AllWays |-> w \in W \/ IsCut[w]]
  <2>1. \A w \in AllWays : (link'[w[2]] = "down") = (w \in W \/ link[w[2]] = "down")
    BY <1>0, Ways
  <2>2. QED BY <2>1 DEF IsCut, AllWays, Ends
<1>2. DOMAIN Transit' = AllWays
  BY DEF Transit, AllWays, Ends
<1>3. Heard' = Heard
  BY DEF Heard, AllWays, Ends, Peer
<1>4. ASSUME NEW w \in AllWays
      PROVE  /\ IsPrefix(InTransit(w[1], w[2])', InTransit(w[1], w[2]))
             /\ link'[w[2]] # "down" => InTransit(w[1], w[2])' = InTransit(w[1], w[2])
  <2> DEFINE x == w[1]
             l == w[2]
             y == Peer(l, x)
  <2>1. x \in Nodes /\ l \in Links /\ y \in Nodes
    BY Ways
  <2>2. InTransit(x, l) \in Seq(Packets) /\ socket[x][l] \in Seq(Packets)
        /\ writing[x][l] \in Seq(Packets) /\ write_rx[x][l] \in Seq(Packets)
    BY TransitParts DEF OrderInv
  <2>3. /\ handler'[y][l] = handler[y][l] \/ (handler'[y][l] = "ended" /\ link'[l] = "down")
        /\ IsPrefix(socket'[x][l], socket[x][l]) /\ socket'[x][l] \in Seq(Packets)
        /\ link'[l] = link[l] => socket'[x][l] = socket[x][l]
        /\ link'[l] # "down" => UNCHANGED <<write_rx[x][l], writing[x][l]>>
        /\ link'[l] = link[l] \/ (link[l] = "open" /\ link'[l] = "down")
    BY <2>1
  <2>4. handler[y][l] = "ended" => link[l] = "down"
    BY <2>1 DEF OrderInv, HandlersLinked
  <2>5. InTransit(x, l)' = IF handler'[y][l] = "ended" THEN <<>>
                           ELSE IF link'[l] = "down" THEN socket'[x][l]
                           ELSE socket'[x][l] \o writing'[x][l] \o write_rx'[x][l]
    BY DEF InTransit, Peer, AllWays, Ends
  <2>6. InTransit(x, l) = IF handler[y][l] = "ended" THEN <<>>
                          ELSE IF link[l] = "down" THEN socket[x][l]
                          ELSE socket[x][l] \o writing[x][l] \o write_rx[x][l]
    BY DEF InTransit
  <2> HIDE DEF x, l, y
  <2>7. CASE link'[l] # "down"
    <3>1. InTransit(x, l)' = InTransit(x, l)
      BY <2>3, <2>4, <2>5, <2>6, <2>7
    <3>2. IsPrefix(InTransit(x, l), InTransit(x, l))
      BY <2>2, PrefixOfItself
    <3>3. QED BY <3>1, <3>2 DEF x, l
  <2>8. CASE link'[l] = "down"
    <3>1. CASE handler'[y][l] = "ended"
      <4>1. InTransit(x, l)' = <<>>
        BY <2>5, <3>1
      <4>2. IsPrefix(<<>>, InTransit(x, l))
        BY <2>2, PrefixOfItself
      <4>3. QED BY <2>8, <4>1, <4>2 DEF x, l
    <3>2. CASE handler'[y][l] # "ended"
      <4>1. InTransit(x, l)' = socket'[x][l] /\ handler[y][l] # "ended"
        BY <2>3, <2>5, <2>8, <3>2
      <4>2. CASE link[l] = "down"
        BY <2>3, <2>6, <2>8, <4>1, <4>2 DEF x, l
      <4>3. CASE link[l] # "down"
        <5>1. InTransit(x, l) = socket[x][l] \o writing[x][l] \o write_rx[x][l]
          BY <2>6, <4>1, <4>3
        <5>2. IsPrefix(socket'[x][l], InTransit(x, l))
          BY <2>2, <2>3, <5>1, PrefixOfMore
        <5>3. QED BY <2>8, <4>1, <5>2 DEF x, l
      <4>4. QED BY <4>2, <4>3
    <3>3. QED BY <3>1, <3>2
  <2>9. QED BY <2>7, <2>8
<1>5. \A w \in AllWays : IsPrefix(Transit'[w], Transit[w])
  <2>1. \A w \in AllWays : Transit'[w] = InTransit(w[1], w[2])' /\ Transit[w] = InTransit(w[1], w[2])
    BY DEF Transit, AllWays, Ends
  <2>2. QED BY <1>4, <2>1
<1>6. \A w \in AllWays : ~IsCut'[w] => Transit'[w] = Transit[w]
  <2>1. \A w \in AllWays : /\ Transit'[w] = InTransit(w[1], w[2])'
                           /\ Transit[w] = InTransit(w[1], w[2])
                           /\ IsCut'[w] <=> link'[w[2]] = "down"
    BY DEF Transit, IsCut, AllWays, Ends
  <2>2. QED BY <1>4, <2>1
<1>7. AbstractPipe!Cut(W)
  <2>1. \A w \in AllWays : AbstractPipe!IsPrefix(Transit'[w], Transit[w])
    BY <1>5 DEF IsPrefix, AbstractPipe!IsPrefix
  <2>2. QED
    BY <1>1, <1>2, <1>3, <1>6, <2>1 DEF AbstractPipe!Cut, Transit, Heard, IsCut
<1>8. QED BY <1>7 DEF AbstractPipe!PipeNext

\* Steps of the handlers that only move the boundaries inside what is in transit.
LEMMA PipeCarries ==
  ASSUME OrderInv, NEW x \in Nodes, NEW l \in LinksOf(x),
         TakePacket(x, l) \/ Write(x, l) \/ ReadEnd(x, l)
  PROVE  UNCHANGED <<Transit, Heard, IsCut>>
<1>0. TypeOK /\ l \in Links /\ x \in Ends(l) /\ UNCHANGED <<got, link>>
  BY DEF OrderInv, LinksOf, TakePacket, Write, ReadEnd, network
<1>1. /\ write_rx \in [Nodes -> [Links -> Seq(Packets)]]
      /\ writing \in [Nodes -> [Links -> Seq(Packets)]]
      /\ socket \in [Nodes -> [Links -> Seq(Packets)]]
      /\ handler \in [Nodes -> [Links -> {"none", "alive", "ended"}]]
  BY <1>0 DEF TypeOK
<1> SUFFICES ASSUME NEW w \in AllWays PROVE InTransit(w[1], w[2])' = InTransit(w[1], w[2])
  BY <1>0, PipeRests
<1> DEFINE y == w[1]
           k == w[2]
           b == socket[y][k]
           u == writing[y][k]
           q == write_rx[y][k]
<1>2. y \in Nodes /\ k \in Links /\ y \in Ends(k) /\ Peer(k, y) \in Nodes /\ Peer(k, Peer(k, y)) = y
  BY Ways
<1>3. b \in Seq(Packets) /\ u \in Seq(Packets) /\ q \in Seq(Packets)
  BY <1>1, <1>2
<1>4. /\ InTransit(y, k) = IF handler[Peer(k, y)][k] = "ended" THEN <<>>
                           ELSE IF link[k] = "down" THEN b ELSE b \o u \o q
      /\ InTransit(y, k)' = IF handler'[Peer(k, y)][k] = "ended" THEN <<>>
                            ELSE IF link[k] = "down" THEN socket'[y][k]
                            ELSE socket'[y][k] \o writing'[y][k] \o write_rx'[y][k]
  BY <1>0 DEF InTransit, Peer, AllWays, Ends
<1> HIDE DEF y, k, b, u, q
<1> SUFFICES InTransit(y, k)' = InTransit(y, k)
  BY DEF y, k
<1>5. CASE TakePacket(x, l)
  <2> DEFINE h == <<Head(write_rx[x][l])>>
             t == Tail(write_rx[x][l])
  <2>1. /\ writing[x][l] = <<>> /\ write_rx[x][l] # <<>>
        /\ writing' = [writing EXCEPT ![x][l] = h] /\ write_rx' = [write_rx EXCEPT ![x][l] = t]
        /\ UNCHANGED <<socket, handler>>
    BY <1>5 DEF TakePacket, Handles, network
  <2> HIDE DEF h, t
  <2>2. /\ writing'[y][k] = IF y = x /\ k = l THEN h ELSE u
        /\ write_rx'[y][k] = IF y = x /\ k = l THEN t ELSE q
        /\ socket'[y][k] = b
    <3>1. writing'[y][k] = IF y = x /\ k = l THEN h ELSE writing[y][k]
      BY <1>0, <1>1, <1>2, <2>1, OneEndChanged
    <3>2. write_rx'[y][k] = IF y = x /\ k = l THEN t ELSE write_rx[y][k]
      BY <1>0, <1>1, <1>2, <2>1, OneEndChanged
    <3>3. QED BY <2>1, <3>1, <3>2 DEF u, q, b
  <2>3. CASE y = x /\ k = l
    <3>1. u = <<>> /\ q # <<>> /\ h = <<Head(q)>> /\ t = Tail(q)
      BY <2>1, <2>3 DEF u, q, h, t
    <3>2. b \o h \o t = b \o u \o q
      BY <1>3, <3>1, QueueMoves
    <3>3. QED BY <1>4, <2>1, <2>2, <2>3, <3>2
  <2>4. CASE ~(y = x /\ k = l)
    BY <1>4, <2>1, <2>2, <2>4
  <2>5. QED BY <2>3, <2>4 DEF y, k
<1>6. CASE Write(x, l)
  <2> DEFINE m == socket[x][l] \o writing[x][l]
             e == <<>>
  <2>1. /\ writing' = [writing EXCEPT ![x][l] = e] /\ UNCHANGED <<write_rx, handler>>
        /\ IF link[l] = "down" THEN socket' = socket ELSE socket' = [socket EXCEPT ![x][l] = m]
    BY <1>6 DEF Write
  <2> HIDE DEF m, e
  <2>2. /\ writing'[y][k] = IF y = x /\ k = l THEN e ELSE u
        /\ write_rx'[y][k] = q
        /\ socket'[y][k] = IF y = x /\ k = l /\ link[l] # "down" THEN m ELSE b
    <3>1. writing'[y][k] = IF y = x /\ k = l THEN e ELSE writing[y][k]
      BY <1>0, <1>1, <1>2, <2>1, OneEndChanged
    <3>2. CASE link[l] = "down"
      BY <2>1, <3>1, <3>2 DEF u, q, b
    <3>3. CASE link[l] # "down"
      <4>1. socket'[y][k] = IF y = x /\ k = l THEN m ELSE socket[y][k]
        BY <1>0, <1>1, <1>2, <2>1, <3>3, OneEndChanged
      <4>2. QED BY <2>1, <3>1, <3>3, <4>1 DEF u, q, b
    <3>4. QED BY <3>2, <3>3
  <2>3. CASE y = x /\ k = l
    <3>1. m = b \o u
      BY <2>3 DEF m, b, u
    <3>2. m \o e \o q = b \o u \o q
      BY <1>3, <3>1, QueueMoves DEF e
    <3>3. QED BY <1>4, <2>1, <2>2, <2>3, <3>2
  <2>4. CASE ~(y = x /\ k = l)
    BY <1>4, <2>1, <2>2, <2>4
  <2>5. QED BY <2>3, <2>4 DEF y, k
<1>7. CASE ReadEnd(x, l)
  <2>1. /\ link[l] = "down" /\ socket[Peer(l, x)][l] = <<>>
        /\ handler' = [handler EXCEPT ![x][l] = "ended"]
        /\ write_rx' = [write_rx EXCEPT ![x][l] = <<>>]
        /\ UNCHANGED <<socket, writing>>
    BY <1>7 DEF ReadEnd, Incoming, network
  <2>2. /\ handler'[Peer(k, y)][k] = IF Peer(k, y) = x /\ k = l THEN "ended" ELSE handler[Peer(k, y)][k]
        /\ write_rx'[y][k] = IF y = x /\ k = l THEN <<>> ELSE q
        /\ socket'[y][k] = b /\ writing'[y][k] = u
    <3>1. handler'[Peer(k, y)][k] = IF Peer(k, y) = x /\ k = l THEN "ended" ELSE handler[Peer(k, y)][k]
      <4>1. \A z \in Nodes, j \in Links :
              handler'[z][j] = IF z = x /\ j = l THEN "ended" ELSE handler[z][j]
        BY <1>0, <1>1, <2>1, OneEndChanged
      <4>2. QED BY <1>2, <4>1
    <3>2. write_rx'[y][k] = IF y = x /\ k = l THEN <<>> ELSE q
      <4> DEFINE e == <<>>
      <4>1. write_rx' = [write_rx EXCEPT ![x][l] = e]
        BY <2>1
      <4> HIDE DEF e
      <4>2. write_rx'[y][k] = IF y = x /\ k = l THEN e ELSE write_rx[y][k]
        BY <1>0, <1>1, <1>2, <4>1, OneEndChanged
      <4>3. QED BY <4>2 DEF e, q
    <3>3. QED BY <2>1, <3>1, <3>2 DEF b, u
  <2>3. CASE Peer(k, y) = x /\ k = l
    <3>1. b = <<>>
      BY <1>2, <2>1, <2>3 DEF b
    <3>2. QED BY <1>4, <2>1, <2>2, <2>3, <3>1
  <2>4. CASE y = x /\ k = l /\ Peer(k, y) # x
    BY <1>4, <2>1, <2>2, <2>4
  <2>5. CASE ~(y = x /\ k = l) /\ ~(Peer(k, y) = x /\ k = l)
    BY <1>4, <2>1, <2>2, <2>5
  <2>6. QED BY <2>3, <2>4, <2>5 DEF y, k
<1>8. QED BY <1>5, <1>6, <1>7

\* Every step of the backend is a step of each Pipe or a stutter.
LEMMA PipeStep ==
  ASSUME OrderInv, [Next]_vars
  PROVE  [AbstractPipe!PipeNext]_<<Transit, Heard, IsCut>>
<1>0. /\ TypeOK /\ HandlersLinked /\ CommandsAllowed
      /\ handler \in [Nodes -> [Links -> {"none", "alive", "ended"}]]
      /\ link \in [Links -> {"new", "open", "down", "refused"}]
  BY DEF OrderInv, TypeOK
<1>1. ASSUME UNCHANGED <<handler, link, socket, writing, write_rx, got>>
      PROVE  UNCHANGED <<Transit, Heard, IsCut>>
  BY <1>1 DEF Transit, Heard, IsCut, InTransit, AllWays, Ends, Peer
<1>2. ASSUME NEW x \in Nodes, Game(x) PROVE UNCHANGED <<Transit, Heard, IsCut>>
  <2>1. UNCHANGED <<tasks, network, got>>
    BY <1>0, <1>2, GameIssues
  <2>2. QED BY <1>1, <2>1 DEF tasks, network
<1>3. ASSUME NEW x \in Nodes,
             RegisterPeer(x) \/ Bind(x) \/ Connect(x) \/ StreamCommand(x) \/ AcceptRegister(x)
      PROVE  UNCHANGED <<Transit, Heard, IsCut>>
  BY <1>1, <1>3 DEF RegisterPeer, Bind, Connect, StreamCommand, AcceptRegister, tasks, network
<1>4. ASSUME NEW x \in Nodes, NEW l \in Links, handler[x][l] # "ended",
             UNCHANGED handler \/ SpawnHandler(x, l), UNCHANGED <<socket, writing, write_rx, got>>,
             \A k \in Links : (link'[k] = "down") = (link[k] = "down")
      PROVE  UNCHANGED <<Transit, Heard, IsCut>>
  <2>1. \A y \in Nodes, k \in Links : (handler'[y][k] = "ended") = (handler[y][k] = "ended")
    BY <1>0, <1>4, OneEndChanged DEF SpawnHandler
  <2>2. ASSUME NEW w \in AllWays PROVE InTransit(w[1], w[2])' = InTransit(w[1], w[2])
    <3>1. w[2] \in Links /\ Peer(w[2], w[1]) \in Nodes
      BY Ways
    <3>2. (handler'[Peer(w[2], w[1])][w[2]] = "ended") = (handler[Peer(w[2], w[1])][w[2]] = "ended")
      BY <2>1, <3>1
    <3>3. (link'[w[2]] = "down") = (link[w[2]] = "down")
      BY <1>4, <3>1
    <3>4. QED BY <1>4, <3>2, <3>3 DEF InTransit, Peer, AllWays, Ends
  <2>3. QED BY <1>4, <2>2, PipeRests
<1>5. ASSUME NEW x \in Nodes, ConnectCompletes(x) \/ ConnectFails(x)
      PROVE  UNCHANGED <<Transit, Heard, IsCut>>
  <2> DEFINE l == awaiting[x][1].conn
  <2>1. /\ Awaits(x, "Connect") /\ UNCHANGED <<socket, writing, write_rx, got>>
        /\ UNCHANGED handler \/ SpawnHandler(x, l)
        /\ \E v \in {"open", "refused"} : link' = [link EXCEPT ![l] = v]
    BY <1>5 DEF ConnectCompletes, ConnectFails, tasks
  <2>2. l \in Links /\ link[l] = "new"
    <3>1. awaiting[x] \in Seq(Allowed(x)) /\ awaiting[x] # <<>> /\ awaiting[x][1].op = "Connect"
      BY <1>0, <2>1 DEF CommandsAllowed, Awaits
    <3>2. awaiting[x][1] \in Allowed(x)
      BY <3>1
    <3>3. QED BY <3>1, <3>2 DEF Allowed, Commanded
  <2> HIDE DEF l
  <2>3. handler[x][l] # "ended"
    BY <1>0, <2>2 DEF HandlersLinked
  <2>4. \A k \in Links : (link'[k] = "down") = (link[k] = "down")
    BY <1>0, <2>1, <2>2
  <2>5. QED BY <1>4, <2>1, <2>2, <2>3, <2>4
<1>6. ASSUME NEW x \in Nodes, NEW l \in LinksOf(x), Accept(x, l)
      PROVE  UNCHANGED <<Transit, Heard, IsCut>>
  BY <1>4, <1>6 DEF Accept, Backlog, LinksOf, network
<1>7. ASSUME NEW x \in Nodes, Send(x) \/ SendResumes(x)
      PROVE  [AbstractPipe!PipeNext]_<<Transit, Heard, IsCut>>
  <2>1. \E cmd \in Allowed(x) :
           /\ cmd.op = "Send" /\ (UNCHANGED write_rx \/ Enqueue(x, cmd))
           /\ UNCHANGED <<handler, link, socket, writing, got>>
    <3>1. CASE Send(x)
      <4>1. cmd_rx[x] \in Seq(Allowed(x)) /\ cmd_rx[x] # <<>> /\ Head(cmd_rx[x]).op = "Send"
        BY <1>0, <3>1 DEF CommandsAllowed, Send, TakeCommand
      <4>2. Head(cmd_rx[x]) \in Allowed(x)
        BY <4>1, TakenFrom
      <4>3. QED BY <3>1, <4>1, <4>2 DEF Send, network
    <3>2. CASE SendResumes(x)
      <4>1. awaiting[x] \in Seq(Allowed(x)) /\ awaiting[x] # <<>> /\ awaiting[x][1].op = "Send"
        BY <1>0, <3>2 DEF CommandsAllowed, SendResumes, Awaits
      <4>2. awaiting[x][1] \in Allowed(x)
        BY <4>1
      <4>3. QED BY <3>2, <4>1, <4>2 DEF SendResumes, network
    <3>3. QED BY <1>7, <3>1, <3>2
  <2>2. PICK cmd \in Allowed(x) :
          /\ cmd.op = "Send" /\ (UNCHANGED write_rx \/ Enqueue(x, cmd))
          /\ UNCHANGED <<handler, link, socket, writing, got>>
    BY <2>1
  <2>3. cmd.conn \in Links /\ cmd.packet \in Packets /\ x \in Ends(cmd.conn)
    BY <2>2 DEF Allowed, Commanded, OnConn
  <2>4. QED BY <1>1, <2>2, <2>3, PipeTakes
<1>8. ASSUME NEW x \in Nodes, NEW l \in LinksOf(x), Handler(x, l)
      PROVE  [AbstractPipe!PipeNext]_<<Transit, Heard, IsCut>>
  BY <1>8, PipeGives, PipeCarries DEF Handler
<1>9. ASSUME NEW D \in SUBSET Links, Resets(D), \A l \in D : link[l] = "open", UNCHANGED got,
             \A y \in Nodes, l \in Links :
               /\ handler'[y][l] = handler[y][l] \/ (handler'[y][l] = "ended" /\ link'[l] = "down")
               /\ link'[l] # "down" => UNCHANGED <<write_rx[y][l], writing[y][l]>>
      PROVE  AbstractPipe!PipeNext
  <2>1. /\ \A l \in Links : link'[l] = IF l \in D THEN "down" ELSE link[l]
        /\ \A y \in Nodes, l \in Links : socket'[y][l] \in Seq(Packets)
        /\ \A y \in Nodes, l \in Links : IsPrefix(socket'[y][l], socket[y][l])
        /\ \A y \in Nodes, l \in Links \ D : socket'[y][l] = socket[y][l]
    BY <1>0, <1>9, ResetLeaves
  <2>2. \A l \in Links : /\ link'[l] = link[l] \/ (link[l] = "open" /\ link'[l] = "down")
                         /\ link'[l] = link[l] => l \notin D
    BY <1>9, <2>1
  <2>3. \A y \in Nodes, l \in Links : link'[l] = link[l] => socket'[y][l] = socket[y][l]
    BY <2>1, <2>2
  <2>4. QED BY <1>9, <2>1, <2>2, <2>3, PipeLoses
<1>10. ASSUME NEW x \in Nodes, Shutdown(x) \/ BindFails(x) PROVE AbstractPipe!PipeNext
  <2> DEFINE D == {l \in LinksOf(x) : link[l] = "open"}
  <2>1. /\ D \in SUBSET Links /\ Resets(D) /\ UNCHANGED got /\ \A l \in D : link[l] = "open"
        /\ \A l \in Links : x \in Ends(l) /\ link[l] = "open" => l \in D
    BY <1>10 DEF Shutdown, BindFails, RunEnds, LinksOf
  <2>2. /\ handler' = [handler EXCEPT ![x] =
             [l \in Links |-> IF handler[x][l] = "alive" THEN "ended" ELSE handler[x][l]]]
        /\ write_rx' = [write_rx EXCEPT ![x] = [l \in Links |-> <<>>]]
        /\ writing' = [writing EXCEPT ![x] = [l \in Links |-> <<>>]]
    BY <1>10 DEF Shutdown, BindFails, RunEnds
  <2> HIDE DEF D
  <2>3. ASSUME NEW y \in Nodes, NEW l \in Links
        PROVE  /\ handler'[y][l] = handler[y][l] \/ (handler'[y][l] = "ended" /\ link'[l] = "down")
               /\ link'[l] # "down" => UNCHANGED <<write_rx[y][l], writing[y][l]>>
    <3>1. link'[l] = IF l \in D THEN "down" ELSE link[l]
      BY <2>1 DEF Resets
    <3>2. CASE y # x
      BY <1>0, <2>2, <3>2 DEF TypeOK
    <3>3. CASE y = x
      <4>1. /\ handler'[y][l] = IF handler[x][l] = "alive" THEN "ended" ELSE handler[x][l]
            /\ write_rx'[y][l] = <<>> /\ writing'[y][l] = <<>>
        BY <1>0, <2>2, <3>3 DEF TypeOK
      <4>2. CASE handler[x][l] = "alive"
        <5>1. x \in Ends(l) /\ link[l] \in {"open", "down"}
          BY <1>0, <4>2 DEF HandlersLinked
        <5>2. link'[l] = "down"
          BY <2>1, <3>1, <5>1
        <5>3. QED BY <3>3, <4>1, <4>2, <5>2
      <4>3. CASE handler[x][l] # "alive"
        <5>1. write_rx[y][l] = <<>> /\ writing[y][l] = <<>>
          BY <1>0, <3>3, <4>3 DEF HandlersLinked
        <5>2. QED BY <3>3, <4>1, <4>3, <5>1
      <4>4. QED BY <4>2, <4>3
    <3>4. QED BY <3>2, <3>3
  <2>4. QED BY <1>9, <2>1, <2>3
<1>11. ASSUME NEW x \in Nodes, AcceptFails(x) PROVE AbstractPipe!PipeNext
  <2> DEFINE D == {l \in Backlog(x) : link[l] = "open"}
  <2>1. /\ D \in SUBSET Links /\ Resets(D) /\ \A l \in D : link[l] = "open"
        /\ UNCHANGED <<got, handler, write_rx, writing>>
    BY <1>11 DEF AcceptFails, Backlog
  <2> HIDE DEF D
  <2>2. QED BY <1>9, <2>1
<1>12. ASSUME NEW l \in Links, ResetLink(l) PROVE AbstractPipe!PipeNext
  <2> DEFINE D == {l}
  <2>1. /\ D \in SUBSET Links /\ Resets(D) /\ \A k \in D : link[k] = "open"
        /\ UNCHANGED <<got, handler, write_rx, writing>>
    BY <1>12 DEF ResetLink, tasks
  <2> HIDE DEF D
  <2>2. QED BY <1>9, <2>1
<1>13. CASE UNCHANGED vars
  BY <1>1, <1>13 DEF vars, tasks, network
<1>14. CASE Next
  <2>1. ASSUME NEW x \in Nodes, Loop(x) PROVE [AbstractPipe!PipeNext]_<<Transit, Heard, IsCut>>
    BY <1>3, <1>5, <1>7, <1>10, <2>1 DEF Loop
  <2>2. ASSUME NEW x \in Nodes, Listener(x) PROVE [AbstractPipe!PipeNext]_<<Transit, Heard, IsCut>>
    BY <1>3, <1>6, <2>2 DEF Listener
  <2>3. QED BY <1>2, <1>8, <1>11, <1>12, <1>14, <2>1, <2>2 DEF Next
<1>15. QED BY <1>13, <1>14

\* Whatever a game handed over on a connection is in transit until the other game
\* gets it, in order and each packet once; only the end of it can be lost, and
\* only with the connection. This is how the channel of a peer, its handler, the
\* buffers and the handler at the other end work together (lines 83, 122, 154).
THEOREM TcpImplementsPipe == Spec => ImplementsPipe
<1>1. Init => AbstractPipe!PipeInit
  <2> SUFFICES ASSUME Init PROVE AbstractPipe!PipeInit
    OBVIOUS
  <2>1. ASSUME NEW w \in AllWays
        PROVE  /\ InTransit(w[1], w[2]) = <<>> /\ got[Peer(w[2], w[1])][w[2]] = NoPacket
               /\ (link[w[2]] = "down") = FALSE
    <3>1. w[1] \in Nodes /\ w[2] \in Links /\ Peer(w[2], w[1]) \in Nodes
      BY Ways
    <3>2. /\ handler[Peer(w[2], w[1])][w[2]] = "none" /\ link[w[2]] = "new"
          /\ socket[w[1]][w[2]] = <<>> /\ writing[w[1]][w[2]] = <<>> /\ write_rx[w[1]][w[2]] = <<>>
          /\ got[Peer(w[2], w[1])][w[2]] = NoPacket
      BY <3>1 DEF Init, PerEnd
    <3>3. <<>> \o <<>> \o <<>> = <<>>
      BY ConcatEmptySeq, EmptySeq
    <3>4. QED BY <3>2, <3>3 DEF InTransit
  <2>2. QED BY <2>1 DEF AbstractPipe!PipeInit
<1>2. OrderInv /\ [Next]_vars => [AbstractPipe!PipeNext]_<<Transit, Heard, IsCut>>
  BY PipeStep
<1>3. QED
  BY <1>1, <1>2, OrderInit, OrderStep, PTL
     DEF Spec, ImplementsPipe, AbstractPipe!Spec, Transit, Heard, IsCut
=============================================================================
