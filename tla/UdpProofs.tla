------------------------------ MODULE UdpProofs ------------------------------
(***************************************************************************)
(* Proofs about UdpBackend, for any nodes, connections, addresses and      *)
(* bounds: packets, moves and restarts never bring a third node into a     *)
(* connection, provided no address is given out twice, and no game is told *)
(* something out of order, whoever has which address.                      *)
(***************************************************************************)
EXTENDS UdpBackend, GameSocketProofs

Command ==
  [op : {"Bind", "Connect", "Shutdown"}]
    \cup [op : {"Send", "CreateStream", "CloseStream"}, conn : Conns, stream : Streams]

Packets == [from : Addrs, to : Addrs, conn : Conns, stream : Streams]

\* Every variable has its type; what a packet carries is an address.
TypeOK ==
  /\ running \in [Nodes -> BOOLEAN]
  /\ socket \in [Nodes -> Addrs \cup {NoAddr}]
  /\ connections \in [Nodes -> [Conns -> Addrs \cup {NoAddr}]]
  /\ known_streams \in [Nodes -> [Conns -> SUBSET Streams]]
  /\ cmd_rx \in [Nodes -> Seq(Command)]
  /\ wire \in SUBSET Packets
  /\ had \in [Nodes -> Nat]
  /\ \A x \in Nodes : had[x] <= Len(Given[x])

\* A packet goes from one end to the other, be its dialer's address a former one.
Between(d) ==
  \/ d.from \in Had(Dialer[d.conn]) /\ d.to = Port[Target[d.conn]]
  \/ d.from = Port[Target[d.conn]] /\ d.to \in Had(Dialer[d.conn])

\* A node has no address but its own.
OwnSocket == \A x \in Nodes : socket[x] \in {NoAddr, Port[x]} \cup Had(x)

AddressInv ==
  /\ TypeOK
  /\ OwnSocket
  /\ \A d \in wire : Between(d)
  /\ BetweenItsEnds

-----------------------------------------------------------------------------
(* Commands.                                                               *)

\* A program begins with commands that name no connection.
LEMMA FirstCommandsFree ==
  ASSUME NEW x \in Nodes, NEW S, {[op |-> "Bind"], [op |-> "Connect"]} \subseteq S
  PROVE  FirstCommands(x) \in Seq(S)
<1>1. [op |-> "Bind"] \in S /\ [op |-> "Connect"] \in S
  OBVIOUS
<1>2. /\ (IF Listens(x) THEN <<[op |-> "Bind"]>> ELSE <<>>) \in Seq(S)
      /\ (IF Dials(x) THEN <<[op |-> "Connect"]>> ELSE <<>>) \in Seq(S)
  BY <1>1
<1>3. QED BY <1>2 DEF FirstCommands

\* A game starts with commands.
LEMMA FirstCommandsType == ASSUME NEW x \in Nodes PROVE FirstCommands(x) \in Seq(Command)
<1>1. {[op |-> "Bind"], [op |-> "Connect"]} \subseteq Command
  BY DEF Command
<1>2. QED BY <1>1, FirstCommandsFree

\* A command that names a connection names one of Conns.
LEMMA TakenCommand ==
  ASSUME TypeOK, NEW x \in Nodes, NEW op, TakeCommand(x, op)
  PROVE  /\ cmd_rx' \in [Nodes -> Seq(Command)]
         /\ Head(cmd_rx[x]) \in Command
         /\ Head(cmd_rx[x]).op = op
         /\ op = "Send" => Head(cmd_rx[x]).conn \in Conns /\ Head(cmd_rx[x]).stream \in Streams
<1>1. cmd_rx[x] \in Seq(Command) /\ cmd_rx[x] # <<>> /\ Head(cmd_rx[x]).op = op
  BY DEF TypeOK, TakeCommand
<1>2. Head(cmd_rx[x]) \in Command /\ Tail(cmd_rx[x]) \in Seq(Command)
  BY <1>1
<1>3. cmd_rx' \in [Nodes -> Seq(Command)]
  BY <1>2 DEF TypeOK, TakeCommand
<1>4. QED BY <1>1, <1>2, <1>3 DEF Command

\* The games and the answers to stream commands only touch the queues of commands.
LEMMA QueuesOnly ==
  ASSUME TypeOK, NEW x \in Nodes, Game(x) \/ StreamCommand(x)
  PROVE  /\ cmd_rx' \in [Nodes -> Seq(Command)]
         /\ UNCHANGED <<running, socket, connections, known_streams, wire, had>>
<1>1. ASSUME NEW cmd \in Command, Issue(x, cmd)
      PROVE  /\ cmd_rx' \in [Nodes -> Seq(Command)]
             /\ UNCHANGED <<running, socket, connections, known_streams, wire, had>>
  <2>1. Append(cmd_rx[x], cmd) \in Seq(Command)
    BY DEF TypeOK
  <2>2. QED BY <1>1, <2>1 DEF TypeOK, Issue, tables
<1>2. CASE AskShutdown(x)
  <2>1. [op |-> "Shutdown"] \in Command
    BY DEF Command
  <2>2. QED BY <1>1, <1>2, <2>1 DEF AskShutdown
<1>3. ASSUME NEW c \in Conns, NEW s \in Streams, AskSend(x, c, s) \/ AskStream(x, c, s)
      PROVE  /\ cmd_rx' \in [Nodes -> Seq(Command)]
             /\ UNCHANGED <<running, socket, connections, known_streams, wire, had>>
  <2>1. \A op \in {"Send", "CreateStream", "CloseStream"} :
          [op |-> op, conn |-> c, stream |-> s] \in Command
    BY DEF Command
  <2>2. QED BY <1>1, <1>3, <2>1 DEF AskSend, AskStream
<1>4. CASE StreamCommand(x)
  BY <1>4, TakenCommand DEF StreamCommand, tables
<1>5. QED BY <1>2, <1>3, <1>4 DEF Game

-----------------------------------------------------------------------------
(* Addresses.                                                              *)

\* An address leads to one node.
LEMMA OneOwner ==
  ASSUME TypeOK, AddressesApart, NEW x \in Nodes, NEW y \in Nodes, NEW a \in Addrs,
         a \in {Port[x]} \cup Had(x), a \in {Port[y]} \cup Had(y)
  PROVE  x = y
<1>1. \A z \in Nodes : \A i \in 1 .. had[z] : i \in DOMAIN Given[z]
  BY NodesAssumption DEF TypeOK
<1>2. SUFFICES ASSUME x # y PROVE FALSE
  OBVIOUS
<1>3. /\ Port[x] = NoAddr \/ Port[x] # Port[y]
      /\ \A i \in DOMAIN Given[x] :
           Given[x][i] # Port[y] /\ \A j \in DOMAIN Given[y] : Given[x][i] # Given[y][j]
      /\ \A j \in DOMAIN Given[y] : Given[y][j] # Port[x]
  BY <1>2 DEF AddressesApart
<1>4. a # NoAddr
  BY NodesAssumption
<1>5. QED BY <1>1, <1>3, <1>4 DEF Had

\* A listener was never given an address, a dialer listens at none.
LEMMA EndsAddresses ==
  ASSUME TypeOK, AddressesApart, NEW c \in Conns
  PROVE  /\ Dialer[c] \in Nodes /\ Target[c] \in Nodes
         /\ Had(Target[c]) = {}
         /\ Port[Dialer[c]] = NoAddr
         /\ Port[Target[c]] \in Addrs
         /\ NoAddr \notin Had(Dialer[c])
<1>1. /\ Dialer[c] \in Nodes /\ Target[c] \in Nodes
      /\ Port[Dialer[c]] = NoAddr
      /\ Port[Target[c]] \in Addrs
      /\ Given[Target[c]] = <<>>
  BY NodesAssumption DEF AddressesApart
<1>2. had[Target[c]] = 0
  BY <1>1 DEF TypeOK
<1>3. Had(Target[c]) = {}
  BY <1>2 DEF Had
<1>4. NoAddr \notin Had(Dialer[c])
  <2>1. \A i \in 1 .. had[Dialer[c]] : Given[Dialer[c]][i] \in Addrs
    BY <1>1, NodesAssumption DEF TypeOK
  <2>2. QED BY <2>1, NodesAssumption DEF Had
<1>5. QED BY <1>1, <1>3, <1>4

\* A node that is given an address has it, and keeps in Had those it had.
LEMMA AddressGiven ==
  ASSUME TypeOK, NEW x \in Nodes, GetAddress(x)
  PROVE  /\ socket' \in [Nodes -> Addrs \cup {NoAddr}]
         /\ had' \in [Nodes -> Nat]
         /\ \A y \in Nodes : had'[y] <= Len(Given[y])
         /\ \A y \in Nodes : Had(y) \subseteq Had(y)'
         /\ socket'[x] \in Had(x)'
         /\ \A y \in Nodes \ {x} : socket'[y] = socket[y]
<1>1. /\ had[x] \in Nat /\ had[x] + 1 \in 1 .. Len(Given[x])
      /\ Given[x] \in Seq(Addrs)
  <2>1. had[x] \in Nat /\ had[x] < Len(Given[x])
    BY DEF TypeOK, GetAddress
  <2>2. Given[x] \in Seq(Addrs) /\ Len(Given[x]) \in Nat
    BY NodesAssumption
  <2>3. QED BY <2>1, <2>2
<1>2. Given[x][had[x] + 1] \in Addrs
  BY <1>1
<1>3. /\ had' = [had EXCEPT ![x] = had[x] + 1]
      /\ socket' = [socket EXCEPT ![x] = Given[x][had[x] + 1]]
  BY DEF GetAddress
<1>4. had'[x] = had[x] + 1 /\ \A y \in Nodes : had[y] \in Nat /\ had'[y] \in Nat /\ had[y] <= had'[y]
  BY <1>1, <1>3 DEF TypeOK
<1>5. \A y \in Nodes : Had(y) \subseteq Had(y)'
  BY <1>4 DEF Had
<1>6. socket'[x] \in Had(x)'
  <2>1. had[x] + 1 \in 1 .. had'[x]
    BY <1>1, <1>4
  <2>2. socket'[x] = Given[x][had[x] + 1]
    BY <1>3 DEF TypeOK
  <2>3. QED BY <2>1, <2>2 DEF Had
<1>7. QED BY <1>1, <1>2, <1>3, <1>4, <1>5, <1>6 DEF TypeOK

-----------------------------------------------------------------------------
(* Types.                                                                  *)

LEMMA TypeInit == Init => TypeOK
<1> SUFFICES ASSUME Init PROVE TypeOK
  OBVIOUS
<1>1. \A x \in Nodes : Given[x] \in Seq(Addrs)
  BY NodesAssumption
<1>2. QED BY <1>1, FirstCommandsType DEF Init, TypeOK

\* One step per action of the backend.
LEMMA TypeStep == TypeOK /\ [Next]_vars => TypeOK'
<1> SUFFICES ASSUME TypeOK, [Next]_vars PROVE TypeOK'
  OBVIOUS
<1>1. ASSUME NEW x \in Nodes, Game(x) \/ StreamCommand(x) PROVE TypeOK'
  BY <1>1, QueuesOnly DEF TypeOK
<1>2. ASSUME NEW x \in Nodes, Bind(x) PROVE TypeOK'
  <2>1. /\ cmd_rx' \in [Nodes -> Seq(Command)]
        /\ UNCHANGED <<running, connections, known_streams, wire, had>>
        /\ UNCHANGED socket \/ socket' = [socket EXCEPT ![x] = Port[x]]
    BY <1>2, TakenCommand DEF Bind, tables
  <2>2. QED BY <2>1, NodesAssumption DEF TypeOK
<1>3. ASSUME NEW x \in Nodes, Shutdown(x) PROVE TypeOK'
  <2>1. /\ cmd_rx' \in [Nodes -> Seq(Command)]
        /\ UNCHANGED <<connections, known_streams, wire, had>>
        /\ running' = [running EXCEPT ![x] = FALSE]
        /\ socket' = [socket EXCEPT ![x] = NoAddr]
    BY <1>3, TakenCommand DEF Shutdown, tables
  <2>2. QED BY <2>1 DEF TypeOK
<1>4. ASSUME NEW x \in Nodes, Move(x) PROVE TypeOK'
  <2>1. GetAddress(x) /\ UNCHANGED <<running, connections, known_streams, cmd_rx, wire>>
    BY <1>4 DEF Move, tables
  <2>2. QED BY <2>1, AddressGiven DEF TypeOK
<1>5. ASSUME NEW x \in Nodes, Restart(x) PROVE TypeOK'
  BY <1>5, FirstCommandsType DEF Restart, TypeOK
<1>6. ASSUME NEW d \in wire, Lose(d) PROVE TypeOK'
  BY <1>6 DEF Lose, tables, TypeOK
<1>7. ASSUME NEW x \in Nodes, Connect(x) PROVE TypeOK'
  <2>1. cmd_rx' \in [Nodes -> Seq(Command)] /\ UNCHANGED <<running, known_streams, wire>>
    BY <1>7, TakenCommand DEF Connect
  <2>2. PICK k \in Conns : connections' = [connections EXCEPT ![x][k] = Port[Target[k]]]
    BY <1>7 DEF Connect
  <2>3. Port[Target[k]] \in Addrs
    BY NodesAssumption
  <2>4. connections' \in [Nodes -> [Conns -> Addrs \cup {NoAddr}]]
    BY <2>2, <2>3 DEF TypeOK
  <2>5. CASE GetAddress(x)
    BY <2>1, <2>4, <2>5, AddressGiven DEF TypeOK
  <2>6. CASE UNCHANGED <<socket, had>>
    BY <2>1, <2>4, <2>6 DEF TypeOK
  <2>7. QED BY <1>7, <2>5, <2>6 DEF Connect
<1>8. ASSUME NEW x \in Nodes, Send(x) PROVE TypeOK'
  <2> DEFINE d == Packet(x, Head(cmd_rx[x]).conn, Head(cmd_rx[x]).stream)
  <2>1. /\ cmd_rx' \in [Nodes -> Seq(Command)]
        /\ UNCHANGED <<running, socket, connections, known_streams, had>>
        /\ wire' = wire \/ (wire' = wire \cup {d} /\ d.from # NoAddr /\ d.to # NoAddr)
    BY <1>8, TakenCommand DEF Send, tables
  <2>2. Head(cmd_rx[x]).conn \in Conns /\ Head(cmd_rx[x]).stream \in Streams
    BY <1>8, TakenCommand DEF Send
  <2>3. d.from # NoAddr /\ d.to # NoAddr => d \in Packets
    BY <2>2 DEF Packet, Packets, TypeOK
  <2>4. QED BY <2>1, <2>3 DEF TypeOK
<1>9. ASSUME NEW x \in Nodes, NEW d \in wire, Receive(x, d) PROVE TypeOK'
  <2>1. /\ UNCHANGED <<running, socket, cmd_rx, had>>
        /\ wire' \subseteq wire
        /\ connections' = [connections EXCEPT ![x][d.conn] = d.from]
        /\ known_streams' = [known_streams EXCEPT ![x][d.conn] = @ \cup {d.stream}]
    BY <1>9 DEF Receive, ProcessPacket
  <2>2. QED BY <2>1 DEF TypeOK, Packets
<1>10. CASE UNCHANGED vars
  BY <1>10 DEF vars, tables, TypeOK
<1>11. QED
  BY <1>1, <1>2, <1>3, <1>4, <1>5, <1>6, <1>7, <1>8, <1>9, <1>10 DEF Next, Commands

-----------------------------------------------------------------------------
(* The invariant.                                                          *)

LEMMA AddressInit == Init => AddressInv
<1> SUFFICES ASSUME Init PROVE AddressInv
  OBVIOUS
<1>1. QED BY TypeInit DEF Init, AddressInv, OwnSocket, BetweenItsEnds

\* A step that leaves packets and connections alone, or drops some of them.
LEMMA NothingNew ==
  ASSUME AddressInv, TypeOK',
         \A x \in Nodes : Had(x) \subseteq Had(x)',
         \A x \in Nodes : socket'[x] \in {NoAddr, Port[x], socket[x]} \cup Had(x)',
         wire' \subseteq wire,
         \A x \in Nodes, c \in Conns : connections'[x][c] \in {NoAddr, connections[x][c]}
  PROVE  AddressInv'
<1>1. OwnSocket'
  BY DEF AddressInv, OwnSocket
<1>2. \A c \in Conns : Had(Dialer[c]) \subseteq Had(Dialer[c])'
  BY NodesAssumption
<1>3. \A d \in wire' : Between(d)'
  BY <1>2 DEF AddressInv, TypeOK, Packets, Between
<1>4. BetweenItsEnds'
  BY <1>2 DEF AddressInv, BetweenItsEnds
<1>5. QED BY <1>1, <1>3, <1>4 DEF AddressInv

\* What a node puts on the wire goes between the ends.
LEMMA SendStep ==
  ASSUME AddressInv, AddressesApart, NEW x \in Nodes, Send(x)
  PROVE  AddressInv'
<1> DEFINE cmd == Head(cmd_rx[x])
           d == Packet(x, cmd.conn, cmd.stream)
<1>1. TypeOK /\ cmd.conn \in Conns /\ cmd.stream \in Streams /\ cmd_rx' \in [Nodes -> Seq(Command)]
  BY TakenCommand DEF AddressInv, Send
<1>2. /\ UNCHANGED <<running, socket, connections, known_streams, had>>
      /\ wire' = IF d.from # NoAddr /\ d.to # NoAddr THEN wire \cup {d} ELSE wire
  BY DEF Send, tables
<1>3. d.conn = cmd.conn /\ d.from = socket[x] /\ d.to = connections[x][cmd.conn]
  BY DEF Packet
<1>4. ASSUME d.from # NoAddr, d.to # NoAddr PROVE d \in Packets /\ Between(d)
  <2>1. d \in Packets
    BY <1>1, <1>4 DEF Packet, Packets, TypeOK
  <2>2. socket[x] \in {Port[x]} \cup Had(x)
    BY <1>3, <1>4 DEF AddressInv, OwnSocket
  <2>3. \/ x = Dialer[cmd.conn] /\ d.to = Port[Target[cmd.conn]]
        \/ x = Target[cmd.conn] /\ d.to \in Had(Dialer[cmd.conn])
    BY <1>1, <1>3, <1>4 DEF AddressInv, BetweenItsEnds
  <2>4. Had(Target[cmd.conn]) = {} /\ Port[Dialer[cmd.conn]] = NoAddr
    BY <1>1, EndsAddresses
  <2>5. QED BY <1>3, <1>4, <2>1, <2>2, <2>3, <2>4 DEF Between
<1>5. TypeOK'
  BY <1>1, <1>2, <1>4 DEF TypeOK
<1>6. \A y : Had(y)' = Had(y)
  BY <1>2 DEF Had
<1>7. \A e \in wire' : Between(e)
  BY <1>2, <1>4 DEF AddressInv
<1>8. QED BY <1>2, <1>5, <1>6, <1>7 DEF AddressInv, OwnSocket, BetweenItsEnds, Between

\* A packet is received by the end it is for, which answers to the other.
LEMMA ReceiveStep ==
  ASSUME AddressInv, AddressesApart, NEW x \in Nodes, NEW d \in wire, Receive(x, d)
  PROVE  AddressInv'
<1>1. /\ TypeOK /\ d \in Packets /\ d.conn \in Conns /\ Between(d)
  BY DEF AddressInv, TypeOK, Packets
<1>2. /\ UNCHANGED <<running, socket, cmd_rx, had>>
      /\ wire' \subseteq wire
      /\ connections' = [connections EXCEPT ![x][d.conn] = d.from]
      /\ known_streams' = [known_streams EXCEPT ![x][d.conn] = @ \cup {d.stream}]
      /\ d.to = socket[x] /\ socket[x] # NoAddr
  BY DEF Receive, ProcessPacket
<1>3. TypeOK'
  BY <1>1, <1>2 DEF TypeOK, Packets
<1>4. d.to \in Addrs /\ d.to \in {Port[x]} \cup Had(x)
  BY <1>1, <1>2 DEF AddressInv, OwnSocket, Packets
<1>5. Dialer[d.conn] \in Nodes /\ Target[d.conn] \in Nodes
  BY <1>1, EndsAddresses
<1>6. \/ x = Dialer[d.conn] /\ d.from = Port[Target[d.conn]]
      \/ x = Target[d.conn] /\ d.from \in Had(Dialer[d.conn])
  <2>1. CASE d.from \in Had(Dialer[d.conn]) /\ d.to = Port[Target[d.conn]]
    BY <1>1, <1>4, <1>5, <2>1, OneOwner
  <2>2. CASE d.from = Port[Target[d.conn]] /\ d.to \in Had(Dialer[d.conn])
    BY <1>1, <1>4, <1>5, <2>2, OneOwner
  <2>3. QED BY <1>1, <2>1, <2>2 DEF Between
<1>7. \A y : Had(y)' = Had(y)
  BY <1>2 DEF Had
<1>8. \A y \in Nodes, c \in Conns : connections'[y][c] =
        IF y = x /\ c = d.conn THEN d.from ELSE connections[y][c]
  BY <1>2 DEF AddressInv, TypeOK
<1>9. BetweenItsEnds'
  BY <1>6, <1>7, <1>8 DEF AddressInv, BetweenItsEnds
<1>10. QED BY <1>2, <1>3, <1>7, <1>9 DEF AddressInv, OwnSocket, Between

\* A new connection leads to its listener; nothing is sent for it yet.
LEMMA ConnectStep ==
  ASSUME AddressInv, AddressesApart, NEW x \in Nodes, Connect(x)
  PROVE  AddressInv'
<1>1. TypeOK /\ cmd_rx' \in [Nodes -> Seq(Command)] /\ UNCHANGED <<running, known_streams, wire>>
  BY TakenCommand DEF AddressInv, Connect
<1>2. PICK k \in Conns :
        Dialer[k] = x /\ connections' = [connections EXCEPT ![x][k] = Port[Target[k]]]
  BY DEF Connect
<1>3. GetAddress(x) \/ UNCHANGED <<socket, had>>
  BY DEF Connect
<1>4. /\ socket' \in [Nodes -> Addrs \cup {NoAddr}]
      /\ had' \in [Nodes -> Nat]
      /\ \A y \in Nodes : had'[y] <= Len(Given[y])
      /\ \A y \in Nodes : Had(y) \subseteq Had(y)'
      /\ \A y \in Nodes : socket'[y] \in {NoAddr, Port[y], socket[y]} \cup Had(y)'
  <2>1. CASE GetAddress(x)
    BY <1>1, <2>1, AddressGiven
  <2>2. CASE UNCHANGED <<socket, had>>
    BY <1>1, <2>2 DEF TypeOK, Had
  <2>3. QED BY <1>3, <2>1, <2>2
<1>5. TypeOK'
  BY <1>1, <1>2, <1>4, EndsAddresses DEF TypeOK
<1>6. \A c \in Conns : Had(Dialer[c]) \subseteq Had(Dialer[c])'
  BY <1>4, NodesAssumption
<1>7. OwnSocket'
  BY <1>4 DEF AddressInv, OwnSocket
<1>8. \A d \in wire' : Between(d)'
  BY <1>1, <1>6 DEF AddressInv, TypeOK, Packets, Between
<1>9. \A y \in Nodes, c \in Conns : connections'[y][c] =
        IF y = x /\ c = k THEN Port[Target[k]] ELSE connections[y][c]
  BY <1>1, <1>2 DEF TypeOK
<1>10. BetweenItsEnds'
  BY <1>2, <1>6, <1>9 DEF AddressInv, BetweenItsEnds
<1>11. QED BY <1>5, <1>7, <1>8, <1>10 DEF AddressInv

\* One step per action that uses an address.
LEMMA AddressStep == AddressesApart /\ AddressInv /\ [Next]_vars => AddressInv'
<1> SUFFICES ASSUME AddressesApart, AddressInv, [Next]_vars PROVE AddressInv'
  OBVIOUS
<1>0. TypeOK /\ TypeOK'
  BY TypeStep DEF AddressInv
<1>1. ASSUME NEW x \in Nodes, Game(x) \/ StreamCommand(x) PROVE AddressInv'
  <2>1. /\ cmd_rx' \in [Nodes -> Seq(Command)]
        /\ UNCHANGED <<running, socket, connections, known_streams, wire, had>>
    BY <1>0, <1>1, QueuesOnly
  <2>2. \A y : Had(y)' = Had(y)
    BY <2>1 DEF Had
  <2>3. QED BY <1>0, <2>1, <2>2, NothingNew
<1>2. ASSUME NEW x \in Nodes, Bind(x) PROVE AddressInv'
  <2>1. /\ cmd_rx' \in [Nodes -> Seq(Command)]
        /\ UNCHANGED <<running, connections, known_streams, wire, had>>
        /\ UNCHANGED socket \/ socket' = [socket EXCEPT ![x] = Port[x]]
    BY <1>0, <1>2, TakenCommand DEF Bind, tables
  <2>2. \A y : Had(y)' = Had(y)
    BY <2>1 DEF Had
  <2>3. \A y \in Nodes : socket'[y] \in {Port[y], socket[y]}
    BY <1>0, <2>1 DEF TypeOK
  <2>4. QED BY <1>0, <2>1, <2>2, <2>3, NothingNew
<1>3. ASSUME NEW x \in Nodes, Shutdown(x) PROVE AddressInv'
  <2>1. /\ cmd_rx' \in [Nodes -> Seq(Command)]
        /\ UNCHANGED <<connections, known_streams, wire, had>>
        /\ running' = [running EXCEPT ![x] = FALSE]
        /\ socket' = [socket EXCEPT ![x] = NoAddr]
    BY <1>0, <1>3, TakenCommand DEF Shutdown, tables
  <2>2. \A y : Had(y)' = Had(y)
    BY <2>1 DEF Had
  <2>3. \A y \in Nodes : socket'[y] \in {NoAddr, socket[y]}
    BY <1>0, <2>1 DEF TypeOK
  <2>4. QED BY <1>0, <2>1, <2>2, <2>3, NothingNew
<1>4. ASSUME NEW x \in Nodes, Move(x) PROVE AddressInv'
  <2>1. GetAddress(x) /\ UNCHANGED <<running, connections, known_streams, cmd_rx, wire>>
    BY <1>4 DEF Move, tables
  <2>2. /\ socket' \in [Nodes -> Addrs \cup {NoAddr}]
        /\ had' \in [Nodes -> Nat]
        /\ \A y \in Nodes : had'[y] <= Len(Given[y])
        /\ \A y \in Nodes : Had(y) \subseteq Had(y)'
        /\ \A y \in Nodes : socket'[y] \in {socket[y]} \cup Had(y)'
    BY <1>0, <2>1, AddressGiven
  <2>3. TypeOK'
    BY <1>0, <2>1, <2>2 DEF TypeOK
  <2>4. QED BY <1>0, <2>1, <2>2, <2>3, NothingNew
<1>5. ASSUME NEW x \in Nodes, Restart(x) PROVE AddressInv'
  <2>1. /\ UNCHANGED <<wire, had>>
        /\ socket' = [socket EXCEPT ![x] = NoAddr]
        /\ connections' = [connections EXCEPT ![x] = [c \in Conns |-> NoAddr]]
    BY <1>5 DEF Restart
  <2>2. \A y : Had(y)' = Had(y)
    BY <2>1 DEF Had
  <2>3. /\ \A y \in Nodes : socket'[y] \in {NoAddr, socket[y]}
        /\ \A y \in Nodes, c \in Conns : connections'[y][c] \in {NoAddr, connections[y][c]}
    BY <1>0, <2>1 DEF TypeOK
  <2>4. QED BY <1>0, <2>1, <2>2, <2>3, NothingNew
<1>6. ASSUME NEW d \in wire, Lose(d) PROVE AddressInv'
  <2>1. /\ UNCHANGED <<running, socket, connections, known_streams, cmd_rx, had>>
        /\ wire' \subseteq wire
    BY <1>6 DEF Lose, tables
  <2>2. \A y : Had(y)' = Had(y)
    BY <2>1 DEF Had
  <2>3. QED BY <1>0, <2>1, <2>2, NothingNew
<1>7. CASE UNCHANGED vars
  <2>1. UNCHANGED <<running, socket, connections, known_streams, cmd_rx, wire, had>>
    BY <1>7 DEF vars, tables
  <2>2. \A y : Had(y)' = Had(y)
    BY <2>1 DEF Had
  <2>3. QED BY <1>0, <2>1, <2>2, NothingNew
<1>8. QED
  BY <1>1, <1>2, <1>3, <1>4, <1>5, <1>6, <1>7, SendStep, ReceiveStep, ConnectStep
  DEF Next, Commands

\* Where no address is given out twice, a connection of the UDP transport stays
\* between its two ends, whatever the network does to the packets.
THEOREM ConnectionsStayBetween == AddressesApart => (Spec => []BetweenItsEnds)
<1> SUFFICES ASSUME AddressesApart PROVE Spec => []BetweenItsEnds
  OBVIOUS
<1>1. AddressInv /\ [Next]_vars => AddressInv'
  BY AddressStep
<1>2. AddressInv => BetweenItsEnds
  BY DEF AddressInv
<1>3. QED BY AddressInit, <1>1, <1>2, PTL DEF Spec

-----------------------------------------------------------------------------
(* What the games are told.                                                *)

\* A game knows exactly the connections and the streams of its backend's tables,
\* and its backend works on commands for no others. No connection is ever
\* reported lost.
TablesTold ==
  \A x \in Nodes, c \in Conns :
    /\ Connected(c) \in told[x] <=> connections[x][c] # NoAddr
    /\ Disconnected(c) \notin told[x]
    /\ known_streams[x][c] # {} => connections[x][c] # NoAddr
    /\ \A s \in Streams :
         s \in known_streams[x][c] <=> StreamCreated(c, s, "peer") \in told[x]

\* What process_command does for a game of which the answer names a connection.
StreamOps == {"CreateStream", "CloseStream"}

Justified(x) == {cmd \in Command : cmd.op \in StreamOps => connections[x][cmd.conn] # NoAddr}

CommandsJustified == \A x \in Nodes : cmd_rx[x] \in Seq(Justified(x))

EventsInv == TypeOK /\ ToldTypes /\ TablesTold /\ CommandsJustified /\ OrderlyEvents

\* Nothing has been told at first.
LEMMA UdpEventsInit == Init => EventsInv
<1> SUFFICES ASSUME Init PROVE EventsInv
  OBVIOUS
<1>1. TypeOK
  BY TypeInit
<1>2. told = [x \in Nodes |-> {}] /\ surprised = {}
  BY DEF Init, EventsInit
<1>3. ToldTypes /\ OrderlyEvents
  BY <1>2 DEF ToldTypes, OrderlyEvents
<1>4. TablesTold
  BY <1>2 DEF Init, TablesTold
<1>5. CommandsJustified
  <2>1. \A x \in Nodes : {[op |-> "Bind"], [op |-> "Connect"]} \subseteq Justified(x)
    BY DEF Justified, Command, StreamOps
  <2>2. QED BY <2>1, FirstCommandsFree DEF Init, CommandsJustified
<1>6. QED BY <1>1, <1>3, <1>4, <1>5 DEF EventsInv

\* A queue that grows by a justified command, or from which one is taken.
LEMMA StillJustified ==
  ASSUME EventsInv, NEW x \in Nodes,
         \A y \in Nodes, c \in Conns : connections[y][c] # NoAddr => connections'[y][c] # NoAddr,
         \/ \E cmd \in Justified(x) : cmd_rx' = [cmd_rx EXCEPT ![x] = Append(@, cmd)]
         \/ cmd_rx[x] # <<>> /\ cmd_rx' = [cmd_rx EXCEPT ![x] = Tail(@)]
         \/ UNCHANGED cmd_rx
  PROVE  CommandsJustified'
<1>1. \A y \in Nodes : Justified(y) \subseteq Justified(y)'
  BY DEF Justified, Command, StreamOps
<1>2. \A y \in Nodes : cmd_rx[y] \in Seq(Justified(y)')
  BY <1>1, MoreAllowed DEF EventsInv, CommandsJustified
<1>3. \A y \in Nodes : y # x => cmd_rx'[y] = cmd_rx[y]
  BY DEF EventsInv, TypeOK
<1>4. cmd_rx'[x] \in Seq(Justified(x)')
  <2>1. CASE UNCHANGED cmd_rx
    BY <1>2, <2>1
  <2>2. CASE cmd_rx[x] # <<>> /\ cmd_rx' = [cmd_rx EXCEPT ![x] = Tail(@)]
    <3>1. cmd_rx'[x] = Tail(cmd_rx[x])
      BY <2>2 DEF EventsInv, TypeOK
    <3>2. QED BY <1>2, <2>2, <3>1
  <2>3. ASSUME NEW cmd \in Justified(x), cmd_rx' = [cmd_rx EXCEPT ![x] = Append(@, cmd)]
        PROVE  cmd_rx'[x] \in Seq(Justified(x)')
    <3>1. cmd_rx'[x] = Append(cmd_rx[x], cmd) /\ cmd \in Justified(x)'
      BY <1>1, <2>3 DEF EventsInv, TypeOK
    <3>2. QED BY <1>2, <3>1
  <2>4. QED BY <2>1, <2>2, <2>3
<1>5. QED BY <1>2, <1>3, <1>4 DEF CommandsJustified

\* A step that tells nobody anything.
LEMMA NothingTold ==
  ASSUME EventsInv, TypeOK', CommandsJustified', UNCHANGED <<connections, known_streams, told, surprised>>
  PROVE  EventsInv'
BY DEF EventsInv, ToldTypes, TablesTold, OrderlyEvents

\* What a packet makes the backend tell is in order.
LEMMA ReceiveTells ==
  ASSUME EventsInv, TypeOK', NEW x \in Nodes, NEW d \in wire, Receive(x, d)
  PROVE  EventsInv'
<1> DEFINE c == d.conn
           s == d.stream
           news == {Connected(c), StreamCreated(c, s, "peer")}
<1>1. c \in Conns /\ s \in Streams /\ d.from \in Addrs /\ d.from # NoAddr
  BY NodesAssumption DEF EventsInv, TypeOK, Packets
<1>2. /\ connections' = [connections EXCEPT ![x][c] = d.from]
      /\ known_streams' = [known_streams EXCEPT ![x][c] = @ \cup {s}]
      /\ UNCHANGED cmd_rx
      /\ Emit(x, (IF connections[x][c] = NoAddr THEN <<Connected(c)>> ELSE <<>>)
                   \o Announce(c, s, known_streams[x][c]))
  BY DEF Receive, ProcessPacket
<1>3. /\ Connected(c) \in told[x] <=> connections[x][c] # NoAddr
      /\ Disconnected(c) \notin told[x]
      /\ known_streams[x][c] # {} => connections[x][c] # NoAddr
      /\ s \in known_streams[x][c] <=> StreamCreated(c, s, "peer") \in told[x]
      /\ ToldTypes
  BY <1>1 DEF EventsInv, TablesTold
<1>4. told' = [told EXCEPT ![x] = @ \cup news] /\ surprised' = surprised
  <2>1. CASE connections[x][c] = NoAddr
    <3>1. Emit(x, <<Connected(c)>> \o Announce(c, s, {}))
      BY <1>2, <1>3, <2>1
    <3>2. QED BY <1>3, <2>1, <3>1, EmitFirst
  <2>2. CASE connections[x][c] # NoAddr
    <3>1. Announce(c, s, known_streams[x][c]) \in Seq({StreamCreated(c, s, "peer"), Message(c, s)})
      <4>1. \A e, f : <<f>> \in Seq({e, f}) /\ <<e, f>> \in Seq({e, f})
        OBVIOUS
      <4>2. QED BY <4>1 DEF Announce
    <3>2. <<>> \o Announce(c, s, known_streams[x][c]) = Announce(c, s, known_streams[x][c])
      BY <3>1
    <3>3. Emit(x, Announce(c, s, known_streams[x][c]))
      BY <1>2, <2>2, <3>2
    <3>4. /\ told' = [told EXCEPT ![x] = @ \cup {StreamCreated(c, s, "peer")}]
          /\ surprised' = surprised
      BY <1>3, <2>2, <3>3, EmitAnnounce
    <3>5. told[x] \cup {StreamCreated(c, s, "peer")} = told[x] \cup news
      BY <1>3, <2>2
    <3>6. QED BY <3>4, <3>5
  <2>3. QED BY <2>1, <2>2
<1>5. \A e \in news : Remembered(e)
  BY DEF Remembered, Connected, StreamCreated
<1>6. \A b, r : /\ Connected(b) \in news <=> b = c
                /\ Disconnected(b) \notin news
                /\ StreamCreated(b, r, "peer") \in news <=> b = c /\ r = s
  BY DEF Connected, Disconnected, StreamCreated
<1> HIDE DEF c, s, news
<1>7. /\ ToldTypes'
      /\ told'[x] = told[x] \cup news
      /\ \A y \in Nodes \ {x} : told'[y] = told[y]
  BY <1>3, <1>4, <1>5, ToldMore
<1>8. /\ \A y \in Nodes, b \in Conns : connections'[y][b] =
             IF y = x /\ b = c THEN d.from ELSE connections[y][b]
      /\ \A y \in Nodes, b \in Conns : known_streams'[y][b] =
             IF y = x /\ b = c THEN known_streams[y][b] \cup {s} ELSE known_streams[y][b]
  BY <1>1, <1>2 DEF EventsInv, TypeOK
<1>9. TablesTold'
  <2> SUFFICES ASSUME NEW y \in Nodes, NEW b \in Conns
               PROVE  /\ Connected(b) \in told'[y] <=> connections'[y][b] # NoAddr
                      /\ Disconnected(b) \notin told'[y]
                      /\ known_streams'[y][b] # {} => connections'[y][b] # NoAddr
                      /\ \A r \in Streams :
                           r \in known_streams'[y][b] <=> StreamCreated(b, r, "peer") \in told'[y]
    BY DEF TablesTold
  <2>1. /\ Connected(b) \in told[y] <=> connections[y][b] # NoAddr
        /\ Disconnected(b) \notin told[y]
        /\ known_streams[y][b] # {} => connections[y][b] # NoAddr
        /\ \A r \in Streams :
             r \in known_streams[y][b] <=> StreamCreated(b, r, "peer") \in told[y]
    BY DEF EventsInv, TablesTold
  <2>2. CASE y = x /\ b = c
    <3>1. /\ told'[y] = told[y] \cup news
          /\ connections'[y][b] = d.from
          /\ known_streams'[y][b] = known_streams[y][b] \cup {s}
      BY <1>7, <1>8, <2>2
    <3>2. QED BY <1>1, <1>6, <2>1, <2>2, <3>1
  <2>3. CASE y = x /\ b # c
    <3>1. /\ told'[y] = told[y] \cup news
          /\ connections'[y][b] = connections[y][b]
          /\ known_streams'[y][b] = known_streams[y][b]
      BY <1>7, <1>8, <2>3
    <3>2. QED BY <1>6, <2>1, <2>3, <3>1
  <2>4. CASE y # x
    <3>1. /\ told'[y] = told[y]
          /\ connections'[y][b] = connections[y][b]
          /\ known_streams'[y][b] = known_streams[y][b]
      BY <1>7, <1>8, <2>4
    <3>2. QED BY <2>1, <3>1
  <2>5. QED BY <2>2, <2>3, <2>4
<1>10. CommandsJustified'
  BY <1>1, <1>2, <1>8, StillJustified
<1>11. QED BY <1>4, <1>7, <1>9, <1>10 DEF EventsInv, OrderlyEvents

\* What Connect makes the backend tell is in order.
LEMMA ConnectTells ==
  ASSUME EventsInv, TypeOK', NEW x \in Nodes, Connect(x)
  PROVE  EventsInv'
<1>1. PICK c \in Conns :
        /\ connections[x][c] = NoAddr
        /\ connections' = [connections EXCEPT ![x][c] = Port[Target[c]]]
        /\ Emit(x, <<Connected(c)>>)
  BY DEF Connect
<1>2. UNCHANGED known_streams /\ TakeCommand(x, "Connect") /\ Port[Target[c]] # NoAddr
  BY NodesAssumption DEF Connect
<1>3. ToldTypes /\ Connected(c) \notin told[x] /\ Remembered(Connected(c))
  BY <1>1 DEF EventsInv, TablesTold, Remembered, Connected
<1>4. told' = [told EXCEPT ![x] = @ \cup {Connected(c)}] /\ surprised' = surprised
  BY <1>1, <1>3, EmitConnected
<1>5. /\ ToldTypes'
      /\ told'[x] = told[x] \cup {Connected(c)}
      /\ \A y \in Nodes \ {x} : told'[y] = told[y]
  BY <1>3, <1>4, ToldOne
<1>6. \A y \in Nodes, b \in Conns : connections'[y][b] =
        IF y = x /\ b = c THEN Port[Target[c]] ELSE connections[y][b]
  BY <1>1 DEF EventsInv, TypeOK
<1>7. \A b, r : /\ Connected(b) = Connected(c) <=> b = c
                /\ Disconnected(b) # Connected(c)
                /\ StreamCreated(b, r, "peer") # Connected(c)
  BY DEF Connected, Disconnected, StreamCreated
<1>8. TablesTold'
  <2> SUFFICES ASSUME NEW y \in Nodes, NEW b \in Conns
               PROVE  /\ Connected(b) \in told'[y] <=> connections'[y][b] # NoAddr
                      /\ Disconnected(b) \notin told'[y]
                      /\ known_streams[y][b] # {} => connections'[y][b] # NoAddr
                      /\ \A r \in Streams :
                           r \in known_streams[y][b] <=> StreamCreated(b, r, "peer") \in told'[y]
    BY <1>2 DEF TablesTold
  <2>1. /\ Connected(b) \in told[y] <=> connections[y][b] # NoAddr
        /\ Disconnected(b) \notin told[y]
        /\ known_streams[y][b] # {} => connections[y][b] # NoAddr
        /\ \A r \in Streams :
             r \in known_streams[y][b] <=> StreamCreated(b, r, "peer") \in told[y]
    BY DEF EventsInv, TablesTold
  <2>2. CASE y = x
    BY <1>2, <1>5, <1>6, <1>7, <2>1, <2>2
  <2>3. CASE y # x
    BY <1>5, <1>6, <2>1, <2>3
  <2>4. QED BY <2>2, <2>3
<1>9. CommandsJustified'
  BY <1>2, <1>6, StillJustified DEF TakeCommand
<1>10. QED BY <1>4, <1>5, <1>8, <1>9 DEF EventsInv, OrderlyEvents

\* The answer to a stream command: the queue held it for a connection of x.
LEMMA StreamCommandTells ==
  ASSUME EventsInv, TypeOK', NEW x \in Nodes, StreamCommand(x)
  PROVE  EventsInv'
<1> DEFINE cmd == Head(cmd_rx[x])
<1>1. /\ cmd_rx[x] # <<>> /\ cmd.op \in StreamOps
      /\ cmd_rx' = [cmd_rx EXCEPT ![x] = Tail(@)]
      /\ UNCHANGED <<connections, known_streams>>
      /\ \/ Emit(x, <<StreamCreated(cmd.conn, cmd.stream, "game")>>)
         \/ Emit(x, <<StreamClosed(cmd.conn, cmd.stream)>>)
  BY DEF StreamCommand, TakeCommand, StreamOps, tables
<1>2. cmd \in Justified(x)
  BY <1>1 DEF EventsInv, CommandsJustified
<1>3. cmd.conn \in Conns /\ connections[x][cmd.conn] # NoAddr
  BY <1>1, <1>2 DEF Justified, Command, StreamOps
<1>4. ToldTypes /\ Connected(cmd.conn) \in told[x]
  BY <1>3 DEF EventsInv, TablesTold
<1>5. told' = [told EXCEPT ![x] = @ \cup {}] /\ surprised' = surprised
  BY <1>1, <1>4, EmitAnswer
<1>6. told' = told
  BY <1>4, <1>5 DEF ToldTypes
<1>7. CommandsJustified'
  BY <1>1, StillJustified
<1>8. QED BY <1>1, <1>5, <1>6, <1>7, NothingTold

\* The game asks for a connection it was told of.
LEMMA GameTells ==
  ASSUME EventsInv, TypeOK', NEW x \in Nodes, Game(x)
  PROVE  EventsInv'
<1>1. PICK cmd \in Justified(x) : Issue(x, cmd)
  <2>1. CASE AskShutdown(x)
    <3>1. [op |-> "Shutdown"] \in Justified(x)
      BY DEF Justified, Command, StreamOps
    <3>2. QED BY <2>1, <3>1 DEF AskShutdown
  <2>2. ASSUME NEW c \in Conns, NEW s \in Streams, AskSend(x, c, s) \/ AskStream(x, c, s)
        PROVE  \E cmd \in Justified(x) : Issue(x, cmd)
    <3>1. connections[x][c] # NoAddr
      BY <2>2 DEF AskSend, AskStream, EventsInv, TablesTold
    <3>2. \A op \in {"Send", "CreateStream", "CloseStream"} :
            [op |-> op, conn |-> c, stream |-> s] \in Justified(x)
      BY <3>1 DEF Justified, Command
    <3>3. QED BY <2>2, <3>2 DEF AskSend, AskStream
  <2>3. QED BY <2>1, <2>2 DEF Game
<1>2. /\ cmd_rx' = [cmd_rx EXCEPT ![x] = Append(@, cmd)]
      /\ UNCHANGED <<connections, known_streams, told, surprised>>
  BY <1>1 DEF Issue, tables, emitted
<1>3. CommandsJustified'
  BY <1>2, StillJustified
<1>4. QED BY <1>2, <1>3, NothingTold

\* A program that starts again knows nothing, and neither does its game.
LEMMA RestartTells ==
  ASSUME EventsInv, TypeOK', NEW x \in Nodes, Restart(x)
  PROVE  EventsInv'
<1>1. /\ connections' = [connections EXCEPT ![x] = [c \in Conns |-> NoAddr]]
      /\ known_streams' = [known_streams EXCEPT ![x] = [c \in Conns |-> {}]]
      /\ cmd_rx' = [cmd_rx EXCEPT ![x] = FirstCommands(x)]
      /\ told' = [told EXCEPT ![x] = {}]
      /\ surprised' = surprised
  BY DEF Restart
<1>2. ToldTypes'
  BY <1>1 DEF EventsInv, ToldTypes
<1>3. /\ told'[x] = {}
      /\ \A c \in Conns : connections'[x][c] = NoAddr /\ known_streams'[x][c] = {}
      /\ cmd_rx'[x] = FirstCommands(x)
  BY <1>1 DEF EventsInv, ToldTypes, TypeOK
<1>4. ASSUME NEW y \in Nodes, y # x
      PROVE  /\ told'[y] = told[y] /\ connections'[y] = connections[y]
             /\ known_streams'[y] = known_streams[y] /\ cmd_rx'[y] = cmd_rx[y]
  BY <1>1, <1>4 DEF EventsInv, ToldTypes, TypeOK
<1>5. TablesTold'
  BY <1>3, <1>4 DEF EventsInv, TablesTold
<1>6. CommandsJustified'
  <2>1. \A y \in Nodes : y # x => Justified(y)' = Justified(y)
    BY <1>4 DEF Justified
  <2>2. FirstCommands(x) \in Seq(Justified(x)')
    <3>1. {[op |-> "Bind"], [op |-> "Connect"]} \subseteq Justified(x)'
      BY DEF Justified, Command, StreamOps
    <3>2. QED BY <3>1, FirstCommandsFree
  <2>3. QED BY <1>3, <1>4, <2>1, <2>2 DEF EventsInv, CommandsJustified
<1>7. QED BY <1>1, <1>2, <1>5, <1>6 DEF EventsInv, OrderlyEvents

\* One step per action that tells a game something.
LEMMA EventsStep == EventsInv /\ [Next]_vars => EventsInv'
<1> SUFFICES ASSUME EventsInv, [Next]_vars PROVE EventsInv'
  OBVIOUS
<1>1. TypeOK'
  BY TypeStep DEF EventsInv
<1>2. ASSUME NEW x \in Nodes, Bind(x) \/ Send(x) \/ Shutdown(x) \/ Move(x) PROVE EventsInv'
  <2>1. /\ UNCHANGED <<connections, known_streams, told, surprised>>
        /\ UNCHANGED cmd_rx \/ (cmd_rx[x] # <<>> /\ cmd_rx' = [cmd_rx EXCEPT ![x] = Tail(@)])
    BY <1>2 DEF Bind, Send, Shutdown, Move, TakeCommand, tables, emitted
  <2>2. CommandsJustified'
    BY <2>1, StillJustified
  <2>3. QED BY <1>1, <2>1, <2>2, NothingTold
<1>3. ASSUME UNCHANGED <<connections, known_streams, told, surprised, cmd_rx>> PROVE EventsInv'
  <2>1. CommandsJustified'
    BY <1>3 DEF EventsInv, CommandsJustified, Justified
  <2>2. QED BY <1>1, <1>3, <2>1, NothingTold
<1>4. ASSUME NEW d \in wire, Lose(d) PROVE EventsInv'
  BY <1>3, <1>4 DEF Lose, tables, emitted
<1>5. CASE UNCHANGED vars
  BY <1>3, <1>5 DEF vars, tables, emitted
<1>6. QED
  BY <1>1, <1>2, <1>4, <1>5,
     ReceiveTells, ConnectTells, StreamCommandTells, GameTells, RestartTells
  DEF Next, Commands

\* No game above the UDP transport is told something out of order: a connection
\* once and before its streams and messages, a stream once and before its first
\* message, whatever the network does to the packets, and whoever has an address.
THEOREM UdpEventsOrderly == Spec => []OrderlyEvents
<1>1. EventsInv => OrderlyEvents
  BY DEF EventsInv
<1>2. QED BY UdpEventsInit, EventsStep, <1>1, PTL DEF Spec
=============================================================================
