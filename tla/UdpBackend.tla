----------------------------- MODULE UdpBackend -----------------------------
(***************************************************************************)
(* game_sockets/src/protocols/udp_protocol.rs: UdpBackend::run at several  *)
(* nodes. A connection is an id that its dialer draws and writes on every  *)
(* packet; the address an end answers to is that of the last packet it got *)
(* with the id. The network loses, delays, reorders and duplicates packets,*)
(* and a node's address may change under it (a mobile client, a NAT); a    *)
(* program may start again, on the same port if it has one.                *)
(*                                                                         *)
(* Payloads are not told apart: a packet is where it goes, where it comes  *)
(* from, and its header (lines 90-92). Packets shorter than a header       *)
(* (line 110) are never sent.                                              *)
(***************************************************************************)
EXTENDS GameSocket, FiniteSets

CONSTANTS
  Conns,          \* the ids (Uuid::new_v4, never drawn twice)
  Dialer, Target, \* a connection id of node Dialer[c] is for node Target[c]
  Streams,
  Addrs,
  Port,           \* Port[x]: where the game x listens, or NoAddr
  Given,          \* Given[x]: the addresses the system gives x otherwise, in order
  Creates, Stops, Moves, Restarts,  \* the nodes that create streams, stop, move, start again
  BindMayFail,
  MaxQueue,       \* bound on the commands a game has waiting
  MaxDuplicates, MaxMoves, MaxRestarts,
  NoAddr

ASSUME NodesAssumption ==
  /\ NoAddr \notin Addrs
  /\ Dialer \in [Conns -> Nodes] /\ Target \in [Conns -> Nodes]
  /\ Port \in [Nodes -> Addrs \cup {NoAddr}] /\ Given \in [Nodes -> Seq(Addrs)]
  /\ \A c \in Conns : Port[Target[c]] # NoAddr

VARIABLES
  running,
  socket,         \* the address of a node, as the others see it
  connections,    \* for each id, the address its packets are sent to
  known_streams,
  cmd_rx,
  wire,           \* the packets under way
  duplicates, moves, restarts,
  had             \* how many of the addresses Given[x] x has had

tables == <<connections, known_streams>>
emitted == <<told, surprised>>
counts == <<duplicates, moves, restarts>>
vars == <<running, socket, tables, cmd_rx, wire, counts, had, emitted>>

Packet(x, c, s) == [from |-> socket[x], to |-> connections[x][c], conn |-> c, stream |-> s]

Listens(x) == Port[x] # NoAddr
Dials(x) == \E c \in Conns : Dialer[c] = x

\* A game starts by listening or by connecting; one that dials an address drops
\* what it cannot parse (line 81), which no game here does.
FirstCommands(x) ==
  (IF Listens(x) THEN <<[op |-> "Bind"]>> ELSE <<>>)
    \o (IF Dials(x) THEN <<[op |-> "Connect"]>> ELSE <<>>)

Init ==
  /\ EventsInit
  /\ running = [x \in Nodes |-> TRUE]
  /\ socket = [x \in Nodes |-> NoAddr]
  /\ connections = [x \in Nodes |-> [c \in Conns |-> NoAddr]]
  /\ known_streams = [x \in Nodes |-> [c \in Conns |-> {}]]
  /\ cmd_rx = [x \in Nodes |-> FirstCommands(x)]
  /\ wire = {}
  /\ duplicates = 0 /\ moves = 0 /\ restarts = 0
  /\ had = [x \in Nodes |-> 0]

-----------------------------------------------------------------------------
(* The game, through GamePeer.                                             *)

Asked(x, op) == \E i \in DOMAIN cmd_rx[x] : cmd_rx[x][i].op = op

Issue(x, cmd) ==
  /\ running[x]
  /\ Len(cmd_rx[x]) < MaxQueue
  /\ ~Asked(x, "Shutdown")
  /\ cmd_rx' = [cmd_rx EXCEPT ![x] = Append(@, cmd)]
  /\ UNCHANGED <<running, socket, tables, wire, counts, had, emitted>>

AskSend(x, c, s) ==
  Connected(c) \in told[x] /\ Issue(x, [op |-> "Send", conn |-> c, stream |-> s])

AskStream(x, c, s) ==
  /\ x \in Creates /\ Connected(c) \in told[x]
  /\ \E op \in {"CreateStream", "CloseStream"} : Issue(x, [op |-> op, conn |-> c, stream |-> s])

AskShutdown(x) == x \in Stops /\ Issue(x, [op |-> "Shutdown"])

-----------------------------------------------------------------------------
(* The network and the operating system.                                   *)

\* Addresses are not given out again, to nobody: see BetweenItsEnds.
GetAddress(x) ==
  /\ had[x] < Len(Given[x])
  /\ socket' = [socket EXCEPT ![x] = Given[x][had[x] + 1]]
  /\ had' = [had EXCEPT ![x] = @ + 1]

Move(x) ==
  /\ x \in Moves /\ socket[x] # NoAddr /\ moves < MaxMoves
  /\ GetAddress(x)
  /\ moves' = moves + 1
  /\ UNCHANGED <<running, tables, cmd_rx, wire, duplicates, restarts, emitted>>

Lose(d) ==
  /\ wire' = wire \ {d}
  /\ UNCHANGED <<running, socket, tables, cmd_rx, counts, had, emitted>>

\* The program ends, at any point, and runs again with empty tables.
Restart(x) ==
  /\ x \in Restarts /\ restarts < MaxRestarts
  /\ restarts' = restarts + 1
  /\ running' = [running EXCEPT ![x] = TRUE]
  /\ socket' = [socket EXCEPT ![x] = NoAddr]
  /\ connections' = [connections EXCEPT ![x] = [c \in Conns |-> NoAddr]]
  /\ known_streams' = [known_streams EXCEPT ![x] = [c \in Conns |-> {}]]
  /\ cmd_rx' = [cmd_rx EXCEPT ![x] = FirstCommands(x)]
  /\ told' = [told EXCEPT ![x] = {}]
  /\ UNCHANGED <<wire, duplicates, moves, had, surprised>>

-----------------------------------------------------------------------------
(* UdpBackend::run and process_command.                                    *)

TakeCommand(x, op) ==
  /\ running[x]
  /\ cmd_rx[x] # <<>> /\ Head(cmd_rx[x]).op = op
  /\ cmd_rx' = [cmd_rx EXCEPT ![x] = Tail(@)]

\* A socket that is there is kept, whatever port it has; an error is not told.
Bind(x) ==
  /\ TakeCommand(x, "Bind")
  /\ \/ socket[x] = NoAddr /\ socket' = [socket EXCEPT ![x] = Port[x]]
     \/ (BindMayFail \/ socket[x] # NoAddr) /\ UNCHANGED socket
  /\ UNCHANGED <<running, tables, wire, counts, had, emitted>>

\* Connected is told at once, nothing is sent; nor does it need the socket.
Connect(x) ==
  /\ TakeCommand(x, "Connect")
  /\ \/ socket[x] = NoAddr /\ GetAddress(x)
     \/ (BindMayFail \/ socket[x] # NoAddr) /\ UNCHANGED <<socket, had>>
  /\ \E c \in Conns :
       /\ Dialer[c] = x /\ \A y \in Nodes : connections[y][c] = NoAddr
       /\ \A d \in wire : d.conn # c
       /\ connections' = [connections EXCEPT ![x][c] = Port[Target[c]]]
       /\ Emit(x, <<Connected(c)>>)
  /\ UNCHANGED <<running, known_streams, wire, counts>>

\* Mutant of Send: the answer goes where the last packet came from.
SendToLast(x) ==
  LET cmd == Head(cmd_rx[x]) IN
  /\ TakeCommand(x, "Send")
  /\ \E c \in Conns :
       LET d == [Packet(x, c, cmd.stream) EXCEPT !.conn = cmd.conn] IN
       wire' = IF d.from # NoAddr /\ d.to # NoAddr THEN wire \cup {d} ELSE wire
  /\ UNCHANGED <<running, socket, tables, counts, had, emitted>>

Send(x) ==
  LET cmd == Head(cmd_rx[x])
      d == Packet(x, cmd.conn, cmd.stream) IN
  /\ TakeCommand(x, "Send")
  /\ wire' = IF d.from # NoAddr /\ d.to # NoAddr THEN wire \cup {d} ELSE wire
  /\ UNCHANGED <<running, socket, tables, counts, had, emitted>>

StreamCommand(x) ==
  LET cmd == Head(cmd_rx[x]) IN
  /\ \/ TakeCommand(x, "CreateStream") /\ Emit(x, <<StreamCreated(cmd.conn, cmd.stream, "game")>>)
     \/ TakeCommand(x, "CloseStream") /\ Emit(x, <<StreamClosed(cmd.conn, cmd.stream)>>)
  /\ UNCHANGED <<running, socket, tables, wire, counts, had>>

\* No peer is told, then or later.
Shutdown(x) ==
  /\ TakeCommand(x, "Shutdown")
  /\ running' = [running EXCEPT ![x] = FALSE]
  /\ socket' = [socket EXCEPT ![x] = NoAddr]
  /\ UNCHANGED <<tables, wire, counts, had, emitted>>

-----------------------------------------------------------------------------
(* process_packet.                                                         *)

\* Mutant of ProcessPacket: the address of a known connection is kept.
ProcessKeepingAddress(x, d) ==
  /\ connections' = [connections EXCEPT ![x][d.conn] = IF @ = NoAddr THEN d.from ELSE @]
  /\ known_streams' = [known_streams EXCEPT ![x][d.conn] = @ \cup {d.stream}]
  /\ Emit(x, (IF connections[x][d.conn] = NoAddr THEN <<Connected(d.conn)>> ELSE <<>>)
               \o Announce(d.conn, d.stream, known_streams[x][d.conn]))

\* Mutant of ProcessPacket: a new address is a new connection.
ProcessAnnouncingMoves(x, d) ==
  /\ connections' = [connections EXCEPT ![x][d.conn] = d.from]
  /\ known_streams' = [known_streams EXCEPT ![x][d.conn] = @ \cup {d.stream}]
  /\ Emit(x, (IF connections[x][d.conn] # d.from THEN <<Connected(d.conn)>> ELSE <<>>)
               \o Announce(d.conn, d.stream, known_streams[x][d.conn]))

\* Whoever has the id is the peer: an unknown id makes a connection, a known one
\* moves to the address of the packet, be it an old packet come late.
ProcessPacket(x, d) ==
  /\ connections' = [connections EXCEPT ![x][d.conn] = d.from]
  /\ known_streams' = [known_streams EXCEPT ![x][d.conn] = @ \cup {d.stream}]
  /\ Emit(x, (IF connections[x][d.conn] = NoAddr THEN <<Connected(d.conn)>> ELSE <<>>)
               \o Announce(d.conn, d.stream, known_streams[x][d.conn]))

Receive(x, d) ==
  /\ running[x] /\ socket[x] # NoAddr /\ d.to = socket[x]
  /\ ProcessPacket(x, d)
  /\ \/ wire' = wire \ {d} /\ UNCHANGED duplicates
     \/ duplicates < MaxDuplicates /\ duplicates' = duplicates + 1 /\ UNCHANGED wire
  /\ UNCHANGED <<running, socket, cmd_rx, moves, restarts, had>>

-----------------------------------------------------------------------------
Game(x) ==
  \/ AskShutdown(x)
  \/ \E c \in Conns, s \in Streams : AskSend(x, c, s) \/ AskStream(x, c, s)

Commands(x) == Bind(x) \/ Connect(x) \/ Send(x) \/ StreamCommand(x) \/ Shutdown(x)

Next ==
  \/ \E x \in Nodes :
       Game(x) \/ Commands(x) \/ Move(x) \/ Restart(x) \/ \E d \in wire : Receive(x, d)
  \/ \E d \in wire : Lose(d)

Spec == Init /\ [][Next]_vars

\* A packet of c, from where its dialer is now, gets to the other end.
ReceiveCurrent(c) ==
  \E d \in wire : d.conn = c /\ d.from = socket[Dialer[c]] /\ Receive(Target[c], d)

\* The loop takes commands; select! starts at a random branch, so it also takes
\* packets, and of those sent again and again the network delivers some. Old
\* packets may stay under way for any time. Nothing is assumed of the games.
Fairness ==
  /\ \A x \in Nodes : WF_vars(Commands(x))
  /\ \A c \in Conns : SF_vars(ReceiveCurrent(c))

FairSpec == Spec /\ Fairness

-----------------------------------------------------------------------------
(* Properties.                                                             *)

\* Nobody gets an address another node has or had, a listener keeps its own.
AddressesApart ==
  /\ \A x, y \in Nodes : x # y =>
       /\ Port[x] = NoAddr \/ Port[x] # Port[y]
       /\ \A i \in DOMAIN Given[x] :
            Given[x][i] # Port[y] /\ \A j \in DOMAIN Given[y] : Given[x][i] # Given[y][j]
  /\ \A c \in Conns : Port[Dialer[c]] = NoAddr /\ Given[Target[c]] = <<>>

\* The addresses the system has given x.
Had(x) == {Given[x][i] : i \in 1 .. had[x]}

\* A connection is known at its two ends only, and each end answers to an
\* address the other has or had: packets lost, late, doubled or overtaken, moves
\* and restarts never make an end answer to a third node, nor a third node
\* announce the connection (lines 89-94, 116-126). It takes AddressesApart:
\* process_packet believes whoever has the id.
BetweenItsEnds ==
  \A x \in Nodes, c \in Conns : connections[x][c] # NoAddr =>
    \/ x = Dialer[c] /\ connections[x][c] = Port[Target[c]]
    \/ x = Target[c] /\ connections[x][c] \in Had(Dialer[c])

Sending(c) ==
  LET x == Dialer[c] IN
  running[x] /\ cmd_rx[x] # <<>> /\ Head(cmd_rx[x]).op = "Send" /\ Head(cmd_rx[x]).conn = c

\* "Auto-Accept / Update Address Logic" (line 115): a dialer that goes on
\* sending is in the end answered where it is, although old packets turn its
\* address back, and although the listener may have started again and forgotten
\* it; the dialer does not have to notice either.
AddressSettles ==
  \A c \in Conns :
    []<>Sending(c) /\ <>[](NoAddr \notin {socket[Dialer[c]], socket[Target[c]]})
      => <>[](connections[Target[c]][c] = socket[Dialer[c]])
=============================================================================
