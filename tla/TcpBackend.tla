----------------------------- MODULE TcpBackend -----------------------------
(***************************************************************************)
(* game_sockets/src/protocols/tcp_protocol.rs: TcpBackend::run, its        *)
(* listener task and its peer handlers, at both ends of TCP connections.   *)
(*                                                                         *)
(* A node is one backend: a loop selecting between the registrations of    *)
(* peers and the commands of the game, a listener task, and per connection *)
(* one handler that reads and writes. Every await at which a task may stay *)
(* is a step of its own. The game is any program that sends on the         *)
(* connections it was told of, until it is told that they are lost.        *)
(*                                                                         *)
(* TCP itself is taken as what it provides: ordered frames in buffers of   *)
(* bounded size, of which an end may be lost once the connection is reset. *)
(***************************************************************************)
EXTENDS GameSocket, FiniteSets

CONSTANTS
  Links,             \* TCP connections
  Dialer, Acceptor,  \* Dialer[l] connects to Acceptor[l]
  Streams,           \* the stream ids the games use
  Creates,           \* the nodes whose game creates and closes streams
  Stops,             \* the nodes whose game may shut its backend down
  Breakable,         \* may connections be reset, handshakes and accepts fail?
  Channel,           \* capacity of a peer's channel (100, line 47)
  Registrations,     \* capacity of the channel of new peers (16, line 19)
  Buffer,            \* frames that the buffers of a connection hold, per direction
  MaxQueue,          \* bound on the commands a game has waiting
  MaxSends,          \* bound on the Sends of each game
  NoLink

ASSUME LinksAssumption ==
  /\ IsFiniteSet(Links) /\ NoLink \notin Links
  /\ Dialer \in [Links -> Nodes] /\ Acceptor \in [Links -> Nodes]
  /\ \A l \in Links : Dialer[l] # Acceptor[l]
ASSUME CapacityAssumption ==
  {Channel, Registrations, Buffer} \subseteq Nat \ {0} /\ MaxSends \in [Nodes -> Nat]

VARIABLES
  (* TcpBackend::run *)
  running,       \* run has not returned
  awaiting,      \* the commands the loop awaits the end of: one at most
  peers,         \* connections whose channel the loop knows
  cmd_rx, peer_reg_rx,
  (* the tasks *)
  listening,     \* the listener task is alive
  accepting,     \* the connection it has announced and not yet registered
  handler,       \* per end of a connection: "none", "alive" or "ended"
  known_streams,
  write_rx,      \* the packets in the channel of a handler
  writing,       \* the packet a handler is sending: one at most
  (* the network *)
  link,          \* "new", "open", "down" or "refused"
  socket,        \* socket[x][l]: frames written by x, not yet read at the other end
  (* for the properties *)
  sent,         \* how many Sends the game has issued
  got,           \* the last packet announced to the game, per connection
  ignored        \* connections on which a Send found no peer

loop == <<running, awaiting, peers>>
tasks == <<listening, accepting, handler, known_streams, write_rx, writing>>
emitted == <<told, surprised>>
network == <<link, socket>>
vars == <<loop, cmd_rx, peer_reg_rx, tasks, emitted, network, sent, got, ignored>>

Ends(l) == {Dialer[l], Acceptor[l]}
Peer(l, x) == IF x = Dialer[l] THEN Acceptor[l] ELSE Dialer[l]
LinksOf(x) == {l \in Links : x \in Ends(l)}

Packets == [stream : Streams, data : UNION {1 .. MaxSends[x] : x \in Nodes}]
NoPacket == [stream |-> NoLink, data |-> 0]

Command(op, l) == [op |-> op, conn |-> l]
Listens(x) == \E l \in Links : Acceptor[l] = x

\* A game starts by listening or by connecting.
FirstCommands(x) ==
  (IF Listens(x) THEN <<Command("Bind", NoLink)>> ELSE <<>>)
    \o SetToSeq({Command("Connect", l) : l \in {k \in Links : Dialer[k] = x}})

PerEnd(v) == [x \in Nodes |-> [l \in Links |-> v]]

Init ==
  /\ EventsInit
  /\ running = [x \in Nodes |-> TRUE]
  /\ awaiting = [x \in Nodes |-> <<>>]
  /\ peers = [x \in Nodes |-> {}]
  /\ cmd_rx = [x \in Nodes |-> FirstCommands(x)]
  /\ peer_reg_rx = [x \in Nodes |-> <<>>]
  /\ listening = [x \in Nodes |-> FALSE]
  /\ accepting = [x \in Nodes |-> NoLink]
  /\ handler = PerEnd("none")
  /\ known_streams = PerEnd({})
  /\ write_rx = PerEnd(<<>>)
  /\ writing = PerEnd(<<>>)
  /\ link = [l \in Links |-> "new"]
  /\ socket = PerEnd(<<>>)
  /\ sent = [x \in Nodes |-> 0]
  /\ got = PerEnd(NoPacket)
  /\ ignored = [x \in Nodes |-> {}]

-----------------------------------------------------------------------------
(* The game, through GamePeer. Its shutdown joins the backend's thread, so *)
(* nothing follows it.                                                     *)

Asked(x, op) == \E i \in DOMAIN cmd_rx[x] : cmd_rx[x][i].op = op

Issue(x, cmd) ==
  /\ running[x]
  /\ Len(cmd_rx[x]) < MaxQueue
  /\ ~Asked(x, "Shutdown")
  /\ cmd_rx' = [cmd_rx EXCEPT ![x] = Append(@, cmd)]

Knows(x, l) == Connected(l) \in told[x] /\ Disconnected(l) \notin told[x]

\* Packets are numbered.
AskSend(x, l, s) ==
  /\ Knows(x, l)
  /\ sent[x] < MaxSends[x]
  /\ sent' = [sent EXCEPT ![x] = @ + 1]
  /\ Issue(x, [op |-> "Send", conn |-> l, packet |-> [stream |-> s, data |-> sent[x] + 1]])
  /\ UNCHANGED <<loop, peer_reg_rx, tasks, emitted, network, got, ignored>>

AskStream(x, l, s) ==
  /\ x \in Creates /\ Knows(x, l)
  /\ \E op \in {"CreateStream", "CloseStream"} :
       Issue(x, [op |-> op, conn |-> l, stream |-> s])
  /\ UNCHANGED <<loop, peer_reg_rx, tasks, emitted, network, sent, got, ignored>>

AskShutdown(x) ==
  /\ x \in Stops
  /\ Issue(x, Command("Shutdown", NoLink))
  /\ UNCHANGED <<loop, peer_reg_rx, tasks, emitted, network, sent, got, ignored>>

-----------------------------------------------------------------------------
(* The network.                                                            *)

\* What is in the buffers of the links D may be lost from its end.
Truncated(D) ==
  \E kept \in [Nodes -> [D -> 0 .. Buffer]] :
    /\ \A x \in Nodes : \A l \in D : kept[x][l] <= Len(socket[x][l])
    /\ socket' = [x \in Nodes |-> [l \in Links |->
         IF l \in D THEN SubSeq(socket[x][l], 1, kept[x][l]) ELSE socket[x][l]]]

\* The links D are closed or reset, by either end or on the way.
Resets(D) ==
  /\ link' = [l \in Links |-> IF l \in D THEN "down" ELSE link[l]]
  /\ Truncated(D)

\* The connections the listener has yet to accept; also those reset while they wait.
Backlog(x) ==
  {l \in Links : Acceptor[l] = x /\ link[l] \in {"open", "down"} /\ handler[x][l] = "none"}

ResetLink(l) ==
  /\ Breakable /\ link[l] = "open"
  /\ Resets({l})
  /\ UNCHANGED <<loop, cmd_rx, peer_reg_rx, tasks, emitted, sent, got, ignored>>

-----------------------------------------------------------------------------
(* TcpBackend::run.                                                        *)

Selecting(x) == running[x] /\ awaiting[x] = <<>>

RegisterPeer(x) ==
  /\ Selecting(x)
  /\ peer_reg_rx[x] # <<>>
  /\ peers' = [peers EXCEPT ![x] = @ \cup {Head(peer_reg_rx[x])}]
  /\ peer_reg_rx' = [peer_reg_rx EXCEPT ![x] = Tail(@)]
  /\ UNCHANGED <<running, awaiting, cmd_rx, tasks, emitted, network, sent, got, ignored>>

TakeCommand(x, op) ==
  /\ Selecting(x)
  /\ cmd_rx[x] # <<>> /\ Head(cmd_rx[x]).op = op
  /\ cmd_rx' = [cmd_rx EXCEPT ![x] = Tail(@)]

Bind(x) ==
  /\ TakeCommand(x, "Bind")
  /\ listening' = [listening EXCEPT ![x] = TRUE]
  /\ UNCHANGED <<loop, peer_reg_rx, accepting, handler, known_streams, write_rx, writing,
                 emitted, network, sent, got, ignored>>

Connect(x) ==
  /\ TakeCommand(x, "Connect")
  /\ awaiting' = [awaiting EXCEPT ![x] = <<Head(cmd_rx[x])>>]
  /\ UNCHANGED <<running, peers, peer_reg_rx, tasks, emitted, network, sent, got, ignored>>

Awaits(x, op) == running[x] /\ awaiting[x] # <<>> /\ awaiting[x][1].op = op

SpawnHandler(x, l) == handler' = [handler EXCEPT ![x][l] = "alive"]

\* Mutant of ConnectCompletes: the handle goes by the registration channel, as
\* that of an accepted connection does.
ConnectAndEnrol(x) ==
  LET l == awaiting[x][1].conn IN
  /\ Awaits(x, "Connect") /\ listening[Acceptor[l]]
  /\ awaiting' = [awaiting EXCEPT ![x] = <<>>]
  /\ link' = [link EXCEPT ![l] = "open"]
  /\ Emit(x, <<Connected(l)>>)
  /\ SpawnHandler(x, l)
  /\ peer_reg_rx' = [peer_reg_rx EXCEPT ![x] = Append(@, l)]
  /\ UNCHANGED <<running, peers, cmd_rx, listening, accepting, known_streams,
                 write_rx, writing, socket, sent, got, ignored>>

\* The handshake needs a listening socket, not a task that accepts.
ConnectCompletes(x) ==
  LET l == awaiting[x][1].conn IN
  /\ Awaits(x, "Connect") /\ listening[Acceptor[l]]
  /\ awaiting' = [awaiting EXCEPT ![x] = <<>>]
  /\ link' = [link EXCEPT ![l] = "open"]
  /\ Emit(x, <<Connected(l)>>)
  /\ SpawnHandler(x, l)
  /\ peers' = [peers EXCEPT ![x] = @ \cup {l}]
  /\ UNCHANGED <<running, cmd_rx, peer_reg_rx, listening, accepting, known_streams,
                 write_rx, writing, socket, sent, got, ignored>>

ConnectFails(x) ==
  LET l == awaiting[x][1].conn IN
  /\ Awaits(x, "Connect") /\ (Breakable \/ ~listening[Acceptor[l]])
  /\ awaiting' = [awaiting EXCEPT ![x] = <<>>]
  /\ link' = [link EXCEPT ![l] = "refused"]
  /\ Emit(x, <<ConnectionError>>)
  /\ UNCHANGED <<running, peers, cmd_rx, peer_reg_rx, tasks, socket, sent, got, ignored>>

Enqueue(x, cmd) ==
  write_rx' = [write_rx EXCEPT ![x][cmd.conn] = Append(@, cmd.packet)]

Full(x, l) == Len(write_rx[x][l]) >= Channel

\* Mutant of Send: an unbounded channel.
SendUnbounded(x) ==
  LET cmd == Head(cmd_rx[x])
      known == cmd.conn \in peers[x] IN
  /\ TakeCommand(x, "Send")
  /\ IF known /\ handler[x][cmd.conn] = "alive" THEN Enqueue(x, cmd) ELSE UNCHANGED write_rx
  /\ ignored' = IF known THEN ignored ELSE [ignored EXCEPT ![x] = @ \cup {cmd.conn}]
  /\ UNCHANGED <<loop, peer_reg_rx, listening, accepting, handler, known_streams,
                 writing, emitted, network, sent, got>>

\* The channel of a handler that has ended takes nothing and says so at once.
Send(x) ==
  LET cmd == Head(cmd_rx[x])
      known == cmd.conn \in peers[x]
      open == known /\ handler[x][cmd.conn] = "alive" IN
  /\ TakeCommand(x, "Send")
  /\ IF open /\ ~Full(x, cmd.conn) THEN Enqueue(x, cmd) ELSE UNCHANGED write_rx
  /\ awaiting' = [awaiting EXCEPT ![x] = IF open /\ Full(x, cmd.conn) THEN <<cmd>> ELSE <<>>]
  /\ ignored' = IF known THEN ignored ELSE [ignored EXCEPT ![x] = @ \cup {cmd.conn}]
  /\ UNCHANGED <<running, peers, peer_reg_rx, listening, accepting, handler, known_streams,
                 writing, emitted, network, sent, got>>

\* Mutant of SendResumes: the wait does not end with the handler.
SendInsists(x) ==
  LET cmd == awaiting[x][1] IN
  /\ Awaits(x, "Send")
  /\ handler[x][cmd.conn] = "alive" /\ ~Full(x, cmd.conn)
  /\ Enqueue(x, cmd)
  /\ awaiting' = [awaiting EXCEPT ![x] = <<>>]
  /\ UNCHANGED <<running, peers, cmd_rx, peer_reg_rx, listening, accepting, handler,
                 known_streams, writing, emitted, network, sent, got, ignored>>

\* tx.send(packet).await: the loop does nothing else until there is room.
SendResumes(x) ==
  LET cmd == awaiting[x][1]
      alive == handler[x][cmd.conn] = "alive" IN
  /\ Awaits(x, "Send")
  /\ alive => ~Full(x, cmd.conn)
  /\ IF alive THEN Enqueue(x, cmd) ELSE UNCHANGED write_rx
  /\ awaiting' = [awaiting EXCEPT ![x] = <<>>]
  /\ UNCHANGED <<running, peers, cmd_rx, peer_reg_rx, listening, accepting, handler,
                 known_streams, writing, emitted, network, sent, got, ignored>>

\* Streams of their own do not exist here: the game is only told what it asked for.
StreamCommand(x) ==
  LET cmd == Head(cmd_rx[x]) IN
  /\ \/ TakeCommand(x, "CreateStream") /\ Emit(x, <<StreamCreated(cmd.conn, cmd.stream, "game")>>)
     \/ TakeCommand(x, "CloseStream") /\ Emit(x, <<StreamClosed(cmd.conn, cmd.stream)>>)
  /\ UNCHANGED <<loop, peer_reg_rx, tasks, network, sent, got, ignored>>

\* run returns: the runtime goes, with its tasks and their sockets.
RunEnds(x) ==
  /\ running' = [running EXCEPT ![x] = FALSE]
  /\ listening' = [listening EXCEPT ![x] = FALSE]
  /\ handler' = [handler EXCEPT ![x] =
       [l \in Links |-> IF @[l] = "alive" THEN "ended" ELSE @[l]]]
  /\ write_rx' = [write_rx EXCEPT ![x] = [l \in Links |-> <<>>]]
  /\ writing' = [writing EXCEPT ![x] = [l \in Links |-> <<>>]]
  /\ Resets({l \in LinksOf(x) : link[l] = "open"})
  /\ UNCHANGED <<awaiting, peers, peer_reg_rx, accepting, known_streams, emitted, sent, got, ignored>>

Shutdown(x) == TakeCommand(x, "Shutdown") /\ RunEnds(x)

\* expect("Bind failed")
BindFails(x) == Breakable /\ TakeCommand(x, "Bind") /\ RunEnds(x)

-----------------------------------------------------------------------------
(* The listener task.                                                      *)

\* Mutant of Accept: the game is not told.
AcceptSilently(x, l) ==
  /\ running[x] /\ listening[x] /\ accepting[x] = NoLink
  /\ l \in Backlog(x)
  /\ SpawnHandler(x, l)
  /\ accepting' = [accepting EXCEPT ![x] = l]
  /\ UNCHANGED <<loop, cmd_rx, peer_reg_rx, listening, known_streams, write_rx, writing,
                 emitted, network, sent, got, ignored>>

Accept(x, l) ==
  /\ running[x] /\ listening[x] /\ accepting[x] = NoLink
  /\ l \in Backlog(x)
  /\ Emit(x, <<Connected(l)>>)
  /\ SpawnHandler(x, l)
  /\ accepting' = [accepting EXCEPT ![x] = l]
  /\ UNCHANGED <<loop, cmd_rx, peer_reg_rx, listening, known_streams, write_rx, writing,
                 network, sent, got, ignored>>

AcceptRegister(x) ==
  /\ running[x] /\ listening[x] /\ accepting[x] # NoLink
  /\ Len(peer_reg_rx[x]) < Registrations
  /\ peer_reg_rx' = [peer_reg_rx EXCEPT ![x] = Append(@, accepting[x])]
  /\ accepting' = [accepting EXCEPT ![x] = NoLink]
  /\ UNCHANGED <<loop, cmd_rx, listening, handler, known_streams, write_rx, writing,
                 emitted, network, sent, got, ignored>>

\* `while let Ok`: the first error of accept ends the task, and says nothing.
AcceptFails(x) ==
  /\ Breakable /\ running[x] /\ listening[x] /\ accepting[x] = NoLink
  /\ listening' = [listening EXCEPT ![x] = FALSE]
  /\ Resets({l \in Backlog(x) : link[l] = "open"})
  /\ UNCHANGED <<loop, cmd_rx, peer_reg_rx, accepting, handler, known_streams, write_rx,
                 writing, emitted, sent, got, ignored>>

-----------------------------------------------------------------------------
(* The handler of one connection: it selects between reading and taking a  *)
(* packet, and while it writes that packet it does not read.               *)

Handles(x, l) == running[x] /\ handler[x][l] = "alive" /\ writing[x][l] = <<>>

Incoming(x, l) == socket[Peer(l, x)][l]

Read(x, l) ==
  LET p == Head(Incoming(x, l)) IN
  /\ Handles(x, l)
  /\ Incoming(x, l) # <<>>
  /\ socket' = [socket EXCEPT ![Peer(l, x)][l] = Tail(@)]
  /\ Emit(x, Announce(l, p.stream, known_streams[x][l]))
  /\ known_streams' = [known_streams EXCEPT ![x][l] = @ \cup {p.stream}]
  /\ got' = [got EXCEPT ![x][l] = p]
  /\ UNCHANGED <<loop, cmd_rx, peer_reg_rx, listening, accepting, handler, write_rx, writing,
                 link, sent, ignored>>

\* Mutant of ReadEnd: the handler goes on after the Disconnected.
ReadEndAndStay(x, l) ==
  /\ Handles(x, l) /\ link[l] = "down"
  /\ Incoming(x, l) = <<>>
  /\ Emit(x, <<Disconnected(l)>>)
  /\ UNCHANGED <<loop, cmd_rx, peer_reg_rx, tasks, network, sent, got, ignored>>

ReadEnd(x, l) ==
  /\ Handles(x, l) /\ link[l] = "down"
  /\ Incoming(x, l) = <<>>
  /\ Emit(x, <<Disconnected(l)>>)
  /\ handler' = [handler EXCEPT ![x][l] = "ended"]
  /\ write_rx' = [write_rx EXCEPT ![x][l] = <<>>]
  /\ UNCHANGED <<loop, cmd_rx, peer_reg_rx, listening, accepting, known_streams, writing,
                 network, sent, got, ignored>>

\* Mutant of TakePacket: the handler takes the next packet before the last is written.
TakeAhead(x, l) ==
  /\ running[x] /\ handler[x][l] = "alive"
  /\ write_rx[x][l] # <<>>
  /\ writing' = [writing EXCEPT ![x][l] = <<Head(write_rx[x][l])>>]
  /\ write_rx' = [write_rx EXCEPT ![x][l] = Tail(@)]
  /\ UNCHANGED <<loop, cmd_rx, peer_reg_rx, listening, accepting, handler, known_streams,
                 emitted, network, sent, got, ignored>>

\* Mutant of TakePacket: a handler writes only after it has read.
TakeAfterRead(x, l) ==
  /\ Handles(x, l)
  /\ write_rx[x][l] # <<>> /\ known_streams[x][l] # {}
  /\ writing' = [writing EXCEPT ![x][l] = <<Head(write_rx[x][l])>>]
  /\ write_rx' = [write_rx EXCEPT ![x][l] = Tail(@)]
  /\ UNCHANGED <<loop, cmd_rx, peer_reg_rx, listening, accepting, handler, known_streams,
                 emitted, network, sent, got, ignored>>

TakePacket(x, l) ==
  /\ Handles(x, l)
  /\ write_rx[x][l] # <<>>
  /\ writing' = [writing EXCEPT ![x][l] = <<Head(write_rx[x][l])>>]
  /\ write_rx' = [write_rx EXCEPT ![x][l] = Tail(@)]
  /\ UNCHANGED <<loop, cmd_rx, peer_reg_rx, listening, accepting, handler, known_streams,
                 emitted, network, sent, got, ignored>>

\* Mutant of Write: the error of a write on a lost connection is waited out.
WriteInsists(x, l) ==
  /\ running[x] /\ writing[x][l] # <<>>
  /\ Len(socket[x][l]) < Buffer
  /\ IF link[l] = "down" THEN UNCHANGED <<socket, writing>>
     ELSE /\ socket' = [socket EXCEPT ![x][l] = @ \o writing[x][l]]
          /\ writing' = [writing EXCEPT ![x][l] = <<>>]
  /\ UNCHANGED <<loop, cmd_rx, peer_reg_rx, listening, accepting, handler, known_streams,
                 write_rx, emitted, link, sent, got, ignored>>

\* framed.send(packet).await: it waits for room, and its error is dropped.
Write(x, l) ==
  /\ running[x] /\ writing[x][l] # <<>>
  /\ link[l] = "down" \/ Len(socket[x][l]) < Buffer
  /\ IF link[l] = "down" THEN UNCHANGED socket
     ELSE socket' = [socket EXCEPT ![x][l] = @ \o writing[x][l]]
  /\ writing' = [writing EXCEPT ![x][l] = <<>>]
  /\ UNCHANGED <<loop, cmd_rx, peer_reg_rx, listening, accepting, handler, known_streams,
                 write_rx, emitted, link, sent, got, ignored>>

-----------------------------------------------------------------------------
Game(x) ==
  \/ AskShutdown(x)
  \/ \E l \in LinksOf(x), s \in Streams : AskSend(x, l, s) \/ AskStream(x, l, s)

Loop(x) ==
  \/ RegisterPeer(x) \/ Bind(x) \/ BindFails(x) \/ Connect(x) \/ ConnectCompletes(x)
  \/ ConnectFails(x) \/ Send(x) \/ SendResumes(x) \/ StreamCommand(x) \/ Shutdown(x)

Listener(x) == AcceptRegister(x) \/ \E l \in LinksOf(x) : Accept(x, l)

Handler(x, l) == Read(x, l) \/ ReadEnd(x, l) \/ TakePacket(x, l) \/ Write(x, l)

Next ==
  \/ \E x \in Nodes :
       \/ Game(x) \/ Loop(x) \/ Listener(x) \/ AcceptFails(x)
       \/ \E l \in LinksOf(x) : Handler(x, l)
  \/ \E l \in Links : ResetLink(l)

Spec == Init /\ [][Next]_vars

\* Each task runs on when it can, on the threads of the runtime. Nothing is
\* assumed of the game, of errors, or of which ready branch select! takes.
Fairness ==
  \A x \in Nodes :
    /\ WF_vars(Loop(x)) /\ WF_vars(Listener(x))
    /\ \A l \in LinksOf(x) : WF_vars(Handler(x, l))

FairSpec == Spec /\ Fairness

-----------------------------------------------------------------------------
(* Properties.                                                             *)

Commanded == [op : {"Bind", "Shutdown"}, conn : {NoLink}]
  \cup [op : {"Connect"}, conn : Links]
  \cup [op : {"Send"}, conn : Links, packet : Packets]
  \cup [op : {"CreateStream", "CloseStream"}, conn : Links, stream : Streams]

\* Type invariant, with the bounds of the channels.
TypeOK ==
  /\ running \in [Nodes -> BOOLEAN] /\ listening \in [Nodes -> BOOLEAN]
  /\ accepting \in [Nodes -> Links \cup {NoLink}]
  /\ link \in [Links -> {"new", "open", "down", "refused"}]
  /\ sent \in [Nodes -> Nat]
  /\ peers \in [Nodes -> SUBSET Links] /\ ignored \in [Nodes -> SUBSET Links]
  /\ cmd_rx \in [Nodes -> Seq(Commanded)] /\ awaiting \in [Nodes -> Seq(Commanded)]
  /\ peer_reg_rx \in [Nodes -> Seq(Links)]
  /\ handler \in [Nodes -> [Links -> {"none", "alive", "ended"}]]
  /\ known_streams \in [Nodes -> [Links -> SUBSET Streams]]
  /\ {write_rx, writing, socket} \subseteq [Nodes -> [Links -> Seq(Packets)]]
  /\ got \in [Nodes -> [Links -> Packets \cup {NoPacket}]]
  /\ \A x \in Nodes :
       /\ Len(awaiting[x]) <= 1 /\ Len(peer_reg_rx[x]) <= Registrations
       /\ \A l \in Links : /\ Len(write_rx[x][l]) <= Channel
                          /\ Len(socket[x][l]) <= Buffer
                          /\ Len(writing[x][l]) <= 1

\* Both handlers write into full buffers: neither reads what the other waits
\* to get rid of, and only the end of the connection frees them (line 156).
Jammed(l) ==
  /\ link[l] = "open"
  /\ \A x \in Ends(l) : writing[x][l] # <<>> /\ Len(socket[x][l]) >= Buffer

\* The queue of a direction, from the buffers back to the channel of the sender.
InTransit(x, l) ==
  IF handler[Peer(l, x)][l] = "ended" THEN <<>>
  ELSE IF link[l] = "down" THEN socket[x][l]
  ELSE socket[x][l] \o writing[x][l] \o write_rx[x][l]

AllWays == {w \in Nodes \X Links : w[1] \in Ends(w[2])}

AbstractPipe == INSTANCE Pipe WITH
  Ways <- AllWays, Packets <- Packets, Nothing <- NoPacket,
  transit <- [w \in AllWays |-> InTransit(w[1], w[2])],
  got <- [w \in AllWays |-> got[Peer(w[2], w[1])][w[2]]],
  cut <- [w \in AllWays |-> link[w[2]] = "down"]

\* What the loop has put in the channel of a peer gets to the other game in
\* order and once, through channel, handler, buffers and handler (lines 83,
\* 122, 154): nothing is lost, or overtakes, while the connection lives.
ImplementsPipe == AbstractPipe!Spec

\* The game that dialled finds its peer with its first Send, because Connect
\* inserts it before the loop takes another command (lines 62-67). The game
\* that accepted may be told of a connection before the loop is (44, 51), and
\* then its Sends are dropped without a word (76).
DialerNeverIgnored == \A x \in Nodes : \A l \in ignored[x] : Acceptor[l] = x

\* GamePeer::shutdown joins the loop, which may be waiting for a channel to
\* empty (line 83): it ends in every case but one, two games that both send
\* more than the buffers hold and whose handlers wait for each other.
ShutdownEndsUnlessJammed ==
  \A x \in Stops : Asked(x, "Shutdown") ~> ~running[x] \/ \E l \in LinksOf(x) : Jammed(l)

\* What is put in the channel of a peer arrives, unless the connection ends or
\* is jammed: no handler reads for ever and never writes, or the other way
\* round (lines 120-158). The games stop asking, so in the end all has arrived.
ArrivesUnlessJammed ==
  <>[](\A l \in Links : \A x \in Ends(l) :
         InTransit(x, l) = <<>> \/ link[l] # "open" \/ Jammed(l))

\* The end of a connection is reported at both ends, also to a game whose
\* handler was blocked in a write (lines 146-149, 156).
LossReported ==
  \A l \in Links :
    link[l] = "down" ~>
      \A x \in Ends(l) : running[x] /\ Connected(l) \in told[x] => Disconnected(l) \in told[x]
=============================================================================
