---------------------------- MODULE QuicBackend -----------------------------
(***************************************************************************)
(* game_sockets/src/protocols/quic_protocol.rs: QuicBackend::run and the   *)
(* tasks it spawns, on both ends of QUIC connections.                      *)
(*                                                                         *)
(* Each node is one backend: a loop that selects between three queues      *)
(* (commands of the game, connections and streams to register), an accept  *)
(* task, and per connection a datagram reader and a stream reader, which   *)
(* run in parallel on the runtime's threads. Every await and every send to *)
(* a queue is a step of its own. The game above is any program that uses   *)
(* the connections and streams it was told of.                             *)
(*                                                                         *)
(* quinn is taken as what it provides: reliable ordered bytes within a     *)
(* stream, streams independent of each other, datagrams lost or reordered, *)
(* a limit on the streams open at once, connections that may be lost.      *)
(***************************************************************************)
EXTENDS Naturals, Sequences, FiniteSets, SequencesExt

CONSTANTS
  Nodes,             \* backends
  Links,             \* QUIC connections (a Uuid on either side)
  Dialer, Acceptor,  \* Dialer[l] connects to Acceptor[l]
  Creates,           \* Creates[x]: the GameStreams the game of x creates
  Replies,           \* Replies[x]: does the game of x send on streams of the peer?
  Stops,             \* the nodes whose game may shut its backend down
  MaxSends,          \* bound on the Sends of a game
  MaxQueue,          \* bound on the commands a game has waiting
  MaxBidi,           \* max_concurrent_bidi_streams
  Lossy,             \* may datagrams be lost?
  Breakable,         \* may connections be lost, and handshakes and Bind fail?
  NoLink

Numbers == Nat
Reliability == {"Reliable", "Unreliable", "Ordered"}

\* GameStream: its number and the reliability encoded in its low bits.
GameStream(number, reliability) == [number |-> number, reliability |-> reliability]

\* The test of the reliability bits is positive for Ordered streams too.
is_reliable(stream) == stream.reliability # "Unreliable"

Streams == [number : Numbers, reliability : Reliability]

ASSUME LinksAssumption ==
  IsFiniteSet(Links) /\ Dialer \in [Links -> Nodes] /\ Acceptor \in [Links -> Nodes]
ASSUME EndsAssumption == \A l \in Links : Dialer[l] # Acceptor[l]
ASSUME CreatesAssumption == \A x \in Nodes : Creates[x] \subseteq Streams
ASSUME BoundsAssumption == {MaxSends, MaxQueue, MaxBidi} \subseteq Nat
ASSUME NoLinkAssumption == NoLink \notin Links

-----------------------------------------------------------------------------
VARIABLES
  (* QuicBackend::run *)
  running,                  \* the loop has neither ended nor panicked
  awaiting,                 \* what the loop awaits inside a command, if anything
  connections,              \* registered connections
  reliable_send_streams,    \* <<link, stream>> -> index of its bidirectional stream
  unreliable_send_streams,  \* registered <<link, stream>> without a stream of their own
  (* the tasks *)
  listening,                \* the accept task is alive
  accepting,                \* the connection it has announced and not yet registered
  reading,                  \* links whose readers are spawned
  known_streams,            \* streams the datagram reader has registered, per link
  datagram,                 \* the datagram a reader has taken and not yet announced
  (* the channels *)
  cmd_rx, conn_reg_rx, stream_reg_rx,
  events,                   \* all of event_tx, in order
  polled,                   \* how many of them the game has taken
  (* the wire *)
  link,                     \* "new", "dialing", "up" or "down"
  bidis,                    \* the bidirectional streams of a link, in opening order
  datagrams,                \* datagrams in flight
  (* what the game has done and what became of it *)
  created, closed, sends, written, dropped

loop == <<running, awaiting, connections, reliable_send_streams, unreliable_send_streams>>
tasks == <<listening, accepting, reading, known_streams, datagram>>
registrations == <<conn_reg_rx, stream_reg_rx>>
wire == <<link, bidis, datagrams>>
game == <<polled, created, closed, sends>>
history == <<written, dropped>>
vars == <<loop, tasks, cmd_rx, registrations, events, wire, game, history>>

Idle == [on |-> "nothing", link |-> NoLink]

Ends(l) == {Dialer[l], Acceptor[l]}
Peer(l, x) == CHOOSE y \in Ends(l) : y # x
LinksOf(x) == {l \in Links : x \in Ends(l)}

\* A game starts by listening or by connecting.
FirstCommands(x) ==
  (IF \E l \in Links : Acceptor[l] = x THEN <<[op |-> "Bind"]>> ELSE <<>>)
    \o SetToSeq({[op |-> "Connect", conn |-> l] : l \in {k \in Links : Dialer[k] = x}})

Init ==
  /\ running = [x \in Nodes |-> TRUE]
  /\ awaiting = [x \in Nodes |-> Idle]
  /\ connections = [x \in Nodes |-> {}]
  /\ reliable_send_streams = [x \in Nodes |-> <<>>]
  /\ unreliable_send_streams = [x \in Nodes |-> {}]
  /\ listening = [x \in Nodes |-> FALSE]
  /\ accepting = [x \in Nodes |-> NoLink]
  /\ reading = [x \in Nodes |-> {}]
  /\ known_streams = [x \in Nodes |-> [l \in Links |-> {}]]
  /\ datagram = [x \in Nodes |-> [l \in Links |-> {}]]
  /\ cmd_rx = [x \in Nodes |-> FirstCommands(x)]
  /\ conn_reg_rx = [x \in Nodes |-> <<>>]
  /\ stream_reg_rx = [x \in Nodes |-> <<>>]
  /\ events = [x \in Nodes |-> <<>>]
  /\ polled = [x \in Nodes |-> 0]
  /\ link = [l \in Links |-> "new"]
  /\ bidis = [l \in Links |-> <<>>]
  /\ datagrams = [l \in Links |-> {}]
  /\ created = [x \in Nodes |-> {}]
  /\ closed = [x \in Nodes |-> {}]
  /\ sends = [x \in Nodes |-> 0]
  /\ written = [x \in Nodes |-> {}]
  /\ dropped = [x \in Nodes |-> {}]

-----------------------------------------------------------------------------
(* Events.                                                                 *)

Plain(type, l) == [type |-> type, conn |-> l]
OfStream(type, l, s) == [type |-> type, conn |-> l, stream |-> s]
MessageOn(l, s, d) == [type |-> "Message", conn |-> l, stream |-> s, data |-> d]

Emit(x, e) == events' = [events EXCEPT ![x] = Append(@, e)]

Polled(x) == {events[x][i] : i \in 1 .. polled[x]}

-----------------------------------------------------------------------------
(* The game: it polls events and issues commands through unbounded queues. *)

Issue(x, cmd) ==
  /\ running[x]
  /\ Len(cmd_rx[x]) < MaxQueue
  /\ cmd_rx' = [cmd_rx EXCEPT ![x] = Append(@, cmd)]

Poll(x) ==
  /\ polled[x] < Len(events[x])
  /\ polled' = [polled EXCEPT ![x] = @ + 1]
  /\ UNCHANGED <<loop, tasks, cmd_rx, registrations, events, wire, created, closed, sends, history>>

AskCreate(x, l, s) ==
  /\ Plain("Connected", l) \in Polled(x)
  /\ s \in Creates[x]
  /\ <<l, s>> \notin created[x]
  /\ created' = [created EXCEPT ![x] = @ \cup {<<l, s>>}]
  /\ Issue(x, [op |-> "CreateStream", conn |-> l, stream |-> s])
  /\ UNCHANGED <<loop, tasks, registrations, events, wire, polled, closed, sends, history>>

\* The streams the game may send on: those announced to it, those it received
\* a message on, and any unreliable one.
Offered(x, l, s) ==
  \/ OfStream("StreamCreated", l, s) \in Polled(x) /\ (s \in Creates[x] \/ Replies[x])
  \/ Replies[x] /\ \E e \in Polled(x) : e.type = "Message" /\ e.conn = l /\ e.stream = s
  \/ s \in Creates[x] /\ ~is_reliable(s) /\ Plain("Connected", l) \in Polled(x)

AskSend(x, l, s) ==
  /\ sends[x] < MaxSends
  /\ Offered(x, l, s)
  /\ sends' = [sends EXCEPT ![x] = @ + 1]
  /\ Issue(x, [op |-> "Send", conn |-> l, stream |-> s, data |-> sends[x] + 1])
  /\ UNCHANGED <<loop, tasks, registrations, events, wire, polled, created, closed, history>>

AskClose(x, l, s) ==
  /\ <<l, s>> \in created[x] \ closed[x]
  /\ OfStream("StreamCreated", l, s) \in Polled(x)
  /\ closed' = [closed EXCEPT ![x] = @ \cup {<<l, s>>}]
  /\ Issue(x, [op |-> "CloseStream", conn |-> l, stream |-> s])
  /\ UNCHANGED <<loop, tasks, registrations, events, wire, polled, created, sends, history>>

AskShutdown(x) ==
  /\ x \in Stops
  /\ \A i \in DOMAIN cmd_rx[x] : cmd_rx[x][i].op # "Shutdown"
  /\ Issue(x, [op |-> "Shutdown"])
  /\ UNCHANGED <<loop, tasks, registrations, events, wire, game, history>>

-----------------------------------------------------------------------------
(* The wire.                                                               *)

Broken(b) == [b EXCEPT !.wire = [y \in DOMAIN @ |-> <<>>]]

\* What is in flight on the links D is lost, and the links with it.
Cut(D) ==
  /\ link' = [l \in Links |-> IF l \in D THEN "down" ELSE link[l]]
  /\ bidis' = [l \in Links |->
       IF l \in D THEN [i \in DOMAIN bidis[l] |-> Broken(bidis[l][i])] ELSE bidis[l]]
  /\ datagrams' = [l \in Links |-> IF l \in D THEN {} ELSE datagrams[l]]

\* The end of run, by Shutdown or by a panic: the runtime goes, with its tasks
\* and its connections.
RunEnds(x) ==
  /\ running' = [running EXCEPT ![x] = FALSE]
  /\ listening' = [listening EXCEPT ![x] = FALSE]
  /\ Cut({l \in LinksOf(x) : link[l] = "up"})

LinkLost(l) ==
  /\ Breakable
  /\ link[l] = "up"
  /\ Cut({l})
  /\ UNCHANGED <<loop, tasks, cmd_rx, registrations, events, game, history>>

DatagramLost(l) ==
  /\ Lossy
  /\ \E dg \in datagrams[l] : datagrams' = [datagrams EXCEPT ![l] = @ \ {dg}]
  /\ UNCHANGED <<loop, tasks, cmd_rx, registrations, events, link, bidis, game, history>>

-----------------------------------------------------------------------------
(* QuicBackend::run, the two registration branches of its select.          *)

Selecting(x) == running[x] /\ awaiting[x] = Idle

RegisterConnection(x) ==
  /\ Selecting(x)
  /\ conn_reg_rx[x] # <<>>
  /\ conn_reg_rx' = [conn_reg_rx EXCEPT ![x] = Tail(@)]
  /\ connections' = [connections EXCEPT ![x] = @ \cup {Head(conn_reg_rx[x])}]
  /\ UNCHANGED <<running, awaiting, reliable_send_streams, unreliable_send_streams, tasks,
                 cmd_rx, stream_reg_rx, events, wire, game, history>>

Finished(b, y) == [b EXCEPT !.ended[y] = TRUE]

\* Mutant of DropSendStream: the stream is reset, and what is in flight discarded.
ResetSendStream(x, l, i) ==
  bidis' = [bidis EXCEPT ![l][i] = [Finished(@, Peer(l, x)) EXCEPT !.wire[Peer(l, x)] = <<>>]]

\* Dropping the SendStream of x in bidirectional stream i of l finishes it.
DropSendStream(x, l, i) ==
  bidis' = [bidis EXCEPT ![l][i] = Finished(@, Peer(l, x))]

With(f, k, v) == [j \in DOMAIN f \cup {k} |-> IF j = k THEN v ELSE f[j]]
Without(f, k) == [j \in DOMAIN f \ {k} |-> f[j]]

\* Mutant of RegisterReliable: the game is not told.
RegisterSilently(x, key, bidi) ==
  /\ reliable_send_streams' = [reliable_send_streams EXCEPT ![x] = With(@, key, bidi)]
  /\ UNCHANGED <<bidis, events, unreliable_send_streams>>

\* A reliable stream takes its SendStream, replacing the one of that id if
\* there is one; any other is announced once and only listed.
RegisterReliable(x, key, bidi) ==
  /\ reliable_send_streams' = [reliable_send_streams EXCEPT ![x] = With(@, key, bidi)]
  /\ IF key \in DOMAIN reliable_send_streams[x]
     THEN DropSendStream(x, key[1], reliable_send_streams[x][key])
     ELSE UNCHANGED bidis
  /\ Emit(x, OfStream("StreamCreated", key[1], key[2]))
  /\ UNCHANGED unreliable_send_streams

\* Mutant of RegisterUnreliable: without the test for a known stream.
RegisterAgain(x, key) ==
  /\ unreliable_send_streams' = [unreliable_send_streams EXCEPT ![x] = @ \cup {key}]
  /\ Emit(x, OfStream("StreamCreated", key[1], key[2]))
  /\ UNCHANGED <<reliable_send_streams, bidis>>

RegisterUnreliable(x, key) ==
  /\ unreliable_send_streams' = [unreliable_send_streams EXCEPT ![x] = @ \cup {key}]
  /\ IF key \in unreliable_send_streams[x]
     THEN UNCHANGED events
     ELSE Emit(x, OfStream("StreamCreated", key[1], key[2]))
  /\ UNCHANGED <<reliable_send_streams, bidis>>

Registration(x) == Head(stream_reg_rx[x])

RegisterAs(x, reliable) ==
  /\ Selecting(x)
  /\ stream_reg_rx[x] # <<>>
  /\ stream_reg_rx' = [stream_reg_rx EXCEPT ![x] = Tail(@)]
  /\ LET r == Registration(x)
         key == <<r.conn, r.stream>>
     IN IF reliable THEN RegisterReliable(x, key, r.bidi) ELSE RegisterUnreliable(x, key)
  /\ UNCHANGED <<running, awaiting, connections, tasks, cmd_rx, conn_reg_rx, link, datagrams,
                 game, history>>

RegisterStream(x) ==
  RegisterAs(x, is_reliable(Registration(x).stream) /\ Registration(x).bidi # 0)

Enrol(x, l, s, bidi) ==
  stream_reg_rx' = [stream_reg_rx EXCEPT ![x] =
                      Append(@, [conn |-> l, stream |-> s, bidi |-> bidi])]

-----------------------------------------------------------------------------
(* QuicBackend::run, its command branch.                                   *)

Command(x) == Head(cmd_rx[x])

TakeCommand(x, op) ==
  /\ Selecting(x)
  /\ cmd_rx[x] # <<>>
  /\ Command(x).op = op
  /\ cmd_rx' = [cmd_rx EXCEPT ![x] = Tail(@)]

Bind(x) ==
  /\ TakeCommand(x, "Bind")
  /\ listening' = [listening EXCEPT ![x] = TRUE]
  /\ UNCHANGED <<loop, accepting, reading, known_streams, datagram, registrations, events, wire,
                 game, history>>

\* The address and the endpoint are unwrapped: the port may be taken.
BindFails(x) ==
  /\ Breakable
  /\ TakeCommand(x, "Bind")
  /\ RunEnds(x)
  /\ UNCHANGED <<awaiting, connections, reliable_send_streams, unreliable_send_streams,
                 accepting, reading, known_streams, datagram, registrations, events,
                 game, history>>

\* Connect awaits the handshake in the loop itself, and unwraps its result.
Connect(x) ==
  /\ TakeCommand(x, "Connect")
  /\ awaiting' = [awaiting EXCEPT ![x] = [on |-> "handshake", link |-> Command(x).conn]]
  /\ link' = [link EXCEPT ![Command(x).conn] = "dialing"]
  /\ UNCHANGED <<running, connections, reliable_send_streams, unreliable_send_streams, tasks,
                 registrations, events, bidis, datagrams, game, history>>

ConnectCompletes(x) ==
  LET l == awaiting[x].link IN
  /\ running[x] /\ awaiting[x].on = "handshake"
  /\ listening[Acceptor[l]]
  /\ link' = [link EXCEPT ![l] = "up"]
  /\ connections' = [connections EXCEPT ![x] = @ \cup {l}]
  /\ Emit(x, Plain("Connected", l))
  /\ reading' = [reading EXCEPT ![x] = @ \cup {l}]
  /\ awaiting' = [awaiting EXCEPT ![x] = Idle]
  /\ UNCHANGED <<running, reliable_send_streams, unreliable_send_streams, listening, accepting,
                 known_streams, datagram, cmd_rx, registrations, bidis, datagrams, game, history>>

ConnectFails(x) ==
  /\ running[x] /\ awaiting[x].on = "handshake"
  /\ Breakable \/ ~running[Acceptor[awaiting[x].link]]
  /\ RunEnds(x)
  /\ UNCHANGED <<awaiting, connections, reliable_send_streams, unreliable_send_streams,
                 accepting, reading, known_streams, datagram, cmd_rx, registrations, events,
                 game, history>>

Refuse(x, why) ==
  dropped' = [dropped EXCEPT ![x] = @ \cup
    {[why |-> why, conn |-> Command(x).conn, stream |-> Command(x).stream]}]

\* A Send for a connection the loop does not hold: nothing happens at all.
SendUnknown(x) ==
  /\ TakeCommand(x, "Send")
  /\ Command(x).conn \notin connections[x]
  /\ Refuse(x, "connection")
  /\ UNCHANGED <<loop, tasks, registrations, events, wire, game, written>>

\* A reliable Send without a SendStream: logged, and gone.
SendStreamless(x) ==
  /\ TakeCommand(x, "Send")
  /\ Command(x).conn \in connections[x]
  /\ is_reliable(Command(x).stream)
  /\ <<Command(x).conn, Command(x).stream>> \notin DOMAIN reliable_send_streams[x]
  /\ Refuse(x, "stream")
  /\ UNCHANGED <<loop, tasks, registrations, events, wire, game, written>>

WriteFrame(b, y, d) == [b EXCEPT !.wire[y] = Append(@, d)]

SendReliable(x) ==
  LET c == Command(x)
      l == c.conn
      key == <<l, c.stream>>
      i == reliable_send_streams[x][key]
  IN
  /\ TakeCommand(x, "Send")
  /\ l \in connections[x]
  /\ is_reliable(c.stream)
  /\ key \in DOMAIN reliable_send_streams[x]
  /\ IF link[l] = "up"
     THEN /\ bidis' = [bidis EXCEPT ![l][i] = WriteFrame(@, Peer(l, x), c.data)]
          /\ written' = [written EXCEPT ![x] = @ \cup {MessageOn(l, c.stream, c.data)}]
          /\ UNCHANGED events
     ELSE /\ Emit(x, Plain("Error", l))
          /\ UNCHANGED <<bidis, written>>
  /\ UNCHANGED <<loop, tasks, registrations, link, datagrams, game, dropped>>

SendDatagram(x) ==
  LET c == Command(x)
      l == c.conn
  IN
  /\ TakeCommand(x, "Send")
  /\ l \in connections[x]
  /\ ~is_reliable(c.stream)
  /\ IF link[l] = "up"
     THEN /\ datagrams' = [datagrams EXCEPT ![l] =
               @ \cup {[to |-> Peer(l, x), stream |-> c.stream, data |-> c.data]}]
          /\ UNCHANGED events
     ELSE /\ Emit(x, Plain("Error", l))
          /\ UNCHANGED datagrams
  /\ UNCHANGED <<loop, tasks, registrations, link, bidis, game, history>>

\* Only Reliable opens a stream; the loop awaits the peer's permission.
CreateReliable(x) ==
  LET c == Command(x) IN
  /\ TakeCommand(x, "CreateStream")
  /\ c.stream.reliability = "Reliable"
  /\ awaiting' = IF c.conn \in connections[x]
                 THEN [awaiting EXCEPT ![x] =
                        [on |-> "stream", link |-> c.conn, stream |-> c.stream]]
                 ELSE awaiting
  /\ UNCHANGED <<running, connections, reliable_send_streams, unreliable_send_streams, tasks,
                 registrations, events, wire, game, history>>

CreateOther(x) ==
  LET c == Command(x) IN
  /\ TakeCommand(x, "CreateStream")
  /\ c.stream.reliability # "Reliable"
  /\ Enrol(x, c.conn, c.stream, 0)
  /\ UNCHANGED <<loop, tasks, conn_reg_rx, events, wire, game, history>>

Spent(b) == b.accepted /\ \A y \in DOMAIN b.wire : b.ended[y] /\ b.wire[y] = <<>>

OpenStreams(x, l) == {i \in DOMAIN bidis[l] : bidis[l][i].opener = x /\ ~Spent(bidis[l][i])}

\* open_bi returns: the stream is there, and enrolled.
OpenBidi(x) ==
  LET l == awaiting[x].link
      s == awaiting[x].stream
  IN
  /\ running[x] /\ awaiting[x].on = "stream"
  /\ link[l] = "up"
  /\ Cardinality(OpenStreams(x, l)) < MaxBidi
  /\ bidis' = [bidis EXCEPT ![l] = Append(@,
       [opener |-> x, stream |-> s, accepted |-> FALSE,
        wire |-> [y \in Ends(l) |-> <<>>], ended |-> [y \in Ends(l) |-> FALSE]])]
  /\ Enrol(x, l, s, Len(bidis[l]) + 1)
  /\ awaiting' = [awaiting EXCEPT ![x] = Idle]
  /\ UNCHANGED <<running, connections, reliable_send_streams, unreliable_send_streams, tasks,
                 cmd_rx, conn_reg_rx, link, datagrams, game, history>>

\* Mutant of OpenCompletes: the game is told before the stream is registered.
OpenAnnounces(x) ==
  OpenBidi(x) /\ Emit(x, OfStream("StreamCreated", awaiting[x].link, awaiting[x].stream))

OpenCompletes(x) == OpenBidi(x) /\ UNCHANGED events

\* open_bi().await.unwrap() on a lost connection: the whole backend panics.
OpenFails(x) ==
  /\ running[x] /\ awaiting[x].on = "stream"
  /\ link[awaiting[x].link] = "down"
  /\ RunEnds(x)
  /\ UNCHANGED <<awaiting, connections, reliable_send_streams, unreliable_send_streams,
                 accepting, reading, known_streams, datagram, cmd_rx, registrations, events,
                 game, history>>

CloseStream(x) ==
  LET c == Command(x)
      key == <<c.conn, c.stream>>
  IN
  /\ TakeCommand(x, "CloseStream")
  /\ reliable_send_streams' = [reliable_send_streams EXCEPT ![x] = Without(@, key)]
  /\ IF key \in DOMAIN reliable_send_streams[x]
     THEN DropSendStream(x, c.conn, reliable_send_streams[x][key])
     ELSE UNCHANGED bidis
  /\ unreliable_send_streams' = [unreliable_send_streams EXCEPT ![x] = @ \ {key}]
  /\ Emit(x, OfStream("StreamClosed", c.conn, c.stream))
  /\ UNCHANGED <<running, awaiting, connections, tasks, registrations, link, datagrams,
                 game, history>>

\* Mutant of Shutdown: the loop goes on.
ShutdownIgnored(x) ==
  /\ TakeCommand(x, "Shutdown")
  /\ UNCHANGED <<loop, tasks, registrations, events, wire, game, history>>

Shutdown(x) ==
  /\ TakeCommand(x, "Shutdown")
  /\ RunEnds(x)
  /\ UNCHANGED <<awaiting, connections, reliable_send_streams, unreliable_send_streams,
                 accepting, reading, known_streams, datagram, registrations, events,
                 game, history>>

-----------------------------------------------------------------------------
(* The accept task: the game hears of a connection before the loop does.   *)

Waiting(x, l) ==
  /\ Acceptor[l] = x
  /\ listening[x] /\ accepting[x] = NoLink
  /\ Plain("Connected", l) \notin Range(events[x])

\* Mutant of AcceptConnected: the game is not told.
AcceptSilently(x, l) ==
  /\ Waiting(x, l) /\ l \notin reading[x]
  /\ link[l] \in {"up", "down"}
  /\ accepting' = [accepting EXCEPT ![x] = l]
  /\ UNCHANGED <<loop, listening, reading, known_streams, datagram, cmd_rx, registrations, events,
                 wire, game, history>>

\* A connection closed just after its handshake may still be accepted.
AcceptConnected(x, l) ==
  /\ Waiting(x, l)
  /\ link[l] \in {"up", "down"}
  /\ Emit(x, Plain("Connected", l))
  /\ accepting' = [accepting EXCEPT ![x] = l]
  /\ UNCHANGED <<loop, listening, reading, known_streams, datagram, cmd_rx, registrations, wire,
                 game, history>>

\* Mutant of AcceptRegister: without spawn_reader.
AcceptWithoutReader(x) ==
  /\ listening[x] /\ accepting[x] # NoLink
  /\ conn_reg_rx' = [conn_reg_rx EXCEPT ![x] = Append(@, accepting[x])]
  /\ accepting' = [accepting EXCEPT ![x] = NoLink]
  /\ UNCHANGED <<loop, listening, reading, known_streams, datagram, cmd_rx, stream_reg_rx, events,
                 wire, game, history>>

AcceptRegister(x) ==
  /\ listening[x] /\ accepting[x] # NoLink
  /\ conn_reg_rx' = [conn_reg_rx EXCEPT ![x] = Append(@, accepting[x])]
  /\ reading' = [reading EXCEPT ![x] = @ \cup {accepting[x]}]
  /\ accepting' = [accepting EXCEPT ![x] = NoLink]
  /\ UNCHANGED <<loop, listening, known_streams, datagram, cmd_rx, stream_reg_rx, events, wire,
                 game, history>>

\* conn.await.unwrap() on a handshake that failed ends the accept task, and with it
\* the endpoint: no other connection comes in.
AcceptFails(x, l) ==
  /\ Waiting(x, l)
  /\ link[l] = "down" \/ (Breakable /\ link[l] = "dialing")
  /\ listening' = [listening EXCEPT ![x] = FALSE]
  /\ UNCHANGED <<loop, accepting, reading, known_streams, datagram, cmd_rx, registrations,
                 events, wire, game, history>>

-----------------------------------------------------------------------------
(* spawn_reader and stream_reading_loop.                                   *)

Reads(x, l) == running[x] /\ l \in reading[x]

ReadDatagram(x, l) ==
  /\ Reads(x, l)
  /\ datagram[x][l] = {}
  /\ \E dg \in datagrams[l] :
       /\ dg.to = x
       /\ datagrams' = [datagrams EXCEPT ![l] = @ \ {dg}]
       /\ datagram' = [datagram EXCEPT ![x][l] = {dg}]
       /\ known_streams' = [known_streams EXCEPT ![x][l] = @ \cup {dg.stream}]
       /\ IF dg.stream \in known_streams[x][l] THEN UNCHANGED stream_reg_rx
          ELSE Enrol(x, l, dg.stream, 0)
  /\ UNCHANGED <<loop, listening, accepting, reading, cmd_rx, conn_reg_rx, events, link, bidis,
                 game, history>>

AnnounceDatagram(x, l) ==
  /\ Reads(x, l)
  /\ \E dg \in datagram[x][l] : Emit(x, MessageOn(l, dg.stream, dg.data))
  /\ datagram' = [datagram EXCEPT ![x][l] = {}]
  /\ UNCHANGED <<loop, listening, accepting, reading, known_streams, cmd_rx, registrations, wire,
                 game, history>>

\* Mutant of AcceptStream: the sending half is not handed to the loop.
AcceptHalf(x, l) ==
  /\ Reads(x, l)
  /\ \E i \in DOMAIN bidis[l] :
       /\ bidis[l][i].opener # x /\ ~bidis[l][i].accepted
       /\ bidis' = [bidis EXCEPT ![l][i].accepted = TRUE]
  /\ link[l] = "up"
  /\ UNCHANGED <<loop, tasks, cmd_rx, registrations, events, link, datagrams, game, history>>

\* The next stream the peer opened: its number is read, its sending half goes
\* to the loop, its receiving half to a reading loop of its own.
AcceptStream(x, l) ==
  /\ Reads(x, l)
  /\ \E i \in DOMAIN bidis[l] :
       /\ bidis[l][i].opener # x /\ ~bidis[l][i].accepted
       /\ \A j \in 1 .. i - 1 : bidis[l][j].opener = x \/ bidis[l][j].accepted
       /\ bidis' = [bidis EXCEPT ![l][i].accepted = TRUE]
       /\ Enrol(x, l, bidis[l][i].stream, i)
  /\ link[l] = "up"
  /\ UNCHANGED <<loop, tasks, cmd_rx, conn_reg_rx, events, link, datagrams, game, history>>

\* Mutant of ReadStream: frames are announced by tasks of their own, in any order.
ReadInAnyOrder(x, l) ==
  /\ Reads(x, l)
  /\ \E i \in DOMAIN bidis[l] :
       LET b == bidis[l][i] IN
       /\ b.opener = x \/ b.accepted
       /\ \E j \in DOMAIN b.wire[x] :
            /\ bidis' = [bidis EXCEPT ![l][i].wire[x] = RemoveAt(@, j)]
            /\ Emit(x, MessageOn(l, b.stream, b.wire[x][j]))
  /\ UNCHANGED <<loop, tasks, cmd_rx, registrations, link, datagrams, game, history>>

ReadStream(x, l) ==
  /\ Reads(x, l)
  /\ \E i \in DOMAIN bidis[l] :
       LET b == bidis[l][i] IN
       /\ b.opener = x \/ b.accepted
       /\ b.wire[x] # <<>>
       /\ bidis' = [bidis EXCEPT ![l][i].wire[x] = Tail(@)]
       /\ Emit(x, MessageOn(l, b.stream, Head(b.wire[x])))
  /\ UNCHANGED <<loop, tasks, cmd_rx, registrations, link, datagrams, game, history>>

-----------------------------------------------------------------------------
Game(x) ==
  \/ Poll(x)
  \/ AskShutdown(x)
  \/ \E l \in LinksOf(x) :
       \/ \E s \in Creates[x] : AskCreate(x, l, s) \/ AskClose(x, l, s)
       \/ \E s \in UNION {Creates[y] : y \in Ends(l)} : AskSend(x, l, s)

Commands(x) ==
  \/ Bind(x) \/ BindFails(x) \/ Connect(x) \/ CreateReliable(x) \/ CreateOther(x) \/ CloseStream(x) \/ Shutdown(x)
  \/ SendUnknown(x) \/ SendStreamless(x) \/ SendReliable(x) \/ SendDatagram(x)

Awaited(x) == ConnectCompletes(x) \/ ConnectFails(x) \/ OpenCompletes(x) \/ OpenFails(x)

Accept(x) ==
  AcceptRegister(x) \/ \E l \in LinksOf(x) : AcceptConnected(x, l) \/ AcceptFails(x, l)

DatagramReader(x, l) == ReadDatagram(x, l) \/ AnnounceDatagram(x, l)

StreamReader(x, l) == AcceptStream(x, l) \/ ReadStream(x, l)

Next ==
  \/ \E x \in Nodes :
       \/ Game(x)
       \/ RegisterConnection(x) \/ RegisterStream(x) \/ Commands(x) \/ Awaited(x)
       \/ Accept(x)
       \/ \E l \in LinksOf(x) : DatagramReader(x, l) \/ StreamReader(x, l)
  \/ \E l \in Links : LinkLost(l) \/ DatagramLost(l)

Spec == Init /\ [][Next]_vars

\* select! polls its branches in random order, so none is starved for ever; the
\* tasks run on the runtime's threads. The game is fair only in polling.
Fairness ==
  \A x \in Nodes :
    /\ WF_vars(Poll(x))
    /\ WF_vars(RegisterConnection(x)) /\ WF_vars(RegisterStream(x))
    /\ WF_vars(Commands(x)) /\ WF_vars(Awaited(x))
    /\ WF_vars(Accept(x))
    /\ \A l \in Links : WF_vars(DatagramReader(x, l)) /\ WF_vars(StreamReader(x, l))

FairSpec == Spec /\ Fairness

-----------------------------------------------------------------------------
(* Properties.                                                             *)

\* Type invariant; a registered SendStream is one of the link's own streams.
TypeOK ==
  /\ running \in [Nodes -> BOOLEAN] /\ listening \in [Nodes -> BOOLEAN]
  /\ accepting \in [Nodes -> Links \cup {NoLink}]
  /\ connections \in [Nodes -> SUBSET Links] /\ reading \in [Nodes -> SUBSET Links]
  /\ link \in [Links -> {"new", "dialing", "up", "down"}]
  /\ \A x \in Nodes :
       /\ polled[x] \in 0 .. Len(events[x])
       /\ \A key \in DOMAIN reliable_send_streams[x] \cup unreliable_send_streams[x] :
            key \in Links \X Streams
       /\ \A key \in DOMAIN reliable_send_streams[x] :
            reliable_send_streams[x][key] \in DOMAIN bidis[key[1]]
       /\ \A l \in Links : Cardinality(datagram[x][l]) <= 1

Before(x, i) == {events[x][j] : j \in 1 .. i - 1}

\* A game hears Connected before anything else about a connection, although
\* four tasks write to the same channel of events (lines 129, 148, 167, 268, 301).
ConnectedFirst ==
  \A x \in Nodes : \A i \in DOMAIN events[x] :
    events[x][i].type # "Connected" =>
      Plain("Connected", events[x][i].conn) \in Before(x, i)

IsMessage(e, l, s) == e.type = "Message" /\ e.conn = l /\ e.stream = s

\* What came by a stream, among the first n events.
Received(x, l, s, n) ==
  {events[x][i].data : i \in {j \in 1 .. n : IsMessage(events[x][j], l, s)}}

Written(x, l, s) == {m.data : m \in {w \in written[x] : w.conn = l /\ w.stream = s}}

\* What a game receives on a reliable stream is a prefix of what the other one
\* wrote to it, each piece once, whatever the tasks in between do (README:
\* "Reliable (ordered delivery)"). Sends are numbered, so the order of numbers is
\* that of writing.
ReliableInOrder ==
  \A l \in Links : \A x \in Ends(l) : \A s \in UNION {Creates[y] : y \in Ends(l)} :
    is_reliable(s) =>
      \A n \in DOMAIN events[x] : IsMessage(events[x][n], l, s) =>
        LET d == events[x][n].data IN
        /\ d \notin Received(x, l, s, n - 1)
        /\ Received(x, l, s, n) = {w \in Written(Peer(l, x), l, s) : w <= d}

\* The ways of the reliable streams, each named by its sender, its connection and its number.
ReliableWays ==
  {w \in Nodes \X Links \X UNION {Creates[x] : x \in Nodes} :
     w[1] \in Ends(w[2]) /\ is_reliable(w[3])}

\* The frames x has written to a stream and its peer has yet to read.
InFlight(x, l, s) ==
  LET I == {i \in DOMAIN bidis[l] : bidis[l][i].stream = s} IN
  IF I = {} THEN <<>> ELSE bidis[l][CHOOSE i \in I : TRUE].wire[Peer(l, x)]

\* The last message the game of x was told of.
LastCame(x, l, s) ==
  LET I == {i \in DOMAIN events[x] : IsMessage(events[x][i], l, s)} IN
  IF I = {} THEN 0 ELSE events[x][Max(I)].data

AbstractPipe == INSTANCE Pipe WITH
  Ways <- ReliableWays, Packets <- 1 .. MaxSends, Nothing <- 0,
  transit <- [w \in ReliableWays |-> InFlight(w[1], w[2], w[3])],
  got <- [w \in ReliableWays |-> LastCame(Peer(w[2], w[1]), w[2], w[3])],
  cut <- [w \in ReliableWays |-> link[w[2]] = "down"]

\* A frame written to a reliable stream (line 183) is not lost, doubled or overtaken
\* before the other game has it, unless the connection is lost; not even when the
\* sender has closed the stream since (228): dropping a SendStream finishes the
\* stream and takes nothing back from it.
ImplementsPipe == AbstractPipe!Spec

\* A stream is announced to the game once, although commands, accepted streams
\* and the datagram reader all register it (lines 118-129): between two
\* StreamCreated of it there is a StreamClosed.
AnnouncedOnce ==
  \A x \in Nodes : \A i, j \in DOMAIN events[x] :
    i < j /\ events[x][i].type = "StreamCreated" /\ events[x][j] = events[x][i] =>
      \E m \in i .. j : events[x][m] =
        OfStream("StreamClosed", events[x][i].conn, events[x][i].stream)

\* The last the game hears of the stream is that it is there.
Announced(x, l, s) ==
  \E i \in DOMAIN events[x] :
    /\ events[x][i] = OfStream("StreamCreated", l, s)
    /\ \A j \in DOMAIN events[x] : j > i => events[x][j] # OfStream("StreamClosed", l, s)

\* A Reliable stream announced to the game and not closed since has its
\* SendStream in the table: StreamCreated comes after the registration (121-129).
UsableOnceCreated ==
  \A x \in Nodes : \A l \in LinksOf(x) :
    \A s \in UNION {Creates[y] : y \in Ends(l)} :
      s.reliability = "Reliable" /\ Announced(x, l, s) =>
        <<l, s>> \in DOMAIN reliable_send_streams[x]

\* A frame written on a stream reaches the other game, or the connection is lost.
WrittenArrives ==
  \A l \in Links : \A x \in Ends(l) : \A s \in Creates[Dialer[l]], d \in 1 .. MaxSends :
    MessageOn(l, s, d) \in written[x] ~>
      \/ MessageOn(l, s, d) \in Range(events[Peer(l, x)])
      \/ link[l] = "down"

\* A stream the dialing game asks for is announced at both ends, or the
\* connection is lost.
CreatedAtBothEnds ==
  \A l \in Links : \A s \in Creates[Dialer[l]] :
    <<l, s>> \in created[Dialer[l]] /\ s.reliability = "Reliable" ~>
      \/ \A x \in Ends(l) : OfStream("StreamCreated", l, s) \in Range(events[x])
      \/ link[l] = "down"

\* A Shutdown ends the backend's loop, so that GamePeer::shutdown can join it.
ShutdownEnds ==
  \A x \in Nodes :
    (\E i \in DOMAIN cmd_rx[x] : cmd_rx[x][i].op = "Shutdown") ~> ~running[x]

\* A reliable Send is refused for want of its SendStream (174-178) only if the
\* game has closed the stream itself, or answers on a stream whose registration
\* is still queued: a registration is never lost, only late.
RefusedOnlyEarly ==
  [][\A x \in Nodes : SendStreamless(x) =>
       LET c == Command(x) IN
       \/ <<c.conn, c.stream>> \in closed[x]
       \/ \E r \in Range(stream_reg_rx[x]) :
            r.conn = c.conn /\ r.stream = c.stream /\ r.bidi # 0]_vars
=============================================================================
