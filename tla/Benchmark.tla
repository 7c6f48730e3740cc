------------------------------ MODULE Benchmark ------------------------------
(***************************************************************************)
(* The benchmark of game_sockets: run_benchmark of src/bin/client.rs, the  *)
(* echo of src/bin/server.rs, MetricsRecorder (src/bin/utils/metrics.rs),  *)
(* and what src/bin/stats.rs computes from the file of one run.            *)
(*                                                                         *)
(* The client polls all events, then sends what its two timers ask for,    *)
(* then checks whether to stop. An event that waits in a queue, and an     *)
(* answer on its way back, are seen as still on the way there: neither the *)
(* client nor the server can tell. Time is counted in units of which       *)
(* Second make a second.                                                   *)
(***************************************************************************)
EXTENDS Integers, FiniteSets, SequencesExt

CONSTANTS
  Second,     \* units of time
  Interval,   \* Interval[s]: between two packets of a stream, in units
  Warmup, Duration,  \* in seconds
  Datagrams,  \* the streams whose packets may be lost, doubled and overtaken
  Faults,     \* may the connection be lost, the backend end, the file fail?
  MaxCopies,  \* bound on the packets the network doubles
  MaxNow,     \* the model's time ends here
  Never

Streams == {"unreliable", "reliable"}

ASSUME TimesAssumption ==
  /\ Second \in Nat \ {0} /\ Interval \in [Streams -> Nat \ {0}]
  /\ Warmup \in Nat /\ Duration \in Nat /\ Never \notin Nat /\ Datagrams \subseteq Streams

VARIABLES
  now,
  (* run_benchmark *)
  phase,      \* "running", "dropping" the recorder, or "finished"
  server_id,  \* is there a connection?
  benchmark_start,
  game_stream,       \* the streams there are, of the two
  last_tick,  \* last_60hz_tick, last_20hz_tick
  need_stop,
  packet_sequences,
  (* the network and the server *)
  under_way,  \* under_way[s]: packets sent and not answered yet
  copies,
  (* MetricsRecorder *)
  recording,  \* has the thread not failed?
  channel, file,
  (* for the properties: the packets lost on the way, and those answered in the *)
  (* first Warmup + 1 seconds *)
  dropped, early

client == <<phase, server_id, benchmark_start, game_stream, last_tick, need_stop, packet_sequences>>
network == <<under_way, copies, dropped>>
recorder == <<recording, channel, file>>
vars == <<now, client, network, recorder, early>>

Ids(s) == 0 .. packet_sequences[s] - 1

Init ==
  /\ now = 0
  /\ phase = "running" /\ server_id = FALSE /\ benchmark_start = Never
  /\ game_stream = {} /\ last_tick = [s \in Streams |-> 0] /\ need_stop = FALSE
  /\ packet_sequences = [s \in Streams |-> 0]
  /\ under_way = [s \in Streams |-> <<>>] /\ copies = 0
  /\ recording = TRUE /\ channel = EmptyBag /\ file = EmptyBag
  /\ dropped = [s \in Streams |-> {}] /\ early = [s \in Streams |-> {}]

Pass == now < MaxNow /\ now' = now + 1 /\ UNCHANGED <<client, network, recorder, early>>

-----------------------------------------------------------------------------
(* run_benchmark: the events. Errors change nothing; the client closes no  *)
(* stream, so none is reported closed.                                     *)

\* (Early enough for the model's time to last the duration.)
PollConnected ==
  /\ phase = "running" /\ ~server_id /\ benchmark_start = Never
  /\ now + Duration * Second <= MaxNow
  /\ server_id' = TRUE
  /\ benchmark_start' = now
  /\ UNCHANGED <<now, phase, game_stream, last_tick, need_stop, packet_sequences, network,
                 recorder, early>>

\* The streams asked for on Connected come in any order, soon, late or never.
PollStreamCreated(s) ==
  /\ phase = "running" /\ benchmark_start # Never /\ s \notin game_stream
  /\ game_stream' = game_stream \cup {s}
  /\ UNCHANGED <<now, phase, server_id, benchmark_start, last_tick, need_stop, packet_sequences,
                 network, recorder, early>>

\* It leaves the loop of events, finds no server_id, and stops.
PollDisconnected ==
  /\ Faults /\ phase = "running" /\ server_id
  /\ server_id' = FALSE /\ need_stop' = TRUE /\ phase' = "dropping"
  /\ UNCHANGED <<now, benchmark_start, game_stream, last_tick, packet_sequences, network,
                 recorder, early>>

\* poll()? fails once the backend's thread is gone; what was recorded is kept.
PollFails ==
  /\ Faults /\ phase = "running" /\ phase' = "dropping"
  /\ UNCHANGED <<now, server_id, benchmark_start, game_stream, last_tick, need_stop,
                 packet_sequences, network, recorder, early>>

\* Mutant of Warm: the warm-up is over after Warmup seconds.
WarmAfterWarmup == (now - benchmark_start) \div Second >= Warmup

\* as_secs() counts whole seconds.
Warm == (now - benchmark_start) \div Second > Warmup

\* The answer to packet p: the server sends back what it reads, unchanged.
PollMessage(s, p) ==
  LET record == [packet_id |-> p.id, stream_id |-> s, rtt_us |-> now - p.timestamp]
      soon == now < benchmark_start + (Warmup + 1) * Second IN
  /\ phase = "running" /\ server_id
  /\ channel' = IF Warm THEN channel (+) SetToBag({record}) ELSE channel
  /\ early' = IF soon THEN [early EXCEPT ![s] = @ \cup {p.id}] ELSE early
  /\ UNCHANGED <<now, client, dropped, recording, file>>

-----------------------------------------------------------------------------
(* run_benchmark: the packets. One per timer and round: a timer that is    *)
(* late is due again at once, until it has caught up.                      *)

due(s) == now - last_tick[s] >= Interval[s]

\* `let Some(ref stream) = ... else { continue }`, the unreliable one first.
missing(s) == due(s) /\ s \notin game_stream
continues == \E s \in Streams : missing(s)
sends(s) == due(s) /\ s \in game_stream /\ ~(s = "reliable" /\ missing("unreliable"))

\* Mutant of send_packets: a timer starts again when it is served.
send_packetsDrifting ==
  /\ packet_sequences' = [s \in Streams |-> packet_sequences[s] + IF sends(s) THEN 1 ELSE 0]
  /\ last_tick' = [s \in Streams |-> IF sends(s) THEN now ELSE last_tick[s]]
  /\ under_way' = [s \in Streams |->
       IF sends(s) THEN Append(under_way[s], [id |-> packet_sequences[s], timestamp |-> now])
       ELSE under_way[s]]

send_packets ==
  /\ packet_sequences' = [s \in Streams |-> packet_sequences[s] + IF sends(s) THEN 1 ELSE 0]
  /\ last_tick' = [s \in Streams |-> last_tick[s] + IF sends(s) THEN Interval[s] ELSE 0]
  /\ under_way' = [s \in Streams |->
       IF sends(s) THEN Append(under_way[s], [id |-> packet_sequences[s], timestamp |-> now])
       ELSE under_way[s]]

\* Mutant of Elapsed: an instant that a late round misses.
ElapsesAt == now - benchmark_start = Duration * Second

Elapsed == now - benchmark_start >= Duration * Second

\* A round without a server only spins. A missing stream skips the check of need_stop.
Round ==
  /\ phase = "running" /\ server_id
  /\ need_stop' = (need_stop \/ Elapsed)
  /\ send_packets
  /\ phase' = IF need_stop' /\ ~continues THEN "dropping" ELSE phase
  /\ UNCHANGED <<now, server_id, benchmark_start, game_stream, copies, dropped, recorder, early>>

-----------------------------------------------------------------------------
(* The network. A packet damaged on the way is refused by                  *)
(* BenchmarkPacket::from_bytes, at either end: it is lost.                 *)

Next1(s) == IF s \in Datagrams THEN DOMAIN under_way[s] ELSE DOMAIN under_way[s] \cap {1}

Arrive(s) ==
  \E i \in Next1(s) :
    /\ PollMessage(s, under_way[s][i])
    /\ \/ under_way' = [under_way EXCEPT ![s] = RemoveAt(@, i)] /\ UNCHANGED copies
       \/ /\ s \in Datagrams /\ copies < MaxCopies
          /\ copies' = copies + 1 /\ UNCHANGED under_way

\* The server's backend drops a reply that reaches its loop before the stream, or
\* the peer, is registered: on a stream in order, only before the first that gets through.
Unregistered(s) == 0 .. under_way[s][1].id - 1 \subseteq dropped[s]

Lose(s) ==
  /\ phase = "running"
  /\ \E i \in Next1(s) :
       /\ s \in Datagrams \/ Unregistered(s)
       /\ dropped' = [dropped EXCEPT ![s] = @ \cup {under_way[s][i].id}]
       /\ under_way' = [under_way EXCEPT ![s] = RemoveAt(@, i)]
  /\ UNCHANGED <<now, client, copies, recorder, early>>

-----------------------------------------------------------------------------
(* MetricsRecorder: a thread writes what comes through the channel. Nobody *)
(* reads the file before the end, so what the thread has written until the *)
(* client stops is seen as still in the channel. Both are bags of records: *)
(* no statistic depends on their order.                                    *)

WriteRecord ==
  /\ phase = "dropping" /\ recording
  /\ \E r \in BagToSet(channel) :
       file' = file (+) SetToBag({r}) /\ channel' = channel (-) SetToBag({r})
  /\ UNCHANGED <<now, client, network, recording, early>>

\* The thread panics if it cannot create the file, write to it or flush it; what was
\* buffered or comes later is not written. Nobody notices: record ignores that
\* the channel is closed, drop ignores the result of join.
RecorderFails ==
  /\ Faults /\ phase = "dropping" /\ recording
  /\ recording' = FALSE
  /\ UNCHANGED <<now, client, network, channel, file, early>>

\* Mutant of Drop: the thread is not joined.
DropAndGo ==
  /\ phase = "dropping"
  /\ phase' = "finished" /\ channel' = EmptyBag
  /\ UNCHANGED <<now, server_id, benchmark_start, game_stream, last_tick, need_stop,
                 packet_sequences, network, recording, file, early>>

\* Drop closes the channel and joins the thread, which ends when it is empty.
Drop ==
  /\ phase = "dropping" /\ (channel = EmptyBag \/ ~recording)
  /\ phase' = "finished"
  /\ UNCHANGED <<now, server_id, benchmark_start, game_stream, last_tick, need_stop,
                 packet_sequences, network, recorder, early>>

-----------------------------------------------------------------------------
Polls ==
  \/ PollConnected \/ PollDisconnected \/ PollFails
  \/ \E s \in Streams : PollStreamCreated(s) \/ Arrive(s)

Next == Pass \/ Polls \/ Round \/ WriteRecord \/ RecorderFails \/ Drop \/ \E s \in Streams : Lose(s)

Spec == Init /\ [][Next]_vars

\* The loop spins, the recorder's thread runs, and time passes. Nothing is
\* assumed of the network, the server or the backend.
FairSpec == Spec /\ WF_vars(Pass) /\ WF_vars(Round) /\ WF_vars(WriteRecord) /\ WF_vars(Drop)

-----------------------------------------------------------------------------
(* stats.rs: the report of the file of one run. Rates and means are left   *)
(* out; so is the aggregation over runs.                                   *)

stream_records(s) == {r \in BagToSet(file) : r.stream_id = s}
lines(s) == UNION {{r} \X (1 .. file[r]) : r \in stream_records(s)}
max_id(s) == Max({r.packet_id : r \in stream_records(s)})
received(s) == Cardinality(lines(s))
sent(s) == IF received(s) > 0 THEN max_id(s) + 1 ELSE 0
saturating_sub(a, b) == IF a > b THEN a - b ELSE 0

\* Mutant of lost: a difference on u64, of which duplicates make a huge number.
lostWrapped(s) == IF sent(s) >= received(s) THEN sent(s) - received(s) ELSE 2^20

lost(s) == saturating_sub(sent(s), received(s))

rtts(s) ==
  LET sorted == CHOOSE q \in SetToSeqs(lines(s)) :
        \A i, j \in DOMAIN q : i < j => q[i][1].rtt_us <= q[j][1].rtt_us IN
  [i \in DOMAIN sorted |-> sorted[i][1].rtt_us]

index(pct, n) == (pct * (n - 1)) \div 100

\* Mutant of percentile: the length for the last index.
percentileNext(sorted_data, pct) ==
  IF sorted_data = <<>> THEN 0 ELSE sorted_data[(pct * Len(sorted_data)) \div 100 + 1]

percentile(sorted_data, pct) ==
  IF sorted_data = <<>> THEN 0 ELSE sorted_data[index(pct, Len(sorted_data)) + 1]

-----------------------------------------------------------------------------
(* Properties.                                                             *)

\* Type invariant: among others, a timer never runs ahead of the clock.
TypeOK ==
  /\ phase \in {"running", "dropping", "finished"}
  /\ server_id \in BOOLEAN /\ need_stop \in BOOLEAN /\ recording \in BOOLEAN
  /\ benchmark_start \in Nat \cup {Never} /\ game_stream \subseteq Streams
  /\ \A s \in Streams :
       /\ packet_sequences[s] \in Nat
       /\ last_tick[s] = Interval[s] * packet_sequences[s] /\ last_tick[s] <= now
       /\ dropped[s] \cup early[s] \subseteq Ids(s)
       /\ \A p \in ToSet(under_way[s]) : p.id \in Ids(s) /\ p.timestamp <= now
  /\ \A r \in BagToSet(channel) \cup BagToSet(file) : r.packet_id \in Ids(r.stream_id) /\ r.rtt_us \in Nat

Finished == phase = "finished"

UnderWay(s) == {p.id : p \in ToSet(under_way[s])}
Filed(s) == {r.packet_id : r \in stream_records(s)}
Unwritten(s) == {r.packet_id : r \in {q \in BagToSet(channel) : q.stream_id = s}}

\* Whatever ends the run (the duration, a lost connection, an error), every
\* packet sent is in the file, unless it was lost or is still under way, or its
\* answer came in the first Warmup + 1 seconds: dropping the recorder waits for its
\* thread (metrics.rs lines 66-75), also when poll()? returns an error (client.rs
\* 92). Unless the thread has failed: then the file is short, and nobody is told.
EveryPacketAccountedFor ==
  Finished /\ recording => \A s \in Streams :
    Filed(s) \cup UnderWay(s) \cup dropped[s] \cup early[s] = Ids(s)

\* What stats reports as lost of a stream never exceeds what is missing from the
\* file up to the last packet in it, also when packets are doubled: duplicates
\* count as received and hide losses, and the subtraction saturates (stats.rs
\* lines 612-615). What is missing is not all lost: the warm-up is missing too.
LossNotOverstated ==
  Finished => \A s \in Streams : lost(s) <=
    Cardinality({i \in 0 .. sent(s) - 1 :
      i \in (dropped[s] \cup UnderWay(s) \cup early[s] \cup Unwritten(s)) \ Filed(s)})

\* On a stream that delivers in order, what stats reports as lost are the replies
\* dropped before the server's end was registered and all the packets answered in the
\* first Warmup + 1 seconds, and nothing after: `as_secs() > args.warmup` (client.rs
\* line 122) takes one second more than the warm-up, and stats counts what is not
\* in the file up to its last packet (stats.rs lines 612-615).
InOrderLossExact ==
  Finished /\ recording => \A s \in Streams \ Datagrams :
    received(s) > 0 => lost(s) = Cardinality(dropped[s] \cup early[s])

\* The percentiles of a report have their rank among the round trips measured: at
\* most that share of the others is below, and more than that share of them is
\* not above (stats.rs lines 541-545, called with the sorted round trips).
PercentilesHaveTheirRank ==
  Finished => \A s \in Streams, pct \in {50, 90, 95, 99} :
    LET data == rtts(s)
        n == Len(data)
        v == percentile(data, pct) IN
    n > 0 => /\ 100 * Cardinality({i \in 1 .. n : data[i] < v}) <= pct * (n - 1)
             /\ pct * (n - 1) < 100 * Cardinality({i \in 1 .. n : data[i] <= v})

\* "Benchmark duration reached. Stopping." (line 161): once it has its streams,
\* a client stops and its file is complete. Without a connection, or as long as
\* a stream is missing (lines 170 and 177), it goes on for ever.
StopsWithItsStreams == game_stream = Streams ~> Finished
=============================================================================
