-------------------------- MODULE GameSocketProofs --------------------------
(***************************************************************************)
(* Lemmas about the events of GameSocket: what emitting one or two of them *)
(* does to what a game was told, and when it surprises no game. The proofs *)
(* about the backends rest on them.                                        *)
(***************************************************************************)
EXTENDS GameSocket, SequenceTheorems, TLAPS

\* A queue of some commands is one of more.
LEMMA MoreAllowed == ASSUME NEW S, NEW T, S \subseteq T PROVE Seq(S) \subseteq Seq(T)
OBVIOUS

\* Taking from a queue.
LEMMA TakenFrom ==
  ASSUME NEW S, NEW q \in Seq(S), q # <<>>
  PROVE  /\ Head(q) \in S /\ Tail(q) \in Seq(S)
         /\ Len(q) \in Nat /\ Len(Tail(q)) \in Nat /\ Len(Tail(q)) <= Len(q)
         /\ q = <<Head(q)>> \o Tail(q)
<1>1. Len(q) \in Nat /\ Len(q) # 0 /\ DOMAIN q = 1 .. Len(q) /\ Head(q) = q[1]
  BY EmptySeq
<1>2. /\ Tail(q) \in Seq(S) /\ Len(Tail(q)) = Len(q) - 1
      /\ \A i \in 1 .. Len(q) - 1 : Tail(q)[i] = q[i + 1]
  BY <1>1, HeadTailProperties
<1>3. Head(q) \in S
  BY <1>1
<1> DEFINE h == Head(q)
           t == Tail(q)
           u == <<h>> \o t
<1> HIDE DEF h, t
<1>4. /\ u \in Seq(S) /\ Len(u) = 1 + Len(t) /\ u[1] = h
      /\ \A i \in 2 .. 1 + Len(t) : u[i] = t[i - 1]
  BY <1>2, <1>3 DEF h, t
<1> HIDE DEF u
<1>5. ASSUME NEW i \in 1 .. Len(u) PROVE u[i] = q[i]
  <2>1. CASE i = 1
    BY <1>1, <1>4, <2>1 DEF h
  <2>2. CASE i # 1
    <3>1. u[i] = t[i - 1] /\ i - 1 \in 1 .. Len(q) - 1 /\ (i - 1) + 1 = i
      BY <1>1, <1>2, <1>4, <1>5, <2>2 DEF t
    <3>2. t[i - 1] = q[(i - 1) + 1]
      BY <1>2, <3>1 DEF t
    <3>3. QED BY <3>1, <3>2
  <2>3. QED BY <2>1, <2>2
<1>6. u = q
  BY <1>1, <1>2, <1>4, <1>5, SeqEqual DEF t
<1>7. QED BY <1>1, <1>2, <1>3, <1>6 DEF u, h, t

\* What remains of one event.
LastingOf(e) ==
  IF e.type \in {"Connected", "Disconnected"} \/ (e.type = "StreamCreated" /\ e.by = "peer")
  THEN {e} ELSE {}

\* Nothing told, nothing lasting.
LEMMA LastingEmpty == Lasting(<<>>) = {}
BY DEF Lasting, ToSet

\* What one event leaves known.
LEMMA LastingOne == ASSUME NEW e PROVE Lasting(<<e>>) = LastingOf(e)
<1>1. ToSet(<<e>>) = {e}
  BY DEF ToSet
<1>2. QED BY <1>1 DEF Lasting, LastingOf

\* What two events leave known.
LEMMA LastingTwo ==
  ASSUME NEW e, NEW f
  PROVE  Lasting(<<e, f>>) = LastingOf(e) \cup LastingOf(f)
<1>1. ToSet(<<e, f>>) = {e, f}
  BY DEF ToSet
<1>2. QED BY <1>1 DEF Lasting, LastingOf

\* The events before one of a short sequence.
LEMMA BeforeFirst == ASSUME NEW es PROVE SubSeq(es, 1, 0) = <<>>
BY SubSeqEmpty

\* What precedes the second of two events.
LEMMA BeforeSecond == ASSUME NEW e, NEW f PROVE SubSeq(<<e, f>>, 1, 1) = <<e>>
<1> DEFINE s == SubSeq(<<e, f>>, 1, 1)
<1>1. \A i \in 1 .. 1 : <<e, f>>[i] \in {e, f}
  OBVIOUS
<1>2. s \in Seq({e, f}) /\ Len(s) = 1 /\ s[1] = e
  BY <1>1, SubSeqProperties
<1>3. <<e>> \in Seq({e, f}) /\ Len(<<e>>) = 1 /\ <<e>>[1] = e
  OBVIOUS
<1>4. \A i \in 1 .. Len(s) : s[i] = <<e>>[i]
  BY <1>2, <1>3
<1> HIDE DEF s
<1>5. s = <<e>>
  BY <1>2, <1>3, <1>4, SeqEqual
<1>6. QED BY <1>5 DEF s

\* A single event that the game may expect.
LEMMA EmitOne ==
  ASSUME NEW x \in Nodes, NEW e, Emit(x, <<e>>), Expected(e, told[x])
  PROVE  /\ told' = [told EXCEPT ![x] = @ \cup LastingOf(e)]
         /\ surprised' = surprised
<1>1. ASSUME NEW i \in DOMAIN <<e>>
      PROVE  Expected(<<e>>[i], told[x] \cup Lasting(SubSeq(<<e>>, 1, i - 1)))
  <2>1. i = 1 /\ i - 1 = 0 /\ <<e>>[i] = e
    OBVIOUS
  <2>2. told[x] \cup Lasting(SubSeq(<<e>>, 1, i - 1)) = told[x]
    BY <2>1, BeforeFirst, LastingEmpty
  <2>3. QED BY <2>1, <2>2
<1>2. QED BY <1>1, LastingOne DEF Emit

\* Two events, the second expected after the first.
LEMMA EmitTwo ==
  ASSUME NEW x \in Nodes, NEW e, NEW f, Emit(x, <<e, f>>),
         Expected(e, told[x]), Expected(f, told[x] \cup LastingOf(e))
  PROVE  /\ told' = [told EXCEPT ![x] = @ \cup LastingOf(e) \cup LastingOf(f)]
         /\ surprised' = surprised
<1>1. ASSUME NEW i \in DOMAIN <<e, f>>
      PROVE  Expected(<<e, f>>[i], told[x] \cup Lasting(SubSeq(<<e, f>>, 1, i - 1)))
  <2>1. CASE i = 1
    <3>1. i - 1 = 0 /\ <<e, f>>[i] = e
      BY <2>1
    <3>2. told[x] \cup Lasting(SubSeq(<<e, f>>, 1, i - 1)) = told[x]
      BY <3>1, BeforeFirst, LastingEmpty
    <3>3. QED BY <3>1, <3>2
  <2>2. CASE i = 2
    <3>1. i - 1 = 1 /\ <<e, f>>[i] = f
      BY <2>2
    <3>2. told[x] \cup Lasting(SubSeq(<<e, f>>, 1, i - 1)) = told[x] \cup LastingOf(e)
      BY <3>1, BeforeSecond, LastingOne
    <3>3. QED BY <3>1, <3>2
  <2>3. QED BY <2>1, <2>2
<1>2. told[x] \cup Lasting(<<e, f>>) = told[x] \cup LastingOf(e) \cup LastingOf(f)
  BY LastingTwo
<1>3. QED BY <1>1, <1>2 DEF Emit

\* Three events, each expected after those before.
LEMMA BeforeThird == ASSUME NEW e, NEW f, NEW g
  PROVE SubSeq(<<e, f, g>>, 1, 1) = <<e>> /\ SubSeq(<<e, f, g>>, 1, 2) = <<e, f>>
<1> DEFINE s == SubSeq(<<e, f, g>>, 1, 1)
           t == SubSeq(<<e, f, g>>, 1, 2)
<1>1. \A i \in 1 .. 2 : <<e, f, g>>[i] \in {e, f, g}
  OBVIOUS
<1>2. /\ s \in Seq({e, f, g}) /\ Len(s) = 1 /\ s[1] = e
      /\ t \in Seq({e, f, g}) /\ Len(t) = 2 /\ t[1] = e /\ t[2] = f
  <2>1. s \in Seq({e, f, g}) /\ Len(s) = 1 /\ \A i \in 1 .. 1 : s[i] = <<e, f, g>>[i]
    <3>1. \A i \in 1 .. 1 : <<e, f, g>>[i] \in {e, f, g}
      BY <1>1
    <3>2. QED BY <3>1, SubSeqProperties
  <2>2. t \in Seq({e, f, g}) /\ Len(t) = 2 /\ \A i \in 1 .. 2 : t[i] = <<e, f, g>>[i]
    BY <1>1, SubSeqProperties
  <2> HIDE DEF s, t
  <2>3. QED BY <2>1, <2>2
<1>3. /\ <<e>> \in Seq({e, f, g}) /\ Len(<<e>>) = 1 /\ <<e>>[1] = e
      /\ <<e, f>> \in Seq({e, f, g}) /\ Len(<<e, f>>) = 2
      /\ <<e, f>>[1] = e /\ <<e, f>>[2] = f
  OBVIOUS
<1> HIDE DEF s, t
<1>4. \A i \in 1 .. Len(s) : s[i] = <<e>>[i]
  BY <1>2, <1>3
<1>5. \A i \in 1 .. Len(t) : t[i] = <<e, f>>[i]
  BY <1>2, <1>3
<1>6. s = <<e>>
  BY <1>2, <1>3, <1>4, SeqEqual
<1>7. t = <<e, f>>
  BY <1>2, <1>3, <1>5, SeqEqual
<1>8. QED BY <1>6, <1>7 DEF s, t

\* One event and two more are three.
LEMMA OneAndTwo == ASSUME NEW e, NEW f, NEW g PROVE <<e>> \o <<f, g>> = <<e, f, g>>
<1> DEFINE s == <<e>> \o <<f, g>>
           t == <<e, f, g>>
           S == {e, f, g}
<1>1. <<e>> \in Seq(S) /\ <<f, g>> \in Seq(S) /\ t \in Seq(S)
  OBVIOUS
<1>2. s \in Seq(S) /\ Len(s) = 3 /\ s[1] = e /\ s[2] = f /\ s[3] = g
  BY <1>1
<1>3. Len(t) = 3 /\ t[1] = e /\ t[2] = f /\ t[3] = g
  OBVIOUS
<1> HIDE DEF s, t, S
<1>4. \A i \in 1 .. Len(s) : s[i] = t[i]
  BY <1>2, <1>3
<1>5. s = t
  BY <1>1, <1>2, <1>3, <1>4, SeqEqual
<1>6. QED BY <1>5 DEF s, t

\* Three events told in one step.
LEMMA EmitThree ==
  ASSUME NEW x \in Nodes, NEW e, NEW f, NEW g, Emit(x, <<e, f, g>>),
         Expected(e, told[x]), Expected(f, told[x] \cup LastingOf(e)),
         Expected(g, told[x] \cup LastingOf(e) \cup LastingOf(f))
  PROVE  /\ told' = [told EXCEPT ![x] = @ \cup LastingOf(e) \cup LastingOf(f) \cup LastingOf(g)]
         /\ surprised' = surprised
<1>1. ASSUME NEW i \in DOMAIN <<e, f, g>>
      PROVE  Expected(<<e, f, g>>[i], told[x] \cup Lasting(SubSeq(<<e, f, g>>, 1, i - 1)))
  <2>1. CASE i = 1
    <3>1. i - 1 = 0 /\ <<e, f, g>>[i] = e
      BY <2>1
    <3>2. told[x] \cup Lasting(SubSeq(<<e, f, g>>, 1, i - 1)) = told[x]
      BY <3>1, BeforeFirst, LastingEmpty
    <3>3. QED BY <3>1, <3>2
  <2>2. CASE i = 2
    <3>1. i - 1 = 1 /\ <<e, f, g>>[i] = f
      BY <2>2
    <3>2. told[x] \cup Lasting(SubSeq(<<e, f, g>>, 1, i - 1)) = told[x] \cup LastingOf(e)
      BY <3>1, BeforeThird, LastingOne
    <3>3. QED BY <3>1, <3>2
  <2>3. CASE i = 3
    <3>1. i - 1 = 2 /\ <<e, f, g>>[i] = g
      BY <2>3
    <3>2. SubSeq(<<e, f, g>>, 1, i - 1) = <<e, f>>
      BY <3>1, BeforeThird
    <3>3. Lasting(SubSeq(<<e, f, g>>, 1, i - 1)) = LastingOf(e) \cup LastingOf(f)
      BY <3>2, LastingTwo
    <3>4. told[x] \cup Lasting(SubSeq(<<e, f, g>>, 1, i - 1))
            = told[x] \cup LastingOf(e) \cup LastingOf(f)
      BY <3>3
    <3>5. QED BY <3>1, <3>4
  <2>4. QED BY <2>1, <2>2, <2>3
<1>2. ToSet(<<e, f, g>>) = {e, f, g}
  BY DEF ToSet
<1>3. told[x] \cup Lasting(<<e, f, g>>)
        = told[x] \cup LastingOf(e) \cup LastingOf(f) \cup LastingOf(g)
  BY <1>2 DEF Lasting, LastingOf
<1>4. QED BY <1>1, <1>3 DEF Emit

-----------------------------------------------------------------------------
(* The events that the backends emit.                                      *)

LEMMA LastingEvents ==
  ASSUME NEW c, NEW s
  PROVE  /\ LastingOf(Connected(c)) = {Connected(c)}
         /\ LastingOf(Disconnected(c)) = {Disconnected(c)}
         /\ LastingOf(StreamCreated(c, s, "peer")) = {StreamCreated(c, s, "peer")}
         /\ LastingOf(StreamCreated(c, s, "game")) = {}
         /\ LastingOf(StreamClosed(c, s)) = {}
         /\ LastingOf(Message(c, s)) = {}
BY DEF LastingOf, Connected, Disconnected, StreamCreated, StreamClosed, Message

Remembered(e) ==
  e.type \in {"Connected", "Disconnected"} \/ (e.type = "StreamCreated" /\ e.by = "peer")

\* Nothing but those three kinds of events is remembered.
ToldTypes ==
  /\ told = [x \in Nodes |-> told[x]]
  /\ \A x \in Nodes : \A e \in told[x] : Remembered(e)

\* The games that were told nothing know no more and no less than before.
LEMMA ToldMore ==
  ASSUME ToldTypes, NEW x \in Nodes, NEW es, \A e \in es : Remembered(e),
         told' = [told EXCEPT ![x] = @ \cup es]
  PROVE  /\ ToldTypes'
         /\ told'[x] = told[x] \cup es
         /\ \A y \in Nodes \ {x} : told'[y] = told[y]
BY DEF ToldTypes

\* One more thing is remembered of what a game was told.
LEMMA ToldOne ==
  ASSUME ToldTypes, NEW x \in Nodes, NEW e, Remembered(e),
         told' = [told EXCEPT ![x] = @ \cup {e}]
  PROVE  /\ ToldTypes'
         /\ told'[x] = told[x] \cup {e}
         /\ \A y \in Nodes \ {x} : told'[y] = told[y]
BY DEF ToldTypes

\* A new connection.
LEMMA EmitConnected ==
  ASSUME NEW x \in Nodes, NEW c, Emit(x, <<Connected(c)>>), Connected(c) \notin told[x]
  PROVE  told' = [told EXCEPT ![x] = @ \cup {Connected(c)}] /\ surprised' = surprised
<1>1. Expected(Connected(c), told[x])
  BY DEF Expected, Connected
<1>2. QED BY <1>1, EmitOne, LastingEvents

\* The end of a connection.
LEMMA EmitDisconnected ==
  ASSUME NEW x \in Nodes, NEW c, Emit(x, <<Disconnected(c)>>),
         Connected(c) \in told[x], Disconnected(c) \notin told[x]
  PROVE  told' = [told EXCEPT ![x] = @ \cup {Disconnected(c)}] /\ surprised' = surprised
<1>1. Expected(Disconnected(c), told[x])
  BY DEF Expected, Disconnected
<1>2. QED BY <1>1, EmitOne, LastingEvents

\* An error concerns no connection.
LEMMA EmitError ==
  ASSUME NEW x \in Nodes, Emit(x, <<ConnectionError>>), ToldTypes
  PROVE  told' = [told EXCEPT ![x] = @ \cup {}] /\ surprised' = surprised
<1>1. Expected(ConnectionError, told[x])
  BY DEF Expected, ConnectionError, ToldTypes, Remembered
<1>2. LastingOf(ConnectionError) = {}
  BY DEF LastingOf, ConnectionError
<1>3. QED BY <1>1, <1>2, EmitOne

\* The answers to the game's stream commands leave no trace.
LEMMA EmitAnswer ==
  ASSUME NEW x \in Nodes, NEW c, NEW s, ToldTypes, Connected(c) \in told[x],
         Emit(x, <<StreamCreated(c, s, "game")>>) \/ Emit(x, <<StreamClosed(c, s)>>)
  PROVE  told' = [told EXCEPT ![x] = @ \cup {}] /\ surprised' = surprised
<1>1. CASE Emit(x, <<StreamCreated(c, s, "game")>>)
  <2>1. Expected(StreamCreated(c, s, "game"), told[x])
    BY DEF Expected, StreamCreated, ToldTypes, Remembered
  <2>2. LastingOf(StreamCreated(c, s, "game")) = {}
    BY LastingEvents
  <2>3. QED BY <1>1, <2>1, <2>2, EmitOne
<1>2. CASE Emit(x, <<StreamClosed(c, s)>>)
  <2>1. Expected(StreamClosed(c, s), told[x])
    BY DEF Expected, StreamClosed, ToldTypes, Remembered
  <2>2. LastingOf(StreamClosed(c, s)) = {}
    BY LastingEvents
  <2>3. QED BY <1>2, <2>1, <2>2, EmitOne
<1>3. QED BY <1>1, <1>2

\* A message, on a stream the game knows exactly when the backend does.
LEMMA EmitAnnounce ==
  ASSUME NEW x \in Nodes, NEW c, NEW s, NEW known, Emit(x, Announce(c, s, known)),
         Connected(c) \in told[x], Disconnected(c) \notin told[x],
         s \in known <=> StreamCreated(c, s, "peer") \in told[x], ToldTypes
  PROVE  /\ told' = [told EXCEPT ![x] = @ \cup {StreamCreated(c, s, "peer")}]
         /\ surprised' = surprised
<1>0. ASSUME NEW T, Connected(c) \in T, Disconnected(c) \notin T,
             StreamCreated(c, s, "peer") \in T,
             \A e \in T : e \in told[x] \/ e = StreamCreated(c, s, "peer"),
             Message(c, s) \notin told[x]
      PROVE  Expected(Message(c, s), T)
  <2>1. Message(c, s) # StreamCreated(c, s, "peer")
    BY DEF Message, StreamCreated
  <2>2. QED BY <1>0, <2>1 DEF Expected, Message
<1>1. CASE s \in known /\ Message(c, s) \notin told[x]
  <2>1. Emit(x, <<Message(c, s)>>)
    BY <1>1 DEF Announce
  <2>2. Expected(Message(c, s), told[x])
    BY <1>0, <1>1
  <2>3. told[x] \cup {} = told[x] \cup {StreamCreated(c, s, "peer")}
    BY <1>1
  <2>4. QED BY <2>1, <2>2, <2>3, EmitOne, LastingEvents
<1>2. CASE s \notin known /\ Message(c, s) \notin told[x]
  <2>1. Emit(x, <<StreamCreated(c, s, "peer"), Message(c, s)>>)
    BY <1>2 DEF Announce
  <2>2. Expected(StreamCreated(c, s, "peer"), told[x])
    BY <1>2 DEF Expected, StreamCreated
  <2>3. Disconnected(c) # StreamCreated(c, s, "peer")
    BY DEF Disconnected, StreamCreated
  <2>4. Expected(Message(c, s), told[x] \cup LastingOf(StreamCreated(c, s, "peer")))
    BY <1>0, <1>2, <2>3, LastingEvents
  <2>5. QED BY <2>1, <2>2, <2>4, EmitTwo, LastingEvents
<1>3. Message(c, s) \notin told[x]
  BY DEF ToldTypes, Remembered, Message
<1>4. QED BY <1>1, <1>2, <1>3

\* The first message of a connection nobody announced before.
LEMMA EmitFirst ==
  ASSUME NEW x \in Nodes, NEW c, NEW s, Emit(x, <<Connected(c)>> \o Announce(c, s, {})),
         Connected(c) \notin told[x], Disconnected(c) \notin told[x],
         StreamCreated(c, s, "peer") \notin told[x], ToldTypes
  PROVE  /\ told' = [told EXCEPT ![x] = @ \cup {Connected(c), StreamCreated(c, s, "peer")}]
         /\ surprised' = surprised
<1>1. Emit(x, <<Connected(c), StreamCreated(c, s, "peer"), Message(c, s)>>)
  <2>1. Announce(c, s, {}) = <<StreamCreated(c, s, "peer"), Message(c, s)>>
    BY DEF Announce
  <2>2. QED BY <2>1, OneAndTwo
<1>2. /\ LastingOf(Connected(c)) = {Connected(c)}
      /\ LastingOf(StreamCreated(c, s, "peer")) = {StreamCreated(c, s, "peer")}
      /\ LastingOf(Message(c, s)) = {}
  BY LastingEvents
<1>3. Expected(Connected(c), told[x])
  BY DEF Expected, Connected
<1>4. Expected(StreamCreated(c, s, "peer"), told[x] \cup {Connected(c)})
  BY DEF Expected, StreamCreated, Connected
<1>5. Expected(Message(c, s),
               told[x] \cup {Connected(c)} \cup {StreamCreated(c, s, "peer")})
  <2>1. Message(c, s) \notin told[x]
    BY DEF ToldTypes, Remembered, Message
  <2>2. QED BY <2>1 DEF Expected, Message, Connected, Disconnected, StreamCreated
<1>6. /\ told' = [told EXCEPT ![x] =
                     @ \cup {Connected(c)} \cup {StreamCreated(c, s, "peer")} \cup {}]
      /\ surprised' = surprised
  BY <1>1, <1>2, <1>3, <1>4, <1>5, EmitThree
<1>7. told[x] \cup {Connected(c)} \cup {StreamCreated(c, s, "peer")} \cup {}
        = told[x] \cup {Connected(c), StreamCreated(c, s, "peer")}
  OBVIOUS
<1>8. QED BY <1>6, <1>7
=============================================================================
