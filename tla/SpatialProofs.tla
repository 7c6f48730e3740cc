---------------------------- MODULE SpatialProofs ----------------------------
(***************************************************************************)
(* What TLAPS proves about the spatial service, for every size of the      *)
(* world, every margin, every set of players and of positions: a player is *)
(* on record where it is, is under one topic at most, its neighbours are   *)
(* asked to be alerted, and nobody is subscribed as the code stands.       *)
(***************************************************************************)
EXTENDS Spatial, SequenceTheorems, FiniteSetTheorems, TLAPS

-----------------------------------------------------------------------------
(* The quadrants.                                                          *)

\* The least of some shards is one of them, and no other is before it.
LEMMA LeastShard ==
  ASSUME NEW S, S \subseteq Shards, S # {}
  PROVE  Min(S) \in S /\ \A s \in S : Min(S) <= s
<1>1. S \subseteq {0, 1, 2, 3}
  BY DEF Shards
<1>2. \E x \in S : \A y \in S : x <= y
  <2>1. CASE 0 \in S
    BY <1>1, <2>1
  <2>2. CASE 0 \notin S /\ 1 \in S
    BY <1>1, <2>2
  <2>3. CASE 0 \notin S /\ 1 \notin S /\ 2 \in S
    BY <1>1, <2>3
  <2>4. CASE 0 \notin S /\ 1 \notin S /\ 2 \notin S
    <3>1. \A y \in S : y = 3
      BY <1>1, <2>4
    <3>2. 3 \in S
      BY <3>1
    <3>3. QED BY <3>1, <3>2
  <2>5. QED BY <2>1, <2>2, <2>3, <2>4
<1>3. QED BY <1>2 DEF Min

\* The four children of the tree, as rectangles of numbers.
LEMMA Quadrants ==
  /\ Half \in Nat \ {0} /\ Margin \in Nat \ {0} /\ Margin < Half
  /\ children[0] = Rect(-Half, 0, 0, Half)
  /\ children[1] = Rect(0, 0, Half, Half)
  /\ children[2] = Rect(-Half, -Half, 0, 0)
  /\ children[3] = Rect(0, -Half, Half, 0)
  /\ Shards = {0, 1, 2, 3}
BY WorldAssumption DEF children, Shards

\* A position is in a child exactly as its coordinates say.
LEMMA InChild ==
  ASSUME NEW pos \in Int \X Int
  PROVE  /\ contains(World, pos) <=> Inside(pos)
         /\ Inside(pos) <=> /\ -Half <= pos[1] /\ pos[1] <= Half
                            /\ -Half <= pos[2] /\ pos[2] <= Half
         /\ Inside(pos) =>
              /\ contains(children[0], pos) <=> pos[1] <= 0 /\ pos[2] >= 0
              /\ contains(children[1], pos) <=> pos[1] >= 0 /\ pos[2] >= 0
              /\ contains(children[2], pos) <=> pos[1] <= 0 /\ pos[2] <= 0
              /\ contains(children[3], pos) <=> pos[1] >= 0 /\ pos[2] <= 0
<1>1. pos[1] \in Int /\ pos[2] \in Int
  OBVIOUS
<1>2. ASSUME NEW a \in Int, NEW b \in Int, NEW c \in Int, NEW d \in Int
      PROVE  contains(Rect(a, b, c, d), pos) <=>
               /\ a <= pos[1] /\ pos[1] <= c
               /\ b <= pos[2] /\ pos[2] <= d
  BY <1>1 DEF contains, Rect
<1>3. Inside(pos) <=> /\ -Half <= pos[1] /\ pos[1] <= Half
                      /\ -Half <= pos[2] /\ pos[2] <= Half
  BY <1>1 DEF Inside
<1>4. Half \in Int /\ -Half \in Int /\ 0 \in Int
  BY Quadrants
<1>5. contains(World, pos) <=> Inside(pos)
  BY <1>2, <1>3, <1>4 DEF World
<1>6. ASSUME Inside(pos)
      PROVE  /\ contains(children[0], pos) <=> pos[1] <= 0 /\ pos[2] >= 0
             /\ contains(children[1], pos) <=> pos[1] >= 0 /\ pos[2] >= 0
             /\ contains(children[2], pos) <=> pos[1] <= 0 /\ pos[2] <= 0
             /\ contains(children[3], pos) <=> pos[1] >= 0 /\ pos[2] <= 0
  <2>1. contains(children[0], pos) <=> pos[1] <= 0 /\ pos[2] >= 0
    BY <1>1, <1>2, <1>3, <1>4, <1>6, Quadrants
  <2>2. contains(children[1], pos) <=> pos[1] >= 0 /\ pos[2] >= 0
    BY <1>1, <1>2, <1>3, <1>4, <1>6, Quadrants
  <2>3. contains(children[2], pos) <=> pos[1] <= 0 /\ pos[2] <= 0
    BY <1>1, <1>2, <1>3, <1>4, <1>6, Quadrants
  <2>4. contains(children[3], pos) <=> pos[1] >= 0 /\ pos[2] <= 0
    BY <1>1, <1>2, <1>3, <1>4, <1>6, Quadrants
  <2>5. QED BY <2>1, <2>2, <2>3, <2>4
<1>7. QED BY <1>3, <1>5, <1>6

\* The tree leaves no gap, and on a border its order decides as the signs do.
LEMMA TreeFollowsSigns ==
  ASSUME NEW pos \in Int \X Int
  PROVE  /\ shard_for(pos) \in Shards \cup {NoShard}
         /\ Inside(pos) => shard_for(pos) = SignShard(pos) /\ SignShard(pos) \in Shards
<1> DEFINE hits == {shard \in Shards : contains(children[shard], pos)}
<1>1. hits \subseteq Shards /\ pos[1] \in Int /\ pos[2] \in Int
  OBVIOUS
<1>2. shard_for(pos) = IF contains(World, pos) /\ hits # {} THEN Min(hits) ELSE NoShard
  BY DEF shard_for
<1>3. hits # {} => Min(hits) \in hits /\ \A s \in hits : Min(hits) <= s
  BY <1>1, LeastShard
<1>4. ASSUME Inside(pos)
      PROVE  shard_for(pos) = SignShard(pos) /\ SignShard(pos) \in Shards
  <2>1. /\ 0 \in hits <=> pos[1] <= 0 /\ pos[2] >= 0
        /\ 1 \in hits <=> pos[1] >= 0 /\ pos[2] >= 0
        /\ 2 \in hits <=> pos[1] <= 0 /\ pos[2] <= 0
        /\ 3 \in hits <=> pos[1] >= 0 /\ pos[2] <= 0
        /\ hits \subseteq {0, 1, 2, 3}
        /\ contains(World, pos)
    BY <1>4, InChild, Quadrants
  <2> HIDE DEF hits
  <2> DEFINE m == Min(hits)
  <2>2. hits # {}
    BY <1>1, <2>1
  <2>3. m \in hits /\ \A s \in hits : m <= s
    BY <1>3, <2>2
  <2>4. shard_for(pos) = m
    BY <1>2, <2>1, <2>2
  <2> HIDE DEF m
  <2>5. m \in {0, 1, 2, 3}
    BY <2>1, <2>3
  <2>6. m = SignShard(pos)
    <3>1. CASE pos[1] <= 0 /\ pos[2] >= 0
      BY <1>1, <2>1, <2>3, <2>5, <3>1 DEF SignShard
    <3>2. CASE ~(pos[1] <= 0) /\ pos[2] >= 0
      BY <1>1, <2>1, <2>3, <2>5, <3>2 DEF SignShard
    <3>3. CASE pos[1] <= 0 /\ ~(pos[2] >= 0)
      BY <1>1, <2>1, <2>3, <2>5, <3>3 DEF SignShard
    <3>4. CASE ~(pos[1] <= 0) /\ ~(pos[2] >= 0)
      BY <1>1, <2>1, <2>3, <2>5, <3>4 DEF SignShard
    <3>5. QED BY <3>1, <3>2, <3>3, <3>4
  <2>7. QED BY <2>4, <2>5, <2>6, Quadrants
<1>5. shard_for(pos) \in Shards \cup {NoShard}
  BY <1>1, <1>2, <1>3
<1>6. QED BY <1>4, <1>5

\* The shards the player's box touches are those less than the margin away.
LEMMA BoxIsMargin ==
  ASSUME NEW pos \in Int \X Int, Inside(pos)
  PROVE  shards_near(pos, Margin) = WithinMargin(pos) /\ SignShard(pos) \in WithinMargin(pos)
<1> DEFINE player_rect == Rect(pos[1] - Margin, pos[2] - Margin, pos[1] + Margin, pos[2] + Margin)
<1>1. /\ pos[1] \in Int /\ pos[2] \in Int
      /\ -Half <= pos[1] /\ pos[1] <= Half /\ -Half <= pos[2] /\ pos[2] <= Half
  BY InChild
<1>2. ASSUME NEW a \in Int, NEW b \in Int, NEW c \in Int, NEW d \in Int
      PROVE  intersects(Rect(a, b, c, d), player_rect) <=>
               /\ a < pos[1] + Margin /\ pos[1] - Margin < c
               /\ b < pos[2] + Margin /\ pos[2] - Margin < d
  BY <1>1, Quadrants DEF intersects, Rect
<1>3. Half \in Int /\ -Half \in Int /\ 0 \in Int
  BY Quadrants
<1> HIDE DEF player_rect
<1>4. intersects(World, player_rect)
  BY <1>1, <1>2, <1>3, Quadrants DEF World
<1>5. intersects(children[0], player_rect) <=> pos[1] < Margin /\ pos[2] > -Margin
  BY <1>1, <1>2, <1>3, Quadrants
<1>6. intersects(children[1], player_rect) <=> pos[1] > -Margin /\ pos[2] > -Margin
  BY <1>1, <1>2, <1>3, Quadrants
<1>7. intersects(children[2], player_rect) <=> pos[1] < Margin /\ pos[2] < Margin
  BY <1>1, <1>2, <1>3, Quadrants
<1>8. intersects(children[3], player_rect) <=> pos[1] > -Margin /\ pos[2] < Margin
  BY <1>1, <1>2, <1>3, Quadrants
<1>9. shards_near(pos, Margin) =
        {shard \in Shards : intersects(World, player_rect) /\ intersects(children[shard], player_rect)}
  BY DEF shards_near, player_rect
<1>10. \A s \in {0, 1, 2, 3} : s \in shards_near(pos, Margin) <=> s \in WithinMargin(pos)
  BY <1>4, <1>5, <1>6, <1>7, <1>8, <1>9, Quadrants DEF WithinMargin
<1>11. shards_near(pos, Margin) = WithinMargin(pos)
  BY <1>9, <1>10, Quadrants DEF WithinMargin
<1>12. SignShard(pos) \in WithinMargin(pos)
  BY <1>1, Quadrants DEF SignShard, WithinMargin
<1>13. QED BY <1>11, <1>12

-----------------------------------------------------------------------------
(* Types.                                                                  *)

Commands == [tag : {"subscribe", "unsubscribe", "crossing_alert"}, client : Clients, topic : Shards]

Typed ==
  /\ broker_conn_id \in BOOLEAN
  /\ last_known_shards \in [Clients -> Shards \cup {NoShard}]
  /\ position \in [Clients -> (Int \X Int) \cup {Nowhere}]
  /\ wire \in Seq(Commands)
  /\ session \in [Clients -> Clients \cup {NoConn}]
  /\ \A c \in Clients : session[c] \in {NoConn, c}
  /\ subscribed \subseteq Clients \X Shards
  /\ missed \subseteq Clients

Enters(c, s) == Command("subscribe", c, s)
Leaves(c, s) == Command("unsubscribe", c, s)
Warns(c, s) == Command("crossing_alert", c, s)

\* Three kinds of commands, each told by its parts.
LEMMA CommandsDiffer ==
  ASSUME NEW c \in Clients, NEW s \in Shards
  PROVE  /\ Enters(c, s) \in Commands /\ Leaves(c, s) \in Commands /\ Warns(c, s) \in Commands
         /\ \A d \in Clients, t \in Shards :
              /\ Enters(c, s) = Enters(d, t) <=> c = d /\ s = t
              /\ Leaves(c, s) = Leaves(d, t) <=> c = d /\ s = t
              /\ Enters(c, s) # Leaves(d, t)
              /\ Warns(c, s) # Enters(d, t) /\ Warns(c, s) # Leaves(d, t)
BY DEF Enters, Leaves, Warns, Command, Commands

\* More than one shard is near exactly when another one than the player's is.
LEMMA OtherNear ==
  ASSUME NEW near, near \subseteq Shards, NEW x
  PROVE  /\ Cardinality(near) > 1 => near \ {x} # {}
         /\ x \in near /\ near \ {x} # {} => Cardinality(near) > 1
<1>1. IsFiniteSet(near)
  <2>1. IsFiniteSet(0 .. 3)
    BY FS_Interval, 0 \in Int, 3 \in Int, Zenon
  <2>2. QED BY <2>1, FS_Subset DEF Shards
<1>2. ASSUME Cardinality(near) > 1 PROVE near \ {x} # {}
  <2> SUFFICES ASSUME near \subseteq {x} PROVE FALSE
    OBVIOUS
  <2>1. IsFiniteSet({x}) /\ Cardinality({x}) = 1
    BY FS_Singleton
  <2>2. Cardinality(near) <= 1
    BY <2>1, FS_Subset
  <2>3. Cardinality(near) \in Nat
    BY <1>1, FS_CardinalityType
  <2>4. QED BY <1>2, <2>2, <2>3
<1>3. ASSUME x \in near, NEW y \in near, y # x PROVE Cardinality(near) > 1
  <2>1. IsFiniteSet({x}) /\ Cardinality({x}) = 1
    BY FS_Singleton
  <2>2. Cardinality({x} \cup {y}) = 2
    BY <1>3, <2>1, FS_AddElement
  <2>3. Cardinality({x} \cup {y}) <= Cardinality(near)
    BY <1>1, <1>3, FS_Subset
  <2>4. Cardinality(near) \in Nat
    BY <1>1, FS_CardinalityType
  <2>5. QED BY <2>2, <2>3, <2>4
<1>4. QED BY <1>2, <1>3

\* The commands of a move, added to a queue one by one.
Moved(q, c, old, new) ==
  IF new \in {NoShard, old} THEN q
  ELSE Append(IF old = NoShard THEN q ELSE Append(q, Leaves(c, old)), Enters(c, new))

\* A migration puts its commands behind those that wait.
LEMMA MigrationAppends ==
  ASSUME NEW q \in Seq(Commands), NEW c \in Clients,
         NEW old \in Shards \cup {NoShard}, NEW new \in Shards \cup {NoShard}
  PROVE  /\ Moved(q, c, old, new) \in Seq(Commands) /\ Migration(c, old, new) \in Seq(Commands)
         /\ q \o Migration(c, old, new) = Moved(q, c, old, new)
<1>1. CASE new \in {NoShard, old}
  <2>1. Migration(c, old, new) = <<>> /\ Moved(q, c, old, new) = q
    BY <1>1 DEF Migration, Moved
  <2>2. QED BY <2>1, ConcatEmptySeq, EmptySeq
<1>2. CASE new \notin {NoShard, old}
  <2> DEFINE e == Enters(c, new)
  <2>1. e \in Commands
    BY <1>2, CommandsDiffer
  <2>2. CASE old = NoShard
    <3>1. Migration(c, old, new) = <<>> \o <<e>> /\ Moved(q, c, old, new) = Append(q, e)
      BY <1>2, <2>2 DEF Migration, Moved, Enters
    <3> HIDE DEF e
    <3>2. <<e>> \in Seq(Commands) /\ <<>> \o <<e>> = <<e>>
      BY <2>1, ConcatEmptySeq
    <3>3. Append(q, e) = q \o <<e>> /\ Append(q, e) \in Seq(Commands)
      BY <2>1, AppendIsConcat, AppendProperties
    <3>4. QED BY <3>1, <3>2, <3>3
  <2>3. CASE old # NoShard
    <3> DEFINE l == Leaves(c, old)
    <3>1. l \in Commands
      BY <2>3, CommandsDiffer
    <3>2. Migration(c, old, new) = <<l>> \o <<e>> /\ Moved(q, c, old, new) = Append(Append(q, l), e)
      BY <1>2, <2>3 DEF Migration, Moved, Enters, Leaves
    <3> HIDE DEF e, l
    <3>3. <<l>> \in Seq(Commands) /\ <<e>> \in Seq(Commands)
      BY <2>1, <3>1
    <3>4. Append(q, l) = q \o <<l>> /\ Append(q, l) \in Seq(Commands)
      BY <3>1, AppendIsConcat, AppendProperties
    <3>5. /\ Append(Append(q, l), e) = Append(q, l) \o <<e>>
          /\ Append(Append(q, l), e) \in Seq(Commands)
      BY <2>1, <3>4, AppendIsConcat, AppendProperties
    <3>6. (q \o <<l>>) \o <<e>> = q \o (<<l>> \o <<e>>)
      BY <3>3, ConcatAssociative
    <3>7. <<l>> \o <<e>> \in Seq(Commands)
      BY <3>3, ConcatProperties
    <3>8. QED BY <3>2, <3>4, <3>5, <3>6, <3>7
  <2>4. QED BY <2>2, <2>3
<1>3. QED BY <1>1, <1>2

\* What a position does, with the queue spelled out.
Handles(c, pos) ==
  LET old == last_known_shards[c]
      new == shard_for(pos)
      current == IF new = NoShard THEN old ELSE new
      near == shards_near(pos, Margin)
  IN
  /\ last_known_shards' = [last_known_shards EXCEPT ![c] = current]
  /\ position' = [position EXCEPT ![c] = pos]
  /\ old \in Shards \cup {NoShard} /\ new \in Shards \cup {NoShard}
  /\ near \subseteq Shards
  /\ Moved(wire, c, old, new) \in Seq(Commands)
  /\ IF Cardinality(near) > 1 /\ current # NoShard
     THEN /\ Min(near \ {current}) \in near \ {current}
          /\ wire' = Append(Moved(wire, c, old, new), Warns(c, Min(near \ {current})))
     ELSE wire' = Moved(wire, c, old, new)
  /\ UNCHANGED <<broker_conn_id, session, subscribed, missed>>

\* What handling a position does to the tree, the commands and the alerts.
LEMMA PositionHandled ==
  ASSUME Typed, NEW c \in Clients, NEW pos \in Positions, HandlePosition(c, pos)
  PROVE  Handles(c, pos)
<1> DEFINE old == last_known_shards[c]
           new == shard_for(pos)
           current == IF new = NoShard THEN old ELSE new
           near == shards_near(pos, Margin)
           alert == CrossingAlert(c, current, near)
           moves == Migration(c, old, new)
           moved == Moved(wire, c, old, new)
<1>1. pos \in Int \X Int
  BY PositionsAssumption
<1>2. old \in Shards \cup {NoShard} /\ new \in Shards \cup {NoShard} /\ near \subseteq Shards
  BY <1>1, TreeFollowsSigns DEF Typed, shards_near
<1>3. wire \in Seq(Commands)
  BY DEF Typed
<1>4. moved \in Seq(Commands) /\ moves \in Seq(Commands) /\ wire \o moves = moved
  BY <1>2, <1>3, MigrationAppends
<1>5. /\ last_known_shards' = [last_known_shards EXCEPT ![c] = current]
      /\ position' = [position EXCEPT ![c] = pos]
      /\ wire' = wire \o (moves \o alert)
      /\ UNCHANGED <<broker_conn_id, session, subscribed, missed>>
  BY DEF HandlePosition, broker
<1>6. IF Cardinality(near) > 1 /\ current # NoShard
      THEN /\ Min(near \ {current}) \in near \ {current}
           /\ wire' = Append(moved, Warns(c, Min(near \ {current})))
      ELSE wire' = moved
  <2>1. CASE Cardinality(near) > 1 /\ current # NoShard
    <3> DEFINE t == Min(near \ {current})
               w == Warns(c, t)
    <3>1. near \ {current} # {} /\ near \ {current} \subseteq Shards
      BY <1>2, <2>1, OtherNear
    <3>2. t \in near \ {current}
      BY <3>1, LeastShard
    <3>3. w \in Commands
      BY <1>2, <3>2, CommandsDiffer
    <3>4. alert = <<w>>
      BY <2>1 DEF CrossingAlert, Warns
    <3> HIDE DEF t, w, moved, moves, alert, near, current
    <3>5. <<w>> \in Seq(Commands)
      BY <3>3
    <3>6. (wire \o moves) \o <<w>> = wire \o (moves \o <<w>>)
      <4>1. \A q, m, a \in Seq(Commands) : (q \o m) \o a = q \o (m \o a)
        BY ConcatAssociative
      <4>2. moves \in Seq(Commands)
        BY <1>4
      <4>3. QED BY <1>3, <3>5, <4>1, <4>2
    <3>7. Append(moved, w) = moved \o <<w>>
      BY <1>4, <3>3, AppendIsConcat
    <3>8. wire' = Append(moved, w)
      BY <1>4, <1>5, <3>4, <3>6, <3>7
    <3>9. QED BY <2>1, <3>2, <3>8 DEF t, w
  <2>2. CASE ~(Cardinality(near) > 1 /\ current # NoShard)
    <3>1. alert = <<>>
      BY <2>2 DEF CrossingAlert
    <3> HIDE DEF moved, moves, alert
    <3>2. moves \o <<>> = moves
      BY <1>4, ConcatEmptySeq
    <3>3. QED BY <1>4, <1>5, <2>2, <3>1, <3>2
  <2>3. QED BY <2>1, <2>2
<1> HIDE DEF old, new, current, near, alert, moves, moved
<1>7. QED BY <1>2, <1>4, <1>5, <1>6 DEF Handles, old, new, current, near, moved

-----------------------------------------------------------------------------
(* Where the commands under way lead. Topics that are held already count as *)
(* entered before the first of them.                                        *)

\* c enters s with the i-th command of q, or holds s in T before the first.
EntersAt(T, q, i, c, s) == IF i = 0 THEN s \in T ELSE i \in DOMAIN q /\ q[i] = Enters(c, s)

\* Between the i-th command and the j-th, c leaves s.
LeavesBetween(q, i, j, c, s) == \E k \in DOMAIN q : i < k /\ k < j /\ q[k] = Leaves(c, s)

\* c leaves whatever it is in before it enters another, and ends up in the topic `last`
\* or in none.
Orderly(T, q, c, last) ==
  /\ \A s, t \in T : s = t
  /\ \A i \in 0 .. Len(q), s \in Shards : EntersAt(T, q, i, c, s) =>
       /\ \A j \in DOMAIN q, t \in Shards :
            q[j] = Enters(c, t) /\ i < j => LeavesBetween(q, i, j, c, s)
       /\ s = last \/ LeavesBetween(q, i, Len(q) + 1, c, s)

\* c ends up in the topic s for certain.
EndsIn(T, q, c, s) ==
  \E i \in 0 .. Len(q) : EntersAt(T, q, i, c, s) /\ ~LeavesBetween(q, i, Len(q) + 1, c, s)

\* The elements of a queue after one is added, or taken.
LEMMA QueueElements ==
  ASSUME NEW q \in Seq(Commands)
  PROVE  /\ Len(q) \in Nat /\ DOMAIN q = 1 .. Len(q) /\ \A i \in 1 .. Len(q) : q[i] \in Commands
         /\ \A e \in Commands :
              /\ Append(q, e) \in Seq(Commands)
              /\ Len(Append(q, e)) = Len(q) + 1 /\ DOMAIN Append(q, e) = 1 .. Len(q) + 1
              /\ \A i \in 1 .. Len(q) : Append(q, e)[i] = q[i]
              /\ Append(q, e)[Len(q) + 1] = e
         /\ q # <<>> =>
              /\ Tail(q) \in Seq(Commands) /\ Head(q) \in Commands
              /\ Len(q) > 0 /\ Head(q) = q[1]
              /\ Len(Tail(q)) = Len(q) - 1 /\ DOMAIN Tail(q) = 1 .. Len(q) - 1
              /\ \A i \in 1 .. Len(q) - 1 : Tail(q)[i] = q[i + 1]
OBVIOUS

\* The first command is handled: what is held changes by it, or shrinks.
LEMMA OrderlyLess ==
  ASSUME NEW q \in Seq(Commands), q # <<>>, NEW c \in Clients, NEW last,
         NEW T \in SUBSET Shards, NEW U \in SUBSET Shards, Orderly(T, q, c, last),
         \A s \in U : (s \in T \/ Head(q) = Enters(c, s)) /\ Head(q) # Leaves(c, s)
  PROVE  Orderly(U, Tail(q), c, last)
<1> DEFINE r == Tail(q)
<1>1. /\ Len(q) \in Nat /\ DOMAIN q = 1 .. Len(q) /\ Len(q) > 0 /\ Head(q) = q[1]
      /\ Len(r) = Len(q) - 1 /\ DOMAIN r = 1 .. Len(q) - 1
      /\ \A i \in 1 .. Len(q) - 1 : r[i] = q[i + 1]
  BY QueueElements
<1> HIDE DEF r
<1>2. ASSUME NEW s \in Shards, NEW i \in Nat, NEW j \in Nat, LeavesBetween(q, i + 1, j + 1, c, s)
      PROVE  LeavesBetween(r, i, j, c, s)
  <2>1. PICK k \in DOMAIN q : i + 1 < k /\ k < j + 1 /\ q[k] = Leaves(c, s)
    BY <1>2 DEF LeavesBetween
  <2>2. k - 1 \in DOMAIN r /\ r[k - 1] = q[k] /\ i < k - 1 /\ k - 1 < j
    BY <1>1, <2>1
  <2>3. QED BY <2>1, <2>2 DEF LeavesBetween
<1>3. ASSUME NEW s \in Shards, NEW j \in Nat, LeavesBetween(q, 0, j + 1, c, s), Head(q) # Leaves(c, s)
      PROVE  LeavesBetween(r, 0, j, c, s)
  <2>1. PICK k \in DOMAIN q : 0 < k /\ k < j + 1 /\ q[k] = Leaves(c, s)
    BY <1>3 DEF LeavesBetween
  <2>2. k # 1
    BY <1>1, <1>3, <2>1
  <2>3. k - 1 \in DOMAIN r /\ r[k - 1] = q[k] /\ 0 < k - 1 /\ k - 1 < j
    BY <1>1, <2>1, <2>2
  <2>4. QED BY <2>1, <2>3 DEF LeavesBetween
\* Who enters somewhere now did so before: by a held topic, the head, or a later command.
<1>4. ASSUME NEW s \in Shards, NEW i \in 0 .. Len(r), EntersAt(U, r, i, c, s)
      PROVE  \/ EntersAt(T, q, i + 1, c, s) /\ i + 1 \in 0 .. Len(q)
             \/ i = 0 /\ EntersAt(T, q, 0, c, s) /\ Head(q) # Leaves(c, s)
  <2>1. CASE i = 0
    BY <1>1, <1>4, <2>1 DEF EntersAt
  <2>2. CASE i # 0
    <3>1. i \in DOMAIN r /\ r[i] = Enters(c, s)
      BY <1>4, <2>2 DEF EntersAt
    <3>2. i + 1 \in DOMAIN q /\ q[i + 1] = Enters(c, s) /\ i + 1 # 0 /\ i + 1 \in 0 .. Len(q)
      BY <1>1, <3>1
    <3>3. QED BY <3>2 DEF EntersAt
  <2>3. QED BY <2>1, <2>2
<1>5. ASSUME NEW s \in Shards, NEW i \in 0 .. Len(r), EntersAt(U, r, i, c, s),
             NEW j \in DOMAIN r, NEW t \in Shards, r[j] = Enters(c, t), i < j
      PROVE  LeavesBetween(r, i, j, c, s)
  <2>1. j + 1 \in DOMAIN q /\ q[j + 1] = Enters(c, t) /\ j \in Nat /\ i \in Nat
    BY <1>1, <1>5
  <2>2. CASE EntersAt(T, q, i + 1, c, s) /\ i + 1 \in 0 .. Len(q)
    <3>1. LeavesBetween(q, i + 1, j + 1, c, s)
      BY <1>5, <2>1, <2>2 DEF Orderly
    <3>2. QED BY <1>2, <2>1, <3>1
  <2>3. CASE i = 0 /\ EntersAt(T, q, 0, c, s) /\ Head(q) # Leaves(c, s)
    <3>1. LeavesBetween(q, 0, j + 1, c, s)
      BY <1>1, <1>5, <2>1, <2>3 DEF Orderly
    <3>2. QED BY <1>3, <2>1, <2>3, <3>1
  <2>4. QED BY <1>4, <1>5, <2>2, <2>3
<1>6. ASSUME NEW s \in Shards, NEW i \in 0 .. Len(r), EntersAt(U, r, i, c, s)
      PROVE  s = last \/ LeavesBetween(r, i, Len(r) + 1, c, s)
  <2> SUFFICES ASSUME s # last PROVE LeavesBetween(r, i, Len(r) + 1, c, s)
    OBVIOUS
  <2>1. i \in Nat /\ Len(r) + 1 \in Nat /\ Len(q) + 1 = (Len(r) + 1) + 1 /\ 0 \in 0 .. Len(q)
    BY <1>1
  <2>2. CASE EntersAt(T, q, i + 1, c, s) /\ i + 1 \in 0 .. Len(q)
    <3>1. LeavesBetween(q, i + 1, Len(q) + 1, c, s)
      BY <2>2 DEF Orderly
    <3>2. LeavesBetween(q, i + 1, (Len(r) + 1) + 1, c, s)
      BY <2>1, <3>1
    <3>3. QED BY <1>2, <2>1, <3>2
  <2>3. CASE i = 0 /\ EntersAt(T, q, 0, c, s) /\ Head(q) # Leaves(c, s)
    <3>1. LeavesBetween(q, 0, Len(q) + 1, c, s)
      BY <2>1, <2>3 DEF Orderly
    <3>2. LeavesBetween(q, 0, (Len(r) + 1) + 1, c, s)
      BY <2>1, <3>1
    <3>3. QED BY <1>3, <2>1, <2>3, <3>2
  <2>4. QED BY <1>4, <1>6, <2>2, <2>3
<1>7. ASSUME NEW s \in U, NEW t \in U PROVE s = t
  <2>1. ASSUME NEW u \in T, NEW v \in Shards, Head(q) = Enters(c, v) PROVE FALSE
    <3>1. LeavesBetween(q, 0, 1, c, u)
      <4>1. EntersAt(T, q, 0, c, u) /\ 0 \in 0 .. Len(q) /\ 1 \in DOMAIN q /\ 0 < 1
        BY <1>1 DEF EntersAt
      <4>2. q[1] = Enters(c, v)
        BY <1>1, <2>1
      <4>3. QED BY <4>1, <4>2 DEF Orderly
    <3>2. QED BY <1>1, <3>1 DEF LeavesBetween
  <2>2. CASE s \in T /\ t \in T
    BY <2>2 DEF Orderly
  <2>3. CASE Head(q) = Enters(c, s) /\ Head(q) = Enters(c, t)
    BY <2>3, CommandsDiffer
  <2>4. QED BY <1>7, <2>1, <2>2, <2>3
<1>8. QED BY <1>5, <1>6, <1>7 DEF Orderly, r

\* Where the commands lead stays the same when the first of them is carried out.
LEMMA EndsInLess ==
  ASSUME NEW q \in Seq(Commands), q # <<>>, NEW c \in Clients, NEW s \in Shards,
         NEW T \in SUBSET Shards, NEW U \in SUBSET Shards, EndsIn(T, q, c, s),
         (s \in T /\ Head(q) # Leaves(c, s)) \/ Head(q) = Enters(c, s) => s \in U
  PROVE  EndsIn(U, Tail(q), c, s)
<1> DEFINE r == Tail(q)
<1>1. /\ Len(q) \in Nat /\ DOMAIN q = 1 .. Len(q) /\ Len(q) > 0 /\ Head(q) = q[1]
      /\ Len(r) = Len(q) - 1 /\ DOMAIN r = 1 .. Len(q) - 1
      /\ \A i \in 1 .. Len(q) - 1 : r[i] = q[i + 1]
  BY QueueElements
<1> HIDE DEF r
<1>2. PICK i \in 0 .. Len(q) : EntersAt(T, q, i, c, s) /\ ~LeavesBetween(q, i, Len(q) + 1, c, s)
  BY DEF EndsIn
<1>3. ASSUME NEW n \in Nat, NEW m \in Nat, n <= m + 1, LeavesBetween(r, m, Len(r) + 1, c, s)
      PROVE  LeavesBetween(q, n, Len(q) + 1, c, s)
  <2>1. PICK k \in DOMAIN r : m < k /\ r[k] = Leaves(c, s)
    BY <1>3 DEF LeavesBetween
  <2>2. k + 1 \in DOMAIN q /\ n < k + 1 /\ k + 1 < Len(q) + 1 /\ q[k + 1] = Leaves(c, s)
    BY <1>1, <1>3, <2>1
  <2>3. QED BY <2>2 DEF LeavesBetween
<1>4. CASE i \in {0, 1}
  <2>1. s \in U
    <3>1. CASE i = 0
      <4>1. Head(q) # Leaves(c, s)
        BY <1>1, <1>2, <3>1 DEF LeavesBetween
      <4>2. QED BY <1>2, <3>1, <4>1 DEF EntersAt
    <3>2. CASE i = 1
      BY <1>1, <1>2, <3>2 DEF EntersAt
    <3>3. QED BY <1>4, <3>1, <3>2
  <2>2. ~LeavesBetween(r, 0, Len(r) + 1, c, s)
    BY <1>2, <1>3, <1>4
  <2>3. 0 \in 0 .. Len(r) /\ EntersAt(U, r, 0, c, s)
    BY <1>1, <2>1 DEF EntersAt
  <2>4. QED BY <2>2, <2>3 DEF EndsIn, r
<1>5. CASE i \notin {0, 1}
  <2>1. i \in DOMAIN q /\ q[i] = Enters(c, s)
    BY <1>2, <1>5 DEF EntersAt
  <2>2. i - 1 \in 0 .. Len(r) /\ i - 1 \in DOMAIN r /\ r[i - 1] = Enters(c, s) /\ i - 1 # 0
    BY <1>1, <1>5, <2>1
  <2>3. ~LeavesBetween(r, i - 1, Len(r) + 1, c, s)
    BY <1>1, <1>2, <1>3, <2>2
  <2>4. EntersAt(U, r, i - 1, c, s)
    BY <2>2 DEF EntersAt
  <2>5. QED BY <2>2, <2>3, <2>4 DEF EndsIn, r
<1>6. QED BY <1>4, <1>5

\* One more command: a topic is entered only once all the others are left.
LEMMA OrderlyMore ==
  ASSUME NEW q \in Seq(Commands), NEW e \in Commands, NEW c \in Clients,
         NEW last, NEW x, NEW T \in SUBSET Shards, Orderly(T, q, c, last),
         \A t \in Shards : e = Enters(c, t) => last \notin Shards /\ x = t,
         x = last \/ last \notin Shards \/ e = Leaves(c, last)
  PROVE  Orderly(T, Append(q, e), c, x)
<1> DEFINE r == Append(q, e)
<1>1. /\ Len(q) \in Nat /\ DOMAIN q = 1 .. Len(q)
      /\ Len(r) = Len(q) + 1 /\ DOMAIN r = 1 .. Len(q) + 1
      /\ \A i \in 1 .. Len(q) : r[i] = q[i]
      /\ r[Len(q) + 1] = e
  BY QueueElements
<1> HIDE DEF r
<1>2. ASSUME NEW i, NEW j \in Nat, NEW m \in Nat, NEW s, j <= m, LeavesBetween(q, i, j, c, s)
      PROVE  LeavesBetween(r, i, m, c, s)
  <2>1. PICK k \in DOMAIN q : i < k /\ k < j /\ q[k] = Leaves(c, s)
    BY <1>2 DEF LeavesBetween
  <2>2. k \in DOMAIN r /\ i < k /\ k < m /\ r[k] = Leaves(c, s)
    BY <1>1, <1>2, <2>1
  <2>3. QED BY <2>2 DEF LeavesBetween
<1>3. ASSUME NEW i \in 0 .. Len(r), NEW s \in Shards, EntersAt(T, r, i, c, s)
      PROVE  \/ i \in 0 .. Len(q) /\ EntersAt(T, q, i, c, s)
             \/ i = Len(q) + 1 /\ e = Enters(c, s)
  <2>1. CASE i \in 0 .. Len(q)
    BY <1>1, <1>3, <2>1 DEF EntersAt
  <2>2. CASE i = Len(q) + 1
    BY <1>1, <1>3, <2>2 DEF EntersAt
  <2>3. QED BY <1>1, <2>1, <2>2
<1>4. ASSUME NEW i \in 0 .. Len(r), NEW s \in Shards, EntersAt(T, r, i, c, s),
             NEW j \in DOMAIN r, NEW t \in Shards, r[j] = Enters(c, t), i < j
      PROVE  LeavesBetween(r, i, j, c, s)
  <2>1. i \in 0 .. Len(q) /\ EntersAt(T, q, i, c, s)
    BY <1>1, <1>3, <1>4
  <2>2. CASE j \in DOMAIN q
    <3>1. LeavesBetween(q, i, j, c, s)
      BY <1>1, <1>4, <2>1, <2>2 DEF Orderly
    <3>2. QED BY <1>1, <1>2, <2>2, <3>1
  <2>3. CASE j = Len(q) + 1
    <3>1. last \notin Shards
      BY <1>1, <1>4, <2>3
    <3>2. LeavesBetween(q, i, Len(q) + 1, c, s)
      BY <2>1, <3>1 DEF Orderly
    <3>3. Len(q) + 1 \in Nat
      BY <1>1
    <3>4. QED BY <1>2, <2>3, <3>2, <3>3
  <2>4. QED BY <1>1, <2>2, <2>3
<1>5. ASSUME NEW i \in 0 .. Len(r), NEW s \in Shards, EntersAt(T, r, i, c, s), s # x
      PROVE  LeavesBetween(r, i, Len(r) + 1, c, s)
  <2>1. i \in 0 .. Len(q) /\ EntersAt(T, q, i, c, s)
    BY <1>3, <1>5
  <2>2. CASE s = last
    <3>1. Len(q) + 1 \in DOMAIN r /\ i < Len(q) + 1 /\ Len(q) + 1 < Len(r) + 1
          /\ r[Len(q) + 1] = Leaves(c, s)
      BY <1>1, <1>5, <2>1, <2>2
    <3>2. QED BY <3>1 DEF LeavesBetween
  <2>3. CASE s # last
    <3>1. LeavesBetween(q, i, Len(q) + 1, c, s)
      BY <2>1, <2>3 DEF Orderly
    <3>2. Len(q) + 1 \in Nat /\ Len(r) + 1 \in Nat /\ Len(q) + 1 <= Len(r) + 1
      BY <1>1
    <3>3. QED BY <1>2, <3>1, <3>2
  <2>4. QED BY <2>2, <2>3
<1>6. \A s, t \in T : s = t
  BY DEF Orderly
<1>7. QED BY <1>4, <1>5, <1>6 DEF Orderly, r

\* A topic stays the last one until it is left, and one that is entered becomes it.
LEMMA EndsInMore ==
  ASSUME NEW q \in Seq(Commands), NEW e \in Commands, NEW c \in Clients, NEW s \in Shards,
         NEW T \in SUBSET Shards,
         (EndsIn(T, q, c, s) /\ e # Leaves(c, s)) \/ e = Enters(c, s)
  PROVE  EndsIn(T, Append(q, e), c, s)
<1> DEFINE r == Append(q, e)
<1>1. /\ Len(q) \in Nat /\ DOMAIN q = 1 .. Len(q)
      /\ Len(r) = Len(q) + 1 /\ DOMAIN r = 1 .. Len(q) + 1
      /\ \A i \in 1 .. Len(q) : r[i] = q[i]
      /\ r[Len(q) + 1] = e
  BY QueueElements
<1> HIDE DEF r
<1>2. CASE e = Enters(c, s)
  <2> DEFINE n == Len(q) + 1
  <2>1. n \in 0 .. Len(r) /\ EntersAt(T, r, n, c, s)
    BY <1>1, <1>2 DEF EntersAt
  <2>2. ~LeavesBetween(r, n, Len(r) + 1, c, s)
    BY <1>1 DEF LeavesBetween
  <2>3. QED BY <2>1, <2>2 DEF EndsIn, r
<1>3. CASE EndsIn(T, q, c, s) /\ e # Leaves(c, s)
  <2>1. PICK i \in 0 .. Len(q) : EntersAt(T, q, i, c, s) /\ ~LeavesBetween(q, i, Len(q) + 1, c, s)
    BY <1>3 DEF EndsIn
  <2>2. i \in 0 .. Len(r) /\ EntersAt(T, r, i, c, s)
    BY <1>1, <2>1 DEF EntersAt
  <2>3. ~LeavesBetween(r, i, Len(r) + 1, c, s)
    <3> SUFFICES ASSUME NEW k \in DOMAIN r, i < k, r[k] = Leaves(c, s) PROVE FALSE
      BY DEF LeavesBetween
    <3>1. k \in DOMAIN q /\ q[k] = Leaves(c, s)
      BY <1>1, <1>3
    <3>2. QED BY <1>1, <2>1, <3>1 DEF LeavesBetween
  <2>4. QED BY <2>2, <2>3 DEF EndsIn, r
<1>4. QED BY <1>2, <1>3

\* A move of c leads c to its new topic, and nobody else anywhere else.
LEMMA MoveLeads ==
  ASSUME NEW q \in Seq(Commands), NEW c \in Clients,
         NEW old \in Shards \cup {NoShard}, NEW new \in Shards \cup {NoShard},
         NEW current, current = IF new = NoShard THEN old ELSE new,
         NEW T \in SUBSET Shards
  PROVE  /\ Orderly(T, q, c, old) => Orderly(T, Moved(q, c, old, new), c, current)
         /\ current \in Shards /\ (old \in Shards => EndsIn(T, q, c, old)) =>
              EndsIn(T, Moved(q, c, old, new), c, current)
         /\ \A d \in Clients \ {c} : \A last : Orderly(T, q, d, last) => Orderly(T, Moved(q, c, old, new), d, last)
         /\ \A d \in Clients \ {c}, s \in Shards : EndsIn(T, q, d, s) => EndsIn(T, Moved(q, c, old, new), d, s)
<1>1. CASE new \in {NoShard, old}
  <2>1. Moved(q, c, old, new) = q /\ current = old
    BY <1>1 DEF Moved
  <2>2. QED BY <2>1
<1>2. CASE new \notin {NoShard, old}
  <2> DEFINE q1 == IF old = NoShard THEN q ELSE Append(q, Leaves(c, old))
             e == Enters(c, new)
  <2>1. Moved(q, c, old, new) = Append(q1, e) /\ current = new /\ new \in Shards /\ NoShard \notin Shards
    BY <1>2 DEF Moved, NoShard, Shards
  <2>2. e \in Commands /\ (\A t \in Shards : e = Enters(c, t) => t = new)
        /\ (\A d \in Clients, t \in Shards : e # Leaves(d, t))
        /\ \A d \in Clients \ {c}, t \in Shards : e # Enters(d, t)
    BY <2>1, CommandsDiffer
  <2>3. q1 \in Seq(Commands) /\ (Orderly(T, q, c, old) => Orderly(T, q1, c, NoShard))
        /\ (\A d \in Clients \ {c} : \A last : Orderly(T, q, d, last) => Orderly(T, q1, d, last))
        /\ \A d \in Clients \ {c}, s \in Shards : EndsIn(T, q, d, s) => EndsIn(T, q1, d, s)
    <3>1. CASE old = NoShard
      BY <3>1
    <3>2. CASE old # NoShard
      <4> DEFINE l == Leaves(c, old)
      <4>1. l \in Commands /\ (\A d \in Clients, t \in Shards : l # Enters(d, t))
            /\ \A d \in Clients \ {c}, t \in Shards : l # Leaves(d, t)
        BY <3>2, CommandsDiffer
      <4>2. q1 = Append(q, l) /\ l = Leaves(c, old)
        BY <3>2
      <4> HIDE DEF l, q1
      <4>3. q1 \in Seq(Commands)
        BY <4>1, <4>2, QueueElements
      <4>4. Orderly(T, q, c, old) => Orderly(T, q1, c, NoShard)
        BY <4>1, <4>2, OrderlyMore
      <4>5. ASSUME NEW d \in Clients \ {c}, NEW last, Orderly(T, q, d, last)
            PROVE  Orderly(T, q1, d, last)
        BY <4>1, <4>2, <4>5, OrderlyMore
      <4>6. ASSUME NEW d \in Clients \ {c}, NEW s \in Shards, EndsIn(T, q, d, s)
            PROVE  EndsIn(T, q1, d, s)
        BY <4>1, <4>2, <4>6, EndsInMore
      <4>7. QED BY <4>3, <4>4, <4>5, <4>6
    <3>3. QED BY <3>1, <3>2
  <2> HIDE DEF q1
  <2>4. Orderly(T, q, c, old) => Orderly(T, Append(q1, e), c, new)
    <3> SUFFICES ASSUME Orderly(T, q1, c, NoShard) PROVE Orderly(T, Append(q1, e), c, new)
      BY <2>3
    <3> HIDE DEF e
    <3>1. QED BY <2>1, <2>2, <2>3, OrderlyMore
  <2>5. EndsIn(T, Append(q1, e), c, new)
    BY <2>1, <2>2, <2>3, EndsInMore
  <2>6. ASSUME NEW d \in Clients \ {c}, NEW last, Orderly(T, q1, d, last)
        PROVE  Orderly(T, Append(q1, e), d, last)
    <3> HIDE DEF e
    <3>1. QED BY <2>2, <2>3, <2>6, OrderlyMore
  <2>7. ASSUME NEW d \in Clients \ {c}, NEW s \in Shards, EndsIn(T, q1, d, s)
        PROVE  EndsIn(T, Append(q1, e), d, s)
    <3> HIDE DEF e
    <3>1. QED BY <2>2, <2>3, <2>7, EndsInMore
  <2>8. QED BY <2>1, <2>3, <2>4, <2>5, <2>6, <2>7
<1>3. QED BY <1>1, <1>2

-----------------------------------------------------------------------------
(* The invariants.                                                         *)

\* Every player leaves one topic before it enters the next, and the record says where it
\* goes; without a stream it enters none.
TopicsInv ==
  /\ \A c \in Clients : Orderly(Topics(c), wire, c, last_known_shards[c])
  /\ StreamExists \/ subscribed = {}

\* With a stream, a player none of whose commands was lost goes where the record says.
SubscribedInv ==
  StreamExists =>
    \A c \in Clients \ missed : last_known_shards[c] \in Shards =>
      EndsIn(Topics(c), wire, c, last_known_shards[c])

SpatialInv == Typed /\ OnRecordWhereItIs /\ TopicsInv /\ SubscribedInv

\* The service starts with an empty world.
LEMMA SpatialAtFirst == Init => SpatialInv
<1> SUFFICES ASSUME Init PROVE SpatialInv
  OBVIOUS
<1>1. /\ broker_conn_id = FALSE /\ wire = <<>> /\ subscribed = {} /\ missed = {}
      /\ last_known_shards = [c \in Clients |-> NoShard]
      /\ position = [c \in Clients |-> Nowhere]
      /\ session = [c \in Clients |-> NoConn]
  BY DEF Init, PubSub!Init
<1>2. <<>> \in Seq(Commands)
  BY EmptySeq
<1>3. Typed
  BY <1>1, <1>2 DEF Typed
<1>4. OnRecordWhereItIs
  BY <1>1 DEF OnRecordWhereItIs
<1>5. \A c \in Clients : Topics(c) = {}
  BY <1>1 DEF Topics
<1>6. \A c \in Clients : Orderly({}, <<>>, c, NoShard)
  BY DEF Orderly, EntersAt
<1>7. TopicsInv
  BY <1>1, <1>5, <1>6 DEF TopicsInv
<1>8. SubscribedInv
  BY <1>1 DEF SubscribedInv, NoShard, Shards
<1>9. QED BY <1>3, <1>4, <1>7, <1>8 DEF SpatialInv

\* A position is handled.
LEMMA PositionKeeps ==
  ASSUME SpatialInv, NEW c \in Clients, NEW pos \in Positions, HandlePosition(c, pos)
  PROVE  SpatialInv'
<1> DEFINE old == last_known_shards[c]
           new == shard_for(pos)
           current == IF new = NoShard THEN old ELSE new
<1>1. Typed /\ pos \in Int \X Int
  BY PositionsAssumption DEF SpatialInv
<1>2. PICK q : q = Moved(wire, c, old, new)
  OBVIOUS
<1>3. /\ last_known_shards' = [last_known_shards EXCEPT ![c] = current]
      /\ position' = [position EXCEPT ![c] = pos]
      /\ old \in Shards \cup {NoShard} /\ new \in Shards \cup {NoShard}
      /\ q \in Seq(Commands)
      /\ wire' = q \/ \E t \in Shards : wire' = Append(q, Warns(c, t))
      /\ UNCHANGED <<broker_conn_id, session, subscribed, missed>>
  <2>1. Handles(c, pos)
    BY <1>1, PositionHandled
  <2>2. wire' = q \/ \E t \in Shards : wire' = Append(q, Warns(c, t))
    BY <1>2, <2>1 DEF Handles
  <2>3. QED BY <1>2, <2>1, <2>2 DEF Handles
<1>4. wire \in Seq(Commands) /\ \A d \in Clients : Topics(d) \in SUBSET Shards
  BY <1>1 DEF Typed, Topics
<1>5. Typed'
  <2>1. wire' \in Seq(Commands)
    <3>1. \A t \in Shards : Warns(c, t) \in Commands
      BY CommandsDiffer
    <3>2. \A t \in Shards : Append(q, Warns(c, t)) \in Seq(Commands)
      BY <1>3, <3>1, QueueElements
    <3>3. QED BY <1>3, <1>4, <3>2
  <2>2. current \in Shards \cup {NoShard}
    BY <1>3
  <2> HIDE DEF current
  <2>3. QED BY <1>1, <1>3, <2>1, <2>2 DEF Typed
<1>6. OnRecordWhereItIs'
  <2>1. Inside(pos) => current = SignShard(pos)
    <3>1. Inside(pos) => new = SignShard(pos) /\ SignShard(pos) \in Shards
      BY <1>1, TreeFollowsSigns
    <3>2. NoShard \notin Shards
      BY DEF NoShard, Shards
    <3>3. QED BY <3>1, <3>2
  <2> HIDE DEF current
  <2>2. /\ position'[c] = pos /\ last_known_shards'[c] = current
        /\ \A d \in Clients \ {c} : position'[d] = position[d] /\ last_known_shards'[d] = last_known_shards[d]
    BY <1>1, <1>3 DEF Typed
  <2>3. QED BY <2>1, <2>2 DEF SpatialInv, OnRecordWhereItIs
<1>7. current = IF new = NoShard THEN old ELSE new
  OBVIOUS
<1>8. /\ last_known_shards'[c] = current
      /\ \A d \in Clients \ {c} : last_known_shards'[d] = last_known_shards[d]
  <2> HIDE DEF current
  <2>1. QED BY <1>1, <1>3 DEF Typed
<1> HIDE DEF old, new, current
<1>9. \A d \in Clients : Topics(d)' = Topics(d)
  BY <1>3 DEF Topics
<1>10. ASSUME NEW T \in SUBSET Shards
      PROVE  /\ Orderly(T, wire, c, old) => Orderly(T, q, c, current)
             /\ current \in Shards /\ (old \in Shards => EndsIn(T, wire, c, old)) => EndsIn(T, q, c, current)
             /\ \A d \in Clients \ {c} : \A last : Orderly(T, wire, d, last) => Orderly(T, q, d, last)
             /\ \A d \in Clients \ {c}, s \in Shards : EndsIn(T, wire, d, s) => EndsIn(T, q, d, s)
  <2>1. \A u \in Seq(Commands) : \A v \in Shards \cup {NoShard}, w \in Shards \cup {NoShard} : \A x :
          x = (IF w = NoShard THEN v ELSE w) =>
            /\ Orderly(T, u, c, v) => Orderly(T, Moved(u, c, v, w), c, x)
            /\ x \in Shards /\ (v \in Shards => EndsIn(T, u, c, v)) => EndsIn(T, Moved(u, c, v, w), c, x)
            /\ \A d \in Clients \ {c} : \A last : Orderly(T, u, d, last) => Orderly(T, Moved(u, c, v, w), d, last)
            /\ \A d \in Clients \ {c}, s \in Shards : EndsIn(T, u, d, s) => EndsIn(T, Moved(u, c, v, w), d, s)
    BY MoveLeads
  <2>2. QED BY <1>2, <1>3, <1>4, <1>7, <2>1
\* The alert leads nobody anywhere.
<1>11. ASSUME NEW T \in SUBSET Shards, NEW d \in Clients
       PROVE  /\ \A last : Orderly(T, q, d, last) => Orderly(T, wire', d, last)
              /\ \A s \in Shards : EndsIn(T, q, d, s) => EndsIn(T, wire', d, s)
  <2>1. CASE wire' = q
    BY <2>1
  <2>2. ASSUME NEW t \in Shards, wire' = Append(q, Warns(c, t))
        PROVE  /\ \A last : Orderly(T, q, d, last) => Orderly(T, wire', d, last)
               /\ \A s \in Shards : EndsIn(T, q, d, s) => EndsIn(T, wire', d, s)
    <3> DEFINE e == Warns(c, t)
    <3>1. e \in Commands /\ \A s \in Shards : e # Enters(d, s) /\ e # Leaves(d, s)
      BY CommandsDiffer
    <3> HIDE DEF e
    <3>2. \A last : Orderly(T, q, d, last) => Orderly(T, Append(q, e), d, last)
      BY <1>3, <3>1, OrderlyMore
    <3>3. \A s \in Shards : EndsIn(T, q, d, s) => EndsIn(T, Append(q, e), d, s)
      BY <1>3, <3>1, EndsInMore
    <3>4. QED BY <2>2, <3>2, <3>3 DEF e
  <2>3. QED BY <1>3, <2>1, <2>2
<1>12. TopicsInv'
  <2>1. ASSUME NEW d \in Clients PROVE Orderly(Topics(d)', wire', d, last_known_shards'[d])
    <3>1. Orderly(Topics(d), wire, d, last_known_shards[d])
      BY DEF SpatialInv, TopicsInv
    <3>2. Orderly(Topics(d), q, d, last_known_shards'[d])
      <4>1. CASE d = c
        BY <1>4, <1>8, <1>10, <3>1, <4>1 DEF old
      <4>2. CASE d # c
        BY <1>4, <1>8, <1>10, <3>1, <4>2
      <4>3. QED BY <4>1, <4>2
    <3>3. QED BY <1>4, <1>9, <1>11, <3>2
  <2>2. QED BY <1>3, <2>1 DEF SpatialInv, TopicsInv
<1>13. SubscribedInv'
  <2> SUFFICES ASSUME StreamExists, NEW d \in Clients \ missed, last_known_shards'[d] \in Shards
               PROVE  EndsIn(Topics(d)', wire', d, last_known_shards'[d])
    BY <1>3 DEF SubscribedInv
  <2>1. last_known_shards[d] \in Shards => EndsIn(Topics(d), wire, d, last_known_shards[d])
    BY DEF SpatialInv, SubscribedInv
  <2>2. CASE d = c
    <3>1. EndsIn(Topics(d), q, d, last_known_shards'[d])
      BY <1>4, <1>8, <1>10, <2>1, <2>2 DEF old
    <3>2. QED BY <1>4, <1>9, <1>11, <2>2, <3>1
  <2>3. CASE d # c
    <3>1. last_known_shards'[d] = last_known_shards[d]
      BY <1>8, <2>3
    <3>2. EndsIn(Topics(d), q, d, last_known_shards'[d])
      BY <1>4, <1>10, <2>1, <2>3, <3>1
    <3>3. QED BY <1>4, <1>9, <1>11, <3>1, <3>2
  <2>4. QED BY <2>2, <2>3
<1>14. QED BY <1>5, <1>6, <1>12, <1>13 DEF SpatialInv

\* Fewer topics held are still in order.
LEMMA OrderlyFewer ==
  ASSUME NEW T, NEW U, U \subseteq T, NEW q, NEW c, NEW last, Orderly(T, q, c, last)
  PROVE  Orderly(U, q, c, last)
BY DEF Orderly, EntersAt

\* The broker takes a command.
LEMMA RoutingKeeps ==
  ASSUME SpatialInv, StreamExists, BrokerRoutes
  PROVE  SpatialInv'
<1>1. PICK q : q = wire
  OBVIOUS
<1>2. PICK m : m = Head(q)
  OBVIOUS
<1>3. /\ q \in Seq(Commands) /\ q # <<>> /\ wire' = Tail(q) /\ m \in Commands
      /\ Tail(q) \in Seq(Commands)
      /\ UNCHANGED <<broker_conn_id, last_known_shards, position, session>> /\ StreamExists
      /\ \/ m.tag = "subscribe" /\ session[m.client] # NoConn /\ missed' = missed
            /\ subscribed' = subscribed \cup {<<m.client, m.topic>>}
         \/ m.tag = "subscribe" /\ missed' = missed \cup {m.client} /\ subscribed' = subscribed
         \/ /\ m.tag = "unsubscribe" /\ missed' = missed
            /\ subscribed' = subscribed \ {<<m.client, m.topic>>}
         \/ m.tag = "crossing_alert" /\ missed' = missed /\ subscribed' = subscribed
  <2>1. q \in Seq(Commands) /\ q # <<>> /\ wire' = Tail(q)
    BY <1>1 DEF SpatialInv, Typed, BrokerRoutes
  <2>2. m \in Commands /\ Tail(q) \in Seq(Commands)
    BY <1>2, <2>1, QueueElements
  <2>3. /\ UNCHANGED <<broker_conn_id, last_known_shards, position, session>> /\ StreamExists
        /\ \/ m.tag = "subscribe" /\ session[m.client] # NoConn /\ missed' = missed
              /\ subscribed' = subscribed \cup {<<m.client, m.topic>>}
           \/ m.tag = "subscribe" /\ missed' = missed \cup {m.client} /\ subscribed' = subscribed
           \/ /\ m.tag = "unsubscribe" /\ missed' = missed
              /\ subscribed' = subscribed \ {<<m.client, m.topic>>}
           \/ m.tag = "crossing_alert" /\ missed' = missed /\ subscribed' = subscribed
    BY <1>1, <1>2
       DEF BrokerRoutes, PubSub!Subscribe, PubSub!Unsubscribe, PubSub!Alert, PubSub!Quiet
  <2>4. QED BY <2>1, <2>2, <2>3
<1>4. missed \subseteq missed'
  BY <1>3
<1>5. Typed'
  BY <1>3 DEF SpatialInv, Typed, Commands
<1>6. OnRecordWhereItIs'
  BY <1>3 DEF SpatialInv, OnRecordWhereItIs
<1>7. \A d \in Clients : Topics(d) \in SUBSET Shards /\ Topics(d)' \in SUBSET Shards
  BY DEF Topics
\* What becomes of the topics of a player.
<1>8. ASSUME NEW d \in Clients
      PROVE  /\ \A s \in Topics(d)' : (s \in Topics(d) \/ m = Enters(d, s)) /\ m # Leaves(d, s)
             /\ \A s \in Shards : s \in Topics(d) /\ m # Leaves(d, s) => s \in Topics(d)'
             /\ \A s \in Shards : m = Enters(d, s) /\ d \notin missed' => s \in Topics(d)'
  <2>1. \A s \in Shards :
          /\ m = Enters(d, s) <=> m.tag = "subscribe" /\ m.client = d /\ m.topic = s
          /\ m = Leaves(d, s) <=> m.tag = "unsubscribe" /\ m.client = d /\ m.topic = s
    BY <1>3 DEF Enters, Leaves, Command, Commands
  <2>2. /\ \A s \in Shards : s \in Topics(d) <=> <<d, s>> \in subscribed
        /\ \A s \in Shards : s \in Topics(d)' <=> <<d, s>> \in subscribed'
    BY DEF Topics
  <2>3. \A s \in Shards : <<d, s>> = <<m.client, m.topic>> <=> m.client = d /\ m.topic = s
    OBVIOUS
  <2>4. QED BY <1>3, <1>7, <2>1, <2>2, <2>3
<1>9. TopicsInv'
  <2> SUFFICES ASSUME NEW d \in Clients
               PROVE  Orderly(Topics(d)', wire', d, last_known_shards'[d])
    BY <1>3 DEF TopicsInv
  <2>1. PICK T \in SUBSET Shards : T = Topics(d)
    BY <1>7
  <2>2. PICK U \in SUBSET Shards : U = Topics(d)'
    BY <1>7
  <2>3. PICK last : last = last_known_shards[d]
    OBVIOUS
  <2>4. Orderly(T, q, d, last)
    BY <1>1, <2>1, <2>3 DEF SpatialInv, TopicsInv
  <2>5. \A s \in U : (s \in T \/ Head(q) = Enters(d, s)) /\ Head(q) # Leaves(d, s)
    BY <1>2, <1>8, <2>1, <2>2
  <2>6. Orderly(U, Tail(q), d, last)
    BY <1>3, <2>4, <2>5, OrderlyLess
  <2>7. QED BY <1>3, <2>2, <2>3, <2>6
<1>10. SubscribedInv'
  <2> SUFFICES ASSUME NEW d \in Clients \ missed', last_known_shards[d] \in Shards
               PROVE  EndsIn(Topics(d)', wire', d, last_known_shards[d])
    BY <1>3 DEF SubscribedInv
  <2>1. PICK T \in SUBSET Shards : T = Topics(d)
    BY <1>7
  <2>2. PICK U \in SUBSET Shards : U = Topics(d)'
    BY <1>7
  <2>3. PICK s \in Shards : s = last_known_shards[d]
    OBVIOUS
  <2>4. EndsIn(T, q, d, s)
    BY <1>1, <1>3, <1>4, <2>1, <2>3 DEF SpatialInv, SubscribedInv
  <2>5. (s \in T /\ Head(q) # Leaves(d, s)) \/ Head(q) = Enters(d, s) => s \in U
    BY <1>2, <1>8, <2>1, <2>2
  <2>6. EndsIn(U, Tail(q), d, s)
    BY <1>3, <2>4, <2>5, EndsInLess
  <2>7. QED BY <1>3, <2>2, <2>3, <2>6
<1>11. QED BY <1>5, <1>6, <1>9, <1>10 DEF SpatialInv

\* The backend refuses a command: nobody holds a topic, whatever the command was about.
LEMMA RefusalKeeps ==
  ASSUME SpatialInv, ~StreamExists, Refuse
  PROVE  SpatialInv'
<1>1. PICK q : q = wire
  OBVIOUS
<1>2. /\ q \in Seq(Commands) /\ q # <<>> /\ wire' = Tail(q) /\ ~StreamExists /\ subscribed = {}
      /\ UNCHANGED <<broker_conn_id, last_known_shards, position, session, subscribed, missed>>
  BY <1>1 DEF SpatialInv, Typed, TopicsInv, Refuse, broker
<1>3. Tail(q) \in Seq(Commands)
  BY <1>2, QueueElements
<1>4. Typed' /\ OnRecordWhereItIs' /\ SubscribedInv'
  BY <1>2, <1>3 DEF SpatialInv, Typed, OnRecordWhereItIs, SubscribedInv
<1>5. TopicsInv'
  <2> SUFFICES ASSUME NEW d \in Clients PROVE Orderly(Topics(d)', Tail(q), d, last_known_shards[d])
    BY <1>2 DEF TopicsInv
  <2>1. Topics(d) = {} /\ Topics(d)' = {}
    BY <1>2 DEF Topics
  <2>2. Orderly({}, q, d, last_known_shards[d])
    BY <1>1, <2>1 DEF SpatialInv, TopicsInv
  <2>3. PICK last : last = last_known_shards[d]
    OBVIOUS
  <2>4. Orderly({}, Tail(q), d, last)
    BY <1>2, <2>2, <2>3, OrderlyLess
  <2>5. QED BY <2>1, <2>3, <2>4
<1>6. QED BY <1>4, <1>5 DEF SpatialInv

\* A player connects, moves or leaves.
LEMMA PlayersKeep ==
  ASSUME SpatialInv, NEW c \in Clients, Play(c) \/ Leave(c)
  PROVE  SpatialInv'
<1>1. UNCHANGED <<broker_conn_id, last_known_shards, position, wire>>
  BY DEF Play, Leave
<1>2. /\ session \in [Clients -> Clients \cup {NoConn}]
      /\ \A d \in Clients : session[d] \in {NoConn, d}
      /\ subscribed \subseteq Clients \X Shards /\ missed \subseteq Clients /\ NoConn \notin Clients
  BY ClientsAssumption DEF SpatialInv, Typed
<1>3. OnRecordWhereItIs'
  BY <1>1 DEF SpatialInv, OnRecordWhereItIs
<1>4. CASE Play(c)
  <2>1. /\ session' = IF session[c] = NoConn THEN [session EXCEPT ![c] = c] ELSE session
        /\ subscribed' = subscribed /\ missed' = missed
    BY <1>4 DEF Play, PubSub!Input
  <2>2. \A d \in Clients : session'[d] \in {NoConn, d}
    BY <1>2, <2>1
  <2>3. session' \in [Clients -> Clients \cup {NoConn}]
    BY <1>2, <2>1
  <2>4. \A d \in Clients : Topics(d)' = Topics(d)
    BY <2>1 DEF Topics
  <2>5. QED BY <1>1, <1>3, <2>1, <2>2, <2>3, <2>4 DEF SpatialInv, Typed, TopicsInv, SubscribedInv
<1>5. CASE Leave(c)
  <2>1. /\ missed' = missed \cup {c}
        /\ session' = [d \in Clients |-> IF session[d] = c THEN NoConn ELSE session[d]]
        /\ subscribed' = {p \in subscribed : p[1] \notin {d \in Clients : session[d] = c}}
    BY <1>5 DEF Leave, PubSub!Leave
  <2>2. \A d \in Clients \ missed' : d \in Clients \ missed /\ session[d] # c
    BY <1>2, <2>1
  <2>3. /\ \A d \in Clients : session'[d] \in {NoConn, d}
        /\ session' \in [Clients -> Clients \cup {NoConn}]
    BY <1>2, <2>1
  <2>4. \A d \in Clients : Topics(d)' \subseteq Topics(d)
    BY <2>1 DEF Topics
  <2>5. ASSUME NEW d \in Clients \ missed' PROVE Topics(d)' = Topics(d)
    <3>1. \A s \in Shards : <<d, s>> \in subscribed' <=> <<d, s>> \in subscribed
      BY <2>1, <2>2
    <3>2. QED BY <3>1 DEF Topics
  <2>6. subscribed' \subseteq subscribed
    BY <2>1
  <2>7. Typed'
    BY <1>1, <1>2, <2>1, <2>3, <2>6 DEF SpatialInv, Typed
  <2>8. TopicsInv'
    <3>1. ASSUME NEW d \in Clients, Orderly(Topics(d), wire, d, last_known_shards[d])
          PROVE  Orderly(Topics(d)', wire, d, last_known_shards[d])
      BY <2>4, <3>1, OrderlyFewer
    <3>2. QED BY <1>1, <2>6, <3>1 DEF SpatialInv, TopicsInv
  <2>9. SubscribedInv'
    BY <1>1, <2>2, <2>5 DEF SpatialInv, SubscribedInv
  <2>10. QED BY <1>3, <2>7, <2>8, <2>9 DEF SpatialInv
<1>6. QED BY <1>4, <1>5

\* One step per action, each of them proved above.
LEMMA SpatialKept ==
  ASSUME SpatialInv, [Next]_vars
  PROVE  SpatialInv'
<1>1. ASSUME UNCHANGED <<last_known_shards, position, wire, broker, missed>>, broker_conn_id' \in BOOLEAN
      PROVE  SpatialInv'
  BY <1>1 DEF SpatialInv, Typed, OnRecordWhereItIs, TopicsInv, SubscribedInv, Topics, broker
<1>2. CASE UNCHANGED vars
  BY <1>1, <1>2 DEF vars, SpatialInv, Typed
<1>3. CASE HandleConnected
  BY <1>1, <1>3 DEF HandleConnected
<1>4. QED BY <1>2, <1>3, RefusalKeeps, RoutingKeeps, PlayersKeep, PositionKeeps DEF Next, Deliver

\* The types, and all that follows, hold throughout.
LEMMA SpatialHolds == Spec => []SpatialInv
BY SpatialAtFirst, SpatialKept, PTL DEF Spec

\* A player in the world is on record in the quadrant the signs of its position give,
\* wherever in the world it reports itself (spatial.rs, the tree; main.rs lines 69-77).
THEOREM RecordsArePlaces == Spec => []OnRecordWhereItIs
<1>1. SpatialInv => OnRecordWhereItIs
  BY DEF SpatialInv
<1>2. QED BY <1>1, SpatialHolds, PTL

\* A player is never under the topics of two shards: the old one is left before the new
\* one is entered (main.rs lines 78-102).
THEOREM OneShardAtATime == Spec => []NeverInTwoShards
<1>1. SpatialInv => NeverInTwoShards
  <2> SUFFICES ASSUME SpatialInv, NEW c \in Clients PROVE Cardinality(Topics(c)) <= 1
    BY DEF NeverInTwoShards
  <2>1. \A s, t \in Topics(c) : s = t
    BY DEF SpatialInv, TopicsInv, Orderly
  <2>2. Topics(c) = {} \/ \E s : Topics(c) = {s}
    BY <2>1
  <2>3. Cardinality({}) = 0 /\ \A s : Cardinality({s}) = 1
    BY FS_EmptySet, FS_Singleton
  <2>4. CASE Topics(c) = {}
    BY <2>3, <2>4
  <2>5. ASSUME NEW s, Topics(c) = {s} PROVE Cardinality(Topics(c)) <= 1
    <3>1. Cardinality(Topics(c)) = 1
      BY <2>3, <2>5
    <3>2. QED BY <3>1
  <2>6. QED BY <2>2, <2>4, <2>5
<1>2. QED BY <1>1, SpatialHolds, PTL

\* As the code stands, the stream the service sends on (main.rs lines 76 and 119) is
\* created nowhere: wherever the players go, nobody is ever under the topic of a shard.
LEMMA NobodyIsSubscribed ==
  ASSUME ~StreamExists
  PROVE  Spec => [](\A c \in Clients : Topics(c) = {})
<1>1. SpatialInv => \A c \in Clients : Topics(c) = {}
  BY ~StreamExists DEF SpatialInv, TopicsInv, Topics
<1>2. QED BY <1>1, SpatialHolds, PTL

\* What creating it would give: with every command gone, a connected player that missed
\* nothing is under the topic of the shard it is on record in (main.rs line 74).
LEMMA WithAStreamTheyFollow ==
  ASSUME StreamExists
  PROVE  Spec => []SubscribedWhereOnRecord
<1>1. SpatialInv => SubscribedWhereOnRecord
  <2> SUFFICES ASSUME SpatialInv, wire = <<>>, NEW c \in Clients \ missed,
                      last_known_shards[c] # NoShard
               PROVE  Topics(c) = {last_known_shards[c]}
    BY DEF SubscribedWhereOnRecord
  <2>1. PICK s : s = last_known_shards[c]
    OBVIOUS
  <2>2. s \in Shards
    BY <2>1 DEF SpatialInv, Typed
  <2>3. Len(<<>>) = 0 /\ DOMAIN <<>> = {} /\ 0 \in 0 .. 0
    OBVIOUS
  <2>4. s \in Topics(c)
    BY <2>1, <2>2, <2>3, StreamExists DEF SpatialInv, SubscribedInv, EndsIn, EntersAt
  <2>5. \A t \in Topics(c) : t = s
    BY <2>4, StreamExists DEF SpatialInv, TopicsInv, Orderly
  <2>6. QED BY <2>1, <2>4, <2>5
<1>2. QED BY <1>1, SpatialHolds, PTL

-----------------------------------------------------------------------------
(* Alerts.                                                                 *)

\* The shards alerted by the commands of q after the first n.
AlertsAfter(q, n) == {q[i].topic : i \in {j \in DOMAIN q : j > n /\ q[j].tag = "crossing_alert"}}

\* A move alerts nobody, and one alert after it one shard.
LEMMA AlertsOfMove ==
  ASSUME NEW q \in Seq(Commands), NEW c \in Clients,
         NEW old \in Shards \cup {NoShard}, NEW new \in Shards \cup {NoShard}
  PROVE  /\ AlertsAfter(Moved(q, c, old, new), Len(q)) = {}
         /\ \A t \in Shards : AlertsAfter(Append(Moved(q, c, old, new), Warns(c, t)), Len(q)) = {t}
<1> DEFINE r == Moved(q, c, old, new)
<1>1. /\ r \in Seq(Commands) /\ Len(q) \in Nat /\ Len(r) \in Nat /\ Len(q) <= Len(r)
      /\ DOMAIN r = 1 .. Len(r)
      /\ \A i \in 1 .. Len(r) : i > Len(q) => r[i].tag # "crossing_alert"
  <2>1. r \in Seq(Commands) /\ Len(q) \in Nat /\ Len(r) \in Nat /\ DOMAIN r = 1 .. Len(r)
    BY MigrationAppends, QueueElements
  <2>2. CASE new \in {NoShard, old}
    <3>1. r = q
      BY <2>2 DEF Moved
    <3> HIDE DEF r
    <3>2. QED BY <2>1, <3>1
  <2>3. CASE new \notin {NoShard, old}
    <3> DEFINE q1 == IF old = NoShard THEN q ELSE Append(q, Leaves(c, old))
               e == Enters(c, new)
    <3>1. r = Append(q1, e)
      BY <2>3 DEF Moved
    <3>2. e \in Commands /\ e.tag = "subscribe"
      BY <2>3, CommandsDiffer DEF Enters, Command
    <3>3. /\ q1 \in Seq(Commands) /\ Len(q1) \in Nat /\ Len(q) <= Len(q1)
          /\ \A i \in 1 .. Len(q1) : i > Len(q) => q1[i].tag # "crossing_alert"
      <4>1. CASE old = NoShard
        BY <2>1, <4>1
      <4>2. CASE old # NoShard
        <5> DEFINE l == Leaves(c, old)
        <5>1. l \in Commands /\ l.tag = "unsubscribe"
          BY <4>2, CommandsDiffer DEF Leaves, Command
        <5>2. q1 = Append(q, l)
          BY <4>2
        <5> HIDE DEF l, q1, r
        <5>3. QED BY <2>1, <5>1, <5>2, QueueElements
      <4>3. QED BY <4>1, <4>2
    <3> HIDE DEF q1, e, r
    <3>4. /\ Len(r) = Len(q1) + 1 /\ r[Len(q1) + 1] = e
          /\ \A i \in 1 .. Len(q1) : r[i] = q1[i]
      BY <3>1, <3>2, <3>3, QueueElements
    <3>5. ASSUME NEW i \in 1 .. Len(r), i > Len(q) PROVE r[i].tag # "crossing_alert"
      <4>1. CASE i = Len(q1) + 1
        BY <3>2, <3>4, <4>1
      <4>2. CASE i # Len(q1) + 1
        BY <3>3, <3>4, <3>5, <4>2
      <4>3. QED BY <4>1, <4>2
    <3>6. QED BY <2>1, <3>3, <3>4, <3>5
  <2>4. QED BY <2>2, <2>3
<1> HIDE DEF r
<1>2. AlertsAfter(r, Len(q)) = {}
  BY <1>1 DEF AlertsAfter
<1>3. ASSUME NEW t \in Shards PROVE AlertsAfter(Append(r, Warns(c, t)), Len(q)) = {t}
  <2> DEFINE w == Warns(c, t)
             u == Append(r, w)
  <2>1. w \in Commands /\ w.tag = "crossing_alert" /\ w.topic = t
    BY CommandsDiffer DEF Warns, Command
  <2> HIDE DEF w
  <2>2. /\ DOMAIN u = 1 .. Len(r) + 1 /\ u[Len(r) + 1] = w
        /\ \A i \in 1 .. Len(r) : u[i] = r[i]
    BY <1>1, <2>1, QueueElements
  <2> HIDE DEF u
  <2>3. {j \in DOMAIN u : j > Len(q) /\ u[j].tag = "crossing_alert"} = {Len(r) + 1}
    BY <1>1, <2>1, <2>2
  <2>4. AlertsAfter(u, Len(q)) = {u[i].topic : i \in {Len(r) + 1}}
    BY <2>3 DEF AlertsAfter
  <2>5. QED BY <2>1, <2>2, <2>4 DEF u, w
<1>4. QED BY <1>2, <1>3 DEF r

\* An alert of a neighbouring shard is asked for exactly when a player in the world is
\* within the margin of one, and never of the shard it is in (main.rs lines 104-117).
THEOREM NeighboursAreAlerted == Spec => AlertsTheNeighbour
<1> DEFINE Alerted(c) ==
      position'[c] # position[c] /\ Inside(position'[c]) =>
        LET others == WithinMargin(position'[c]) \ {last_known_shards'[c]}
            alerts == {wire'[i].topic : i \in {j \in DOMAIN wire' :
                         j > Len(wire) /\ wire'[j].tag = "crossing_alert"}}
        IN alerts \subseteq others /\ (others # {} <=> alerts # {})
<1>1. ASSUME Typed, NEW c \in Clients, NEW pos \in Positions, HandlePosition(c, pos), Inside(pos)
      PROVE  LET others == WithinMargin(pos) \ {last_known_shards'[c]}
                 alerts == AlertsAfter(wire', Len(wire))
             IN alerts \subseteq others /\ (others # {} <=> alerts # {})
  <2> DEFINE old == last_known_shards[c]
             new == shard_for(pos)
             current == IF new = NoShard THEN old ELSE new
             near == shards_near(pos, Margin)
             t == Min(near \ {current})
  <2>1. Handles(c, pos) /\ pos \in Int \X Int /\ wire \in Seq(Commands)
    BY <1>1, PositionHandled, PositionsAssumption DEF Typed
  <2>2. new = SignShard(pos) /\ new \in Shards /\ NoShard \notin Shards
    BY <1>1, <2>1, TreeFollowsSigns DEF NoShard, Shards
  <2>3. near = WithinMargin(pos) /\ new \in near
    BY <1>1, <2>1, <2>2, BoxIsMargin
  <2>4. current = new /\ last_known_shards'[c] = current
    <3>1. last_known_shards' = [last_known_shards EXCEPT ![c] = current]
      BY <2>1 DEF Handles
    <3>2. QED BY <1>1, <2>2, <3>1 DEF Typed
  <2>5. near \subseteq Shards /\ old \in Shards \cup {NoShard}
    BY <2>1 DEF Handles
  <2>6. IF Cardinality(near) > 1
        THEN t \in near \ {current} /\ wire' = Append(Moved(wire, c, old, new), Warns(c, t))
        ELSE wire' = Moved(wire, c, old, new)
    <3>1. current # NoShard
      BY <2>2, <2>4
    <3>2. QED BY <2>1, <3>1 DEF Handles
  <2>7. Cardinality(near) > 1 <=> near \ {current} # {}
    BY <2>3, <2>4, <2>5, OtherNear
  <2>8. /\ AlertsAfter(Moved(wire, c, old, new), Len(wire)) = {}
        /\ \A s \in Shards : AlertsAfter(Append(Moved(wire, c, old, new), Warns(c, s)), Len(wire)) = {s}
    <3>1. \A q \in Seq(Commands) : \A v \in Shards \cup {NoShard}, w \in Shards \cup {NoShard} :
            /\ AlertsAfter(Moved(q, c, v, w), Len(q)) = {}
            /\ \A s \in Shards : AlertsAfter(Append(Moved(q, c, v, w), Warns(c, s)), Len(q)) = {s}
      BY AlertsOfMove
    <3> HIDE DEF old, new
    <3>2. QED BY <2>1, <2>2, <2>5, <3>1
  <2> HIDE DEF old, new, current, near, t
  <2>9. CASE Cardinality(near) > 1
    <3>1. AlertsAfter(wire', Len(wire)) = {t}
      BY <2>5, <2>6, <2>8, <2>9
    <3>2. QED BY <2>3, <2>4, <2>6, <2>7, <2>9, <3>1
  <2>10. CASE ~(Cardinality(near) > 1)
    <3>1. AlertsAfter(wire', Len(wire)) = {}
      BY <2>6, <2>8, <2>10
    <3>2. QED BY <2>3, <2>4, <2>7, <2>10, <3>1
  <2>11. QED BY <2>9, <2>10
<1>2. ASSUME Typed, Next, NEW c \in Clients PROVE Alerted(c)
  <2> SUFFICES ASSUME position'[c] # position[c], Inside(position'[c])
               PROVE  LET others == WithinMargin(position'[c]) \ {last_known_shards'[c]}
                          alerts == AlertsAfter(wire', Len(wire))
                      IN alerts \subseteq others /\ (others # {} <=> alerts # {})
    BY DEF AlertsAfter
  <2>1. \E d \in Clients, pos \in Positions : HandlePosition(d, pos)
    BY <1>2 DEF Next, HandleConnected, Deliver, Refuse, BrokerRoutes, Play, Leave
  <2>2. PICK pos \in Positions : HandlePosition(c, pos) /\ position'[c] = pos
    <3>1. PICK d \in Clients, pos \in Positions : HandlePosition(d, pos)
      BY <2>1
    <3>2. position' = [position EXCEPT ![d] = pos]
      BY <3>1 DEF HandlePosition
    <3>3. d = c /\ position'[c] = pos
      BY <1>2, <3>2 DEF Typed
    <3>4. QED BY <3>1, <3>3
  <2>3. QED BY <1>1, <1>2, <2>2
<1>3. SpatialInv /\ [Next]_vars => [\A c \in Clients : Alerted(c)]_vars
  <2> HIDE DEF Alerted
  <2>1. QED BY <1>2 DEF SpatialInv
<1>4. QED BY <1>3, SpatialHolds, PTL DEF Spec, AlertsTheNeighbour

=============================================================================
