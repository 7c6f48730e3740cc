---------------------------- MODULE BenchmarkProofs ----------------------------
(***************************************************************************)
(* What TLAPS proves about the benchmark, for every unit of time, every    *)
(* interval, warm-up and duration, and however many packets are lost or    *)
(* doubled: no timer runs ahead of the clock; when the client is done      *)
(* every packet it sent is accounted for; and what stats.rs reports of the *)
(* file it left: losses no higher than what is missing; on a stream in     *)
(* order, the dropped replies and the first Warmup + 1 seconds as the loss *)
(* and nothing else; and percentiles that have their rank.                 *)
(***************************************************************************)
EXTENDS Benchmark, SequenceTheorems, FiniteSetTheorems, TLAPS

-----------------------------------------------------------------------------
(* Queues and bags.                                                        *)

\* What a queue holds when one more packet is sent.
LEMMA Appended ==
  ASSUME NEW S, NEW q \in Seq(S), NEW e \in S
  PROVE  /\ Append(q, e) \in Seq(S)
         /\ ToSet(Append(q, e)) = ToSet(q) \cup {e}
<1>1. /\ Append(q, e) \in Seq(S) /\ Len(Append(q, e)) = Len(q) + 1 /\ Len(q) \in Nat
      /\ \A i \in 1 .. Len(q) : Append(q, e)[i] = q[i]
      /\ Append(q, e)[Len(q) + 1] = e
  BY AppendProperties
<1>2. DOMAIN q = 1 .. Len(q) /\ DOMAIN Append(q, e) = 1 .. Len(q) + 1
  BY <1>1
<1>3. 1 .. Len(q) + 1 = (1 .. Len(q)) \cup {Len(q) + 1}
  BY <1>1
<1>4. QED BY <1>1, <1>2, <1>3 DEF ToSet

\* What is left when the network takes a packet out of a queue.
LEMMA Removed ==
  ASSUME NEW S, NEW q \in Seq(S), NEW i \in DOMAIN q
  PROVE  /\ q[i] \in S
         /\ RemoveAt(q, i) \in Seq(S)
         /\ ToSet(RemoveAt(q, i)) \cup {q[i]} = ToSet(q)
         /\ Len(RemoveAt(q, i)) = Len(q) - 1
         /\ \A j \in 1 .. Len(q) - 1 : RemoveAt(q, i)[j] = IF j < i THEN q[j] ELSE q[j + 1]
<1> DEFINE a == SubSeq(q, 1, i - 1)
           b == SubSeq(q, i + 1, Len(q))
<1>1. Len(q) \in Nat /\ DOMAIN q = 1 .. Len(q) /\ i \in 1 .. Len(q) /\ q[i] \in S
  BY LenProperties
<1>2. /\ a \in Seq(S) /\ Len(a) = i - 1 /\ \A j \in 1 .. i - 1 : a[j] = q[j]
  <2>1. \A j \in 1 .. i - 1 : q[j] \in S
    BY <1>1
  <2>2. /\ a \in Seq(S)
        /\ Len(a) = IF 1 <= i - 1 THEN (i - 1) - 1 + 1 ELSE 0
        /\ \A j \in 1 .. (i - 1) - 1 + 1 : a[j] = q[1 + j - 1]
    BY <1>1, <2>1, SubSeqProperties
  <2> HIDE DEF a
  <2>3. QED BY <1>1, <2>2
<1>3. /\ b \in Seq(S) /\ Len(b) = Len(q) - i /\ \A j \in 1 .. Len(q) - i : b[j] = q[i + j]
  <2>1. \A j \in i + 1 .. Len(q) : q[j] \in S
    BY <1>1
  <2>2. /\ b \in Seq(S)
        /\ Len(b) = IF i + 1 <= Len(q) THEN Len(q) - (i + 1) + 1 ELSE 0
        /\ \A j \in 1 .. Len(q) - (i + 1) + 1 : b[j] = q[(i + 1) + j - 1]
    BY <1>1, <2>1, SubSeqProperties
  <2> HIDE DEF b
  <2>3. \A j \in 1 .. Len(q) - i : (i + 1) + j - 1 = i + j
    BY <1>1
  <2>4. QED BY <1>1, <2>2, <2>3
<1>4. RemoveAt(q, i) = a \o b
  BY DEF RemoveAt
<1> HIDE DEF a, b
<1> DEFINE c == a \o b
<1>5. /\ c \in Seq(S) /\ Len(c) = Len(a) + Len(b)
      /\ \A j \in 1 .. Len(a) + Len(b) :
           c[j] = IF j <= Len(a) THEN a[j] ELSE b[j - Len(a)]
  BY <1>2, <1>3, ConcatProperties
<1> HIDE DEF c
<1>6. DOMAIN c = 1 .. Len(q) - 1
  BY <1>1, <1>2, <1>3, <1>5
<1>7. ASSUME NEW j \in 1 .. Len(q) - 1
      PROVE  c[j] = IF j < i THEN q[j] ELSE q[j + 1]
  <2>1. CASE j < i
    BY <1>1, <1>2, <1>3, <1>5, <2>1
  <2>2. CASE ~(j < i)
    <3>1. c[j] = b[j - (i - 1)] /\ j - (i - 1) \in 1 .. Len(q) - i
      BY <1>1, <1>2, <1>3, <1>5, <2>2
    <3>2. i + (j - (i - 1)) = j + 1
      BY <1>1
    <3>3. QED BY <1>3, <2>2, <3>1, <3>2
  <2>3. QED BY <2>1, <2>2
<1>8. ASSUME NEW j \in 1 .. Len(q), j # i
      PROVE  \E m \in 1 .. Len(q) - 1 : c[m] = q[j]
  <2>1. CASE j < i
    BY <1>1, <1>7, <2>1
  <2>2. CASE j > i
    <3>1. j - 1 \in 1 .. Len(q) - 1 /\ ~(j - 1 < i) /\ (j - 1) + 1 = j
      BY <1>1, <2>2
    <3>2. QED BY <1>7, <3>1
  <2>3. QED BY <1>1, <1>8, <2>1, <2>2
<1>9. ToSet(c) \cup {q[i]} \subseteq ToSet(q)
  <2>1. \A j \in 1 .. Len(q) - 1 : c[j] \in ToSet(q)
    BY <1>1, <1>7 DEF ToSet
  <2>2. QED BY <1>1, <1>6, <2>1 DEF ToSet
<1>10. ToSet(q) \subseteq ToSet(c) \cup {q[i]}
  BY <1>1, <1>6, <1>8 DEF ToSet
<1>11. Len(c) = Len(q) - 1
  BY <1>1, <1>2, <1>3, <1>5
<1>12. QED BY <1>1, <1>4, <1>5, <1>7, <1>9, <1>10, <1>11 DEF c

\* A bag of records: each record in it is there a number of times.
Bag(b) == IsFiniteSet(BagToSet(b)) /\ \A e \in BagToSet(b) : b[e] \in Nat \ {0}

Copies(b, e) == IF e \in BagToSet(b) THEN b[e] ELSE 0

OneMore(c, b, r) == \A e : Copies(c, e) = Copies(b, e) + (IF e = r THEN 1 ELSE 0)

\* A record given to the channel, or to the file, is there once more.
LEMMA BagAdded ==
  ASSUME NEW b, Bag(b), NEW r, NEW c, c = b (+) SetToBag({r})
  PROVE  /\ Bag(c) /\ BagToSet(c) = BagToSet(b) \cup {r}
         /\ OneMore(c, b, r)
<1>1. /\ BagToSet(c) = BagToSet(b) \cup {r}
      /\ \A e \in BagToSet(c) :
           c[e] = (IF e \in BagToSet(b) THEN b[e] ELSE 0) + (IF e = r THEN 1 ELSE 0)
  BY DEF BagToSet, SetToBag, (+)
<1>2. IsFiniteSet(BagToSet(b)) /\ \A e \in BagToSet(b) : b[e] \in Nat \ {0}
  BY DEF Bag
<1>3. PICK B, C : B = BagToSet(b) /\ C = BagToSet(c)
  OBVIOUS
<1>4. C = B \cup {r} /\ IsFiniteSet(B)
  BY <1>1, <1>2, <1>3
<1>5. IsFiniteSet(C)
  BY <1>4, FS_AddElement
<1>6. \A e \in B : b[e] \in Nat \ {0}
  BY <1>2, <1>3
<1>7. \A e \in C : c[e] = (IF e \in B THEN b[e] ELSE 0) + (IF e = r THEN 1 ELSE 0)
  BY <1>1, <1>3
<1>8. \A e \in C : c[e] \in Nat \ {0}
  BY <1>4, <1>6, <1>7
<1>9. ASSUME NEW e PROVE Copies(c, e) = Copies(b, e) + (IF e = r THEN 1 ELSE 0)
  <2>1. Copies(c, e) = (IF e \in C THEN c[e] ELSE 0) /\ Copies(b, e) = (IF e \in B THEN b[e] ELSE 0)
    BY <1>3 DEF Copies
  <2>2. QED BY <1>4, <1>6, <1>7, <2>1
<1>10. QED BY <1>1, <1>3, <1>5, <1>8, <1>9 DEF Bag, OneMore

\* Taking a record out of the channel takes out one of its copies and no other one.
LEMMA BagRemoved ==
  ASSUME NEW b, Bag(b), NEW r \in BagToSet(b), NEW c, c = b (-) SetToBag({r})
  PROVE  /\ Bag(c) /\ BagToSet(c) \cup {r} = BagToSet(b)
         /\ \A e : Copies(c, e) = Copies(b, e) - (IF e = r THEN 1 ELSE 0)
<1>1. /\ BagToSet(c) = {e \in BagToSet(b) : (IF e = r THEN b[e] - 1 ELSE b[e]) > 0}
      /\ \A e \in BagToSet(c) : c[e] = IF e = r THEN b[e] - 1 ELSE b[e]
  BY DEF BagToSet, SetToBag, (-)
<1>2. IsFiniteSet(BagToSet(b)) /\ \A e \in BagToSet(b) : b[e] \in Nat \ {0}
  BY DEF Bag
<1>3. PICK B, C : B = BagToSet(b) /\ C = BagToSet(c)
  OBVIOUS
<1>4. /\ IsFiniteSet(B) /\ r \in B /\ \A e \in B : b[e] \in Nat \ {0}
      /\ C = {e \in B : (IF e = r THEN b[e] - 1 ELSE b[e]) > 0}
      /\ \A e \in C : c[e] = IF e = r THEN b[e] - 1 ELSE b[e]
  BY <1>1, <1>2, <1>3
<1>5. /\ \A e \in C : e \in B /\ (e = r => b[e] > 1)
      /\ \A e \in B : e # r => e \in C
      /\ r \notin C => b[r] = 1
  BY <1>4
<1>6. C \cup {r} = B /\ C \subseteq B
  BY <1>4, <1>5
<1>7. IsFiniteSet(C)
  BY <1>4, <1>6, FS_Subset
<1>8. \A e \in C : c[e] \in Nat \ {0}
  BY <1>4, <1>5
<1>9. ASSUME NEW e PROVE Copies(c, e) = Copies(b, e) - (IF e = r THEN 1 ELSE 0)
  <2>1. Copies(c, e) = (IF e \in C THEN c[e] ELSE 0) /\ Copies(b, e) = (IF e \in B THEN b[e] ELSE 0)
    BY <1>3 DEF Copies
  <2>2. CASE e = r
    BY <1>4, <1>5, <2>1, <2>2
  <2>3. CASE e # r
    BY <1>4, <1>5, <2>1, <2>3
  <2>4. QED BY <2>2, <2>3
<1>10. QED BY <1>3, <1>6, <1>7, <1>8, <1>9 DEF Bag

\* A record that is there is there at least once.
LEMMA Copied == ASSUME NEW b, Bag(b), NEW e PROVE Copies(b, e) \in Nat /\ (Copies(b, e) > 0 <=> e \in BagToSet(b))
BY DEF Bag, Copies

-----------------------------------------------------------------------------
(* Counting and sorting.                                                   *)

\* Numbered without repetition, n things have all the numbers up to n.
LEMMA AllNumbers ==
  ASSUME NEW n \in Nat, NEW r \in [1 .. n -> 1 .. n],
         \A i, j \in 1 .. n : r[i] = r[j] => i = j
  PROVE  \A k \in 1 .. n : \E i \in 1 .. n : r[i] = k
<1>1. IsFiniteSet(1 .. n)
  BY FS_Interval
<1>2. r \in Injection(1 .. n, 1 .. n)
  BY DEF Injection, IsInjective
<1>3. r \in Surjection(1 .. n, 1 .. n)
  BY <1>1, <1>2, FS_Injection
<1>4. QED BY <1>3 DEF Surjection

\* i comes before j when the v are sorted.
Precedes(v, i, j) == v[i] < v[j] \/ (v[i] = v[j] /\ i < j)

\* There is an order in which the numbers v ascend: each takes the place that the
\* number of those before it gives.
LEMMA Sortable ==
  ASSUME NEW n \in Nat, NEW v \in [1 .. n -> Nat]
  PROVE  \E p \in [1 .. n -> 1 .. n] :
           /\ \A k \in 1 .. n : \E i \in 1 .. n : p[i] = k
           /\ \A i, j \in 1 .. n : p[i] = p[j] => i = j
           /\ \A i, j \in 1 .. n : i < j => v[p[i]] <= v[p[j]]
<1> DEFINE D == 1 .. n
           Before(i) == {j \in D : Precedes(v, j, i)}
           r == [i \in D |-> Cardinality(Before(i)) + 1]
<1>1. IsFiniteSet(D) /\ Cardinality(D) = n
  BY FS_Interval
<1>2. \A i \in D : v[i] \in Nat /\ i \in Nat
  OBVIOUS
<1>3. ASSUME NEW i \in D PROVE r[i] \in D /\ Cardinality(Before(i)) \in Nat /\ IsFiniteSet(Before(i))
  <2>1. i \notin Before(i) /\ Before(i) \subseteq D \ {i}
    BY <1>2 DEF Precedes
  <2> HIDE DEF Before
  <2>2. IsFiniteSet(D \ {i}) /\ Cardinality(D \ {i}) = n - 1
    BY <1>1, FS_RemoveElement
  <2> HIDE DEF D
  <2>3. IsFiniteSet(Before(i)) /\ Cardinality(Before(i)) <= n - 1
    BY <2>1, <2>2, FS_Subset
  <2>4. Cardinality(Before(i)) \in Nat
    BY <2>3, FS_CardinalityType
  <2>5. r[i] \in 1 .. n
    BY <2>3, <2>4
  <2>6. QED BY <2>3, <2>4, <2>5 DEF D
<1>4. ASSUME NEW i \in D, NEW j \in D, Precedes(v, i, j) PROVE r[i] < r[j]
  <2>1. i \in Before(j) /\ i \notin Before(i)
    BY <1>2, <1>4 DEF Precedes
  <2>2. Before(i) \subseteq Before(j)
    <3>1. \A k \in D : Precedes(v, k, i) => Precedes(v, k, j)
      BY <1>2, <1>4 DEF Precedes
    <3>2. QED BY <3>1
  <2>3. IsFiniteSet(Before(i)) /\ IsFiniteSet(Before(j))
        /\ Cardinality(Before(i)) \in Nat /\ Cardinality(Before(j)) \in Nat
    BY <1>3
  <2>4. r[i] = Cardinality(Before(i)) + 1 /\ r[j] = Cardinality(Before(j)) + 1
    OBVIOUS
  <2> HIDE DEF Before, r, D
  <2>5. Cardinality(Before(i)) <= Cardinality(Before(j)) /\ Cardinality(Before(i)) # Cardinality(Before(j))
    BY <2>1, <2>2, <2>3, FS_Subset
  <2>6. QED BY <2>3, <2>4, <2>5
<1>5. r \in [D -> D]
  <2>1. \A i \in D : r[i] \in D
    BY <1>3
  <2> DEFINE R(i) == Cardinality(Before(i)) + 1
  <2>2. r = [i \in D |-> R(i)] /\ \A i \in D : r[i] = R(i)
    OBVIOUS
  <2> HIDE DEF R, r, D
  <2>3. QED BY <2>1, <2>2
<1> HIDE DEF r
<1>6. ASSUME NEW i \in D, NEW j \in D, r[i] = r[j] PROVE i = j
  <2>1. i # j => Precedes(v, i, j) \/ Precedes(v, j, i)
    BY <1>2 DEF Precedes
  <2>2. r[i] \in Nat /\ r[j] \in Nat
    BY <1>5
  <2>3. QED BY <1>4, <1>6, <2>1, <2>2
<1>7. \A k \in D : \E i \in D : r[i] = k
  BY <1>5, <1>6, AllNumbers
<1> DEFINE p == [k \in D |-> CHOOSE i \in D : r[i] = k]
<1>8. \A k \in D : p[k] \in D /\ r[p[k]] = k
  BY <1>7
<1>9. p \in [D -> D]
  BY <1>8
<1> HIDE DEF p
<1>10. \A i \in D : p[r[i]] = i
  <2>1. ASSUME NEW i \in D PROVE p[r[i]] = i
    <3>1. r[i] \in D
      BY <1>5
    <3>2. p[r[i]] \in D /\ r[p[r[i]]] = r[i]
      BY <1>8, <3>1
    <3>3. QED BY <1>6, <3>2
  <2>2. QED BY <2>1
<1>11. \A k \in D : \E i \in D : p[i] = k
  BY <1>5, <1>10
<1>12. \A i, j \in D : p[i] = p[j] => i = j
  BY <1>8
<1>13. ASSUME NEW i \in D, NEW j \in D, i < j PROVE v[p[i]] <= v[p[j]]
  <2>1. p[i] \in D /\ p[j] \in D /\ r[p[i]] = i /\ r[p[j]] = j
    BY <1>8
  <2>2. ~ Precedes(v, p[j], p[i])
    BY <1>4, <1>13, <2>1
  <2>3. v[p[i]] \in Nat /\ v[p[j]] \in Nat
    BY <1>2, <2>1
  <2>4. QED BY <2>2, <2>3 DEF Precedes
<1>14. QED BY <1>9, <1>11, <1>12, <1>13

\* The elements of a finite set can be listed.
LEMMA Listed ==
  ASSUME NEW S, IsFiniteSet(S)
  PROVE  /\ Cardinality(S) \in Nat
         /\ \E q \in [1 .. Cardinality(S) -> S] :
              /\ \A i, j \in 1 .. Cardinality(S) : q[i] = q[j] => i = j
              /\ \A x \in S : \E i \in 1 .. Cardinality(S) : q[i] = x
<1>1. Cardinality(S) \in Nat /\ ExistsBijection(1 .. Cardinality(S), S)
  BY FS_CardinalityType
<1>2. PICK q : q \in Bijection(1 .. Cardinality(S), S)
  BY <1>1 DEF ExistsBijection
<1>3. QED BY <1>1, <1>2 DEF Bijection, Injection, Surjection, IsInjective

\* A finite set of numbers that is not empty has a greatest one.
LEMMA Greatest ==
  ASSUME NEW S \in SUBSET Nat, IsFiniteSet(S), S # {}
  PROVE  Max(S) \in S /\ \A x \in S : x <= Max(S)
<1>1. PICK n \in Nat : n = Cardinality(S)
  BY Listed
<1>2. PICK q \in [1 .. n -> S] : \A x \in S : \E i \in 1 .. n : q[i] = x
  BY <1>1, Listed
<1>3. q \in [1 .. n -> Nat]
  BY <1>2
<1>4. PICK p \in [1 .. n -> 1 .. n] :
        /\ \A k \in 1 .. n : \E i \in 1 .. n : p[i] = k
        /\ \A i, j \in 1 .. n : i < j => q[p[i]] <= q[p[j]]
  BY <1>3, Sortable
<1>5. n \in 1 .. n
  <2>1. 1 .. n # {}
    BY <1>2
  <2>2. QED BY <2>1
<1>6. PICK m \in S : m = q[p[n]]
  BY <1>2, <1>4, <1>5
<1>7. ASSUME NEW x \in S PROVE m >= x
  <2>1. PICK i \in 1 .. n : q[i] = x
    BY <1>2
  <2>2. PICK k \in 1 .. n : p[k] = i
    BY <1>4
  <2>3. k < n \/ k = n
    OBVIOUS
  <2>4. x \in Nat /\ m \in Nat
    OBVIOUS
  <2>5. CASE k < n
    BY <1>4, <1>5, <1>6, <2>1, <2>2, <2>4, <2>5
  <2>6. CASE k = n
    BY <1>6, <2>1, <2>2, <2>4, <2>6
  <2>7. QED BY <2>3, <2>5, <2>6
<1>8. \E y \in S : \A x \in S : y >= x
  BY <1>7
<1>9. Max(S) \in S /\ \A x \in S : Max(S) >= x
  BY <1>8 DEF Max
<1>10. Max(S) \in Nat
  BY <1>9
<1>11. QED BY <1>9, <1>10

-----------------------------------------------------------------------------
(* The inductive invariant.                                                *)

Packets == [id : Nat, timestamp : Nat]
Records == [packet_id : Nat, stream_id : Streams, rtt_us : Nat]

Typed ==
  /\ now \in Nat
  /\ phase \in {"running", "dropping", "finished"}
  /\ server_id \in BOOLEAN /\ need_stop \in BOOLEAN /\ recording \in BOOLEAN
  /\ benchmark_start \in Nat \cup {Never} /\ game_stream \subseteq Streams
  /\ server_id => benchmark_start \in Nat
  /\ packet_sequences \in [Streams -> Nat] /\ last_tick \in [Streams -> Nat]
  /\ under_way \in [Streams -> Seq(Packets)]
  /\ dropped \in [Streams -> SUBSET Nat] /\ early \in [Streams -> SUBSET Nat]
  /\ BagToSet(channel) \subseteq Records /\ BagToSet(file) \subseteq Records
  /\ Bag(channel) /\ Bag(file)

\* A timer has advanced by one interval for each packet, and not past the clock;
\* no packet is from the future.
Clocks ==
  \A s \in Streams :
    /\ last_tick[s] = Interval[s] * packet_sequences[s]
    /\ last_tick[s] <= now
    /\ \A p \in ToSet(under_way[s]) : p.timestamp <= now

\* The packets recorded, in the channel or already in the file.
RecordsOf(s) == {r \in BagToSet(channel) \cup BagToSet(file) : r.stream_id = s}
Recorded(s) == {r.packet_id : r \in RecordsOf(s)}

\* At any time, and not only at the end: every packet sent is somewhere.
Accounted ==
  \A s \in Streams : Recorded(s) \cup UnderWay(s) \cup dropped[s] \cup early[s] = Ids(s)

\* The client ends with nothing left in the channel, if the thread has not failed.
Drained == Finished /\ recording => channel = EmptyBag

BenchmarkInv == Typed /\ Clocks /\ Accounted /\ Drained

\* Nothing is sent, recorded or lost at first.
LEMMA BenchmarkAtFirst == Init => BenchmarkInv
<1> SUFFICES ASSUME Init PROVE BenchmarkInv
  OBVIOUS
<1>1. BagToSet(EmptyBag) = {} /\ Bag(EmptyBag)
  BY FS_EmptySet DEF EmptyBag, SetToBag, BagToSet, Bag
<1>2. <<>> \in Seq(Packets) /\ ToSet(<<>>) = {}
  BY DEF ToSet
<1>3. Typed
  BY <1>1, <1>2 DEF Init, Typed
<1>4. Clocks
  <2>1. \A s \in Streams : Interval[s] * 0 = 0
    BY TimesAssumption
  <2>2. QED BY <1>2, <2>1 DEF Init, Clocks
<1>5. Accounted
  <2>1. ASSUME NEW s \in Streams PROVE Ids(s) = {} /\ UnderWay(s) = {} /\ Recorded(s) = {}
    BY <1>1, <1>2 DEF Init, Ids, UnderWay, Recorded, RecordsOf
  <2>2. QED BY <2>1 DEF Init, Accounted
<1>6. Drained
  BY DEF Init, Drained, Finished
<1>7. QED BY <1>3, <1>4, <1>5, <1>6 DEF BenchmarkInv

-----------------------------------------------------------------------------
(* Every step preserves it.                                                *)

packets == <<packet_sequences, under_way, dropped, early, channel, file>>

\* Steps that move no packet.
LEMMA NothingMoves ==
  ASSUME BenchmarkInv, UNCHANGED <<last_tick, packets>>, now' \in Nat, now <= now'
  PROVE  Clocks' /\ Accounted'
<1>1. /\ last_tick' = last_tick /\ packet_sequences' = packet_sequences /\ under_way' = under_way
      /\ dropped' = dropped /\ early' = early /\ channel' = channel /\ file' = file
  BY DEF packets
<1>2. Accounted'
  BY <1>1 DEF BenchmarkInv, Accounted, Recorded, RecordsOf, UnderWay, Ids
<1>3. ASSUME NEW s \in Streams
      PROVE  /\ last_tick'[s] = Interval[s] * packet_sequences'[s]
             /\ last_tick'[s] <= now'
             /\ \A p \in ToSet(under_way'[s]) : p.timestamp <= now'
  <2>1. /\ now \in Nat /\ last_tick[s] \in Nat /\ last_tick[s] <= now
        /\ last_tick[s] = Interval[s] * packet_sequences[s]
        /\ \A p \in ToSet(under_way[s]) : p.timestamp <= now
    BY DEF BenchmarkInv, Typed, Clocks
  <2>2. \A p \in ToSet(under_way[s]) : p.timestamp \in Nat
    <3>1. under_way[s] \in Seq(Packets)
      BY DEF BenchmarkInv, Typed
    <3>2. \A i \in DOMAIN under_way[s] : under_way[s][i] \in Packets
      BY <3>1
    <3>3. QED BY <3>2 DEF ToSet, Packets
  <2>3. QED BY <1>1, <2>1, <2>2
<1>4. QED BY <1>2, <1>3 DEF Clocks

\* Pass: the clock.
LEMMA PassKeeps == ASSUME BenchmarkInv, Pass PROVE BenchmarkInv'
<1>1. now \in Nat /\ now' = now + 1 /\ UNCHANGED <<client, network, recorder, early>>
  BY DEF Pass, BenchmarkInv, Typed
<1>2. Typed' /\ Drained'
  BY <1>1 DEF BenchmarkInv, Typed, Drained, Finished, client, network, recorder
<1>3. UNCHANGED <<last_tick, packets>> /\ now' \in Nat /\ now <= now'
  BY <1>1 DEF packets, client, network, recorder
<1>4. QED BY <1>2, <1>3, NothingMoves DEF BenchmarkInv

\* The events that move no packet.
LEMMA EventsKeep ==
  ASSUME BenchmarkInv, PollConnected \/ PollDisconnected \/ PollFails \/ \E s \in Streams : PollStreamCreated(s)
  PROVE  BenchmarkInv'
<1>1. /\ UNCHANGED <<last_tick, packets>> /\ now' = now
      /\ phase' \in {"running", "dropping"} /\ recording' = recording
      /\ server_id' \in BOOLEAN /\ need_stop' \in BOOLEAN
      /\ benchmark_start' \in Nat \cup {Never} /\ game_stream' \subseteq Streams
      /\ server_id' => benchmark_start' \in Nat
  <2>1. CASE PollConnected
    BY <2>1 DEF BenchmarkInv, Typed, PollConnected, packets, network, recorder
  <2>2. CASE PollDisconnected
    BY <2>2 DEF BenchmarkInv, Typed, PollDisconnected, packets, network, recorder
  <2>3. CASE PollFails
    BY <2>3 DEF BenchmarkInv, Typed, PollFails, packets, network, recorder
  <2>4. CASE \E s \in Streams : PollStreamCreated(s)
    BY <2>4 DEF BenchmarkInv, Typed, PollStreamCreated, packets, network, recorder
  <2>5. QED BY <2>1, <2>2, <2>3, <2>4
<1>2. Typed' /\ Drained'
  BY <1>1 DEF BenchmarkInv, Typed, Drained, Finished, packets
<1>3. now' \in Nat /\ now <= now'
  BY <1>1 DEF BenchmarkInv, Typed
<1>4. QED BY <1>1, <1>2, <1>3, NothingMoves DEF BenchmarkInv

\* Round: each stream that is due sends the packet of its next number, and its
\* timer advances by one interval, to the clock at most.
LEMMA RoundKeeps == ASSUME BenchmarkInv, Round PROVE BenchmarkInv'
<1>1. /\ phase = "running" /\ phase' \in {"running", "dropping"} /\ now' = now
      /\ recording' = recording /\ server_id' = server_id /\ need_stop' \in BOOLEAN /\ benchmark_start' = benchmark_start
      /\ game_stream' = game_stream /\ dropped' = dropped /\ early' = early
      /\ channel' = channel /\ file' = file
      /\ packet_sequences' = [s \in Streams |-> packet_sequences[s] + IF sends(s) THEN 1 ELSE 0]
      /\ last_tick' = [s \in Streams |-> last_tick[s] + IF sends(s) THEN Interval[s] ELSE 0]
      /\ under_way' = [s \in Streams |->
           IF sends(s) THEN Append(under_way[s], [id |-> packet_sequences[s], timestamp |-> now])
           ELSE under_way[s]]
  BY DEF Round, send_packets, BenchmarkInv, Typed, recorder
<1>2. ASSUME NEW s \in Streams
      PROVE  /\ packet_sequences'[s] \in Nat /\ last_tick'[s] \in Nat
             /\ under_way'[s] \in Seq(Packets)
             /\ last_tick'[s] = Interval[s] * packet_sequences'[s] /\ last_tick'[s] <= now
             /\ \A p \in ToSet(under_way'[s]) : p.timestamp <= now
             /\ Recorded(s)' \cup UnderWay(s)' \cup dropped'[s] \cup early'[s] = Ids(s)'
  <2>1. /\ now \in Nat /\ packet_sequences[s] \in Nat /\ last_tick[s] \in Nat
        /\ under_way[s] \in Seq(Packets) /\ Interval[s] \in Nat \ {0}
        /\ last_tick[s] = Interval[s] * packet_sequences[s] /\ last_tick[s] <= now
        /\ \A p \in ToSet(under_way[s]) : p.timestamp <= now
        /\ Recorded(s) \cup UnderWay(s) \cup dropped[s] \cup early[s] = Ids(s)
    BY TimesAssumption DEF BenchmarkInv, Typed, Clocks, Accounted
  <2>2. Recorded(s)' = Recorded(s)
    BY <1>1 DEF Recorded, RecordsOf
  <2>3. CASE ~sends(s)
    <3>1. /\ packet_sequences'[s] = packet_sequences[s] /\ last_tick'[s] = last_tick[s]
          /\ under_way'[s] = under_way[s]
      BY <1>1, <2>1, <2>3
    <3>2. Ids(s)' = Ids(s) /\ UnderWay(s)' = UnderWay(s)
      BY <3>1 DEF Ids, UnderWay
    <3>3. QED BY <1>1, <2>1, <2>2, <3>1, <3>2
  <2>4. CASE sends(s)
    <3> DEFINE p == [id |-> packet_sequences[s], timestamp |-> now]
    <3>1. /\ packet_sequences'[s] = packet_sequences[s] + 1
          /\ last_tick'[s] = last_tick[s] + Interval[s]
          /\ under_way'[s] = Append(under_way[s], p)
      BY <1>1, <2>4
    <3>2. p \in Packets /\ p.id = packet_sequences[s] /\ p.timestamp = now
      BY <2>1 DEF Packets
    <3>3. /\ under_way'[s] \in Seq(Packets)
          /\ ToSet(under_way'[s]) = ToSet(under_way[s]) \cup {p}
      BY <2>1, <3>1, <3>2, Appended
    <3>4. last_tick'[s] <= now
      BY <2>1, <2>4, <3>1 DEF sends, due
    <3>5. last_tick'[s] = Interval[s] * packet_sequences'[s]
      <4>1. \A a, b \in Nat : a * (b + 1) = a * b + a
        OBVIOUS
      <4>2. QED BY <2>1, <3>1, <4>1
    <3>6. UnderWay(s)' = UnderWay(s) \cup {packet_sequences[s]}
      BY <3>2, <3>3 DEF UnderWay
    <3>7. Ids(s)' = Ids(s) \cup {packet_sequences[s]}
      <4>1. 0 .. packet_sequences[s] + 1 - 1 = (0 .. packet_sequences[s] - 1) \cup {packet_sequences[s]}
        BY <2>1
      <4>2. packet_sequences'[s] - 1 = packet_sequences[s] + 1 - 1
        BY <2>1, <3>1
      <4>3. Ids(s)' = 0 .. packet_sequences[s] + 1 - 1
        BY <4>2 DEF Ids
      <4>4. QED BY <4>1, <4>3 DEF Ids
    <3>8. \A d \in ToSet(under_way'[s]) : d.timestamp <= now
      BY <2>1, <3>2, <3>3
    <3>9. packet_sequences'[s] \in Nat /\ last_tick'[s] \in Nat
      BY <2>1, <3>1
    <3> HIDE DEF p
    <3>10. QED BY <1>1, <2>1, <2>2, <3>3, <3>4, <3>5, <3>6, <3>7, <3>8, <3>9
  <2>5. QED BY <2>3, <2>4
<1>3. Typed'
  BY <1>1, <1>2 DEF BenchmarkInv, Typed
<1>4. Clocks' /\ Accounted'
  BY <1>1, <1>2 DEF Clocks, Accounted
<1>5. Drained'
  BY <1>1 DEF Drained, Finished
<1>6. QED BY <1>3, <1>4, <1>5 DEF BenchmarkInv

\* The warm-up is over when Warmup + 1 seconds have passed.
LEMMA WarmAtLast ==
  ASSUME BenchmarkInv, server_id
  PROVE  Warm <=> ~(now < benchmark_start + (Warmup + 1) * Second)
<1>1. /\ now \in Nat /\ benchmark_start \in Nat
      /\ Second \in Nat \ {0} /\ Warmup \in Nat
  BY TimesAssumption DEF BenchmarkInv, Typed
<1>2. PICK x, d : x = now - benchmark_start /\ d = x \div Second
  OBVIOUS
<1>3. x \in Int /\ d \in Int /\ Second * d <= x /\ x < Second * (d + 1)
  BY <1>1, <1>2
<1>4. PICK w \in Nat : w = Warmup + 1
  BY <1>1
<1>5. d > Warmup <=> d >= w
  BY <1>1, <1>3, <1>4
<1>6. CASE d >= w
  <2>1. Second * w <= Second * d
    BY <1>1, <1>3, <1>6
  <2>2. Second * w <= x
    BY <1>1, <1>3, <2>1
  <2>3. QED BY <1>1, <1>2, <1>4, <1>5, <1>6, <2>2 DEF Warm
<1>7. CASE ~(d >= w)
  <2>1. Second * (d + 1) <= Second * w
    BY <1>1, <1>3, <1>7
  <2>2. x < Second * w
    BY <1>1, <1>3, <2>1
  <2>3. QED BY <1>1, <1>2, <1>4, <1>5, <1>7, <2>2 DEF Warm
<1>8. QED BY <1>6, <1>7

\* Arrive: the answer to a packet on the way is recorded, or too early to
\* be; the network may keep a copy of the packet.
LEMMA ArriveKeeps ==
  ASSUME BenchmarkInv, NEW t \in Streams, Arrive(t)
  PROVE  BenchmarkInv'
<1>1. PICK i \in Next1(t) :
        /\ PollMessage(t, under_way[t][i])
        /\ \/ under_way' = [under_way EXCEPT ![t] = RemoveAt(@, i)]
           \/ under_way' = under_way
  BY DEF Arrive
<1> DEFINE p == under_way[t][i]
           record == [packet_id |-> p.id, stream_id |-> t, rtt_us |-> now - p.timestamp]
<1>2. under_way[t] \in Seq(Packets) /\ i \in DOMAIN under_way[t] /\ now \in Nat
  BY DEF Next1, BenchmarkInv, Typed
<1>3. p \in Packets /\ p \in ToSet(under_way[t])
  BY <1>2 DEF ToSet
<1>4. p.id \in Nat /\ p.timestamp \in Nat /\ p.timestamp <= now
  BY <1>3 DEF Packets, BenchmarkInv, Clocks
<1>5. /\ phase = "running" /\ now' = now /\ dropped' = dropped /\ file' = file
      /\ recording' = recording /\ UNCHANGED client
      /\ \/ channel' = channel (+) SetToBag({record}) /\ early' = early
         \/ early' = [early EXCEPT ![t] = @ \cup {p.id}] /\ channel' = channel
  BY <1>1, WarmAtLast DEF PollMessage
<1>6. record \in Records /\ record.packet_id = p.id /\ record.stream_id = t
  <2>1. now - p.timestamp \in Nat
    BY <1>2, <1>4
  <2>2. QED BY <1>4, <2>1 DEF Records
<1>7. /\ under_way'[t] \in Seq(Packets)
      /\ ToSet(under_way'[t]) \cup {p} = ToSet(under_way[t])
      /\ \A s \in Streams : s # t => under_way'[s] = under_way[s]
      /\ under_way' \in [Streams -> Seq(Packets)]
  <2>1. under_way \in [Streams -> Seq(Packets)]
    BY DEF BenchmarkInv, Typed
  <2>2. CASE under_way' = under_way
    BY <1>2, <1>3, <2>1, <2>2
  <2>3. CASE under_way' = [under_way EXCEPT ![t] = RemoveAt(@, i)]
    <3>1. under_way'[t] = RemoveAt(under_way[t], i)
      BY <2>1, <2>3
    <3>2. RemoveAt(under_way[t], i) \in Seq(Packets)
          /\ ToSet(RemoveAt(under_way[t], i)) \cup {p} = ToSet(under_way[t])
      BY <1>2, Removed
    <3>3. \A s \in Streams : s # t => under_way'[s] = under_way[s]
      BY <2>1, <2>3
    <3>4. under_way' \in [Streams -> Seq(Packets)]
      BY <2>1, <2>3, <3>2
    <3>5. QED BY <3>1, <3>2, <3>3, <3>4
  <2>4. QED BY <1>1, <2>2, <2>3
<1> HIDE DEF p, record
<1>8. /\ BagToSet(channel') \subseteq Records /\ Bag(channel')
      /\ early' \in [Streams -> SUBSET Nat]
      /\ \A s \in Streams : s # t => Recorded(s)' = Recorded(s) /\ early'[s] = early[s]
      /\ Recorded(t)' \cup early'[t] = Recorded(t) \cup early[t] \cup {p.id}
  <2>1. BagToSet(channel) \subseteq Records /\ Bag(channel) /\ early \in [Streams -> SUBSET Nat]
    BY DEF BenchmarkInv, Typed
  <2>2. CASE channel' = channel (+) SetToBag({record}) /\ early' = early
    <3>1. BagToSet(channel') = BagToSet(channel) \cup {record} /\ Bag(channel')
      BY <2>1, <2>2, BagAdded
    <3>2. \A s \in Streams : s # t => Recorded(s)' = Recorded(s)
      BY <1>5, <1>6, <3>1 DEF Recorded, RecordsOf
    <3>3. Recorded(t)' = Recorded(t) \cup {p.id}
      BY <1>5, <1>6, <3>1 DEF Recorded, RecordsOf
    <3>4. QED BY <1>6, <2>1, <2>2, <3>1, <3>2, <3>3
  <2>3. CASE early' = [early EXCEPT ![t] = @ \cup {p.id}] /\ channel' = channel
    <3>1. \A s \in Streams : Recorded(s)' = Recorded(s)
      BY <1>5, <2>3 DEF Recorded, RecordsOf
    <3>2. early'[t] = early[t] \cup {p.id}
      BY <2>1, <2>3
    <3>3. early' \in [Streams -> SUBSET Nat]
      BY <1>4, <2>1, <2>3
    <3>4. \A s \in Streams : s # t => early'[s] = early[s]
      BY <2>1, <2>3
    <3>5. QED BY <2>1, <2>3, <3>1, <3>2, <3>3, <3>4
  <2>4. QED BY <1>5, <2>2, <2>3
<1>9. Typed'
  BY <1>5, <1>7, <1>8 DEF BenchmarkInv, Typed, client
<1>10. Clocks'
  <2>1. \A s \in Streams : ToSet(under_way'[s]) \subseteq ToSet(under_way[s])
    BY <1>7
  <2>2. last_tick' = last_tick /\ packet_sequences' = packet_sequences /\ now' = now
    BY <1>5 DEF client
  <2>3. QED BY <2>1, <2>2 DEF BenchmarkInv, Clocks
<1>11. Accounted'
  <2>1. \A s \in Streams : Ids(s)' = Ids(s) /\ dropped'[s] = dropped[s]
    BY <1>5 DEF Ids, client
  <2>2. \A s \in Streams : s # t => UnderWay(s)' = UnderWay(s)
    BY <1>7 DEF UnderWay
  <2>3. UnderWay(t)' \cup {p.id} = UnderWay(t)
    BY <1>7 DEF UnderWay
  <2>4. ASSUME NEW s \in Streams
        PROVE  Recorded(s)' \cup UnderWay(s)' \cup dropped'[s] \cup early'[s] = Ids(s)'
    <3>1. Recorded(s) \cup UnderWay(s) \cup dropped[s] \cup early[s] = Ids(s)
      BY DEF BenchmarkInv, Accounted
    <3>2. CASE s = t
      BY <1>8, <2>1, <2>3, <3>1, <3>2
    <3>3. CASE s # t
      BY <1>8, <2>1, <2>2, <3>1, <3>3
    <3>4. QED BY <3>2, <3>3
  <2>5. QED BY <2>4 DEF Accounted
<1>12. Drained'
  BY <1>5 DEF Drained, Finished, client
<1>13. QED BY <1>9, <1>10, <1>11, <1>12 DEF BenchmarkInv

\* Lose: a packet that is lost is one that was under way.
LEMMA LoseKeeps ==
  ASSUME BenchmarkInv, NEW t \in Streams, Lose(t)
  PROVE  BenchmarkInv'
<1>1. PICK i \in DOMAIN under_way[t] :
        /\ dropped' = [dropped EXCEPT ![t] = @ \cup {under_way[t][i].id}]
        /\ under_way' = [under_way EXCEPT ![t] = RemoveAt(@, i)]
  BY DEF Lose, Next1
<1> DEFINE p == under_way[t][i]
<1>2. /\ under_way \in [Streams -> Seq(Packets)] /\ under_way[t] \in Seq(Packets)
      /\ dropped \in [Streams -> SUBSET Nat]
  BY DEF BenchmarkInv, Typed
<1>3. p \in Packets /\ RemoveAt(under_way[t], i) \in Seq(Packets)
      /\ ToSet(RemoveAt(under_way[t], i)) \cup {p} = ToSet(under_way[t])
  BY <1>2, Removed
<1>4. /\ under_way'[t] = RemoveAt(under_way[t], i)
      /\ \A s \in Streams : s # t => under_way'[s] = under_way[s]
      /\ under_way' \in [Streams -> Seq(Packets)]
  BY <1>1, <1>2, <1>3
<1>5. /\ dropped'[t] = dropped[t] \cup {p.id}
      /\ \A s \in Streams : s # t => dropped'[s] = dropped[s]
      /\ dropped' \in [Streams -> SUBSET Nat]
  <2>1. p.id \in Nat
    BY <1>3 DEF Packets
  <2>2. QED BY <1>1, <1>2, <2>1
<1>6. now' = now /\ UNCHANGED <<client, recorder, early>> /\ phase = "running"
  BY DEF Lose
<1> HIDE DEF p
<1>7. Typed'
  BY <1>4, <1>5, <1>6 DEF BenchmarkInv, Typed, client, recorder
<1>8. Clocks'
  <2>1. \A s \in Streams : ToSet(under_way'[s]) \subseteq ToSet(under_way[s])
    BY <1>3, <1>4
  <2>2. last_tick' = last_tick /\ packet_sequences' = packet_sequences /\ now' = now
    BY <1>6 DEF client
  <2>3. QED BY <2>1, <2>2 DEF BenchmarkInv, Clocks
<1>9. Accounted'
  <2>1. \A s \in Streams : Ids(s)' = Ids(s) /\ Recorded(s)' = Recorded(s) /\ early'[s] = early[s]
    BY <1>6 DEF Ids, Recorded, RecordsOf, client, recorder
  <2>2. \A s \in Streams : s # t => UnderWay(s)' = UnderWay(s)
    BY <1>4 DEF UnderWay
  <2>3. UnderWay(t)' \cup {p.id} = UnderWay(t)
    BY <1>3, <1>4 DEF UnderWay
  <2>4. ASSUME NEW s \in Streams
        PROVE  Recorded(s)' \cup UnderWay(s)' \cup dropped'[s] \cup early'[s] = Ids(s)'
    <3>1. Recorded(s) \cup UnderWay(s) \cup dropped[s] \cup early[s] = Ids(s)
      BY DEF BenchmarkInv, Accounted
    <3>2. CASE s = t
      BY <1>5, <2>1, <2>3, <3>1, <3>2
    <3>3. CASE s # t
      BY <1>5, <2>1, <2>2, <3>1, <3>3
    <3>4. QED BY <3>2, <3>3
  <2>5. QED BY <2>4 DEF Accounted
<1>10. Drained'
  BY <1>6 DEF Drained, Finished, client
<1>11. QED BY <1>7, <1>8, <1>9, <1>10 DEF BenchmarkInv

\* WriteRecord, RecorderFails and Drop: a record goes from the channel to the file,
\* and the client is not done before the last, or the thread has failed.
LEMMA RecorderKeeps ==
  ASSUME BenchmarkInv, WriteRecord \/ RecorderFails \/ Drop
  PROVE  BenchmarkInv'
<1>1. CASE WriteRecord
  <2>1. PICK r \in BagToSet(channel) :
          file' = file (+) SetToBag({r}) /\ channel' = channel (-) SetToBag({r})
    BY <1>1 DEF WriteRecord
  <2>2. /\ phase = "dropping" /\ now' = now /\ UNCHANGED <<client, network, recording, early>>
    BY <1>1 DEF WriteRecord
  <2>3. BagToSet(channel') \cup {r} = BagToSet(channel) /\ Bag(channel')
    BY <2>1, BagRemoved DEF BenchmarkInv, Typed
  <2>4. BagToSet(file') = BagToSet(file) \cup {r} /\ Bag(file')
    BY <2>1, BagAdded DEF BenchmarkInv, Typed
  <2>5. BagToSet(channel') \cup BagToSet(file') = BagToSet(channel) \cup BagToSet(file)
    BY <2>3, <2>4
  <2>6. Typed'
    BY <2>2, <2>3, <2>4 DEF BenchmarkInv, Typed, client, network
  <2>7. Clocks'
    BY <2>2 DEF BenchmarkInv, Clocks, client, network
  <2>8. Accounted'
    <3>1. ASSUME NEW s \in Streams
          PROVE  /\ Recorded(s)' = Recorded(s) /\ UnderWay(s)' = UnderWay(s)
                 /\ Ids(s)' = Ids(s)
      BY <2>2, <2>5 DEF Recorded, RecordsOf, UnderWay, Ids, client, network
    <3>2. QED BY <2>2, <3>1 DEF BenchmarkInv, Accounted, network
  <2>9. Drained'
    BY <2>2 DEF Drained, Finished, client
  <2>10. QED BY <2>6, <2>7, <2>8, <2>9 DEF BenchmarkInv
<1>2. CASE Drop
  <2>1. UNCHANGED <<last_tick, packets>> /\ now' = now /\ now' \in Nat /\ now <= now'
    BY <1>2 DEF Drop, packets, network, recorder, BenchmarkInv, Typed
  <2>2. Typed'
    BY <1>2, <2>1 DEF Drop, packets, recorder, BenchmarkInv, Typed
  <2>3. Drained'
    BY <1>2 DEF Drop, Drained, recorder
  <2>4. QED BY <2>1, <2>2, <2>3, NothingMoves DEF BenchmarkInv
<1>3. CASE RecorderFails
  <2>1. UNCHANGED <<last_tick, packets>> /\ now' = now /\ now' \in Nat /\ now <= now'
    BY <1>3 DEF RecorderFails, packets, client, network, BenchmarkInv, Typed
  <2>2. Typed' /\ Drained'
    BY <1>3, <2>1 DEF RecorderFails, client, packets, BenchmarkInv, Typed, Drained
  <2>3. QED BY <2>1, <2>2, NothingMoves DEF BenchmarkInv
<1>4. QED BY <1>1, <1>2, <1>3

\* One step per action of the benchmark, each of them proved above.
LEMMA BenchmarkKept == BenchmarkInv /\ [Next]_vars => BenchmarkInv'
<1> SUFFICES ASSUME BenchmarkInv, [Next]_vars PROVE BenchmarkInv'
  OBVIOUS
<1>1. CASE UNCHANGED vars
  <2>1. /\ UNCHANGED <<last_tick, packets>> /\ now' = now
        /\ Typed' /\ Drained'
    BY <1>1 DEF vars, client, network, recorder, packets, BenchmarkInv, Typed, Drained, Finished
  <2>2. now' \in Nat /\ now <= now'
    BY <2>1 DEF BenchmarkInv, Typed
  <2>3. QED BY <2>1, <2>2, NothingMoves DEF BenchmarkInv
<1>2. CASE Pass
  BY <1>2, PassKeeps
<1>3. CASE Polls
  BY <1>3, EventsKeep, ArriveKeeps DEF Polls
<1>4. CASE Round
  BY <1>4, RoundKeeps
<1>5. CASE WriteRecord \/ RecorderFails \/ Drop
  BY <1>5, RecorderKeeps
<1>6. CASE \E s \in Streams : Lose(s)
  BY <1>6, LoseKeeps
<1>7. QED BY <1>1, <1>2, <1>3, <1>4, <1>5, <1>6 DEF Next

-----------------------------------------------------------------------------
(* The report.                                                             *)

\* A file with m[r] lines for each record r is finite, and its lines are those.
LEMMA FileLines ==
  ASSUME NEW R, IsFiniteSet(R), NEW m, \A r \in R : m[r] \in Nat \ {0},
         NEW U, U = UNION {{r} \X (1 .. m[r]) : r \in R}
  PROVE  /\ IsFiniteSet(U)
         /\ \A l \in U : \E r \in R : \E k \in 1 .. m[r] : l = <<r, k>>
         /\ \A r \in R : <<r, 1>> \in U
<1> DEFINE L(r) == {r} \X (1 .. m[r])
           f == [r \in R |-> L(r)]
           T == {L(r) : r \in R}
<1>1. IsFiniteSet(T)
  <2>1. f \in Surjection(R, T)
    BY DEF Surjection
  <2>2. QED BY <2>1, FS_Surjection
<1>2. ASSUME NEW r \in R PROVE IsFiniteSet(L(r))
  <2>1. PICK n \in Nat : n = m[r]
    OBVIOUS
  <2>2. IsFiniteSet({r})
    BY FS_Singleton
  <2>3. IsFiniteSet(1 .. n)
    BY FS_Interval
  <2>4. IsFiniteSet({r} \X (1 .. n))
    BY <2>2, <2>3, FS_Product
  <2>5. QED BY <2>1, <2>4
<1>3. \A t \in T : IsFiniteSet(t)
  BY <1>2
<1>4. U = UNION T
  OBVIOUS
<1> HIDE DEF T
<1>5. IsFiniteSet(U)
  BY <1>1, <1>3, <1>4, FS_UNION
<1>6. ASSUME NEW l \in U PROVE \E r \in R : \E k \in 1 .. m[r] : l = <<r, k>>
  <2>1. PICK r \in R : l \in {r} \X (1 .. m[r])
    OBVIOUS
  <2>2. l = <<r, l[2]>> /\ l[2] \in 1 .. m[r]
    BY <2>1
  <2>3. QED BY <2>2
<1>7. ASSUME NEW r \in R PROVE <<r, 1>> \in U
  <2>1. 1 \in 1 .. m[r]
    OBVIOUS
  <2>2. <<r, 1>> \in {r} \X (1 .. m[r])
    BY <2>1
  <2>3. QED BY <2>2
<1>8. QED BY <1>5, <1>6, <1>7

\* The report counts the lines of the file: no fewer than the packets there are in
\* it, and as many if no packet has two. The last of those packets is the one
\* with the greatest number.
LEMMA Counted ==
  ASSUME BenchmarkInv, NEW s \in Streams
  PROVE  /\ IsFiniteSet(lines(s)) /\ \A l \in lines(s) : l[1] \in stream_records(s)
         /\ received(s) \in Nat
         /\ IsFiniteSet(Filed(s)) /\ Filed(s) \in SUBSET Nat
         /\ Cardinality(Filed(s)) \in Nat /\ Cardinality(Filed(s)) <= received(s)
         /\ received(s) = 0 <=> Filed(s) = {}
         /\ (\A k, l \in lines(s) : k[1].packet_id = l[1].packet_id => k = l)
               => Cardinality(Filed(s)) = received(s)
         /\ Filed(s) # {} => max_id(s) \in Filed(s) /\ \A x \in Filed(s) : x <= max_id(s)
<1>1. PICK R : R = stream_records(s)
  OBVIOUS
<1>2. /\ IsFiniteSet(R) /\ \A r \in R : file[r] \in Nat \ {0}
      /\ \A r \in R : r.packet_id \in Nat
  <2>1. R \subseteq BagToSet(file)
    BY <1>1 DEF stream_records
  <2>2. /\ IsFiniteSet(BagToSet(file)) /\ \A r \in BagToSet(file) : file[r] \in Nat \ {0}
        /\ BagToSet(file) \subseteq Records
    BY DEF BenchmarkInv, Typed, Bag
  <2>3. \A r \in BagToSet(file) : r.packet_id \in Nat
    BY <2>2 DEF Records
  <2>4. PICK B : B = BagToSet(file)
    OBVIOUS
  <2>5. R \in SUBSET B /\ IsFiniteSet(B)
    BY <2>1, <2>2, <2>4
  <2>6. IsFiniteSet(R)
    BY <2>5, FS_Subset
  <2>7. QED BY <2>1, <2>2, <2>3, <2>6
<1>3. PICK U : U = UNION {{r} \X (1 .. file[r]) : r \in R}
  OBVIOUS
<1>4. lines(s) = U
  BY <1>1, <1>3 DEF lines
<1>5. /\ IsFiniteSet(U)
      /\ \A l \in U : \E r \in R : \E k \in 1 .. file[r] : l = <<r, k>>
      /\ \A r \in R : <<r, 1>> \in U
  BY <1>2, <1>3, FileLines
<1>6. \A l \in U : l[1] \in R
  BY <1>5
<1>7. PICK F : F = {r.packet_id : r \in R}
  OBVIOUS
<1>8. Filed(s) = F
  BY <1>1, <1>7 DEF Filed
<1>9. F \in SUBSET Nat
  BY <1>2, <1>7
<1> DEFINE f == [l \in U |-> l[1].packet_id]
<1>10. f \in Surjection(U, F)
  <2>1. \A l \in U : f[l] = l[1].packet_id /\ f[l] \in F
    BY <1>6, <1>7
  <2>2. \A x \in F : \E l \in U : f[l] = x
    <3>1. ASSUME NEW x \in F PROVE \E l \in U : f[l] = x
      <4>1. PICK r \in R : x = r.packet_id
        BY <1>7
      <4>2. <<r, 1>> \in U /\ <<r, 1>>[1] = r
        BY <1>5
      <4>3. QED BY <2>1, <4>1, <4>2
    <3>2. QED BY <3>1
  <2>3. f \in [U -> F]
    BY <2>1
  <2>4. QED BY <2>2, <2>3 DEF Surjection
<1>11. /\ IsFiniteSet(F) /\ Cardinality(F) <= Cardinality(U)
       /\ Cardinality(F) = Cardinality(U) <=> f \in Injection(U, F)
  BY <1>5, <1>10, FS_Surjection
<1>12. Cardinality(F) \in Nat /\ Cardinality(U) \in Nat
  BY <1>5, <1>11, FS_CardinalityType
<1>13. Cardinality(U) = 0 <=> U = {}
  BY <1>5, FS_EmptySet
<1>14. U = {} <=> F = {}
  BY <1>5, <1>6, <1>7
<1>15. (\A k, l \in U : k[1].packet_id = l[1].packet_id => k = l) => Cardinality(F) = Cardinality(U)
  <2> SUFFICES ASSUME \A k, l \in U : k[1].packet_id = l[1].packet_id => k = l
               PROVE  f \in Injection(U, F)
    BY <1>11
  <2>1. \A k, l \in U : f[k] = f[l] => k = l
    OBVIOUS
  <2>2. f \in [U -> F]
    BY <1>10 DEF Surjection
  <2> HIDE DEF f
  <2>3. QED BY <2>1, <2>2 DEF Injection, IsInjective
<1>16. max_id(s) = Max(F)
  BY <1>1, <1>7 DEF max_id
<1>17. F # {} => Max(F) \in F /\ \A x \in F : x <= Max(F)
  BY <1>9, <1>11, Greatest
<1>18. QED BY <1>1, <1>4, <1>5, <1>6, <1>8, <1>9, <1>11, <1>12, <1>13, <1>14, <1>15, <1>16, <1>17 DEF received

\* At the end, what is not in the file up to the last packet in it was lost, is still
\* under way, came too early, or was not written when the recorder's thread failed;
\* stats reports no more than that as lost.
LEMMA AtMostMissing == BenchmarkInv => LossNotOverstated
<1> SUFFICES ASSUME BenchmarkInv, Finished, NEW s \in Streams
             PROVE  lost(s) <= Cardinality({i \in 0 .. sent(s) - 1 :
                                  i \in (dropped[s] \cup UnderWay(s) \cup early[s] \cup Unwritten(s)) \ Filed(s)})
  BY DEF LossNotOverstated
<1>1. PICK F, W : F = Filed(s) /\ W = dropped[s] \cup UnderWay(s) \cup early[s] \cup Unwritten(s)
  OBVIOUS
<1>2. PICK n, c, e : n = received(s) /\ c = Cardinality(F) /\ e = sent(s)
  OBVIOUS
<1>3. /\ IsFiniteSet(F) /\ F \in SUBSET Nat
      /\ n \in Nat /\ c \in Nat /\ c <= n
      /\ n = 0 <=> F = {}
  BY <1>1, <1>2, Counted
<1>4. F # {} => max_id(s) \in F /\ \A x \in F : x <= max_id(s)
  BY <1>1, Counted
<1>5. /\ e \in Nat /\ F \subseteq 0 .. e - 1
      /\ n = 0 => e = 0
      /\ n > 0 => e - 1 \in F
  <2>1. CASE n = 0
    BY <1>2, <1>3, <2>1 DEF sent
  <2>2. CASE n > 0
    <3>1. e = max_id(s) + 1
      BY <1>2, <2>2 DEF sent
    <3>2. PICK m \in F : m = max_id(s)
      <4>1. F # {}
        BY <1>3, <2>2
      <4>2. max_id(s) \in F
        BY <1>4, <4>1
      <4>3. QED BY <4>2
    <3>3. m \in Nat /\ \A x \in F : x \in Nat /\ x <= m
      BY <1>3, <1>4, <3>2
    <3>4. QED BY <2>2, <3>1, <3>2, <3>3
  <2>3. QED BY <1>3, <2>1, <2>2
<1>6. F \cup W = Ids(s)
  <2>1. Recorded(s) = F \cup Unwritten(s)
    BY <1>1 DEF Recorded, RecordsOf, Filed, Unwritten, stream_records
  <2>2. QED BY <1>1, <2>1 DEF BenchmarkInv, Accounted
<1>7. packet_sequences[s] \in Nat
  BY DEF BenchmarkInv, Typed
<1>8. 0 .. e - 1 \subseteq F \cup W
  <2>1. CASE n = 0
    BY <1>5, <2>1
  <2>2. CASE n > 0
    <3>1. e - 1 \in Ids(s)
      BY <1>5, <1>6, <2>2
    <3>2. QED BY <1>5, <1>6, <1>7, <3>1 DEF Ids
  <2>3. QED BY <1>3, <2>1, <2>2
<1> DEFINE D == 0 .. e - 1
           M == {i \in D : i \in W \ F}
<1>9. IsFiniteSet(D) /\ Cardinality(D) = e
  BY <1>5, FS_Interval
<1>10. D \ F = M /\ D \cap F = F
  BY <1>5, <1>8
<1>11. IsFiniteSet(D \ F) /\ Cardinality(D \ F) = Cardinality(D) - Cardinality(D \cap F)
  <2> HIDE DEF D
  <2>1. QED BY <1>9, FS_Difference
<1>12. Cardinality(M) = e - c
  BY <1>2, <1>9, <1>10, <1>11
<1>13. Cardinality(M) \in Nat
  BY <1>10, <1>11, FS_CardinalityType
<1>14. lost(s) = IF e > n THEN e - n ELSE 0
  BY <1>2 DEF lost, saturating_sub
<1>15. lost(s) <= Cardinality(M)
  <2> HIDE DEF M
  <2>1. QED BY <1>3, <1>5, <1>12, <1>13, <1>14
<1>16. QED BY <1>1, <1>2, <1>15

\* The lines of a file can be put in the order of their round trips.
LEMMA LinesSortable ==
  ASSUME NEW U, IsFiniteSet(U), \A l \in U : l[1].rtt_us \in Nat
  PROVE  \E q \in SetToSeqs(U) :
           \A i, j \in DOMAIN q : i < j => q[i][1].rtt_us <= q[j][1].rtt_us
<1>1. PICK n \in Nat : n = Cardinality(U)
  BY Listed
<1>2. PICK g \in [1 .. n -> U] : \A i, j \in 1 .. n : g[i] = g[j] => i = j
  BY <1>1, Listed
<1> DEFINE v == [i \in 1 .. n |-> g[i][1].rtt_us]
<1>3. v \in [1 .. n -> Nat] /\ \A i \in 1 .. n : v[i] = g[i][1].rtt_us
  BY <1>2
<1> HIDE DEF v
<1>4. PICK p \in [1 .. n -> 1 .. n] :
        /\ \A i, j \in 1 .. n : p[i] = p[j] => i = j
        /\ \A i, j \in 1 .. n : i < j => v[p[i]] <= v[p[j]]
  BY <1>3, Sortable
<1> DEFINE q == [i \in 1 .. n |-> g[p[i]]]
<1>5. q \in [1 .. n -> U] /\ DOMAIN q = 1 .. n /\ \A i \in 1 .. n : q[i] = g[p[i]] /\ p[i] \in 1 .. n
  BY <1>2, <1>4
<1> HIDE DEF q
<1>6. \A i, j \in 1 .. n : i # j => q[i] # q[j]
  BY <1>2, <1>4, <1>5
<1>7. q \in SetToSeqs(U)
  BY <1>1, <1>5, <1>6 DEF SetToSeqs
<1>8. \A i, j \in 1 .. n : i < j => q[i][1].rtt_us <= q[j][1].rtt_us
  <2>1. \A i \in 1 .. n : q[i][1].rtt_us = v[p[i]]
    BY <1>3, <1>5
  <2>2. QED BY <1>4, <2>1
<1>9. QED BY <1>5, <1>7, <1>8

\* The round trips of a report ascend.
LEMMA RttsAscend ==
  ASSUME BenchmarkInv, NEW s \in Streams
  PROVE  \E n \in Nat : /\ rtts(s) \in [1 .. n -> Nat]
                        /\ \A i, j \in 1 .. n : i < j => rtts(s)[i] <= rtts(s)[j]
<1>1. PICK U : U = lines(s)
  OBVIOUS
<1>2. IsFiniteSet(U) /\ \A l \in U : l[1].rtt_us \in Nat
  <2>1. IsFiniteSet(U) /\ \A l \in U : l[1] \in stream_records(s)
    BY <1>1, Counted
  <2>2. stream_records(s) \subseteq Records
    BY DEF stream_records, BenchmarkInv, Typed
  <2>3. \A r \in Records : r.rtt_us \in Nat
    BY DEF Records
  <2>4. QED BY <2>1, <2>2, <2>3
<1> DEFINE Ascending(q) == \A i, j \in DOMAIN q : i < j => q[i][1].rtt_us <= q[j][1].rtt_us
<1>3. \E q \in SetToSeqs(U) : Ascending(q)
  BY <1>2, LinesSortable
<1>4. PICK sorted : sorted = CHOOSE q \in SetToSeqs(U) : Ascending(q)
  OBVIOUS
<1>5. sorted \in SetToSeqs(U) /\ Ascending(sorted)
  <2> HIDE DEF Ascending
  <2>1. QED BY <1>3, <1>4
<1>6. PICK n \in Nat : n = Cardinality(U)
  BY <1>2, Listed
<1>7. sorted \in [1 .. n -> U]
  BY <1>5, <1>6 DEF SetToSeqs
<1>8. rtts(s) = [i \in 1 .. n |-> sorted[i][1].rtt_us]
  BY <1>1, <1>4, <1>7 DEF rtts
<1>9. rtts(s) \in [1 .. n -> Nat]
  BY <1>2, <1>7, <1>8
<1>10. \A i, j \in 1 .. n : i < j => rtts(s)[i] <= rtts(s)[j]
  BY <1>5, <1>7, <1>8
<1>11. QED BY <1>9, <1>10

\* At most that share of n numbers is below v, and more than that share is not above.
HasRank(data, n, v, pct) ==
  /\ 100 * Cardinality({i \in 1 .. n : data[i] < v}) <= pct * (n - 1)
  /\ pct * (n - 1) < 100 * Cardinality({i \in 1 .. n : data[i] <= v})

\* Of n numbers that ascend, the one with the index of a percentile has that rank.
LEMMA RankOfIndex ==
  ASSUME NEW n \in Nat \ {0}, NEW data \in [1 .. n -> Nat],
         \A i, j \in 1 .. n : i < j => data[i] <= data[j],
         NEW pct \in {50, 90, 95, 99}, NEW v, v = data[index(pct, n) + 1]
  PROVE  HasRank(data, n, v, pct)
<1>1. PICK k : k = index(pct, n)
  OBVIOUS
<1>2. k \in 0 .. n - 1 /\ 100 * k <= pct * (n - 1) /\ pct * (n - 1) < 100 * (k + 1)
  <2>1. \A a \in Nat : a \div 100 \in Nat /\ 100 * (a \div 100) <= a /\ a < 100 * (a \div 100 + 1)
    OBVIOUS
  <2>2. pct * (n - 1) \in Nat /\ pct * (n - 1) <= 99 * (n - 1)
    OBVIOUS
  <2>3. k = (pct * (n - 1)) \div 100
    BY <1>1 DEF index
  <2>4. k \in Nat /\ 100 * k <= pct * (n - 1) /\ pct * (n - 1) < 100 * (k + 1)
    BY <2>1, <2>2, <2>3
  <2>5. QED BY <2>2, <2>4
<1>3. k + 1 \in 1 .. n /\ v = data[k + 1]
  BY <1>1, <1>2
<1>4. v \in Nat /\ \A i \in 1 .. n : data[i] \in Nat
  BY <1>3
<1> DEFINE A == {i \in 1 .. n : data[i] < v}
           B == {i \in 1 .. n : data[i] <= v}
<1>5. A \subseteq 1 .. k
  <2>1. ASSUME NEW i \in 1 .. n, i > k PROVE ~(data[i] < v)
    <3>1. CASE i = k + 1
      BY <1>3, <1>4, <3>1
    <3>2. CASE i > k + 1
      BY <1>3, <1>4, <3>2
    <3>3. QED BY <1>2, <2>1, <3>1, <3>2
  <2>2. QED BY <1>2, <2>1
<1>6. 1 .. k + 1 \subseteq B
  <2>1. ASSUME NEW i \in 1 .. k + 1 PROVE i \in 1 .. n /\ data[i] <= v
    <3>1. CASE i = k + 1
      BY <1>3, <1>4, <3>1
    <3>2. CASE i < k + 1
      BY <1>2, <1>3, <1>4, <3>2
    <3>3. QED BY <1>2, <3>1, <3>2
  <2>2. QED BY <2>1
<1>7. Cardinality(A) \in Nat /\ Cardinality(A) <= k
  <2>1. IsFiniteSet(1 .. k) /\ Cardinality(1 .. k) = k
    <3>1. 1 \in Int /\ k \in Int /\ (IF 1 > k THEN 0 ELSE k - 1 + 1) = k
      BY <1>2
    <3>2. QED BY <3>1, FS_Interval
  <2> DEFINE K == 1 .. k
  <2> HIDE DEF A, K
  <2>2. A \in SUBSET K /\ IsFiniteSet(K) /\ Cardinality(K) = k
    BY <1>5, <2>1 DEF K
  <2>3. IsFiniteSet(A) /\ Cardinality(A) <= k
    BY <2>2, FS_Subset
  <2>4. QED BY <2>3, FS_CardinalityType
<1>8. Cardinality(B) \in Nat /\ k + 1 <= Cardinality(B)
  <2> DEFINE K == 1 .. k + 1
             N == 1 .. n
  <2>1. IsFiniteSet(K) /\ Cardinality(K) = k + 1 /\ IsFiniteSet(N)
    <3>1. PICK m \in Nat \ {0} : m = k + 1
      BY <1>2
    <3>2. IsFiniteSet(1 .. m) /\ Cardinality(1 .. m) = m
      <4>1. 1 \in Int /\ m \in Int /\ (IF 1 > m THEN 0 ELSE m - 1 + 1) = m
        OBVIOUS
      <4>2. QED BY <4>1, FS_Interval
    <3>3. IsFiniteSet(1 .. n)
      BY FS_Interval
    <3>4. QED BY <3>1, <3>2, <3>3
  <2>2. B \in SUBSET N /\ K \in SUBSET B
    BY <1>6
  <2> HIDE DEF B, K, N
  <2>3. IsFiniteSet(B)
    BY <2>1, <2>2, FS_Subset
  <2>4. Cardinality(K) <= Cardinality(B)
    BY <2>2, <2>3, FS_Subset
  <2>5. QED BY <2>1, <2>3, <2>4, FS_CardinalityType
<1> HIDE DEF A, B
<1>9. 100 * Cardinality(A) <= pct * (n - 1) /\ pct * (n - 1) < 100 * Cardinality(B)
  BY <1>2, <1>7, <1>8
<1>10. QED BY <1>9 DEF A, B, HasRank

\* So the percentiles of a report have their rank.
LEMMA Ranked == BenchmarkInv => PercentilesHaveTheirRank
<1> SUFFICES ASSUME BenchmarkInv, NEW s \in Streams, NEW pct \in {50, 90, 95, 99},
                    Len(rtts(s)) > 0
             PROVE  HasRank(rtts(s), Len(rtts(s)), percentile(rtts(s), pct), pct)
  BY DEF PercentilesHaveTheirRank, HasRank
<1>1. PICK data, v : data = rtts(s) /\ v = percentile(data, pct)
  OBVIOUS
<1>2. PICK n \in Nat : data \in [1 .. n -> Nat] /\ \A i, j \in 1 .. n : i < j => data[i] <= data[j]
  BY <1>1, RttsAscend
<1>3. Len(data) = n /\ n \in Nat \ {0}
  BY <1>1, <1>2
<1>4. data # <<>>
  BY <1>2, <1>3
<1>5. v = data[index(pct, n) + 1]
  BY <1>1, <1>3, <1>4 DEF percentile
<1>6. HasRank(data, n, v, pct)
  BY <1>2, <1>3, <1>5, RankOfIndex
<1>7. QED BY <1>1, <1>3, <1>6

-----------------------------------------------------------------------------
(* A stream that delivers in order.                                        *)

\* The packets that are no longer under way are the first ones.
answered(s) == packet_sequences[s] - Len(under_way[s])

InOrder(s) ==
  /\ answered(s) \in Nat
  /\ \A i \in 1 .. Len(under_way[s]) : under_way[s][i].id = answered(s) + i - 1

\* The packets without a record: their reply was dropped, or came too early.
Uncounted(s) == dropped[s] \cup early[s]

\* Each packet no longer under way is recorded once or uncounted; the uncounted ones
\* came before the recorded ones.
OnceEach(s) ==
  /\ Uncounted(s) \cup Recorded(s) = 0 .. answered(s) - 1
  /\ \A d \in Uncounted(s), i \in Recorded(s) : d < i
  /\ \A r \in RecordsOf(s) : Copies(channel, r) + Copies(file, r) = 1
  /\ \A r, q \in RecordsOf(s) : r.packet_id = q.packet_id => r = q

\* The warm-up does not come back: nothing is recorded before its end.
Warmed == \A s \in Streams : Recorded(s) # {} => benchmark_start \in Nat /\ Warm

OrderInv == Warmed /\ \A s \in Streams \ Datagrams : InOrder(s) /\ OnceEach(s)

\* What a step leaves alone of a stream stays in order.
LEMMA Elsewhere ==
  ASSUME NEW s \in Streams, InOrder(s), OnceEach(s),
         packet_sequences'[s] = packet_sequences[s], under_way'[s] = under_way[s],
         dropped'[s] = dropped[s], early'[s] = early[s],
         RecordsOf(s)' = RecordsOf(s),
         \A r \in RecordsOf(s) :
           Copies(channel, r)' + Copies(file, r)' = Copies(channel, r) + Copies(file, r)
  PROVE  InOrder(s)' /\ OnceEach(s)'
<1>1. answered(s)' = answered(s) /\ Recorded(s)' = Recorded(s)
  BY DEF answered, Recorded
<1>2. InOrder(s)'
  BY <1>1 DEF InOrder
<1>3. OnceEach(s)'
  BY <1>1 DEF OnceEach, Uncounted
<1>4. QED BY <1>2, <1>3

\* At first nothing is sent, and nothing recorded.
LEMMA OrderAtFirst == Init => OrderInv
<1> SUFFICES ASSUME Init PROVE OrderInv
  OBVIOUS
<1>1. BagToSet(EmptyBag) = {}
  BY DEF EmptyBag, SetToBag, BagToSet
<1>2. \A s \in Streams : RecordsOf(s) = {} /\ Recorded(s) = {}
  BY <1>1 DEF Init, RecordsOf, Recorded
<1>3. Warmed
  BY <1>2 DEF Init, Warmed
<1>4. ASSUME NEW s \in Streams PROVE InOrder(s) /\ OnceEach(s)
  <2>1. /\ packet_sequences[s] = 0 /\ Len(under_way[s]) = 0
        /\ dropped[s] = {} /\ early[s] = {}
    BY DEF Init
  <2>2. answered(s) = 0
    BY <2>1 DEF answered
  <2>3. QED BY <1>2, <2>1, <2>2 DEF InOrder, OnceEach, Uncounted
<1>5. QED BY <1>3, <1>4 DEF OrderInv

\* Time passes and the warm-up stays over.
LEMMA StaysWarm ==
  ASSUME NEW n \in Nat, NEW m \in Nat, NEW b \in Nat, n <= m, (n - b) \div Second > Warmup
  PROVE  (m - b) \div Second > Warmup
<1>1. Second \in Nat \ {0} /\ Warmup \in Nat
  BY TimesAssumption
<1>2. PICK x, y : x = n - b /\ y = m - b
  OBVIOUS
<1>3. x \in Int /\ y \in Int /\ x <= y
  BY <1>2
<1>4. PICK d, e : d = x \div Second /\ e = y \div Second
  OBVIOUS
<1>5. d \in Int /\ e \in Int /\ Second * d <= x /\ y < Second * (e + 1)
  BY <1>1, <1>3, <1>4
<1>6. Second * d < Second * (e + 1)
  BY <1>1, <1>3, <1>5
<1>7. d < e + 1
  BY <1>1, <1>5, <1>6
<1>8. QED BY <1>1, <1>2, <1>4, <1>5, <1>7

\* Steps that move no packet and record nothing.
LEMMA OrderUnmoved ==
  ASSUME BenchmarkInv, OrderInv, UNCHANGED packets, now' \in Nat, now <= now',
         benchmark_start' = benchmark_start \/ (benchmark_start = Never /\ benchmark_start' \in Nat)
  PROVE  OrderInv'
<1>1. /\ packet_sequences' = packet_sequences /\ under_way' = under_way
      /\ dropped' = dropped /\ early' = early /\ channel' = channel /\ file' = file
  BY DEF packets
<1>2. \A s \in Streams : RecordsOf(s)' = RecordsOf(s) /\ Recorded(s)' = Recorded(s)
  BY <1>1 DEF RecordsOf, Recorded
<1>3. ASSUME NEW s \in Streams \ Datagrams PROVE InOrder(s)' /\ OnceEach(s)'
  <2>1. \A r : Copies(channel, r)' = Copies(channel, r) /\ Copies(file, r)' = Copies(file, r)
    BY <1>1 DEF Copies
  <2>2. QED BY <1>1, <1>2, <2>1, Elsewhere DEF OrderInv
<1>4. ASSUME NEW s \in Streams, Recorded(s)' # {} PROVE benchmark_start' \in Nat /\ Warm'
  <2>1. benchmark_start \in Nat /\ Warm
    BY <1>2, <1>4 DEF OrderInv, Warmed
  <2>2. benchmark_start' = benchmark_start
    BY <2>1, TimesAssumption
  <2>3. now \in Nat
    BY DEF BenchmarkInv, Typed
  <2>4. (now' - benchmark_start) \div Second > Warmup
    BY <2>1, <2>3, StaysWarm DEF Warm
  <2>5. QED BY <2>1, <2>2, <2>4 DEF Warm
<1>5. Warmed'
  BY <1>4 DEF Warmed
<1>6. QED BY <1>3, <1>5 DEF OrderInv

\* Round: the next packet goes to the end of the queue.
LEMMA RoundInOrder == ASSUME BenchmarkInv, OrderInv, Round PROVE OrderInv'
<1>1. /\ now' = now /\ server_id' = server_id /\ benchmark_start' = benchmark_start
      /\ dropped' = dropped /\ early' = early /\ channel' = channel /\ file' = file
      /\ packet_sequences' = [s \in Streams |-> packet_sequences[s] + IF sends(s) THEN 1 ELSE 0]
      /\ under_way' = [s \in Streams |->
           IF sends(s) THEN Append(under_way[s], [id |-> packet_sequences[s], timestamp |-> now])
           ELSE under_way[s]]
  BY DEF Round, send_packets, recorder
<1>2. \A s \in Streams : RecordsOf(s)' = RecordsOf(s) /\ Recorded(s)' = Recorded(s)
  BY <1>1 DEF RecordsOf, Recorded
<1>3. \A r : Copies(channel, r)' = Copies(channel, r) /\ Copies(file, r)' = Copies(file, r)
  BY <1>1 DEF Copies
<1>4. ASSUME NEW s \in Streams \ Datagrams PROVE InOrder(s)' /\ OnceEach(s)'
  <2>1. /\ InOrder(s) /\ OnceEach(s) /\ packet_sequences[s] \in Nat
        /\ under_way[s] \in Seq(Packets) /\ now \in Nat
    BY DEF OrderInv, BenchmarkInv, Typed
  <2>2. CASE ~sends(s)
    <3>1. packet_sequences'[s] = packet_sequences[s] /\ under_way'[s] = under_way[s]
      BY <1>1, <2>1, <2>2
    <3>2. QED BY <1>1, <1>2, <1>3, <2>1, <3>1, Elsewhere
  <2>3. CASE sends(s)
    <3>1. PICK p \in Packets : p = [id |-> packet_sequences[s], timestamp |-> now]
      BY <2>1 DEF Packets
    <3>2. PICK q : q = under_way[s]
      OBVIOUS
    <3>3. /\ packet_sequences'[s] = packet_sequences[s] + 1
          /\ under_way'[s] = Append(q, p) /\ p.id = packet_sequences[s]
      BY <1>1, <2>3, <3>1, <3>2
    <3>4. /\ Len(Append(q, p)) = Len(q) + 1 /\ Len(q) \in Nat
          /\ \A i \in 1 .. Len(q) : Append(q, p)[i] = q[i]
          /\ Append(q, p)[Len(q) + 1] = p
      BY <2>1, <3>1, <3>2, AppendProperties
    <3>5. answered(s)' = answered(s) /\ answered(s) = packet_sequences[s] - Len(q)
      BY <2>1, <3>2, <3>3, <3>4 DEF answered
    <3>6. \A i \in 1 .. Len(q) : q[i].id = answered(s) + i - 1
      BY <2>1, <3>2 DEF InOrder
    <3>7. ASSUME NEW i \in 1 .. Len(q) + 1
          PROVE  Append(q, p)[i].id = answered(s) + i - 1
      <4>1. CASE i \in 1 .. Len(q)
        BY <3>4, <3>6, <4>1
      <4>2. CASE i = Len(q) + 1
        BY <2>1, <3>3, <3>4, <3>5, <4>2
      <4>3. QED BY <3>4, <4>1, <4>2
    <3>8. InOrder(s)'
      BY <1>1, <2>1, <3>3, <3>4, <3>5, <3>7 DEF InOrder
    <3>9. OnceEach(s)'
      BY <1>1, <1>2, <1>3, <2>1, <3>5 DEF OnceEach, Uncounted
    <3>10. QED BY <3>8, <3>9
  <2>4. QED BY <2>2, <2>3
<1>5. Warmed'
  BY <1>1, <1>2 DEF OrderInv, Warmed, Warm
<1>6. QED BY <1>4, <1>5 DEF OrderInv

\* A queue without its first packet.
LEMMA RestOfQueue ==
  ASSUME NEW S, NEW q \in Seq(S), 1 \in DOMAIN q
  PROVE  /\ Len(RemoveAt(q, 1)) = Len(q) - 1
         /\ \A j \in 1 .. Len(q) - 1 : RemoveAt(q, 1)[j] = q[j + 1]
<1>1. /\ Len(RemoveAt(q, 1)) = Len(q) - 1
      /\ \A j \in 1 .. Len(q) - 1 : RemoveAt(q, 1)[j] = IF j < 1 THEN q[j] ELSE q[j + 1]
  BY Removed
<1>2. \A j \in 1 .. Len(q) - 1 : ~(j < 1)
  OBVIOUS
<1>3. QED BY <1>1, <1>2

\* The packets of that rest are numbered from the next number on.
LEMMA Renumbered ==
  ASSUME NEW q, NEW u, NEW m \in Nat, Len(q) \in Nat, Len(u) = Len(q) - 1,
         \A j \in 1 .. Len(q) : q[j].id = m + j - 1,
         \A j \in 1 .. Len(q) - 1 : u[j] = q[j + 1]
  PROVE  \A j \in 1 .. Len(u) : u[j].id = m + 1 + j - 1
<1>1. ASSUME NEW j \in 1 .. Len(q) - 1 PROVE u[j].id = m + 1 + j - 1
  <2>1. j + 1 \in 1 .. Len(q) /\ m + (j + 1) - 1 = m + 1 + j - 1
    OBVIOUS
  <2>2. QED BY <2>1
<1>2. QED BY <1>1

\* Lose: on such a stream the first packet under way goes, and all those before it
\* were dropped, so that nothing has been recorded.
LEMMA LoseInOrder == ASSUME BenchmarkInv, OrderInv, NEW t \in Streams, Lose(t) PROVE OrderInv'
<1>1. PICK i \in Next1(t) :
        /\ t \in Datagrams \/ Unregistered(t)
        /\ dropped' = [dropped EXCEPT ![t] = @ \cup {under_way[t][i].id}]
        /\ under_way' = [under_way EXCEPT ![t] = RemoveAt(@, i)]
  BY DEF Lose
<1>2. /\ now' = now /\ benchmark_start' = benchmark_start
      /\ packet_sequences' = packet_sequences /\ early' = early
      /\ channel' = channel /\ file' = file
  BY DEF Lose, client, recorder
<1>3. \A s \in Streams : RecordsOf(s)' = RecordsOf(s) /\ Recorded(s)' = Recorded(s)
  BY <1>2 DEF RecordsOf, Recorded
<1>4. ASSUME NEW s \in Streams \ Datagrams, s # t PROVE InOrder(s)' /\ OnceEach(s)'
  <2>1. under_way'[s] = under_way[s] /\ dropped'[s] = dropped[s]
    BY <1>1, <1>4 DEF BenchmarkInv, Typed
  <2>2. \A r : Copies(channel, r)' = Copies(channel, r) /\ Copies(file, r)' = Copies(file, r)
    BY <1>2 DEF Copies
  <2>3. QED BY <1>2, <1>3, <2>1, <2>2, Elsewhere DEF OrderInv
<1>5. ASSUME t \notin Datagrams PROVE InOrder(t)' /\ OnceEach(t)'
  <2>1. PICK q \in Seq(Packets) : q = under_way[t]
    BY DEF BenchmarkInv, Typed
  <2>2. i = 1 /\ 1 \in DOMAIN q
    BY <1>5, <2>1 DEF Next1
  <2>3. under_way'[t] = RemoveAt(q, 1) /\ dropped'[t] = dropped[t] \cup {q[1].id}
    BY <1>1, <2>1, <2>2 DEF BenchmarkInv, Typed
  <2>4. PICK m : m = answered(t)
    OBVIOUS
  <2>5. /\ m \in Nat /\ m = packet_sequences[t] - Len(q)
        /\ \A j \in 1 .. Len(q) : q[j].id = m + j - 1
        /\ packet_sequences[t] \in Nat /\ Len(q) \in Nat
    BY <1>5, <2>1, <2>4 DEF OrderInv, InOrder, answered, BenchmarkInv, Typed
  <2>6. /\ Len(under_way'[t]) = Len(q) - 1
        /\ \A j \in 1 .. Len(q) - 1 : under_way'[t][j] = q[j + 1]
    BY <2>2, <2>3, RestOfQueue
  <2>7. answered(t)' = m + 1
    BY <1>2, <2>5, <2>6 DEF answered
  <2>8. q[1].id = m
    BY <2>2, <2>5
  <2>9. InOrder(t)'
    <3>1. PICK u : u = under_way'[t]
      OBVIOUS
    <3>2. \A j \in 1 .. Len(u) : u[j].id = m + 1 + j - 1
      <4>1. /\ m \in Nat /\ Len(q) \in Nat /\ Len(u) = Len(q) - 1
            /\ \A j \in 1 .. Len(q) : q[j].id = m + j - 1
            /\ \A j \in 1 .. Len(q) - 1 : u[j] = q[j + 1]
        BY <2>5, <2>6, <3>1
      <4>2. QED BY ONLY <4>1, Renumbered
    <3>3. QED BY <2>5, <2>7, <3>1, <3>2 DEF InOrder
  <2>10. /\ Uncounted(t) \cup Recorded(t) = 0 .. m - 1
         /\ \A d \in Uncounted(t), k \in Recorded(t) : d < k
         /\ 0 .. m - 1 \subseteq dropped[t]
    BY <1>1, <1>5, <2>1, <2>4, <2>8 DEF OrderInv, OnceEach, Unregistered
  <2>11. Recorded(t) = {} /\ Uncounted(t) = 0 .. m - 1
    <3>1. \A k \in Recorded(t) : k \in 0 .. m - 1 /\ k \in Uncounted(t)
      BY <2>10 DEF Uncounted
    <3>2. \A k \in 0 .. m - 1 : ~(k < k)
      BY <2>5
    <3>3. QED BY <2>10, <3>1, <3>2
  <2>12. Uncounted(t)' = 0 .. answered(t)' - 1
    <3>1. Uncounted(t)' = Uncounted(t) \cup {m}
      BY <1>2, <2>3, <2>8 DEF Uncounted
    <3>2. 0 .. m + 1 - 1 = (0 .. m - 1) \cup {m}
      BY <2>5
    <3>3. QED BY <2>7, <2>11, <3>1, <3>2
  <2>13. RecordsOf(t)' = {} /\ Recorded(t)' = {}
    <3>1. RecordsOf(t) = {}
      BY <2>11 DEF Recorded
    <3>2. QED BY <1>3, <2>11, <3>1
  <2>14. OnceEach(t)'
    BY <2>12, <2>13 DEF OnceEach
  <2>15. QED BY <2>9, <2>14
<1>6. Warmed'
  BY <1>2, <1>3 DEF OrderInv, Warmed, Warm
<1>7. QED BY <1>4, <1>5, <1>6 DEF OrderInv

\* Arrive: the answer is that to the first packet under way; during the warm-up
\* nothing has been recorded yet.
LEMMA ArriveInOrder ==
  ASSUME BenchmarkInv, OrderInv, NEW t \in Streams, Arrive(t)
  PROVE  OrderInv'
<1>1. PICK i \in Next1(t) :
        /\ PollMessage(t, under_way[t][i])
        /\ \/ under_way' = [under_way EXCEPT ![t] = RemoveAt(@, i)]
           \/ t \in Datagrams /\ under_way' = under_way
  BY DEF Arrive
<1> DEFINE p == under_way[t][i]
           record == [packet_id |-> p.id, stream_id |-> t, rtt_us |-> now - p.timestamp]
<1>2. /\ now' = now /\ dropped' = dropped /\ file' = file /\ server_id
      /\ packet_sequences' = packet_sequences /\ benchmark_start' = benchmark_start
      /\ \/ Warm /\ channel' = channel (+) SetToBag({record}) /\ early' = early
         \/ ~Warm /\ early' = [early EXCEPT ![t] = @ \cup {p.id}] /\ channel' = channel
  BY <1>1, WarmAtLast DEF PollMessage, client
<1>3. /\ under_way \in [Streams -> Seq(Packets)] /\ under_way[t] \in Seq(Packets)
      /\ i \in DOMAIN under_way[t] /\ Bag(channel) /\ Bag(file)
      /\ early \in [Streams -> SUBSET Nat]
  BY DEF Next1, BenchmarkInv, Typed
<1>4. record.packet_id = p.id /\ record.stream_id = t
  OBVIOUS
<1>5. PICK r : r = record
  OBVIOUS
<1>6. r.packet_id = p.id /\ r.stream_id = t
  BY <1>4, <1>5
<1>7. \/ /\ Warm /\ early' = early
         /\ BagToSet(channel') = BagToSet(channel) \cup {r}
         /\ \A e : Copies(channel', e) = Copies(channel, e) + (IF e = r THEN 1 ELSE 0)
      \/ /\ ~Warm /\ channel' = channel /\ early'[t] = early[t] \cup {p.id}
         /\ \A s \in Streams : s # t => early'[s] = early[s]
  <2> HIDE DEF record
  <2>1. CASE Warm
    <3>1. PICK b, c : b = channel /\ c = channel'
      OBVIOUS
    <3>2. c = b (+) SetToBag({r}) /\ early' = early /\ Bag(b)
      BY <1>2, <1>3, <1>5, <2>1, <3>1
    <3>3. BagToSet(c) = BagToSet(b) \cup {r} /\ OneMore(c, b, r)
      BY <3>2, BagAdded
    <3>4. QED BY <2>1, <3>1, <3>2, <3>3 DEF OneMore
  <2>2. CASE ~Warm
    BY <1>2, <1>3, <2>2
  <2>3. QED BY <2>1, <2>2
<1> HIDE DEF record
<1>8. ASSUME NEW s \in Streams \ Datagrams, s # t PROVE InOrder(s)' /\ OnceEach(s)'
  <2>1. under_way'[s] = under_way[s] /\ early'[s] = early[s]
    BY <1>1, <1>3, <1>7, <1>8
  <2>2. RecordsOf(s)' = RecordsOf(s)
    BY <1>2, <1>6, <1>7, <1>8 DEF RecordsOf
  <2>3. \A e \in RecordsOf(s) : e # r
    BY <1>6, <1>8 DEF RecordsOf
  <2>4. \A e : Copies(channel, e)' = Copies(channel', e) /\ Copies(file, e)' = Copies(file, e)
    BY <1>2 DEF Copies
  <2>5. \A e \in RecordsOf(s) : Copies(channel, e)' = Copies(channel, e)
    <3>1. \A e : Copies(channel, e) \in Nat
      BY <1>3, Copied
    <3>2. QED BY <1>7, <2>3, <2>4, <3>1
  <2>6. InOrder(s) /\ OnceEach(s)
    BY DEF OrderInv
  <2>7. QED BY <1>2, <2>1, <2>2, <2>4, <2>5, <2>6, Elsewhere
<1>9. ASSUME t \notin Datagrams PROVE InOrder(t)' /\ OnceEach(t)'
  <2>1. i = 1 /\ 1 \in DOMAIN under_way[t] /\ under_way'[t] = RemoveAt(under_way[t], 1)
    BY <1>1, <1>3, <1>9 DEF Next1
  <2>2. PICK q \in Seq(Packets) : q = under_way[t]
    BY <1>3
  <2>3. PICK m : m = answered(t)
    OBVIOUS
  <2>4. /\ m \in Nat /\ m = packet_sequences[t] - Len(q)
        /\ \A j \in 1 .. Len(q) : q[j].id = m + j - 1
        /\ packet_sequences[t] \in Nat /\ Len(q) \in Nat
    BY <1>9, <2>2, <2>3 DEF OrderInv, InOrder, answered, BenchmarkInv, Typed
  <2>5. /\ Len(under_way'[t]) = Len(q) - 1
        /\ \A j \in 1 .. Len(q) - 1 : under_way'[t][j] = q[j + 1]
    BY <2>1, <2>2, RestOfQueue
  <2>6. answered(t)' = m + 1
    BY <1>2, <2>4, <2>5 DEF answered
  <2>7. p.id = m
    BY <2>1, <2>2, <2>4
  <2>8. InOrder(t)'
    <3>1. PICK u : u = under_way'[t]
      OBVIOUS
    <3>2. \A j \in 1 .. Len(u) : u[j].id = m + 1 + j - 1
      <4>1. /\ m \in Nat /\ Len(q) \in Nat /\ Len(u) = Len(q) - 1
            /\ \A j \in 1 .. Len(q) : q[j].id = m + j - 1
            /\ \A j \in 1 .. Len(q) - 1 : u[j] = q[j + 1]
        BY <2>4, <2>5, <3>1
      <4>2. QED BY ONLY <4>1, Renumbered
    <3>3. QED BY <2>4, <2>6, <3>1, <3>2 DEF InOrder
  <2> HIDE DEF p
  <2>9. /\ Uncounted(t) \cup Recorded(t) = 0 .. m - 1
        /\ \A d \in Uncounted(t), k \in Recorded(t) : d < k
        /\ \A e \in RecordsOf(t) : Copies(channel, e) + Copies(file, e) = 1
        /\ \A e, g \in RecordsOf(t) : e.packet_id = g.packet_id => e = g
    BY <1>9, <2>3 DEF OrderInv, OnceEach
  <2>10. 0 .. m + 1 - 1 = (0 .. m - 1) \cup {m}
    BY <2>4
  <2>11. \A x \in Uncounted(t) \cup Recorded(t) : x < m
    BY <2>4, <2>9
  <2>12. CASE Warm
    <3>1. /\ Uncounted(t)' = Uncounted(t)
          /\ BagToSet(channel') = BagToSet(channel) \cup {r}
          /\ \A e : Copies(channel', e) = Copies(channel, e) + (IF e = r THEN 1 ELSE 0)
      BY <1>2, <1>7, <2>12 DEF Uncounted
    <3>2. RecordsOf(t)' = RecordsOf(t) \cup {r}
      BY <1>2, <1>6, <3>1 DEF RecordsOf
    <3>3. Recorded(t)' = Recorded(t) \cup {m}
      BY <1>6, <2>7, <3>2 DEF Recorded
    <3>4. \A e \in RecordsOf(t) : e.packet_id # m /\ e # r
      <4>1. \A e \in RecordsOf(t) : e.packet_id \in Recorded(t)
        BY DEF Recorded
      <4>2. QED BY <1>6, <2>4, <2>7, <2>11, <4>1
    <3>5. Copies(channel, r) = 0 /\ Copies(file, r) = 0
      <4>1. r \notin RecordsOf(t)
        BY <3>4
      <4>2. r \notin BagToSet(channel) \cup BagToSet(file)
        BY <1>6, <4>1 DEF RecordsOf
      <4>3. QED BY <4>2 DEF Copies
    <3>6. \A e : Copies(channel, e)' = Copies(channel', e) /\ Copies(file, e)' = Copies(file, e)
      BY <1>2 DEF Copies
    <3>7. \A e \in RecordsOf(t)' : Copies(channel, e)' + Copies(file, e)' = 1
      <4>1. \A e : Copies(channel, e) \in Nat /\ Copies(file, e) \in Nat
        BY <1>3, Copied
      <4>2. Copies(channel', r) + Copies(file, r) = 1
        BY <3>1, <3>5
      <4>3. \A e \in RecordsOf(t) : Copies(channel', e) + Copies(file, e) = 1
        BY <2>9, <3>1, <3>4, <4>1
      <4>4. QED BY <3>2, <3>6, <4>2, <4>3
    <3>8. \A e, g \in RecordsOf(t)' : e.packet_id = g.packet_id => e = g
      BY <1>6, <2>7, <2>9, <3>2, <3>4
    <3>9. Uncounted(t)' \cup Recorded(t)' = 0 .. answered(t)' - 1
      BY <2>6, <2>9, <2>10, <3>1, <3>3
    <3>10. \A d \in Uncounted(t)', k \in Recorded(t)' : d < k
      BY <2>9, <2>11, <3>1, <3>3
    <3>11. QED BY <2>8, <3>7, <3>8, <3>9, <3>10 DEF OnceEach
  <2>13. CASE ~Warm
    <3>1. channel' = channel /\ Uncounted(t)' = Uncounted(t) \cup {m}
      BY <1>2, <1>7, <2>7, <2>13 DEF Uncounted
    <3>2. Recorded(t) = {}
      BY <2>13 DEF OrderInv, Warmed
    <3>3. RecordsOf(t)' = RecordsOf(t) /\ Recorded(t)' = Recorded(t)
      BY <1>2, <3>1 DEF RecordsOf, Recorded
    <3>4. RecordsOf(t) = {}
      BY <3>2 DEF Recorded
    <3>5. Uncounted(t)' \cup Recorded(t)' = 0 .. answered(t)' - 1
      BY <2>6, <2>9, <2>10, <3>1, <3>3
    <3>6. OnceEach(t)'
      BY <3>2, <3>3, <3>4, <3>5 DEF OnceEach
    <3>7. QED BY <2>8, <3>6
  <2>14. QED BY <2>12, <2>13
<1>10. Warmed'
  <2>1. Warm' <=> Warm
    BY <1>2 DEF Warm
  <2>2. CASE Warm
    BY <1>2, <2>1, <2>2 DEF Warmed, BenchmarkInv, Typed
  <2>3. CASE ~Warm
    <3>1. \A s \in Streams : Recorded(s)' = Recorded(s)
      BY <1>2, <1>7, <2>3 DEF RecordsOf, Recorded
    <3>2. QED BY <1>2, <2>1, <3>1 DEF OrderInv, Warmed
  <2>4. QED BY <2>2, <2>3
<1>11. QED BY <1>8, <1>9, <1>10 DEF OrderInv

\* WriteRecord, RecorderFails and Drop: a record in the file is no longer in the channel.
LEMMA RecorderInOrder ==
  ASSUME BenchmarkInv, OrderInv, WriteRecord \/ RecorderFails \/ Drop
  PROVE  OrderInv'
<1>1. CASE WriteRecord
  <2>1. PICK r \in BagToSet(channel) :
          file' = file (+) SetToBag({r}) /\ channel' = channel (-) SetToBag({r})
    BY <1>1 DEF WriteRecord
  <2>2. /\ now' = now /\ benchmark_start' = benchmark_start
        /\ packet_sequences' = packet_sequences /\ under_way' = under_way
        /\ dropped' = dropped /\ early' = early
    BY <1>1 DEF WriteRecord, client, network
  <2>3. Bag(channel) /\ Bag(file)
    BY DEF BenchmarkInv, Typed
  <2>4. /\ BagToSet(channel') \cup {r} = BagToSet(channel)
        /\ \A e : Copies(channel', e) = Copies(channel, e) - (IF e = r THEN 1 ELSE 0)
    BY <2>1, <2>3, BagRemoved
  <2>5. /\ BagToSet(file') = BagToSet(file) \cup {r}
        /\ \A e : Copies(file', e) = Copies(file, e) + (IF e = r THEN 1 ELSE 0)
    <3>1. PICK b, c : b = file /\ c = file'
      OBVIOUS
    <3>2. c = b (+) SetToBag({r}) /\ Bag(b)
      BY <2>1, <2>3, <3>1
    <3>3. BagToSet(c) = BagToSet(b) \cup {r} /\ OneMore(c, b, r)
      BY <3>2, BagAdded
    <3>4. QED BY <3>1, <3>3 DEF OneMore
  <2>6. \A s \in Streams : RecordsOf(s)' = RecordsOf(s) /\ Recorded(s)' = Recorded(s)
    BY <2>4, <2>5 DEF RecordsOf, Recorded
  <2>7. \A e : Copies(channel, e)' + Copies(file, e)' = Copies(channel, e) + Copies(file, e)
    <3>1. \A e : Copies(channel, e)' = Copies(channel', e) /\ Copies(file, e)' = Copies(file', e)
      BY DEF Copies
    <3>2. \A e : Copies(channel, e) \in Nat /\ Copies(file, e) \in Nat
      BY <2>3, Copied
    <3>3. QED BY <2>4, <2>5, <3>1, <3>2
  <2>8. \A s \in Streams \ Datagrams : InOrder(s)' /\ OnceEach(s)'
    BY <2>2, <2>6, <2>7, Elsewhere DEF OrderInv
  <2>9. Warmed'
    BY <2>2, <2>6 DEF OrderInv, Warmed, Warm
  <2>10. QED BY <2>8, <2>9 DEF OrderInv
<1>2. CASE Drop
  BY <1>2, OrderUnmoved DEF Drop, packets, network, recorder, BenchmarkInv, Typed
<1>3. CASE RecorderFails
  BY <1>3, OrderUnmoved DEF RecorderFails, packets, client, network, BenchmarkInv, Typed
<1>4. QED BY <1>1, <1>2, <1>3

\* One step per action.
LEMMA OrderKept == BenchmarkInv /\ OrderInv /\ [Next]_vars => OrderInv'
<1> SUFFICES ASSUME BenchmarkInv, OrderInv, [Next]_vars PROVE OrderInv'
  OBVIOUS
<1>1. now \in Nat /\ now <= now
  BY DEF BenchmarkInv, Typed
<1>2. CASE UNCHANGED vars
  BY <1>1, <1>2, OrderUnmoved DEF vars, client, network, recorder, packets
<1>3. CASE Pass
  BY <1>1, <1>3, OrderUnmoved DEF Pass, client, network, recorder, packets
<1>4. CASE Polls
  <2>1. CASE PollConnected
    BY <1>1, <2>1, OrderUnmoved DEF PollConnected, network, recorder, packets
  <2>2. CASE PollDisconnected
    BY <1>1, <2>2, OrderUnmoved DEF PollDisconnected, network, recorder, packets
  <2>3. CASE PollFails
    BY <1>1, <2>3, OrderUnmoved DEF PollFails, network, recorder, packets
  <2>4. CASE \E s \in Streams : PollStreamCreated(s)
    BY <1>1, <2>4, OrderUnmoved DEF PollStreamCreated, network, recorder, packets
  <2>5. QED BY <1>4, <2>1, <2>2, <2>3, <2>4, ArriveInOrder DEF Polls
<1>5. CASE Round
  BY <1>5, RoundInOrder
<1>6. CASE WriteRecord \/ RecorderFails \/ Drop
  BY <1>6, RecorderInOrder
<1>7. CASE \E s \in Streams : Lose(s)
  BY <1>7, LoseInOrder
<1>8. QED BY <1>2, <1>3, <1>4, <1>5, <1>6, <1>7 DEF Next

\* At the end each packet up to the last one answered has one line in the file or is
\* uncounted: what is not counted as received is what was dropped or came too early.
LEMMA LostIsUncounted == BenchmarkInv /\ OrderInv => InOrderLossExact
<1> SUFFICES ASSUME BenchmarkInv, OrderInv, Finished, recording, NEW s \in Streams \ Datagrams,
                    received(s) > 0
             PROVE  lost(s) = Cardinality(dropped[s] \cup early[s])
  BY DEF InOrderLossExact
<1>1. PICK F, X, m, n : F = Filed(s) /\ X = dropped[s] \cup early[s] /\ m = answered(s) /\ n = received(s)
  OBVIOUS
<1>2. channel = EmptyBag /\ BagToSet(channel) = {}
  BY DEF BenchmarkInv, Drained, EmptyBag, SetToBag, BagToSet
<1>3. RecordsOf(s) = stream_records(s) /\ Recorded(s) = F
  BY <1>1, <1>2 DEF RecordsOf, Recorded, Filed, stream_records
<1>4. /\ X \cup F = 0 .. m - 1 /\ m \in Nat
      /\ \A d \in X, k \in F : d < k
      /\ \A r \in stream_records(s) : Copies(channel, r) + Copies(file, r) = 1
      /\ \A r, q \in stream_records(s) : r.packet_id = q.packet_id => r = q
  BY <1>1, <1>3 DEF OrderInv, InOrder, OnceEach, Uncounted
<1>5. \A r \in stream_records(s) : file[r] = 1
  <2>1. ASSUME NEW r \in stream_records(s) PROVE file[r] = 1
    <3>1. Copies(channel, r) = 0 /\ Copies(file, r) = file[r] /\ Copies(file, r) \in Nat
      BY <1>2, Copied DEF Copies, stream_records, BenchmarkInv, Typed
    <3>2. QED BY <1>4, <3>1
  <2>2. QED BY <2>1
<1>6. \A k, l \in lines(s) : k[1].packet_id = l[1].packet_id => k = l
  <2>1. ASSUME NEW l \in lines(s) PROVE l[1] \in stream_records(s) /\ l = <<l[1], 1>>
    <3>1. PICK r \in stream_records(s) : l \in {r} \X (1 .. file[r])
      BY DEF lines
    <3>2. file[r] = 1
      BY <1>5
    <3>3. l = <<r, l[2]>> /\ l[2] \in 1 .. 1
      BY <3>1, <3>2
    <3>4. QED BY <3>3
  <2>2. QED BY <1>4, <2>1
<1>7. /\ IsFiniteSet(F) /\ n \in Nat /\ Cardinality(F) = n /\ F # {}
      /\ max_id(s) \in F /\ \A x \in F : x <= max_id(s)
  BY <1>1, <1>6, Counted
<1>8. max_id(s) = m - 1
  <2>1. PICK g \in F : g = max_id(s)
    BY <1>7
  <2>2. g \in 0 .. m - 1 /\ \A x \in F : x <= g
    BY <1>4, <1>7, <2>1
  <2>3. m - 1 \in X \cup F
    BY <1>4, <2>2
  <2>4. m - 1 \in F
    BY <1>4, <2>2, <2>3
  <2>5. QED BY <1>4, <2>1, <2>2, <2>4
<1>9. sent(s) = m
  BY <1>1, <1>4, <1>8 DEF sent
<1>10. Cardinality(X) = m - n /\ Cardinality(X) \in Nat
  <2> DEFINE D == 0 .. m - 1
  <2>1. IsFiniteSet(D) /\ Cardinality(D) = m
    BY <1>4, FS_Interval
  <2>2. D \ F = X /\ D \cap F = F
    BY <1>4
  <2> HIDE DEF D
  <2>3. IsFiniteSet(D \ F) /\ Cardinality(D \ F) = Cardinality(D) - Cardinality(D \cap F)
    BY <2>1, FS_Difference
  <2>4. QED BY <1>7, <2>1, <2>2, <2>3, FS_CardinalityType
<1>11. lost(s) = IF m > n THEN m - n ELSE 0
  BY <1>1, <1>9 DEF lost, saturating_sub
<1>12. QED BY <1>1, <1>4, <1>7, <1>10, <1>11

-----------------------------------------------------------------------------
(* The theorems.                                                           *)

\* What the benchmark keeps has its type, and no timer runs ahead of the clock.
THEOREM BenchmarkTypeCorrect == Spec => []TypeOK
<1>1. BenchmarkInv => TypeOK
  <2> SUFFICES ASSUME BenchmarkInv PROVE TypeOK
    OBVIOUS
  <2>1. ASSUME NEW s \in Streams
        PROVE  /\ packet_sequences[s] \in Nat
               /\ last_tick[s] = Interval[s] * packet_sequences[s] /\ last_tick[s] <= now
               /\ dropped[s] \cup early[s] \subseteq Ids(s)
               /\ \A p \in ToSet(under_way[s]) : p.id \in Ids(s) /\ p.timestamp <= now
    BY DEF BenchmarkInv, Typed, Clocks, Accounted, UnderWay
  <2>2. ASSUME NEW r \in BagToSet(channel) \cup BagToSet(file)
        PROVE  r.packet_id \in Ids(r.stream_id) /\ r.rtt_us \in Nat
    <3>1. r \in Records
      BY DEF BenchmarkInv, Typed
    <3>2. r.stream_id \in Streams /\ r.rtt_us \in Nat
      BY <3>1 DEF Records
    <3>3. r.packet_id \in Recorded(r.stream_id)
      BY DEF Recorded, RecordsOf
    <3>4. QED BY <3>2, <3>3 DEF BenchmarkInv, Accounted
  <2>3. QED BY <2>1, <2>2 DEF BenchmarkInv, Typed, TypeOK
<1>2. QED BY <1>1, BenchmarkAtFirst, BenchmarkKept, PTL DEF Spec

\* When the client is done, every packet it sent is in the file, is under way or lost,
\* or its answer came in the first Warmup + 1 seconds: joining the recorder's thread
\* (metrics.rs, Drop) loses no record, however the run ended, if the thread lived.
THEOREM PacketsAccountedFor == Spec => []EveryPacketAccountedFor
<1>1. BenchmarkInv => EveryPacketAccountedFor
  <2> SUFFICES ASSUME BenchmarkInv, Finished, recording, NEW s \in Streams
               PROVE  Filed(s) \cup UnderWay(s) \cup dropped[s] \cup early[s] = Ids(s)
    BY DEF EveryPacketAccountedFor
  <2>1. BagToSet(channel) = {}
    BY DEF BenchmarkInv, Drained, EmptyBag, SetToBag, BagToSet
  <2>2. Recorded(s) = Filed(s)
    BY <2>1 DEF Recorded, RecordsOf, Filed, stream_records
  <2>3. QED BY <2>2 DEF BenchmarkInv, Accounted
<1>2. QED BY <1>1, BenchmarkAtFirst, BenchmarkKept, PTL DEF Spec

\* What stats reports as lost never exceeds what is missing from the file up to the
\* last packet in it, however many packets are doubled: the packets in the file
\* are at most its lines (stats.rs lines 612-615).
THEOREM LossBounded == Spec => []LossNotOverstated
BY AtMostMissing, BenchmarkAtFirst, BenchmarkKept, PTL DEF Spec

\* On a stream that delivers in order, what stats reports as lost are the replies
\* dropped before the server's end was registered and all that was answered in the
\* first Warmup + 1 seconds, and nothing after: `as_secs() > args.warmup` lets the
\* record start a second late (client.rs line 122), and stats counts as lost what
\* is not in the file (stats.rs lines 612-615).
THEOREM InOrderLossesExact == Spec => []InOrderLossExact
<1>1. Init => BenchmarkInv /\ OrderInv
  BY BenchmarkAtFirst, OrderAtFirst
<1>2. BenchmarkInv /\ OrderInv /\ [Next]_vars => (BenchmarkInv /\ OrderInv)'
  BY BenchmarkKept, OrderKept
<1>3. QED BY <1>1, <1>2, LostIsUncounted, PTL DEF Spec

\* The percentiles of a report have their rank, for files of any length
\* (stats.rs lines 541-545).
THEOREM PercentilesRanked == Spec => []PercentilesHaveTheirRank
BY Ranked, BenchmarkAtFirst, BenchmarkKept, PTL DEF Spec

=============================================================================
