------------------------- MODULE EventStream_proofs -------------------------
(***************************************************************************)
(* A client of the event stream that reconnects has no gap behind it       *)
(* (EventStream), for any sessions, appenders, events and lost             *)
(* connections.                                                            *)
(***************************************************************************)
EXTENDS EventStream, FiniteSetTheorems, SequenceTheorems, WellFoundedInduction, TLAPS

(* The inductive invariant.                                                *)

\* The first n elements of a sequence.
First(seq, n) == {seq[i] : i \in 1 .. n}

\* What the client asked for.
Listens(s) == filter \in {Everything, s}

\* The exceptions of NoGap.
Excused(s, e) == e \in overtaken \/ (filter = Everything /\ e \in unlisted[s])

\* Who has an event of a session has those before it.
Closed(has) ==
  \A s \in Sessions : \A e, f \in ToSet(log[s]) :
    e < f /\ f \in has => e \in has \/ Excused(s, e)

\* Events in the file that are not fanned out.
Pending == {append[a].event : a \in {b \in Appenders : append[b] # Idle}}

\* The logs grow at their ends; an event is in one of them.
LogsGrow ==
  /\ \A s \in Sessions : \A i, j \in DOMAIN log[s] : i < j => log[s][i] < log[s][j]
  /\ \A s \in Sessions : ToSet(log[s]) \subseteq 1 .. count
  /\ \A s, t \in Sessions : s # t => ToSet(log[s]) \cap ToSet(log[t]) = {}
  /\ \A s \in Sessions \ saved : ToSet(log[s]) \subseteq unlisted[s]

\* An event that is not fanned out is the last one, or was overtaken.
PendingAreLate ==
  \A a \in Appenders : append[a] # Idle =>
    /\ append[a].event \in 1 .. count
    /\ append[a].event = count \/ append[a].event \in overtaken
    /\ \A s \in Sessions : append[a].event \in ToSet(log[s]) => s = append[a].session

\* The two sides of the connection agree on where it began, and what was sent, is
\* buffered or was received is of a session the client asked for.
Connected ==
  /\ last # 0 => last \in got
  /\ stream.pc = "off" => wire = <<>>
  /\ stream.pc = "list" => filter = Everything
  /\ stream.pc \in {"list", "replay"} => stream.from = last
  /\ stream.pc \in {"off", "live"} => stream.buffer = <<>> /\ stream.todo = {}
  /\ \A s \in stream.todo : Listens(s)
  /\ stream.replayed \subseteq ToSet(wire)
  /\ got \cup ToSet(wire) \cup ToSet(stream.buffer) \subseteq 1 .. count
  /\ \A s \in Sessions : ~Listens(s) =>
       ToSet(log[s]) \cap (got \cup ToSet(wire) \cup ToSet(stream.buffer)) = {}

\* What the client has, or will have of what is written to it, has no gap.
Gapless == \A n \in 0 .. Len(wire) : Closed(got \cup First(wire, n))

\* An event that the client asked for is on its way to it.
Accounted ==
  stream.pc # "off" =>
    \A s \in Sessions : \A e \in ToSet(log[s]) : Listens(s) =>
      \/ e \in got \cup ToSet(wire) \cup ToSet(stream.buffer) \cup Pending
      \/ Excused(s, e)
      \/ stream.pc = "list" \/ s \in stream.todo

\* Events are buffered in their order, but for those that were overtaken.
BufferedInOrder ==
  \A i, j \in DOMAIN stream.buffer :
    i < j /\ stream.buffer[j] < stream.buffer[i] => stream.buffer[j] \in overtaken

StreamInv ==
  /\ TypeOK /\ LogsGrow /\ PendingAreLate /\ Connected
  /\ Gapless /\ Accounted /\ BufferedInOrder

-----------------------------------------------------------------------------
(* Sequences of events *)

\* A set of numbers that is not empty has a least one.
LEMMA LeastOf ==
  ASSUME NEW Ns, Ns \subseteq Nat, Ns # {}
  PROVE  \E n \in Ns : \A m \in Ns : n <= m
<1>1. PICK n \in Ns : \A m \in Ns : ~(<<m, n>> \in OpToRel(<, Nat))
      BY NatLessThanWellFounded, WFMin
<1>2. \A m \in Ns : ~(m < n)
      BY <1>1 DEF OpToRel
<1>. QED
      BY <1>2

\* The first elements of two sequences, one behind the other.
LEMMA FirstConcat ==
  ASSUME NEW S, NEW v \in Seq(S), NEW w \in Seq(S), NEW n \in 0 .. Len(v \o w)
  PROVE  \/ n \in 0 .. Len(v) /\ First(v \o w, n) = First(v, n)
         \/ \E k \in 0 .. Len(w) : First(v \o w, n) = ToSet(v) \cup First(w, k)
<1>1. /\ Len(v) \in Nat /\ Len(w) \in Nat /\ Len(v \o w) = Len(v) + Len(w)
      /\ \A i \in 1 .. Len(v) + Len(w) :
           (v \o w)[i] = IF i <= Len(v) THEN v[i] ELSE w[i - Len(v)]
      OBVIOUS
<1>2. CASE n <= Len(v)
  <2>1. \A i \in 1 .. n : (v \o w)[i] = v[i]
      BY <1>1, <1>2
  <2>. QED
      BY <1>1, <1>2, <2>1 DEF First
<1>3. CASE n > Len(v)
  <2>. DEFINE k == n - Len(v)
  <2>1. k \in 0 .. Len(w) /\ n = Len(v) + k
      BY <1>1, <1>3
  <2>. HIDE DEF k
  <2>2. First(v \o w, n) \subseteq ToSet(v) \cup First(w, k)
    <3>. SUFFICES ASSUME NEW i \in 1 .. n PROVE (v \o w)[i] \in ToSet(v) \cup First(w, k)
        BY DEF First
    <3>1. CASE i <= Len(v)
        BY <1>1, <2>1, <3>1 DEF ToSet
    <3>2. CASE i > Len(v)
      <4>1. i - Len(v) \in 1 .. k /\ (v \o w)[i] = w[i - Len(v)]
          BY <1>1, <2>1, <3>2
      <4>. QED
          BY <4>1 DEF First
    <3>. QED
        BY <1>1, <3>1, <3>2
  <2>3. ToSet(v) \subseteq First(v \o w, n)
    <3>. SUFFICES ASSUME NEW i \in 1 .. Len(v) PROVE v[i] \in First(v \o w, n)
        BY DEF ToSet
    <3>1. i \in 1 .. n /\ (v \o w)[i] = v[i]
        BY <1>1, <2>1
    <3>. QED
        BY <3>1 DEF First
  <2>4. First(w, k) \subseteq First(v \o w, n)
    <3>. SUFFICES ASSUME NEW i \in 1 .. k PROVE w[i] \in First(v \o w, n)
        BY DEF First
    <3>1. Len(v) + i \in 1 .. n /\ (v \o w)[Len(v) + i] = w[i]
        BY <1>1, <2>1
    <3>. QED
        BY <3>1 DEF First
  <2>. QED
      BY <2>1, <2>2, <2>3, <2>4
<1>. QED
      BY <1>1, <1>2, <1>3

\* All elements of two sequences, one behind the other.
LEMMA ToSetConcat ==
  ASSUME NEW S, NEW v \in Seq(S), NEW w \in Seq(S)
  PROVE  ToSet(v \o w) = ToSet(v) \cup ToSet(w)
<1>1. /\ Len(v) \in Nat /\ Len(w) \in Nat /\ Len(v \o w) = Len(v) + Len(w)
      /\ \A i \in 1 .. Len(v) + Len(w) :
           (v \o w)[i] = IF i <= Len(v) THEN v[i] ELSE w[i - Len(v)]
      OBVIOUS
<1>2. ToSet(v \o w) \subseteq ToSet(v) \cup ToSet(w)
      BY <1>1 DEF ToSet
<1>3. ToSet(v) \subseteq ToSet(v \o w)
      BY <1>1 DEF ToSet
<1>4. ToSet(w) \subseteq ToSet(v \o w)
  <2>. SUFFICES ASSUME NEW i \in 1 .. Len(w) PROVE w[i] \in ToSet(v \o w)
      BY SMTT(30) DEF ToSet
  <2>1. Len(v) + i \in 1 .. Len(v) + Len(w) /\ (v \o w)[Len(v) + i] = w[i]
      BY <1>1
  <2>. QED
      BY SMTT(30), <1>1, <2>1 DEF ToSet
<1>. QED
      BY <1>2, <1>3, <1>4

\* One element behind a sequence.
LEMMA ToSetAppend ==
  ASSUME NEW S, NEW v \in Seq(S), NEW e \in S
  PROVE  /\ ToSet(Append(v, e)) = ToSet(v) \cup {e}
         /\ \A n \in 0 .. Len(v) : First(Append(v, e), n) = First(v, n)
         /\ First(Append(v, e), Len(v) + 1) = ToSet(v) \cup {e}
<1>1. /\ Len(v) \in Nat /\ Len(Append(v, e)) = Len(v) + 1
      /\ Append(v, e)[Len(v) + 1] = e
      /\ \A i \in 1 .. Len(v) : Append(v, e)[i] = v[i]
      /\ Append(v, e) \in Seq(S)
      BY AppendProperties
<1>2. ToSet(Append(v, e)) = {Append(v, e)[i] : i \in 1 .. Len(v) + 1} /\ ToSet(v) = {v[i] : i \in 1 .. Len(v)}
      BY <1>1 DEF ToSet
<1>3. {Append(v, e)[i] : i \in 1 .. Len(v) + 1} = {v[i] : i \in 1 .. Len(v)} \cup {e}
      BY <1>1
<1>4. \A n \in 0 .. Len(v) : First(Append(v, e), n) = First(v, n)
      BY <1>1 DEF First
<1>. QED
      BY <1>2, <1>3, <1>4 DEF First

\* The elements of a sequence are its first ones, all of them.
LEMMA FirstAll ==
  ASSUME NEW S, NEW v \in Seq(S)
  PROVE  /\ First(v, Len(v)) = ToSet(v)
         /\ \A n \in 0 .. Len(v) : First(v, n) \subseteq ToSet(v)
                                   /\ ToSet(SubSeq(v, 1, n)) = First(v, n)
         /\ First(v, 0) = {}
         /\ Len(v) \in Nat
         /\ ToSet(v) \subseteq S
<1>1. Len(v) \in Nat /\ DOMAIN v = 1 .. Len(v) /\ \A i \in 1 .. Len(v) : v[i] \in S
      OBVIOUS
<1>2. \A n \in 0 .. Len(v) : ToSet(SubSeq(v, 1, n)) = First(v, n)
  <2>. SUFFICES ASSUME NEW n \in 0 .. Len(v) PROVE ToSet(SubSeq(v, 1, n)) = First(v, n)
      OBVIOUS
  <2>1. DOMAIN SubSeq(v, 1, n) = 1 .. n /\ \A i \in 1 .. n : SubSeq(v, 1, n)[i] = v[i]
      BY <1>1
  <2>. QED
      BY <2>1 DEF ToSet, First
<1>3. First(v, Len(v)) = ToSet(v) /\ First(v, 0) = {} /\ ToSet(v) \subseteq S
      BY <1>1 DEF First, ToSet
<1>4. \A n \in 0 .. Len(v) : First(v, n) \subseteq ToSet(v)
      BY <1>1 DEF First, ToSet
<1>. QED
      BY <1>1, <1>2, <1>3, <1>4

\* How many of the positions kept are up to i.
Place(kept, i) == Cardinality({j \in kept : j <= i})

LEMMA PlaceType ==
  ASSUME NEW N \in Nat, NEW kept \in SUBSET (1 .. N)
  PROVE  /\ IsFiniteSet(kept) /\ Cardinality(kept) \in Nat
         /\ \A i \in Nat : /\ IsFiniteSet({j \in kept : j <= i})
                         /\ Place(kept, i) \in 0 .. Cardinality(kept)
<1>1. IsFiniteSet(1 .. N)
      BY FS_Interval
<1>2. IsFiniteSet(kept) /\ Cardinality(kept) \in Nat
      BY <1>1, FS_Subset, FS_CardinalityType
<1>3. ASSUME NEW i \in Nat
      PROVE  IsFiniteSet({j \in kept : j <= i}) /\ Place(kept, i) \in 0 .. Cardinality(kept)
  <2>. DEFINE upto == {j \in kept : j <= i}
  <2>1. upto \subseteq kept
      OBVIOUS
  <2>. HIDE DEF upto
  <2>2. IsFiniteSet(upto) /\ Cardinality(upto) <= Cardinality(kept)
      BY <1>2, <2>1, FS_Subset
  <2>3. Cardinality(upto) \in Nat
      BY <2>2, FS_CardinalityType
  <2>4. Place(kept, i) = Cardinality(upto)
      BY DEF Place, upto
  <2>. QED
      BY <1>2, <2>2, <2>3, <2>4 DEF upto
<1>. QED
      BY <1>2, <1>3

LEMMA PlaceLess ==
  ASSUME NEW N \in Nat, NEW kept \in SUBSET (1 .. N), NEW i \in Nat, NEW j \in kept, i < j
  PROVE  Place(kept, i) < Place(kept, j)
<1>. DEFINE low == {k \in kept : k <= i}
            high == {k \in kept : k <= j}
<1>0. \A k \in kept : k \in Nat /\ 1 <= k
      OBVIOUS
<1>1. low \cup {j} \subseteq high /\ j \notin low
  <2>1. j \in Nat /\ j <= j /\ ~(j <= i) /\ \A k \in kept : k <= i => k <= j
      BY <1>0
  <2>. QED
      BY <2>1
<1>2. IsFiniteSet(low) /\ IsFiniteSet(high)
      BY <1>0, PlaceType
<1>. HIDE DEF low, high
<1>3. Cardinality(low \cup {j}) = Cardinality(low) + 1
      BY <1>1, <1>2, FS_AddElement
<1>4. Cardinality(low \cup {j}) <= Cardinality(high)
      BY <1>1, <1>2, FS_Subset
<1>5. Cardinality(low) \in Nat /\ Cardinality(high) \in Nat
      BY <1>2, FS_CardinalityType
<1>6. Place(kept, i) = Cardinality(low) /\ Place(kept, j) = Cardinality(high)
      BY DEF Place, low, high
<1>. QED
      BY <1>3, <1>4, <1>5, <1>6

LEMMA PlaceWithin ==
  ASSUME NEW N \in Nat, NEW kept \in SUBSET (1 .. N), NEW i \in kept
  PROVE  Place(kept, i) \in 1 .. Cardinality(kept)
<1>1. i \in Nat /\ 0 \in Nat /\ 0 < i
      OBVIOUS
<1>2. Place(kept, 0) < Place(kept, i)
      BY <1>1, PlaceLess
<1>3. Place(kept, 0) \in 0 .. Cardinality(kept) /\ Place(kept, i) \in 0 .. Cardinality(kept)
      /\ Cardinality(kept) \in Nat
      BY <1>1, PlaceType
<1>. QED
      BY <1>2, <1>3

\* One position more, one place more at most, and none when it is not kept.
LEMMA PlaceNext ==
  ASSUME NEW N \in Nat, NEW kept \in SUBSET (1 .. N), NEW i \in Nat \ {0}
  PROVE  /\ Place(kept, i) <= Place(kept, i - 1) + 1
         /\ i \notin kept => Place(kept, i) = Place(kept, i - 1)
<1>. DEFINE low == {k \in kept : k <= i - 1}
            high == {k \in kept : k <= i}
<1>0. \A k \in kept : k \in Nat /\ 1 <= k
      OBVIOUS
<1>1. high \subseteq low \cup {i} /\ i \notin low /\ (i \notin kept => high = low)
  <2>1. \A k \in kept : (k <= i => k <= i - 1 \/ k = i) /\ (k <= i - 1 => k <= i /\ k # i)
      BY <1>0
  <2>. QED
      BY <2>1
<1>2. IsFiniteSet(low) /\ IsFiniteSet(high)
  <2>1. i \in Nat /\ i - 1 \in Nat
      OBVIOUS
  <2>. QED
      BY <2>1, PlaceType
<1>. HIDE DEF low, high
<1>3. Cardinality(low \cup {i}) = Cardinality(low) + 1 /\ IsFiniteSet(low \cup {i})
      BY <1>1, <1>2, FS_AddElement
<1>4. Cardinality(high) <= Cardinality(low \cup {i})
      BY <1>1, <1>3, FS_Subset
<1>5. Place(kept, i - 1) = Cardinality(low) /\ Place(kept, i) = Cardinality(high)
      BY DEF Place, low, high
<1>. QED
      BY <1>1, <1>3, <1>4, <1>5

LEMMA PlaceFound ==
  ASSUME NEW N \in Nat, NEW kept \in SUBSET (1 .. N), NEW n \in 1 .. Cardinality(kept)
  PROVE  \E i \in kept : Place(kept, i) = n
<1>. DEFINE Enough == {i \in 0 .. N : n <= Place(kept, i)}
<1>0. \A k \in kept : k \in Nat /\ 1 <= k /\ k <= N
      OBVIOUS
<1>1. Cardinality(kept) \in Nat /\ n \in Nat \ {0} /\ n <= Cardinality(kept)
  <2>1. Cardinality(kept) \in Nat
      BY PlaceType
  <2>. QED
      BY <2>1
<1>2. N \in Enough
  <2>1. {j \in kept : j <= N} = kept
      BY <1>0
  <2>2. Place(kept, N) = Cardinality(kept)
      BY <2>1 DEF Place
  <2>. QED
      BY <1>1, <2>2
<1>3. PICK i \in Enough : \A j \in Enough : i <= j
  <2>1. Enough \subseteq Nat /\ Enough # {}
      BY <1>2
  <2>. HIDE DEF Enough
  <2>. QED
      BY <2>1, LeastOf
<1>4. i # 0
  <2>0. \A j \in kept : ~(j <= 0)
      BY <1>0
  <2>1. {j \in kept : j <= 0} = {}
      BY <2>0
  <2>2. Place(kept, 0) = 0
      BY <2>1, FS_EmptySet DEF Place
  <2>. QED
      BY <1>1, <1>3, <2>2
<1>5. i - 1 \in 0 .. N /\ i - 1 \in Nat /\ i \in Nat \ {0}
      BY <1>3, <1>4
<1>6. ~(n <= Place(kept, i - 1))
  <2>1. i - 1 \notin Enough
      BY <1>3, <1>5
  <2>. QED
      BY <1>5, <2>1
<1>7. Place(kept, i) \in Nat /\ Place(kept, i - 1) \in Nat
  <2>1. Place(kept, i) \in 0 .. Cardinality(kept) /\ Place(kept, i - 1) \in 0 .. Cardinality(kept)
      BY <1>5, PlaceType
  <2>. QED
      BY <2>1
<1>8. /\ Place(kept, i) <= Place(kept, i - 1) + 1
      /\ i \notin kept => Place(kept, i) = Place(kept, i - 1)
      BY <1>5, PlaceNext
<1>9. n <= Place(kept, i)
      BY <1>3
<1>10. i \in kept /\ Place(kept, i) = n
      BY <1>1, <1>6, <1>7, <1>8, <1>9
<1>. QED
      BY <1>10

\* What was buffered and not replayed is sent in the order in which it was buffered.
LEMMA UnsentFacts ==
  ASSUME NEW S, NEW buffer \in Seq(S), NEW replayed
  PROVE  /\ Unsent(buffer, replayed) \in Seq(S)
         /\ ToSet(Unsent(buffer, replayed)) = ToSet(buffer) \ replayed
         /\ \A n \in 0 .. Len(Unsent(buffer, replayed)) :
              \E m \in 0 .. Len(buffer) :
                First(Unsent(buffer, replayed), n) = First(buffer, m) \ replayed
<1>. DEFINE kept == {i \in DOMAIN buffer : buffer[i] \notin replayed}
            At(n) == CHOOSE i \in kept : Place(kept, i) = n
            unsent == [n \in 1 .. Cardinality(kept) |-> buffer[At(n)]]
<1>1. DOMAIN buffer = 1 .. Len(buffer) /\ Len(buffer) \in Nat /\ kept \in SUBSET (1 .. Len(buffer))
      OBVIOUS
<1>2. Cardinality(kept) \in Nat
      BY <1>1, PlaceType
<1>4. ASSUME NEW i \in Nat, NEW j \in kept, i < j
      PROVE  Place(kept, i) < Place(kept, j)
      BY <1>1, <1>4, PlaceLess
<1>5. ASSUME NEW i \in kept
      PROVE  Place(kept, i) \in 1 .. Cardinality(kept)
      BY <1>1, PlaceWithin
<1>7. ASSUME NEW n \in 1 .. Cardinality(kept)
      PROVE  At(n) \in kept /\ Place(kept, At(n)) = n
  <2>1. \E i \in kept : Place(kept, i) = n
      BY <1>1, PlaceFound
  <2>. QED
      BY <2>1
<1>8. ASSUME NEW i \in kept
      PROVE  At(Place(kept, i)) = i
  <2>1. PICK h \in kept : h = At(Place(kept, i)) /\ Place(kept, h) = Place(kept, i)
      BY <1>5, <1>7
  <2>2. h \in Nat /\ i \in Nat /\ Place(kept, i) \in Nat
      BY <1>1, <1>5
  <2>3. ~(h < i) /\ ~(i < h)
      BY <1>4, <2>1, <2>2
  <2>. QED
      BY <2>1, <2>2, <2>3
<1>. HIDE DEF At
<1>9. unsent = Unsent(buffer, replayed)
      BY DEF Unsent, At, Place
<1>10. unsent \in Seq(S) /\ Len(unsent) = Cardinality(kept) /\ DOMAIN unsent = 1 .. Cardinality(kept)
  <2>1. \A n \in 1 .. Cardinality(kept) : buffer[At(n)] \in S
      BY <1>1, <1>7
  <2>. HIDE DEF kept
  <2>. QED
      BY <1>2, <2>1
<1>11. \A n \in 1 .. Cardinality(kept) : First(unsent, n) = First(buffer, At(n)) \ replayed
  <2>. SUFFICES ASSUME NEW n \in 1 .. Cardinality(kept)
                PROVE  First(unsent, n) = First(buffer, At(n)) \ replayed
      OBVIOUS
  <2>1. At(n) \in kept /\ Place(kept, At(n)) = n /\ At(n) \in Nat
      BY <1>1, <1>7
  <2>2. ASSUME NEW k \in 1 .. n
        PROVE  unsent[k] \in First(buffer, At(n)) \ replayed
    <3>1. k \in 1 .. Cardinality(kept)
        BY <1>2
    <3>2. At(k) \in kept /\ Place(kept, At(k)) = k /\ At(k) \in Nat
        BY <1>1, <1>7, <3>1
    <3>3. At(k) <= At(n)
      <4>1. At(n) < At(k) => n < k
          BY <1>4, <2>1, <3>2
      <4>. QED
          BY <2>1, <3>2, <4>1
    <3>4. unsent[k] = buffer[At(k)]
        BY <3>1
    <3>5. At(k) \in 1 .. At(n) /\ buffer[At(k)] \notin replayed
        BY <1>1, <2>1, <3>2, <3>3
    <3>. QED
        BY <3>4, <3>5 DEF First
  <2>3. ASSUME NEW i \in 1 .. At(n), buffer[i] \notin replayed
        PROVE  buffer[i] \in First(unsent, n)
    <3>1. i \in kept /\ i \in Nat
        BY <1>1, <2>1, <2>3
    <3>2. Place(kept, i) \in 1 .. Cardinality(kept) /\ At(Place(kept, i)) = i
        BY <1>5, <1>8, <3>1
    <3>3. Place(kept, i) <= n
      <4>1. i < At(n) => Place(kept, i) < Place(kept, At(n))
          BY <1>4, <2>1, <3>1
      <4>2. i < At(n) \/ i = At(n)
          BY <2>1
      <4>. QED
          BY <1>2, <2>1, <3>2, <4>1, <4>2
    <3>4. unsent[Place(kept, i)] = buffer[i] /\ Place(kept, i) \in 1 .. n
        BY <1>2, <3>2, <3>3
    <3>. QED
        BY <3>4 DEF First
  <2>4. First(unsent, n) \subseteq First(buffer, At(n)) \ replayed
    <3>. HIDE DEF unsent
    <3>. QED
        BY <2>2 DEF First
  <2>5. First(buffer, At(n)) \ replayed \subseteq First(unsent, n)
    <3>. HIDE DEF unsent
    <3>. QED
        BY <2>3 DEF First
  <2>. QED
      BY <2>4, <2>5
<1>12. \A n \in 0 .. Len(unsent) : \E m \in 0 .. Len(buffer) : First(unsent, n) = First(buffer, m) \ replayed
  <2>. SUFFICES ASSUME NEW n \in 0 .. Len(unsent)
                PROVE  \E m \in 0 .. Len(buffer) : First(unsent, n) = First(buffer, m) \ replayed
      OBVIOUS
  <2>1. CASE n = 0
    <3>1. First(unsent, 0) = {} /\ First(buffer, 0) = {} /\ 0 \in 0 .. Len(buffer)
        BY <1>1 DEF First
    <3>. QED
        BY <2>1, <3>1
  <2>2. CASE n # 0
    <3>1. n \in 1 .. Cardinality(kept)
        BY <1>2, <1>10, <2>2
    <3>2. At(n) \in 0 .. Len(buffer)
        BY <1>1, <1>7, <3>1
    <3>. QED
        BY <1>11, <3>1, <3>2
  <2>. QED
      BY <2>1, <2>2
<1>13. ToSet(unsent) = ToSet(buffer) \ replayed
  <2>1. ASSUME NEW n \in 1 .. Cardinality(kept)
        PROVE  unsent[n] \in ToSet(buffer) \ replayed
      BY <1>1, <1>7, <2>1 DEF ToSet
  <2>2. ASSUME NEW i \in 1 .. Len(buffer), buffer[i] \notin replayed
        PROVE  buffer[i] \in ToSet(unsent)
    <3>1. i \in kept
        BY <1>1, <2>2
    <3>2. Place(kept, i) \in 1 .. Cardinality(kept) /\ unsent[Place(kept, i)] = buffer[i]
        BY <1>5, <1>8, <3>1
    <3>. QED
        BY <3>2 DEF ToSet
  <2>3. ToSet(unsent) \subseteq ToSet(buffer) \ replayed
    <3>1. DOMAIN unsent = 1 .. Cardinality(kept)
        OBVIOUS
    <3>. HIDE DEF unsent
    <3>. QED
        BY <2>1, <3>1 DEF ToSet
  <2>4. ToSet(buffer) \ replayed \subseteq ToSet(unsent)
    <3>. HIDE DEF unsent
    <3>. QED
        BY <1>1, <2>2 DEF ToSet
  <2>. QED
      BY <2>3, <2>4
<1>. HIDE DEF unsent
<1>. QED
      BY <1>9, <1>10, <1>12, <1>13

-----------------------------------------------------------------------------
(* What the invariant says of the variables *)

\* The parts of the connection.
LEMMA StreamParts ==
  ASSUME TypeOK
  PROVE  /\ stream \in Stream
         /\ stream.pc \in {"off", "list", "replay", "live"}
         /\ stream.from \in Events \cup {0} /\ stream.todo \in SUBSET Sessions
         /\ stream.buffer \in Seq(Events) /\ stream.replayed \in SUBSET Events
         /\ wire \in Seq(Events)
BY DEF TypeOK, Stream

\* Sets without a gap stay so together.
LEMMA ClosedUnion ==
  ASSUME NEW A, NEW B, Closed(A), Closed(B)
  PROVE  Closed(A \cup B)
BY DEF Closed

\* A step that leaves the connection and the client alone keeps what the client
\* has without a gap.
LEMMA GaplessStays ==
  ASSUME TypeOK, Gapless, UNCHANGED <<got, wire, filter>>, overtaken \subseteq overtaken',
         \A s \in Sessions : unlisted[s] \subseteq unlisted'[s],
         \A s \in Sessions : \A e, f \in ToSet(log'[s]) :
           e < f /\ f \in got \cup ToSet(wire) => e \in ToSet(log[s]) /\ f \in ToSet(log[s])
  PROVE  Gapless'
<1>. SUFFICES ASSUME NEW n \in 0 .. Len(wire) PROVE Closed(got \cup First(wire, n))'
      BY DEF Gapless
<1>. DEFINE has == got \cup First(wire, n)
<1>1. Closed(has)
      BY DEF Gapless
<1>2. has \subseteq got \cup ToSet(wire)
      BY FirstAll DEF TypeOK
<1>. HIDE DEF has
<1>3. \A s \in Sessions : \A e, f \in ToSet(log'[s]) :
        e < f /\ f \in has => e \in ToSet(log[s]) /\ f \in ToSet(log[s])
      BY <1>2
<1>4. Closed(has)'
  <2>1. \A s \in Sessions : \A e, f \in ToSet(log'[s]) :
          e < f /\ f \in has => e \in has \/ Excused(s, e)
      BY <1>1, <1>3 DEF Closed
  <2>2. \A s \in Sessions : \A e : Excused(s, e) => Excused(s, e)'
      BY DEF Excused
  <2>3. has' = has
      BY DEF has, First
  <2>. QED
      BY <2>1, <2>2, <2>3 DEF Closed
<1>. QED
      BY <1>4 DEF has

-----------------------------------------------------------------------------
(* The agent *)

\* A line is written: it is the last event, and everything that is not fanned out
\* is overtaken.
LEMMA WriteStep ==
  ASSUME MaxEvents \in Nat, StreamInv, NEW a \in Appenders, NEW s \in Sessions, WriteLine(a, s)
  PROVE  StreamInv'
<1>. USE DEF StreamInv
<1>. DEFINE new == count + 1
<1>1. /\ append[a] = Idle /\ count \in 0 .. MaxEvents /\ count < MaxEvents
      /\ count' = new /\ new \in Events /\ count \in Nat /\ new \in Nat
      BY DEF WriteLine, TypeOK, Events
<1>2. /\ log' = [log EXCEPT ![s] = Append(@, new)]
      /\ unlisted' = [unlisted EXCEPT ![s] = IF s \in saved THEN @ ELSE @ \cup {new}]
      /\ append' = [append EXCEPT ![a] = [pc |-> "fanOut", session |-> s, event |-> new]]
      /\ overtaken' = overtaken \cup Pending
      /\ UNCHANGED <<saved, stream, wire, got, last, filter, drops>>
      BY DEF WriteLine, Pending, clientVars
<1>. HIDE DEF new
<1>3. /\ log \in [Sessions -> Seq(Events)] /\ unlisted \in [Sessions -> SUBSET Events]
      /\ append \in [Appenders -> [pc : {"fanOut"}, session : Sessions, event : Events]
                                   \cup {Idle}]
      BY DEF TypeOK
<1>4. /\ \A t \in Sessions : t # s => log'[t] = log[t] /\ unlisted'[t] = unlisted[t]
      /\ log'[s] = Append(log[s], new)
      /\ unlisted[s] \subseteq unlisted'[s] /\ (s \notin saved => new \in unlisted'[s])
      /\ log[s] \in Seq(Events)
      BY <1>2, <1>3
<1>5. ToSet(log'[s]) = ToSet(log[s]) \cup {new}
      BY <1>1, <1>4, ToSetAppend
<1>6. /\ \A b \in Appenders : b # a => append'[b] = append[b]
      /\ append'[a] = [pc |-> "fanOut", session |-> s, event |-> new]
      /\ append'[a].event = new /\ append'[a].session = s /\ append'[a] # Idle
      BY <1>2, <1>3 DEF Idle
<1>7. new \notin 1 .. count /\ \A t \in Sessions : new \notin ToSet(log[t])
      BY <1>1 DEF LogsGrow, new
<1>8. \A b \in Appenders : append[b] # Idle => append[b].event \in Events
      BY <1>3
<1>9. Pending \subseteq Pending' /\ new \in Pending' /\ Pending \subseteq Events
  <2>1. \A b \in Appenders : append[b] # Idle => append'[b] = append[b]
      BY <1>1, <1>6
  <2>. QED
      BY <1>6, <1>8, <2>1 DEF Pending
<1>10. TypeOK'
  <2>1. log' \in [Sessions -> Seq(Events)] /\ unlisted' \in [Sessions -> SUBSET Events]
    <3>1. Append(log[s], new) \in Seq(Events)
        BY <1>1, <1>4
    <3>2. (IF s \in saved THEN unlisted[s] ELSE unlisted[s] \cup {new}) \in SUBSET Events
        BY <1>1, <1>3
    <3>. QED
        BY <1>2, <1>3, <3>1, <3>2
  <2>2. append' \in [Appenders -> [pc : {"fanOut"}, session : Sessions, event : Events]
                                   \cup {Idle}]
    <3>1. [pc |-> "fanOut", session |-> s, event |-> new]
            \in [pc : {"fanOut"}, session : Sessions, event : Events]
        BY <1>1
    <3>. QED
        BY <1>2, <1>3, <3>1
  <2>3. count' \in 0 .. MaxEvents
      BY <1>1 DEF Events
  <2>4. overtaken' \subseteq Events
      BY <1>2, <1>9 DEF TypeOK
  <2>. QED
      BY <1>2, <2>1, <2>2, <2>3, <2>4 DEF TypeOK
<1>11. LogsGrow'
  <2>1. ASSUME NEW t \in Sessions, NEW i \in DOMAIN log'[t], NEW j \in DOMAIN log'[t], i < j
        PROVE  log'[t][i] < log'[t][j]
    <3>1. CASE t # s
        BY <1>4, <2>1, <3>1 DEF LogsGrow
    <3>2. CASE t = s
      <4>1. /\ DOMAIN log'[s] = 1 .. Len(log[s]) + 1 /\ Len(log[s]) \in Nat
            /\ DOMAIN log[s] = 1 .. Len(log[s])
            /\ log'[s][Len(log[s]) + 1] = new
            /\ \A k \in 1 .. Len(log[s]) : log'[s][k] = log[s][k]
          BY <1>1, <1>4, AppendProperties
      <4>2. i \in 1 .. Len(log[s])
          BY <2>1, <3>2, <4>1
      <4>3. log[s][i] \in 1 .. count
          BY <4>1, <4>2 DEF LogsGrow, ToSet
      <4>4. CASE j = Len(log[s]) + 1
          BY <1>1, <3>2, <4>1, <4>2, <4>3, <4>4 DEF new
      <4>5. CASE j # Len(log[s]) + 1
        <5>1. j \in 1 .. Len(log[s])
            BY <3>2, <4>1, <4>5
        <5>. QED
            BY <2>1, <3>2, <4>1, <4>2, <5>1 DEF LogsGrow
      <4>. QED
          BY <4>4, <4>5
    <3>. QED
        BY <3>1, <3>2
  <2>2. ASSUME NEW t \in Sessions
        PROVE  ToSet(log'[t]) \subseteq 1 .. count'
    <3>1. 1 .. count \subseteq 1 .. count' /\ new \in 1 .. count'
        BY <1>1 DEF new
    <3>. QED
        BY <1>4, <1>5, <3>1 DEF LogsGrow
  <2>3. ASSUME NEW t \in Sessions, NEW u \in Sessions, t # u
        PROVE  ToSet(log'[t]) \cap ToSet(log'[u]) = {}
    <3>1. ToSet(log[t]) \cap ToSet(log[u]) = {} /\ new \notin ToSet(log[t]) /\ new \notin ToSet(log[u])
        BY <1>7, <2>3 DEF LogsGrow
    <3>2. ToSet(log'[t]) \subseteq ToSet(log[t]) \cup {new} /\ (t # s => ToSet(log'[t]) = ToSet(log[t]))
        BY <1>4, <1>5
    <3>3. ToSet(log'[u]) \subseteq ToSet(log[u]) \cup {new} /\ (u # s => ToSet(log'[u]) = ToSet(log[u]))
        BY <1>4, <1>5
    <3>. QED
        BY <2>3, <3>1, <3>2, <3>3
  <2>4. ASSUME NEW t \in Sessions \ saved'
        PROVE  ToSet(log'[t]) \subseteq unlisted'[t]
      BY <1>2, <1>4, <1>5, <2>4 DEF LogsGrow
  <2>. QED
      BY <2>1, <2>2, <2>3, <2>4 DEF LogsGrow
<1>12. PendingAreLate'
  <2>. SUFFICES ASSUME NEW b \in Appenders, append'[b] # Idle
                PROVE  /\ append'[b].event \in 1 .. count'
                       /\ append'[b].event = count' \/ append'[b].event \in overtaken'
                       /\ \A t \in Sessions : append'[b].event \in ToSet(log'[t]) =>
                                              t = append'[b].session
      BY DEF PendingAreLate
  <2>1. CASE b = a
    <3>1. new \in 1 .. count'
        BY <1>1 DEF new
    <3>. QED
        BY <1>1, <1>4, <1>6, <1>7, <2>1, <3>1
  <2>2. CASE b # a
    <3>1. append'[b] = append[b] /\ append[b] # Idle
        BY <1>6, <2>2
    <3>2. append[b].event \in Pending /\ append[b].event \in 1 .. count
        BY <3>1 DEF Pending, PendingAreLate
    <3>3. append[b].event \in 1 .. count' /\ append[b].event # new
        BY <1>1, <1>7, <3>2 DEF new
    <3>4. \A t \in Sessions : append[b].event \in ToSet(log[t]) => t = append[b].session
        BY <3>1 DEF PendingAreLate
    <3>. QED
        BY <1>2, <1>4, <1>5, <3>1, <3>2, <3>3, <3>4
  <2>. QED
      BY <2>1, <2>2
<1>13. Connected'
  <2>1. 1 .. count \subseteq 1 .. count'
      BY <1>1 DEF new
  <2>2. ASSUME NEW t \in Sessions, ~Listens(t)
        PROVE  ToSet(log'[t]) \cap (got \cup ToSet(wire) \cup ToSet(stream.buffer)) = {}
    <3>1. new \notin got \cup ToSet(wire) \cup ToSet(stream.buffer)
        BY <1>7 DEF Connected
    <3>2. ToSet(log'[t]) \subseteq ToSet(log[t]) \cup {new}
        BY <1>4, <1>5
    <3>3. ToSet(log[t]) \cap (got \cup ToSet(wire) \cup ToSet(stream.buffer)) = {}
        BY <2>2 DEF Connected
    <3>. QED
        BY <3>1, <3>2, <3>3
  <2>3. \A t : Listens(t)' = Listens(t)
      BY <1>2 DEF Listens
  <2>. QED
      BY <1>2, <2>1, <2>2, <2>3 DEF Connected
<1>14. Gapless'
  <2>1. ASSUME NEW t \in Sessions, NEW e \in ToSet(log'[t]), NEW f \in ToSet(log'[t]),
               e < f, f \in got \cup ToSet(wire)
        PROVE  e \in ToSet(log[t]) /\ f \in ToSet(log[t])
    <3>1. f \in 1 .. count
        BY <2>1 DEF Connected
    <3>2. f # new /\ ToSet(log'[t]) \subseteq ToSet(log[t]) \cup {new} /\ ToSet(log[t]) \subseteq 1 .. count
        BY <1>4, <1>5, <1>7, <3>1 DEF LogsGrow
    <3>3. e # new
        BY <1>1, <2>1, <3>1 DEF new
    <3>. QED
        BY <3>2, <3>3
  <2>. QED
      BY <1>2, <1>4, <2>1, GaplessStays
<1>15. Accounted'
  <2>1. \A t, e : Excused(t, e) /\ t \in Sessions => Excused(t, e)'
      BY <1>2, <1>4 DEF Excused
  <2>2. \A t : Listens(t)' = Listens(t)
      BY <1>2 DEF Listens
  <2>3. \A t \in Sessions : ToSet(log'[t]) \subseteq ToSet(log[t]) \cup {new}
      BY <1>4, <1>5
  <2>. QED
      BY <1>2, <1>9, <2>1, <2>2, <2>3 DEF Accounted
<1>16. BufferedInOrder'
      BY <1>2 DEF BufferedInOrder
<1>. QED
      BY <1>10, <1>11, <1>12, <1>13, <1>14, <1>15, <1>16

\* An event is fanned out: it is buffered, or written behind all those that are
\* before it and not overtaken, or nobody asked for it.
LEMMA FanOutStep ==
  ASSUME StreamInv, NEW a \in Appenders, FanOut(a)
  PROVE  StreamInv'
<1>. USE DEF StreamInv
<1>. DEFINE e == append[a].event
            listens == filter \in {Everything, append[a].session}
<1>1. append[a].pc = "fanOut" /\ append[a] # Idle
      BY DEF FanOut, Idle
<1>2. /\ append' = [append EXCEPT ![a] = Idle]
      /\ stream' = IF listens /\ stream.pc \in {"list", "replay"}
                   THEN [stream EXCEPT !.buffer = Append(@, e)] ELSE stream
      /\ wire' = IF listens /\ stream.pc = "live" THEN Append(wire, e) ELSE wire
      /\ UNCHANGED <<log, unlisted, saved, count, overtaken, got, last, filter, drops>>
      BY DEF FanOut, clientVars
<1>3. append \in [Appenders -> [pc : {"fanOut"}, session : Sessions, event : Events]
                               \cup {Idle}]
      BY DEF TypeOK
<1>4. e \in Events /\ append[a].session \in Sessions
      BY <1>1, <1>3
<1>5. /\ e \in 1 .. count /\ (e = count \/ e \in overtaken)
      /\ \A s \in Sessions : e \in ToSet(log[s]) => s = append[a].session
      BY <1>1 DEF PendingAreLate
<1>6. \A s \in Sessions : e \in ToSet(log[s]) => (Listens(s) <=> listens)
      BY <1>5 DEF Listens
<1>. HIDE DEF e, listens
<1>7. /\ Pending \subseteq Pending' \cup {e} /\ e \in Pending
      /\ \A b \in Appenders : append'[b] # Idle => append'[b] = append[b]
  <2>1. /\ \A b \in Appenders : b # a => append'[b] = append[b]
        /\ append'[a] = Idle
      BY <1>2, <1>3
  <2>. QED
      BY <1>1, <2>1 DEF Pending, e
<1>8. /\ stream \in Stream
      /\ stream.pc \in {"off", "list", "replay", "live"}
      /\ stream.buffer \in Seq(Events)
      /\ wire \in Seq(Events)
      BY StreamParts
<1>9. LogsGrow' /\ \A s, x : Excused(s, x)' = Excused(s, x)
      BY <1>2 DEF LogsGrow, Excused
<1>10. PendingAreLate'
      BY <1>2, <1>7 DEF PendingAreLate
<1>11. append' \in [Appenders -> [pc : {"fanOut"}, session : Sessions, event : Events]
                                 \cup {Idle}]
      BY <1>2, <1>3
<1>12. \A s : Listens(s)' = Listens(s)
      BY <1>2 DEF Listens
<1>13. \A s \in Sessions, x \in Pending : x \in ToSet(log[s]) /\ x < e => Excused(s, x)
  <2>. SUFFICES ASSUME NEW s \in Sessions, NEW b \in Appenders, append[b] # Idle,
                       append[b].event < e
                PROVE  Excused(s, append[b].event)
      BY DEF Pending
  <2>1. append[b].event \in 1 .. count /\ (append[b].event = count \/ append[b].event \in overtaken)
      BY DEF PendingAreLate
  <2>2. count \in Nat
      BY DEF TypeOK
  <2>3. append[b].event # count
      BY <1>5, <2>1, <2>2
  <2>. QED
      BY <2>1, <2>3 DEF Excused
<1>14. CASE listens /\ stream.pc \in {"list", "replay"}
  <2>1. stream' = [stream EXCEPT !.buffer = Append(@, e)] /\ wire' = wire
      BY <1>2, <1>14
  <2>. DEFINE buffer == Append(stream.buffer, e)
  <2>2. /\ buffer \in Seq(Events) /\ ToSet(buffer) = ToSet(stream.buffer) \cup {e}
        /\ Len(stream.buffer) \in Nat /\ DOMAIN buffer = 1 .. Len(stream.buffer) + 1
        /\ DOMAIN stream.buffer = 1 .. Len(stream.buffer)
        /\ buffer[Len(stream.buffer) + 1] = e
        /\ \A i \in 1 .. Len(stream.buffer) : buffer[i] = stream.buffer[i]
      BY <1>4, <1>8, AppendProperties, ToSetAppend
  <2>. HIDE DEF buffer
  <2>3. /\ stream' = [stream EXCEPT !.buffer = buffer]
        /\ stream'.buffer = buffer /\ stream'.pc = stream.pc /\ stream'.todo = stream.todo
        /\ stream'.from = stream.from /\ stream'.replayed = stream.replayed
        /\ stream' \in Stream
    <3>1. stream' = [stream EXCEPT !.buffer = buffer]
        BY <2>1 DEF buffer
    <3>. QED
        BY <1>8, <2>2, <3>1 DEF Stream
  <2>4. TypeOK'
      BY <1>2, <1>11, <2>1, <2>3 DEF TypeOK
  <2>5. Connected'
    <3>1. ASSUME NEW s \in Sessions, ~Listens(s)
          PROVE  ToSet(log[s]) \cap (got \cup ToSet(wire) \cup ToSet(buffer)) = {}
      <4>1. e \notin ToSet(log[s])
          BY <1>6, <1>14, <3>1
      <4>2. ToSet(log[s]) \cap (got \cup ToSet(wire) \cup ToSet(stream.buffer)) = {}
          BY <3>1 DEF Connected
      <4>. QED
          BY <2>2, <4>1, <4>2
    <3>2. got \cup ToSet(wire) \cup ToSet(buffer) \subseteq 1 .. count
        BY <1>5, <2>2 DEF Connected
    <3>3. ~(stream.pc \in {"off", "live"})
        BY <1>14
    <3>. QED
        BY <1>2, <1>12, <2>1, <2>3, <3>1, <3>2, <3>3 DEF Connected
  <2>6. Gapless'
      BY <1>2, <2>1, GaplessStays
  <2>7. Accounted'
      BY <1>2, <1>7, <1>9, <1>12, <2>1, <2>2, <2>3 DEF Accounted
  <2>8. BufferedInOrder'
    <3>. SUFFICES ASSUME NEW i \in DOMAIN buffer, NEW j \in DOMAIN buffer,
                         i < j, buffer[j] < buffer[i]
                  PROVE  buffer[j] \in overtaken
        BY <1>2, <2>3 DEF BufferedInOrder
    <3>1. i \in 1 .. Len(stream.buffer)
        BY <2>2
    <3>2. CASE j \in 1 .. Len(stream.buffer)
        BY <2>2, <3>1, <3>2 DEF BufferedInOrder
    <3>3. CASE j = Len(stream.buffer) + 1
      <4>1. buffer[i] \in 1 .. count
          BY <2>2, <3>1 DEF Connected, ToSet
      <4>2. e # count
          BY <1>5, <2>2, <3>3, <4>1 DEF TypeOK
      <4>. QED
          BY <1>5, <2>2, <3>3, <4>2
    <3>. QED
        BY <2>2, <3>2, <3>3
  <2>. QED
      BY <1>9, <1>10, <2>4, <2>5, <2>6, <2>7, <2>8
<1>15. CASE listens /\ stream.pc = "live"
  <2>1. stream' = stream /\ wire' = Append(wire, e)
      BY <1>2, <1>15
  <2>2. /\ wire' \in Seq(Events) /\ Len(wire') = Len(wire) + 1 /\ Len(wire) \in Nat
        /\ ToSet(wire') = ToSet(wire) \cup {e}
        /\ \A n \in 0 .. Len(wire) : First(wire', n) = First(wire, n)
        /\ First(wire', Len(wire) + 1) = ToSet(wire) \cup {e}
      BY <1>4, <1>8, <2>1, AppendProperties, ToSetAppend
  <2>3. TypeOK'
      BY <1>2, <1>11, <2>1, <2>2 DEF TypeOK
  <2>4. stream.buffer = <<>> /\ stream.todo = {} /\ stream.pc = "live"
      BY <1>15 DEF Connected
  <2>5. Connected'
    <3>1. ASSUME NEW s \in Sessions, ~Listens(s)
          PROVE  ToSet(log[s]) \cap (got \cup ToSet(wire') \cup ToSet(stream.buffer)) = {}
      <4>1. e \notin ToSet(log[s])
          BY <1>6, <1>15, <3>1
      <4>2. ToSet(log[s]) \cap (got \cup ToSet(wire) \cup ToSet(stream.buffer)) = {}
          BY <3>1 DEF Connected
      <4>. QED
          BY <2>2, <4>1, <4>2
    <3>2. got \cup ToSet(wire') \cup ToSet(stream.buffer) \subseteq 1 .. count
        BY <1>5, <2>2 DEF Connected
    <3>3. stream.replayed \subseteq ToSet(wire')
        BY <2>2 DEF Connected
    <3>. QED
        BY <1>2, <1>12, <1>15, <2>1, <3>1, <3>2, <3>3 DEF Connected
  <2>6. Gapless'
    <3>1. ToSet(stream.buffer) = {}
        BY <2>4 DEF ToSet
    <3>2. Closed(got \cup ToSet(wire) \cup {e})
      <4>1. Closed(got \cup ToSet(wire))
          BY <1>8, FirstAll DEF Gapless
      <4>2. ASSUME NEW s \in Sessions, NEW x \in ToSet(log[s]), e \in ToSet(log[s]), x < e
            PROVE  x \in got \cup ToSet(wire) \/ Excused(s, x)
        <5>1. Listens(s)
            BY <1>6, <1>15, <4>2
        <5>2. x \in got \cup ToSet(wire) \cup Pending \/ Excused(s, x)
            BY <2>4, <3>1, <5>1 DEF Accounted
        <5>. QED
            BY <1>13, <4>2, <5>2
      <4>. QED
          BY <4>1, <4>2 DEF Closed
    <3>3. ASSUME NEW n \in 0 .. Len(wire')
          PROVE  Closed(got \cup First(wire', n))
      <4>1. CASE n \in 0 .. Len(wire)
          BY <2>2, <4>1 DEF Gapless
      <4>2. CASE n = Len(wire) + 1
        <5>1. got \cup First(wire', n) = got \cup ToSet(wire) \cup {e}
            BY <2>2, <4>2
        <5>. QED
            BY <3>2, <5>1
      <4>. QED
          BY <2>2, <4>1, <4>2
    <3>4. \A has : Closed(has)' <=> Closed(has)
        BY <1>2, <1>9 DEF Closed
    <3>. QED
        BY <1>2, <3>3, <3>4 DEF Gapless, First
  <2>7. Accounted'
      BY <1>2, <1>7, <1>9, <1>12, <2>1, <2>2 DEF Accounted
  <2>8. BufferedInOrder'
      BY <1>2, <2>1 DEF BufferedInOrder
  <2>. QED
      BY <1>9, <1>10, <2>3, <2>5, <2>6, <2>7, <2>8
<1>16. CASE ~listens \/ stream.pc = "off"
  <2>1. stream' = stream /\ wire' = wire
      BY <1>2, <1>16
  <2>2. TypeOK'
      BY <1>2, <1>11, <2>1 DEF TypeOK
  <2>3. Connected'
      BY <1>2, <1>12, <2>1 DEF Connected
  <2>4. Gapless'
      BY <1>2, <2>1, GaplessStays
  <2>5. Accounted'
    <3>1. stream.pc # "off" => \A s \in Sessions : e \in ToSet(log[s]) => ~Listens(s)
        BY <1>6, <1>16
    <3>. QED
        BY <1>2, <1>7, <1>9, <1>12, <2>1, <3>1 DEF Accounted
  <2>6. BufferedInOrder'
      BY <1>2, <2>1 DEF BufferedInOrder
  <2>. QED
      BY <1>9, <1>10, <2>2, <2>3, <2>4, <2>5, <2>6
<1>. QED
      BY <1>8, <1>14, <1>15, <1>16

\* A session is saved or cleared: its log is the same, or empty.
LEMMA SaveStep ==
  ASSUME StreamInv, NEW s \in Sessions, Save(s) \/ Clear(s)
  PROVE  StreamInv'
<1>. USE DEF StreamInv
<1>1. /\ saved' = saved \cup {s}
      /\ UNCHANGED <<unlisted, count, append, overtaken, stream, wire, got, last, filter, drops>>
      BY DEF Save, Clear, clientVars
<1>2. log' = log \/ log' = [log EXCEPT ![s] = <<>>]
      BY DEF Save, Clear
<1>3. \A t \in Sessions : log'[t] = log[t] \/ log'[t] = <<>>
      BY <1>2 DEF TypeOK
<1>4. \A t \in Sessions : ToSet(log'[t]) \subseteq ToSet(log[t])
      BY <1>3 DEF ToSet
<1>5. TypeOK'
  <2>1. <<>> \in Seq(Events) /\ log \in [Sessions -> Seq(Events)]
      BY EmptySeq DEF TypeOK
  <2>2. log' \in [Sessions -> Seq(Events)]
      BY <1>2, <2>1
  <2>3. saved' \subseteq Sessions
      BY <1>1 DEF TypeOK
  <2>. QED
      BY <1>1, <2>2, <2>3 DEF TypeOK
<1>6. LogsGrow'
  <2>1. \A t \in Sessions : \A i, j \in DOMAIN log'[t] : i < j => log'[t][i] < log'[t][j]
      BY <1>3 DEF LogsGrow
  <2>2. \A t \in Sessions \ saved' : t \in Sessions \ saved
      BY <1>1
  <2>. QED
      BY <1>1, <1>4, <2>1, <2>2 DEF LogsGrow
<1>7. PendingAreLate'
      BY <1>1, <1>4 DEF PendingAreLate
<1>8. \A t : Listens(t)' = Listens(t)
      BY <1>1 DEF Listens
<1>9. Connected'
      BY <1>1, <1>4, <1>8 DEF Connected
<1>10. Gapless'
      BY <1>1, <1>4, GaplessStays
<1>11. Accounted'
  <2>1. Pending' = Pending /\ \A t, e : Excused(t, e)' = Excused(t, e)
      BY <1>1 DEF Pending, Excused
  <2>. QED
      BY <1>1, <1>4, <1>8, <2>1 DEF Accounted
<1>12. BufferedInOrder'
      BY <1>1 DEF BufferedInOrder
<1>. QED
      BY <1>5, <1>6, <1>7, <1>9, <1>10, <1>11, <1>12

-----------------------------------------------------------------------------
(* The daemon *)

\* A connection begins: nothing is buffered, and everything the client asked for
\* is left to replay.
LEMMA ConnectStep ==
  ASSUME StreamInv, Connect
  PROVE  StreamInv'
<1>. USE DEF StreamInv
<1>1. /\ UNCHANGED <<log, unlisted, saved, count, append, overtaken, wire, got, last, filter, drops>>
      /\ stream' = [Off EXCEPT !.from = last,
                               !.pc = IF filter = Everything THEN "list" ELSE "replay",
                               !.todo = IF filter = Everything THEN {} ELSE {filter}]
      BY DEF Connect, logVars, clientVars
<1>2. /\ stream'.from = last /\ stream'.buffer = <<>> /\ stream'.replayed = {}
      /\ filter = Everything => stream'.pc = "list" /\ stream'.todo = {}
      /\ filter # Everything => stream'.pc = "replay" /\ stream'.todo = {filter}
      BY <1>1 DEF Off
<1>3. /\ filter \in Sessions \cup {Everything} /\ last \in Events \cup {0} /\ <<>> \in Seq(Events)
      BY EmptySeq DEF TypeOK
<1>4. stream' \in Stream
  <2>1. (IF filter = Everything THEN {} ELSE {filter}) \in SUBSET Sessions
      BY <1>3
  <2>2. (IF filter = Everything THEN "list" ELSE "replay") \in {"off", "list", "replay", "live"}
      OBVIOUS
  <2>. QED
      BY <1>1, <1>3, <2>1, <2>2 DEF Off, Stream
<1>5. TypeOK'
      BY <1>1, <1>4 DEF TypeOK
<1>6. LogsGrow' /\ PendingAreLate'
      BY <1>1 DEF LogsGrow, PendingAreLate
<1>7. \A s : Listens(s)' = Listens(s)
      BY <1>1 DEF Listens
<1>8. Connected'
  <2>1. ToSet(stream'.buffer) = {}
      BY <1>2 DEF ToSet
  <2>2. \A s \in stream'.todo : Listens(s)
      BY <1>2 DEF Listens
  <2>3. stream'.pc \in {"list", "replay"} /\ (stream'.pc = "list" => filter = Everything)
      BY <1>2
  <2>. QED
      BY <1>1, <1>2, <1>7, <2>1, <2>2, <2>3 DEF Connected
<1>9. Gapless'
      BY <1>1, GaplessStays
<1>10. Accounted'
  <2>1. \A s \in Sessions : Listens(s) => stream'.pc = "list" \/ s \in stream'.todo
      BY <1>2 DEF Listens
  <2>. QED
      BY <1>1, <1>7, <2>1 DEF Accounted
<1>11. BufferedInOrder'
      BY <1>2 DEF BufferedInOrder
<1>. QED
      BY <1>5, <1>6, <1>8, <1>9, <1>10, <1>11

\* Events are sent that have no gap behind what the client received, and, when
\* nothing is left to replay, those that were buffered.
LEMMA SendStep ==
  ASSUME StreamInv, stream.pc \in {"list", "replay"},
         NEW events \in Seq(Events), NEW todo \in SUBSET Sessions, Send(events, todo),
         UNCHANGED <<log, unlisted, saved, count, append, overtaken, got, last, filter, drops>>,
         ToSet(events) \subseteq 1 .. count,
         \A s \in todo : Listens(s),
         \A s \in Sessions : ~Listens(s) => ToSet(log[s]) \cap ToSet(events) = {},
         \A n \in 0 .. Len(events) : Closed(got \cup First(events, n)),
         \A s \in Sessions \ todo : \A e \in ToSet(log[s]) : Listens(s) =>
           \/ e \in got \cup ToSet(wire) \cup ToSet(events) \cup ToSet(stream.buffer) \cup Pending
           \/ Excused(s, e)
  PROVE  StreamInv'
<1>. USE DEF StreamInv
<1>. DEFINE sent == wire \o events
            replayed == stream.replayed \cup ToSet(events)
<1>1. /\ stream \in Stream /\ stream.buffer \in Seq(Events) /\ wire \in Seq(Events)
      /\ stream.replayed \in SUBSET Events /\ stream.from \in Events \cup {0}
      BY StreamParts
<1>2. sent \in Seq(Events) /\ ToSet(sent) = ToSet(wire) \cup ToSet(events)
      BY <1>1, ToSetConcat
<1>3. replayed \subseteq ToSet(sent) /\ replayed \in SUBSET Events
  <2>1. ToSet(events) \subseteq Events
      BY FirstAll
  <2>. QED
      BY <1>1, <1>2, <2>1 DEF Connected
<1>4. Closed(got \cup ToSet(wire)) /\ Closed(got \cup ToSet(sent))
  <2>1. First(wire, Len(wire)) = ToSet(wire) /\ Len(wire) \in Nat
        /\ First(events, Len(events)) = ToSet(events) /\ Len(events) \in Nat
      BY <1>1, FirstAll
  <2>2. Closed(got \cup ToSet(wire)) /\ Closed(got \cup ToSet(events))
      BY <2>1 DEF Gapless
  <2>3. got \cup ToSet(sent) = (got \cup ToSet(wire)) \cup (got \cup ToSet(events))
      BY <1>2
  <2>. QED
      BY <2>2, <2>3, ClosedUnion
<1>5. \A n \in 0 .. Len(sent) : Closed(got \cup First(sent, n))
  <2>. SUFFICES ASSUME NEW n \in 0 .. Len(wire \o events)
                PROVE  Closed(got \cup First(wire \o events, n))
      OBVIOUS
  <2>1. CASE n \in 0 .. Len(wire) /\ First(wire \o events, n) = First(wire, n)
      BY <2>1 DEF Gapless
  <2>2. ASSUME NEW k \in 0 .. Len(events), First(wire \o events, n) = ToSet(wire) \cup First(events, k)
        PROVE  Closed(got \cup First(wire \o events, n))
    <3>1. got \cup First(wire \o events, n) = (got \cup ToSet(wire)) \cup (got \cup First(events, k))
        BY <2>2
    <3>. QED
        BY <1>4, <3>1, ClosedUnion
  <2>. QED
    <3>1. wire \in Seq(Events) /\ n \in 0 .. Len(wire \o events)
        BY <1>1
    <3>2. \/ n \in 0 .. Len(wire) /\ First(wire \o events, n) = First(wire, n)
          \/ \E k \in 0 .. Len(events) :
               First(wire \o events, n) = ToSet(wire) \cup First(events, k)
        BY <3>1, FirstConcat
    <3>. QED
        BY <2>1, <2>2, <3>2
<1>6. LogsGrow' /\ PendingAreLate' /\ Pending' = Pending
      BY DEF LogsGrow, PendingAreLate, Pending
<1>7. /\ \A s : Listens(s)' = Listens(s)
      /\ \A s, e : Excused(s, e)' = Excused(s, e)
      /\ \A has : Closed(has)' <=> Closed(has)
      BY DEF Listens, Excused, Closed
<1>8. /\ todo # {} => /\ wire' = sent
                      /\ stream' = [stream EXCEPT !.pc = "replay", !.todo = todo, !.replayed = replayed]
      /\ todo = {} => /\ wire' = sent \o Unsent(stream.buffer, replayed)
                      /\ stream' = [Off EXCEPT !.pc = "live"]
      BY DEF Send
<1>9. /\ got \cup ToSet(sent) \cup ToSet(stream.buffer) \subseteq 1 .. count
      /\ \A s \in Sessions : ~Listens(s) =>
           ToSet(log[s]) \cap (got \cup ToSet(sent) \cup ToSet(stream.buffer)) = {}
      BY <1>2 DEF Connected
<1>10. \A s \in Sessions \ todo : \A e \in ToSet(log[s]) : Listens(s) =>
           \/ e \in got \cup ToSet(sent) \cup ToSet(stream.buffer) \cup Pending
           \/ Excused(s, e)
      BY <1>2
<1>. HIDE DEF sent, replayed
<1>11. CASE todo # {}
  <2>1. wire' = sent
        /\ stream' = [stream EXCEPT !.pc = "replay", !.todo = todo, !.replayed = replayed]
      BY <1>8, <1>11
  <2>2. /\ stream'.pc = "replay" /\ stream'.todo = todo /\ stream'.replayed = replayed
        /\ stream'.buffer = stream.buffer /\ stream'.from = stream.from /\ stream' \in Stream
      BY <1>1, <1>3, <2>1 DEF Stream
  <2>3. TypeOK'
      BY <1>2, <2>1, <2>2 DEF TypeOK
  <2>4. Connected'
      BY <1>3, <1>7, <1>9, <2>1, <2>2 DEF Connected
  <2>5. Gapless'
      BY <1>5, <1>7, <2>1 DEF Gapless, First
  <2>6. Accounted'
      BY <1>6, <1>7, <1>10, <2>1, <2>2 DEF Accounted
  <2>7. BufferedInOrder'
      BY <2>2 DEF BufferedInOrder
  <2>. QED
      BY <1>6, <2>3, <2>4, <2>5, <2>6, <2>7
<1>12. CASE todo = {}
  <2>. DEFINE unsent == Unsent(stream.buffer, replayed)
  <2>1. /\ unsent \in Seq(Events) /\ ToSet(unsent) = ToSet(stream.buffer) \ replayed
        /\ \A n \in 0 .. Len(unsent) : \E m \in 0 .. Len(stream.buffer) :
             First(unsent, n) = First(stream.buffer, m) \ replayed
      BY SMTT(30), <1>1, UnsentFacts
  <2>2. wire' = sent \o unsent /\ stream' = [Off EXCEPT !.pc = "live"]
      BY <1>8, <1>12
  <2>. HIDE DEF unsent
  <2>3. /\ stream'.pc = "live" /\ stream'.todo = {} /\ stream'.replayed = {}
        /\ stream'.buffer = <<>> /\ stream' \in Stream
      BY <2>2, EmptySeq DEF Off, Stream
  <2>4. wire' \in Seq(Events) /\ ToSet(wire') = ToSet(sent) \cup ToSet(unsent)
      BY <1>2, <2>1, <2>2, ToSetConcat
  <2>5. ToSet(wire') = ToSet(sent) \cup ToSet(stream.buffer)
      BY <1>3, <2>1, <2>4
  <2>6. TypeOK'
      BY <2>3, <2>4 DEF TypeOK
  <2>7. Connected'
    <3>1. ToSet(stream'.buffer) = {}
        BY <2>3 DEF ToSet
    <3>. QED
        BY <1>7, <1>9, <2>3, <2>5, <3>1 DEF Connected
  <2>8. Gapless'
    <3>1. ASSUME NEW m \in 0 .. Len(stream.buffer)
          PROVE  Closed(got \cup ToSet(sent) \cup First(stream.buffer, m))
      <4>. DEFINE has == got \cup ToSet(sent) \cup First(stream.buffer, m)
      <4>. SUFFICES ASSUME NEW s \in Sessions, NEW e \in ToSet(log[s]), NEW f \in ToSet(log[s]),
                           e < f, f \in has
                    PROVE  e \in has \/ Excused(s, e)
          BY DEF Closed
      <4>1. CASE f \in got \cup ToSet(sent)
          BY <1>4, <4>1 DEF Closed
      <4>2. CASE f \in First(stream.buffer, m)
        <5>1. PICK j \in 1 .. m : f = stream.buffer[j]
            BY <4>2 DEF First
        <5>2. /\ DOMAIN stream.buffer = 1 .. Len(stream.buffer) /\ Len(stream.buffer) \in Nat
              /\ j \in DOMAIN stream.buffer
            BY <1>1, <5>1
        <5>3. f \in ToSet(stream.buffer) /\ f \in 1 .. count /\ count \in Nat
          <6>1. f \in ToSet(stream.buffer)
              BY <5>1, <5>2 DEF ToSet
          <6>2. count \in Nat
              BY DEF TypeOK
          <6>. QED
              BY <1>9, <6>1, <6>2
        <5>4. Listens(s)
            BY <5>3 DEF Connected
        <5>5. \/ e \in got \cup ToSet(sent) \cup ToSet(stream.buffer) \cup Pending
              \/ Excused(s, e)
            BY <1>10, <1>12, <5>4
        <5>6. CASE e \in ToSet(stream.buffer)
          <6>1. PICK i \in DOMAIN stream.buffer : e = stream.buffer[i]
              BY <5>6 DEF ToSet
          <6>2. CASE i <= m
              BY <5>2, <6>1, <6>2 DEF First
          <6>3. CASE ~(i <= m)
            <7>1. j < i
                BY <5>2, <6>3
            <7>2. e \in overtaken
                BY <5>1, <5>2, <6>1, <7>1 DEF BufferedInOrder
            <7>. QED
                BY <7>2 DEF Excused
          <6>. QED
              BY <6>2, <6>3
        <5>7. CASE e \in Pending
          <6>1. PICK a \in Appenders : append[a] # Idle /\ e = append[a].event
              BY <5>7 DEF Pending
          <6>2. e \in 1 .. count /\ (e = count \/ e \in overtaken)
              BY <6>1 DEF PendingAreLate
          <6>3. e # count
              BY <5>3, <6>2
          <6>. QED
              BY <6>2, <6>3 DEF Excused
        <5>. QED
            BY <5>5, <5>6, <5>7
      <4>. QED
          BY <4>1, <4>2
    <3>2. ASSUME NEW n \in 0 .. Len(sent \o unsent)
          PROVE  Closed(got \cup First(sent \o unsent, n))
      <4>1. CASE n \in 0 .. Len(sent) /\ First(sent \o unsent, n) = First(sent, n)
          BY <1>5, <4>1
      <4>2. ASSUME NEW k \in 0 .. Len(unsent), First(sent \o unsent, n) = ToSet(sent) \cup First(unsent, k)
            PROVE  Closed(got \cup First(sent \o unsent, n))
        <5>1. PICK m \in 0 .. Len(stream.buffer) : First(unsent, k) = First(stream.buffer, m) \ replayed
            BY <2>1
        <5>2. got \cup First(sent \o unsent, n) = got \cup ToSet(sent) \cup First(stream.buffer, m)
            BY <1>3, <4>2, <5>1
        <5>. QED
            BY <3>1, <5>2
      <4>3. \/ n \in 0 .. Len(sent) /\ First(sent \o unsent, n) = First(sent, n)
            \/ \E k \in 0 .. Len(unsent) : First(sent \o unsent, n) = ToSet(sent) \cup First(unsent, k)
        <5>1. sent \in Seq(Events) /\ unsent \in Seq(Events)
            BY <1>2, <2>1
        <5>. QED
            BY <5>1, FirstConcat
      <4>. QED
          BY <4>1, <4>2, <4>3
    <3>. QED
        BY <1>7, <2>2, <3>2 DEF Gapless, First
  <2>9. Accounted'
      BY <1>6, <1>7, <1>10, <1>12, <2>3, <2>5 DEF Accounted
  <2>10. BufferedInOrder'
      BY <2>3 DEF BufferedInOrder
  <2>. QED
      BY <1>6, <2>6, <2>7, <2>8, <2>9, <2>10
<1>. QED
      BY <1>11, <1>12

\* The sessions are listed: those that are not have only events that the client
\* is excused from.
LEMMA ListStep ==
  ASSUME StreamInv, List
  PROVE  StreamInv'
<1>. USE DEF StreamInv
<1>1. /\ stream.pc = "list" /\ filter = Everything /\ Send(<<>>, saved)
      /\ UNCHANGED <<log, unlisted, saved, count, append, overtaken, got, last, filter, drops>>
      BY DEF List, logVars, clientVars, Connected
<1>2. <<>> \in Seq(Events) /\ ToSet(<<>>) = {} /\ Len(<<>>) = 0 /\ saved \in SUBSET Sessions
      BY EmptySeq DEF ToSet, TypeOK
<1>3. \A s \in Sessions : Listens(s)
      BY <1>1 DEF Listens
<1>4. \A n \in 0 .. Len(<<>>) : Closed(got \cup First(<<>>, n))
  <2>1. First(<<>>, 0) = {} /\ First(wire, 0) = {} /\ Len(wire) \in Nat
      BY FirstAll, EmptySeq DEF TypeOK
  <2>2. Closed(got)
      BY <2>1 DEF Gapless
  <2>3. \A n \in 0 .. Len(<<>>) : n = 0
      BY <1>2
  <2>. QED
      BY <2>1, <2>2, <2>3
<1>5. \A s \in Sessions \ saved : \A e \in ToSet(log[s]) : Excused(s, e)
      BY <1>1 DEF LogsGrow, Excused
<1>. QED
      BY <1>1, <1>2, <1>3, <1>4, <1>5, SendStep

\* What is behind the id seen last: the rest of the log, or all of it.
LEMMA BehindFacts ==
  ASSUME TypeOK, NEW s \in Sessions
  PROVE  /\ Behind(s) \in Seq(Events)
         /\ \E i \in 0 .. Len(log[s]) :
              /\ i = 0 \/ log[s][i] = stream.from
              /\ Len(Behind(s)) = Len(log[s]) - i
              /\ \A k \in 1 .. Len(Behind(s)) : Behind(s)[k] = log[s][i + k]
<1>1. log[s] \in Seq(Events) /\ Len(log[s]) \in Nat /\ DOMAIN log[s] = 1 .. Len(log[s])
      BY DEF TypeOK
<1>2. CASE stream.from \in ToSet(log[s])
  <2>. DEFINE i == CHOOSE k \in DOMAIN log[s] : log[s][k] = stream.from
  <2>1. i \in DOMAIN log[s] /\ log[s][i] = stream.from
      BY <1>2 DEF ToSet
  <2>2. Behind(s) = SubSeq(log[s], i + 1, Len(log[s]))
      BY <1>2 DEF Behind
  <2>. HIDE DEF i
  <2>3. i \in 1 .. Len(log[s])
      BY <1>1, <2>1
  <2>4. /\ SubSeq(log[s], i + 1, Len(log[s])) \in Seq(Events)
        /\ Len(SubSeq(log[s], i + 1, Len(log[s]))) = Len(log[s]) - i
        /\ \A k \in 1 .. Len(log[s]) - i : SubSeq(log[s], i + 1, Len(log[s]))[k] = log[s][i + k]
      BY <1>1, <2>3
  <2>5. i \in 0 .. Len(log[s])
      BY <1>1, <2>3
  <2>. QED
      BY <2>1, <2>2, <2>4, <2>5
<1>3. CASE stream.from \notin ToSet(log[s])
  <2>1. Behind(s) = log[s]
      BY <1>3 DEF Behind
  <2>. QED
      BY <1>1, <2>1
<1>. QED
      BY <1>2, <1>3

\* One session is replayed: the client has what is before the id seen last, or is
\* excused from it.
LEMMA ReplayStep ==
  ASSUME StreamInv, Replay
  PROVE  StreamInv'
<1>. USE DEF StreamInv
<1>1. /\ stream.pc = "replay"
      /\ UNCHANGED <<log, unlisted, saved, count, append, overtaken, got, last, filter, drops>>
      BY DEF Replay, logVars, clientVars
<1>2. PICK s \in stream.todo : Send(Behind(s), stream.todo \ {s})
      BY DEF Replay
<1>3. s \in Sessions /\ stream.todo \in SUBSET Sessions /\ Listens(s) /\ stream.from = last
      BY <1>1, StreamParts DEF Connected
<1>4. PICK i \in 0 .. Len(log[s]) :
        /\ i = 0 \/ log[s][i] = stream.from
        /\ Len(Behind(s)) = Len(log[s]) - i
        /\ \A k \in 1 .. Len(Behind(s)) : Behind(s)[k] = log[s][i + k]
      BY <1>3, BehindFacts
<1>. DEFINE events == Behind(s)
<1>5. events \in Seq(Events) /\ Len(log[s]) \in Nat /\ DOMAIN log[s] = 1 .. Len(log[s])
      BY <1>3, BehindFacts DEF TypeOK
<1>6. ToSet(events) = {events[k] : k \in 1 .. Len(events)}
      BY <1>5 DEF ToSet
<1>. HIDE DEF events
<1>7. /\ Len(events) = Len(log[s]) - i
      /\ \A k \in 1 .. Len(events) : events[k] = log[s][i + k] /\ i + k \in DOMAIN log[s]
      BY <1>4, <1>5 DEF events
<1>8. ToSet(events) \subseteq ToSet(log[s])
  <2>. SUFFICES ASSUME NEW k \in 1 .. Len(events) PROVE events[k] \in ToSet(log[s])
      BY <1>6
  <2>1. events[k] = log[s][i + k] /\ i + k \in DOMAIN log[s]
      BY <1>7
  <2>2. \A j \in DOMAIN log[s] : log[s][j] \in ToSet(log[s])
      BY DEF ToSet
  <2>. QED
      BY <2>1, <2>2
<1>9. Closed(got)
  <2>1. First(wire, 0) = {} /\ Len(wire) \in Nat
      BY FirstAll DEF TypeOK
  <2>. QED
      BY <2>1 DEF Gapless
<1>10. \A j \in DOMAIN log[s] : log[s][j] \in Nat \ {0}
  <2>1. ToSet(log[s]) \subseteq 1 .. count /\ count \in Nat
      BY <1>3 DEF LogsGrow, TypeOK
  <2>2. \A j \in DOMAIN log[s] : log[s][j] \in ToSet(log[s])
      BY DEF ToSet
  <2>. QED
      BY <2>1, <2>2
<1>11. \A j \in DOMAIN log[s] : j <= i => log[s][j] \in got \/ Excused(s, log[s][j])
  <2>. SUFFICES ASSUME NEW j \in DOMAIN log[s], j <= i
                PROVE  log[s][j] \in got \/ Excused(s, log[s][j])
      OBVIOUS
  <2>1. i \in DOMAIN log[s] /\ log[s][i] = last
      BY <1>3, <1>4, <1>5
  <2>2. last \in got
      BY <1>10, <2>1 DEF Connected
  <2>3. CASE j = i
      BY <2>1, <2>2, <2>3
  <2>4. CASE j < i
    <3>1. log[s][j] < log[s][i]
        BY <1>3, <2>1, <2>4 DEF LogsGrow
    <3>2. log[s][j] \in ToSet(log[s]) /\ log[s][i] \in ToSet(log[s])
        BY <2>1 DEF ToSet
    <3>. QED
        BY <1>3, <1>9, <2>1, <2>2, <3>1, <3>2 DEF Closed
  <2>. QED
      BY <1>5, <2>3, <2>4
<1>12. \A j \in DOMAIN log[s] : ~(j <= i) => j - i \in 1 .. Len(events) /\ log[s][j] = events[j - i]
  <2>. SUFFICES ASSUME NEW j \in DOMAIN log[s], ~(j <= i)
                PROVE  j - i \in 1 .. Len(events) /\ log[s][j] = events[j - i]
      OBVIOUS
  <2>1. j - i \in 1 .. Len(events) /\ i + (j - i) = j
      BY <1>5, <1>7
  <2>. QED
      BY <1>7, <2>1
<1>13. ASSUME NEW n \in 0 .. Len(events)
       PROVE  Closed(got \cup First(events, n))
  <2>. SUFFICES ASSUME NEW t \in Sessions, NEW e \in ToSet(log[t]), NEW f \in ToSet(log[t]),
                       e < f, f \in got \cup First(events, n)
                PROVE  e \in got \cup First(events, n) \/ Excused(t, e)
      BY DEF Closed
  <2>1. CASE f \in got
      BY <1>9, <2>1 DEF Closed
  <2>2. CASE f \in First(events, n)
    <3>1. PICK k \in 1 .. n : f = events[k]
        BY <2>2 DEF First
    <3>2. k \in 1 .. Len(events)
        BY <1>5
    <3>3. f = log[s][i + k] /\ i + k \in DOMAIN log[s] /\ f \in ToSet(log[s])
        BY <1>6, <1>7, <1>8, <3>1, <3>2
    <3>4. t = s
        BY <1>3, <3>3 DEF LogsGrow
    <3>5. PICK j \in DOMAIN log[s] : e = log[s][j]
        BY <3>4 DEF ToSet
    <3>6. j < i + k
      <4>1. ~(i + k < j)
        <5>. SUFFICES ASSUME i + k < j PROVE FALSE
            OBVIOUS
        <5>1. f < e
            BY <1>3, <3>3, <3>5 DEF LogsGrow
        <5>2. e \in Nat /\ f \in Nat
            BY <1>10, <3>3, <3>5
        <5>. QED
            BY <5>1, <5>2
      <4>2. e # f
          BY <1>10, <3>3, <3>5
      <4>. QED
          BY <1>5, <3>2, <3>3, <3>5, <4>1, <4>2
    <3>7. CASE j <= i
        BY <1>11, <3>4, <3>5, <3>7
    <3>8. CASE ~(j <= i)
      <4>1. j - i \in 1 .. n /\ e = events[j - i]
          BY <1>5, <1>12, <3>2, <3>5, <3>6, <3>8
      <4>. QED
          BY <4>1 DEF First
    <3>. QED
        BY <3>7, <3>8
  <2>. QED
      BY <2>1, <2>2
<1>14. ASSUME NEW t \in Sessions \ (stream.todo \ {s}), NEW e \in ToSet(log[t]), Listens(t)
       PROVE  \/ e \in got \cup ToSet(wire) \cup ToSet(events) \cup ToSet(stream.buffer) \cup Pending
              \/ Excused(t, e)
  <2>1. CASE t # s
      BY <1>1, <1>14, <2>1 DEF Accounted
  <2>2. CASE t = s
    <3>1. PICK j \in DOMAIN log[s] : e = log[s][j]
        BY <2>2 DEF ToSet
    <3>2. CASE j <= i
        BY <1>11, <2>2, <3>1, <3>2
    <3>3. CASE ~(j <= i)
        BY <1>6, <1>12, <3>1, <3>3
    <3>. QED
        BY <3>2, <3>3
  <2>. QED
      BY <2>1, <2>2
<1>15. ASSUME NEW t \in Sessions, ~Listens(t)
       PROVE  ToSet(log[t]) \cap ToSet(events) = {}
      BY <1>3, <1>8, <1>15 DEF LogsGrow
<1>16. /\ ToSet(events) \subseteq 1 .. count
       /\ stream.todo \ {s} \in SUBSET Sessions
       /\ \A t \in stream.todo \ {s} : Listens(t)
       /\ Send(events, stream.todo \ {s})
  <2>1. ToSet(log[s]) \subseteq 1 .. count
      BY <1>3 DEF LogsGrow
  <2>. QED
      BY <1>2, <1>3, <1>8, <2>1 DEF Connected, events
<1>. QED
      BY <1>1, <1>5, <1>13, <1>14, <1>15, <1>16, SendStep

-----------------------------------------------------------------------------
(* The client *)

\* The connection breaks: the client keeps what it received, which has no gap.
LEMMA DropStep ==
  ASSUME MaxDrops \in Nat, StreamInv, Drop
  PROVE  StreamInv'
<1>. USE DEF StreamInv
<1>1. /\ drops < MaxDrops /\ drops' = drops + 1 /\ stream' = Off /\ wire' = <<>>
      /\ UNCHANGED <<log, unlisted, saved, count, append, overtaken, filter>>
      BY DEF Drop, logVars
<1>2. PICK n \in 0 .. Len(wire) : /\ got' = got \cup ToSet(SubSeq(wire, 1, n))
                                  /\ last' = IF n = 0 THEN last ELSE wire[n]
      BY DEF Drop
<1>3. wire \in Seq(Events) /\ DOMAIN wire = 1 .. Len(wire) /\ Len(wire) \in Nat
      BY DEF TypeOK
<1>4. got' = got \cup First(wire, n) /\ First(wire, n) \subseteq ToSet(wire) /\ ToSet(wire) \subseteq Events
      BY <1>2, <1>3, FirstAll
<1>5. /\ stream'.pc = "off" /\ stream'.todo = {} /\ stream'.replayed = {}
      /\ stream'.buffer = <<>> /\ stream' \in Stream /\ <<>> \in Seq(Events)
      BY <1>1, EmptySeq DEF Off, Stream
<1>6. (last' \in Events \cup {0}) /\ (last' # 0 => last' \in got')
  <2>1. CASE n = 0
      BY <1>2, <1>4, <2>1 DEF TypeOK, Connected
  <2>2. CASE n # 0
    <3>1. n \in 1 .. n /\ n \in DOMAIN wire /\ last' = wire[n]
        BY <1>2, <1>3, <2>2
    <3>2. wire[n] \in First(wire, n) /\ wire[n] \in Events
        BY <1>3, <3>1 DEF First
    <3>. QED
        BY <1>4, <3>1, <3>2
  <2>. QED
      BY <2>1, <2>2
<1>7. TypeOK'
  <2>1. drops' \in 0 .. MaxDrops
      BY <1>1 DEF TypeOK
  <2>2. got' \subseteq Events
      BY <1>4 DEF TypeOK
  <2>. QED
      BY <1>1, <1>5, <1>6, <2>1, <2>2 DEF TypeOK
<1>8. LogsGrow' /\ PendingAreLate'
      BY <1>1 DEF LogsGrow, PendingAreLate
<1>9. ToSet(wire') = {} /\ ToSet(stream'.buffer) = {}
      BY <1>1, <1>5 DEF ToSet
<1>10. Connected'
  <2>1. \A s : Listens(s)' = Listens(s)
      BY <1>1 DEF Listens
  <2>2. /\ got' \subseteq 1 .. count
        /\ \A s \in Sessions : ~Listens(s) => ToSet(log[s]) \cap got' = {}
      BY <1>4 DEF Connected
  <2>. QED
      BY <1>1, <1>5, <1>6, <1>9, <2>1, <2>2 DEF Connected
<1>11. Gapless'
  <2>1. Closed(got')
      BY <1>4 DEF Gapless
  <2>2. \A has : Closed(has)' <=> Closed(has)
      BY <1>1 DEF Closed, Excused
  <2>3. Len(wire') = 0 /\ \A k \in 0 .. Len(wire') : got' \cup {wire'[i] : i \in 1 .. k} = got'
      BY <1>1
  <2>. QED
      BY <2>1, <2>2, <2>3 DEF Gapless, First
<1>12. Accounted'
      BY <1>5 DEF Accounted
<1>13. BufferedInOrder'
      BY <1>5 DEF BufferedInOrder
<1>. QED
      BY <1>7, <1>8, <1>10, <1>11, <1>12, <1>13

-----------------------------------------------------------------------------
(* The theorems *)

LEMMA StreamInit ==
  ASSUME MaxEvents \in Nat, MaxDrops \in Nat, Init
  PROVE  StreamInv
<1>. USE DEF Init
<1>1. stream.pc = "off" /\ stream.todo = {} /\ stream.replayed = {} /\ stream.buffer = <<>>
      BY DEF Off
<1>2. <<>> \in Seq(Events)
      BY EmptySeq
<1>3. TypeOK
  <2>1. stream \in Stream
      BY <1>2 DEF Off, Stream
  <2>2. log \in [Sessions -> Seq(Events)] /\ wire \in Seq(Events)
      BY <1>2
  <2>3. 0 \in 0 .. MaxEvents /\ 0 \in 0 .. MaxDrops
      OBVIOUS
  <2>. QED
      BY <2>1, <2>2, <2>3 DEF TypeOK, Idle
<1>4. \A s \in Sessions : log[s] = <<>> /\ ToSet(log[s]) = {}
      BY DEF ToSet
<1>5. LogsGrow
      BY <1>4 DEF LogsGrow
<1>6. PendingAreLate
      BY DEF PendingAreLate
<1>7. Connected
  <2>1. ToSet(wire) = {} /\ ToSet(stream.buffer) = {}
      BY <1>1 DEF ToSet
  <2>. QED
      BY <1>1, <1>4, <2>1 DEF Connected
<1>8. Gapless
      BY <1>4 DEF Gapless, Closed
<1>9. Accounted /\ BufferedInOrder
      BY <1>1 DEF Accounted, BufferedInOrder
<1>. QED
      BY <1>3, <1>5, <1>6, <1>7, <1>8, <1>9 DEF StreamInv

LEMMA StreamNext ==
  ASSUME MaxEvents \in Nat, MaxDrops \in Nat, StreamInv, [Next]_vars
  PROVE  StreamInv'
<1>1. CASE UNCHANGED vars
      BY <1>1 DEF vars, logVars, clientVars, StreamInv, TypeOK, LogsGrow, PendingAreLate, Connected,
                  Gapless, Closed, Excused, First, Accounted, Listens, Pending, BufferedInOrder
<1>2. ASSUME NEW a \in Appenders, FanOut(a) PROVE StreamInv'
      BY <1>2, FanOutStep
<1>3. ASSUME NEW a \in Appenders, NEW s \in Sessions, WriteLine(a, s) PROVE StreamInv'
      BY <1>3, WriteStep
<1>4. ASSUME NEW s \in Sessions, Save(s) \/ Clear(s) PROVE StreamInv'
      BY <1>4, SaveStep
<1>5. CASE Connect
      BY <1>5, ConnectStep
<1>6. CASE List
      BY <1>6, ListStep
<1>7. CASE Replay
      BY <1>7, ReplayStep
<1>8. CASE Drop
      BY <1>8, DropStep
<1>. QED
      BY <1>1, <1>2, <1>3, <1>4, <1>5, <1>6, <1>7, <1>8 DEF Next

LEMMA StreamGivesNoGap ==
  ASSUME StreamInv
  PROVE  NoGap
<1>. USE DEF StreamInv
<1>. SUFFICES ASSUME NEW n \in 0 .. Len(wire), NEW s \in Sessions, NEW j \in DOMAIN log[s],
                     NEW i \in 1 .. j - 1, log[s][j] \in got \cup ToSet(SubSeq(wire, 1, n))
              PROVE  \/ log[s][i] \in got \cup ToSet(SubSeq(wire, 1, n))
                     \/ log[s][i] \in overtaken
                     \/ filter = Everything /\ log[s][i] \in unlisted[s]
      BY DEF NoGap
<1>1. ToSet(SubSeq(wire, 1, n)) = First(wire, n)
      BY FirstAll DEF TypeOK
<1>2. DOMAIN log[s] = 1 .. Len(log[s]) /\ Len(log[s]) \in Nat
      BY DEF TypeOK
<1>3. i \in DOMAIN log[s] /\ i < j
      BY <1>2
<1>4. log[s][i] < log[s][j] /\ log[s][i] \in ToSet(log[s]) /\ log[s][j] \in ToSet(log[s])
      BY <1>3 DEF LogsGrow, ToSet
<1>. QED
      BY <1>1, <1>4 DEF Gapless, Closed, Excused

\* daemon.ts:798: a client that reconnects with the id it saw last has no gap
\* behind what it has, whatever is appended, saved or cleared around the replay,
\* but for events that were overtaken on their way to the listener and, without a
\* filter, the first ones of a session that was not saved.
THEOREM NoGapCorrect ==
  ASSUME MaxEvents \in Nat, MaxDrops \in Nat
  PROVE  Spec => []NoGap
<1>1. Init => StreamInv
      BY StreamInit
<1>2. StreamInv /\ [Next]_vars => StreamInv'
      BY StreamNext
<1>3. StreamInv => NoGap
      BY StreamGivesNoGap
<1>. QED
      BY <1>1, <1>2, <1>3, PTL DEF Spec

=============================================================================
