-------------------------- MODULE LiveEventsProofs --------------------------
(***************************************************************************)
(* Proofs about LiveEvents for every set of monitors, every poll order,    *)
(* every rule and every bound: what the polls have fetched is in the       *)
(* sensors, an id names one event, and a signal is that of one             *)
(* recomputation.                                                          *)
(***************************************************************************)
EXTENDS LiveEvents, RecursionLemmas, FiniteSetTheorems

-----------------------------------------------------------------------------
(* The inductive invariant. *)

Point == Nat \X Levels

(* The samples that came with a monitor and not from its file. *)
Before(p, l, d) == Len(p) + Cardinality(d) - l

Kept(f, l, d) == {i \in 1 .. l : f[i][1] \notin d}

(* Of a file f numbered on from the samples a sensor started with, the     *)
(* first l are fetched: those numbered in d were given up, the others are  *)
(* what the sensor p has in addition, unless somebody revised it.          *)
Fed(f, p, l, d, revised) ==
  /\ f \in Seq(Point) /\ p \in Seq(Point)
  /\ l \in 0 .. Len(f)
  /\ IsFiniteSet(d)
  /\ Before(p, l, d) \in Nat
  /\ d \subseteq Before(p, l, d) + 1 .. Before(p, l, d) + l
  /\ \A i \in 1 .. Len(f) : f[i][1] = Before(p, l, d) + i
  /\ ~revised => SubSeq(p, Before(p, l, d) + 1, Len(p)) = Masked(f, Kept(f, l, d))

PollInv ==
  feed = "pipeline" =>
    /\ file \in [Monitors -> Seq(Point)] /\ parent \in [Monitors -> Seq(Point)]
    /\ lastIndex \in [Monitors -> Nat] /\ dropped \in [Monitors -> SUBSET Nat]
    /\ past = [m \in Monitors |-> past[m]]
    /\ \A m \in Monitors :
         Fed(file[m], parent[m], lastIndex[m], dropped[m], "revised" \in past[m])

-----------------------------------------------------------------------------
(* What one step does to the account of one monitor. *)

(* Joining what is behind a position adds it to what is there. *)
LEMMA JoinBehind ==
  ASSUME NEW S, NEW p \in Seq(S), NEW q \in Seq(S), NEW n \in 0 .. Len(p)
  PROVE  SubSeq(p \o q, n + 1, Len(p \o q)) = SubSeq(p, n + 1, Len(p)) \o q
  <1> DEFINE lhs == SubSeq(p \o q, n + 1, Len(p \o q))
             beg == SubSeq(p, n + 1, Len(p))
             rhs == beg \o q
  <1>1. /\ p \o q \in Seq(S) /\ Len(p \o q) = Len(p) + Len(q)
        /\ \A i \in 1 .. Len(p) + Len(q) :
             (p \o q)[i] = IF i <= Len(p) THEN p[i] ELSE q[i - Len(p)]
    BY ConcatProperties
  <1>2. /\ beg \in Seq(S) /\ Len(beg) = Len(p) - n
        /\ \A i \in 1 .. Len(p) - n : beg[i] = p[n + i]
    OBVIOUS
  <1>3. /\ lhs \in Seq(S) /\ Len(lhs) = Len(p) + Len(q) - n
        /\ \A i \in 1 .. Len(p) + Len(q) - n : lhs[i] = (p \o q)[n + i]
    <2> DEFINE pq == p \o q
    <2>1. pq \in Seq(S) /\ Len(pq) = Len(p) + Len(q)
      BY <1>1
    <2>2. n \in Nat /\ Len(p) \in Nat /\ Len(q) \in Nat /\ n <= Len(p)
      OBVIOUS
    <2> HIDE DEF pq
    <2>3. /\ SubSeq(pq, n + 1, Len(pq)) \in Seq(S)
          /\ Len(SubSeq(pq, n + 1, Len(pq))) = Len(p) + Len(q) - n
          /\ \A i \in 1 .. Len(p) + Len(q) - n : SubSeq(pq, n + 1, Len(pq))[i] = pq[n + i]
      BY <2>1, <2>2
    <2> QED
      BY <2>3 DEF pq
  <1>4. /\ rhs \in Seq(S) /\ Len(rhs) = Len(beg) + Len(q)
        /\ \A i \in 1 .. Len(beg) + Len(q) :
             rhs[i] = IF i <= Len(beg) THEN beg[i] ELSE q[i - Len(beg)]
    <2> HIDE DEF beg
    <2> QED
      BY <1>2, ConcatProperties
  <1>5. Len(lhs) = Len(rhs)
    <2>1. n \in Nat /\ Len(p) \in Nat /\ Len(q) \in Nat
      OBVIOUS
    <2> HIDE DEF lhs, beg, rhs
    <2> QED
      BY <1>2, <1>3, <1>4, <2>1
  <1>6. ASSUME NEW i \in 1 .. Len(lhs) PROVE lhs[i] = rhs[i]
    <2>1. n \in Nat /\ Len(p) \in Nat /\ Len(q) \in Nat /\ n <= Len(p)
      OBVIOUS
    <2>2. i \in 1 .. Len(p) + Len(q) - n
      BY <1>3
    <2>3. lhs[i] = (p \o q)[n + i]
      BY <1>3, <2>2
    <2>4. n + i \in 1 .. Len(p) + Len(q)
      BY <2>1, <2>2
    <2>5. lhs[i] = IF n + i <= Len(p) THEN p[n + i] ELSE q[(n + i) - Len(p)]
      BY <1>1, <2>3, <2>4
    <2>6. rhs[i] = IF i <= Len(p) - n THEN beg[i] ELSE q[i - (Len(p) - n)]
      <3>1. i \in 1 .. Len(beg) + Len(q)
        BY <1>2, <2>1, <2>2
      <3> HIDE DEF beg, rhs
      <3> QED
        BY <1>2, <1>4, <3>1
    <2>7. CASE n + i <= Len(p)
      <3>1. i \in 1 .. Len(p) - n
        BY <2>1, <2>2, <2>7
      <3>2. beg[i] = p[n + i]
        BY <1>2, <3>1
      <3> HIDE DEF lhs, rhs, beg
      <3> QED
        BY <2>5, <2>6, <2>7, <3>1, <3>2
    <2>8. CASE ~(n + i <= Len(p))
      <3>1. ~(i <= Len(p) - n) /\ (n + i) - Len(p) = i - (Len(p) - n)
        BY <2>1, <2>2, <2>8
      <3> HIDE DEF lhs, rhs, beg
      <3> QED
        BY <2>5, <2>6, <2>8, <3>1
    <2> QED
      BY <2>7, <2>8
  <1> QED
    <2> HIDE DEF lhs, rhs, beg
    <2>1. lhs = rhs
      BY <1>3, <1>4, <1>5, <1>6, SeqEqual
    <2> QED
      BY <2>1 DEF lhs, rhs, beg

(* The account stands within the sensor. *)
LEMMA FedBounds ==
  ASSUME NEW f, NEW p, NEW l, NEW d, NEW revised, Fed(f, p, l, d, revised)
  PROVE  /\ l \in Nat /\ Len(f) \in Nat /\ Len(p) \in Nat /\ Cardinality(d) \in Nat
         /\ Cardinality(d) <= l /\ Before(p, l, d) \in 0 .. Len(p)
         /\ Kept(f, l, d) \in SUBSET (1 .. l) /\ Kept(f, l, d) \in SUBSET (1 .. Len(f))
  <1> DEFINE b == Before(p, l, d)
  <1>1. l \in Nat /\ Len(f) \in Nat /\ Len(p) \in Nat /\ l <= Len(f)
    BY DEF Fed
  <1>2. Cardinality(d) \in Nat
    BY FS_CardinalityType DEF Fed
  <1>3. b \in Nat /\ d \subseteq b + 1 .. b + l
    BY DEF Fed
  <1>4. Cardinality(d) <= l
    <2> HIDE DEF b
    <2>1. IsFiniteSet(b + 1 .. b + l) /\ Cardinality(b + 1 .. b + l) = l
      <3> DEFINE first == b + 1   last == b + l
      <3>1. first \in Int /\ last \in Int
        BY <1>1, <1>3
      <3>2. (IF first > last THEN 0 ELSE last - first + 1) = l
        BY <1>1, <1>3
      <3>3. /\ IsFiniteSet(first .. last)
            /\ Cardinality(first .. last) = IF first > last THEN 0 ELSE last - first + 1
        <4> HIDE DEF first, last
        <4> QED
          BY <3>1, FS_Interval
      <3> QED
        BY <3>2, <3>3
    <2> QED
      BY <1>3, <2>1, FS_Subset
  <1>5. b <= Len(p)
    BY <1>1, <1>2, <1>4 DEF Before
  <1>6. Kept(f, l, d) \in SUBSET (1 .. l) /\ Kept(f, l, d) \in SUBSET (1 .. Len(f))
    BY <1>1 DEF Kept
  <1> QED
    BY <1>1, <1>2, <1>3, <1>4, <1>5, <1>6

(* A sensor starts with samples of its own. *)
LEMMA FedAtStart ==
  ASSUME NEW levels \in Seq(Levels)
  PROVE  Fed(<<>>, Points(levels, 0), 0, {}, FALSE)
  <1> DEFINE p == Points(levels, 0)
  <1>1. p \in Seq(Point) /\ Len(p) \in Nat
    <2>1. p = [i \in 1 .. Len(levels) |-> <<0 + i, levels[i]>>]
      BY DEF Points
    <2>2. \A i \in 1 .. Len(levels) : <<0 + i, levels[i]>> \in Point
      BY DEF Point
    <2>3. Len(levels) \in Nat
      OBVIOUS
    <2>4. p \in [1 .. Len(levels) -> Point]
      BY <2>1, <2>2
    <2> HIDE DEF p
    <2> QED
      BY <2>3, <2>4
  <1> HIDE DEF p
  <1>2. IsFiniteSet({}) /\ Cardinality({}) = 0
    BY FS_EmptySet
  <1>3. Before(p, 0, {}) = Len(p)
    BY <1>1, <1>2 DEF Before
  <1>4. Masked(<<>>, Kept(<<>>, 0, {})) = <<>>
    <2>1. <<>> \in Seq(Point) /\ Len(<<>>) = 0
      OBVIOUS
    <2> DEFINE none == <<>>
    <2> HIDE DEF none
    <2>2. PICK g : Loops(g, Point, none, Kept(none, 0, {}))
      BY <2>1, MaskedLoop DEF none
    <2>3. Masked(none, Kept(none, 0, {})) = g[Len(none)] /\ g[0] = <<>>
      BY <2>2 DEF Loops
    <2> QED
      BY <2>1, <2>3 DEF none
  <1>5. SubSeq(p, Len(p) + 1, Len(p)) = <<>>
    BY <1>1
  <1> DEFINE none == <<>>
  <1>6. none \in Seq(Point) /\ Len(none) = 0
    OBVIOUS
  <1>7. Masked(none, Kept(none, 0, {})) = SubSeq(p, Len(p) + 1, Len(p))
    BY <1>4, <1>5
  <1> HIDE DEF none
  <1>8. Fed(none, p, 0, {}, FALSE)
    BY <1>1, <1>2, <1>3, <1>6, <1>7 DEF Fed
  <1> QED
    BY <1>8 DEF p, none

(* A sample is logged. *)
LEMMA FedLogged ==
  ASSUME NEW f, NEW p, NEW l, NEW d, NEW revised, Fed(f, p, l, d, revised),
         NEW level \in Levels
  PROVE  Fed(Append(f, <<Before(p, l, d) + Len(f) + 1, level>>), p, l, d, revised)
  <1> DEFINE b == Before(p, l, d)
             x == <<b + Len(f) + 1, level>>
             g == Append(f, x)
  <1>1. f \in Seq(Point) /\ Len(f) \in Nat /\ b \in Nat /\ l \in 0 .. Len(f) /\ l \in Nat
    BY DEF Fed
  <1>2. x \in Point
    BY <1>1 DEF Point
  <1>3. /\ g \in Seq(Point) /\ Len(g) = Len(f) + 1 /\ g[Len(f) + 1] = x
        /\ \A i \in 1 .. Len(f) : g[i] = f[i]
    <2> HIDE DEF x
    <2> QED
      BY <1>1, <1>2
  <1>4. \A i \in 1 .. Len(g) : g[i][1] = b + i
    <2> SUFFICES ASSUME NEW i \in 1 .. Len(g) PROVE g[i][1] = b + i
      OBVIOUS
    <2>1. i \in 1 .. Len(f) \/ i = Len(f) + 1
      BY <1>1, <1>3
    <2>2. CASE i \in 1 .. Len(f)
      BY <1>3, <2>2 DEF Fed
    <2>3. CASE i = Len(f) + 1
      <3>1. g[i] = x /\ x[1] = b + Len(f) + 1
        BY <1>3, <2>3
      <3> HIDE DEF g, x, b
      <3> QED
        BY <1>1, <2>3, <3>1
    <2> QED
      BY <2>1, <2>2, <2>3
  <1>5. Kept(g, l, d) = Kept(f, l, d)
    <2>1. \A i \in 1 .. l : g[i] = f[i]
      BY <1>1, <1>3
    <2> HIDE DEF g
    <2> QED
      BY <2>1 DEF Kept
  <1>6. Masked(g, Kept(f, l, d)) = Masked(f, Kept(f, l, d))
    <2>1. Kept(f, l, d) \in SUBSET (1 .. Len(f))
      BY FedBounds
    <2> HIDE DEF x
    <2> QED
      BY <1>1, <1>2, <2>1, MaskedPrefix
  <1>7. l \in 0 .. Len(g)
    BY <1>1, <1>3
  <1> HIDE DEF g
  <1>8. Fed(g, p, l, d, revised)
    BY <1>3, <1>4, <1>5, <1>6, <1>7 DEF Fed
  <1> QED
    BY <1>8 DEF g

(* Behind the account the numbers of the file go on without a gap. *)
LEMMA FedBehind ==
  ASSUME NEW f, NEW p, NEW l, NEW d, NEW revised, Fed(f, p, l, d, revised)
  PROVE  /\ SubSeq(f, l + 1, Len(f)) \in Seq(Point)
         /\ Len(SubSeq(f, l + 1, Len(f))) = Len(f) - l
         /\ {q[1] : q \in ToSet(SubSeq(f, l + 1, Len(f)))}
              = Before(p, l, d) + l + 1 .. Before(p, l, d) + Len(f)
  <1> DEFINE b == Before(p, l, d)
             new == SubSeq(f, l + 1, Len(f))
             count == Len(f) - l
  <1>1. f \in Seq(Point) /\ l \in Nat /\ Len(f) \in Nat /\ l <= Len(f) /\ b \in Nat
    BY DEF Fed
  <1>2. /\ new \in Seq(Point) /\ Len(new) = count
        /\ \A i \in 1 .. count : new[i] = f[l + i]
    BY <1>1
  <1>3. count \in Nat /\ l + count = Len(f)
    BY <1>1
  <1>4. \A i \in 1 .. count : new[i][1] = b + l + i
    <2> SUFFICES ASSUME NEW i \in 1 .. count PROVE new[i][1] = b + l + i
      OBVIOUS
    <2>1. l + i \in 1 .. Len(f)
      BY <1>1, <1>3
    <2>2. f[l + i][1] = b + (l + i)
      BY <2>1 DEF Fed
    <2> HIDE DEF b, new
    <2> QED
      BY <1>1, <1>2, <2>2
  <1>5. ToSet(new) = {new[i] : i \in 1 .. count}
    <2> HIDE DEF new, count
    <2>1. DOMAIN new = 1 .. count
      BY <1>2, <1>3
    <2> QED
      BY <2>1 DEF ToSet
  <1>6. {q[1] : q \in ToSet(new)} = b + l + 1 .. b + Len(f)
    <2> HIDE DEF new, b
    <2>1. ASSUME NEW q \in ToSet(new) PROVE q[1] \in b + l + 1 .. b + Len(f)
      <3>1. PICK i \in 1 .. count : q = new[i]
        BY <1>5
      <3>2. q[1] = b + l + i
        BY <1>4, <3>1
      <3> HIDE DEF count
      <3> QED
        BY <1>1, <1>3, <3>2
    <2>2. ASSUME NEW k \in b + l + 1 .. b + Len(f) PROVE \E q \in ToSet(new) : q[1] = k
      <3> DEFINE i == k - (b + l)
      <3>1. i \in 1 .. count /\ b + l + i = k
        BY <1>1
      <3> HIDE DEF i, count
      <3>2. new[i] \in ToSet(new) /\ new[i][1] = k
        BY <1>4, <1>5, <3>1
      <3> QED
        BY <3>2
    <2> QED
      BY <2>1, <2>2
  <1> QED
    BY <1>2, <1>6

(* A poll gives up what it fetched. *)
LEMMA FedDropped ==
  ASSUME NEW f, NEW p, NEW l, NEW d, NEW revised, Fed(f, p, l, d, revised)
  PROVE  Fed(f, p, Len(f), d \cup {q[1] : q \in ToSet(SubSeq(f, l + 1, Len(f)))}, revised)
  <1> DEFINE b == Before(p, l, d)
             lost == b + l + 1 .. b + Len(f)
             e == d \cup lost
  <1>1. lost = {q[1] : q \in ToSet(SubSeq(f, l + 1, Len(f)))}
    BY FedBehind
  <1>2. /\ l \in Nat /\ Len(f) \in Nat /\ Len(p) \in Nat /\ Cardinality(d) \in Nat /\ b \in Nat
        /\ l <= Len(f)
    <2>1. /\ l \in Nat /\ Len(f) \in Nat /\ Len(p) \in Nat /\ Cardinality(d) \in Nat
          /\ b \in 0 .. Len(p)
      BY FedBounds
    <2>2. l \in 0 .. Len(f) /\ b \in Nat
      BY DEF Fed
    <2> QED
      BY <2>1, <2>2
  <1>3. IsFiniteSet(lost) /\ Cardinality(lost) = Len(f) - l
    <2> DEFINE first == b + l + 1   last == b + Len(f)
    <2>1. first \in Int /\ last \in Int
      BY <1>2
    <2>2. (IF first > last THEN 0 ELSE last - first + 1) = Len(f) - l
      BY <1>2
    <2>3. /\ IsFiniteSet(first .. last)
          /\ Cardinality(first .. last) = IF first > last THEN 0 ELSE last - first + 1
      <3> HIDE DEF first, last
      <3> QED
        BY <2>1, FS_Interval
    <2> QED
      BY <2>2, <2>3
  <1>4. d \subseteq b + 1 .. b + l
    BY DEF Fed
  <1>5. d \cap lost = {}
    BY <1>2, <1>4
  <1>6. IsFiniteSet(e) /\ Cardinality(e) = Cardinality(d) + (Len(f) - l)
    <2> HIDE DEF lost
    <2>1. IsFiniteSet(d)
      BY DEF Fed
    <2>2. IsFiniteSet(d \cup lost)
      BY <1>3, <2>1, FS_Union
    <2>3. Cardinality(d \cup lost) = Cardinality(d) + Cardinality(lost) - Cardinality(d \cap lost)
      BY <1>3, <2>1, FS_Union
    <2>4. Cardinality(d \cap lost) = 0
      BY <1>5, FS_EmptySet
    <2> QED
      BY <1>2, <1>3, <2>2, <2>3, <2>4
  <1>7. Before(p, Len(f), e) = b
    <2> HIDE DEF e
    <2> QED
      BY <1>2, <1>6 DEF Before
  <1>8. e \subseteq b + 1 .. b + Len(f)
    BY <1>2, <1>4
  <1>9. Kept(f, Len(f), e) = Kept(f, l, d)
    <2>1. \A i \in 1 .. Len(f) : f[i][1] = b + i
      BY DEF Fed
    <2>2. \A i \in 1 .. l : i \in 1 .. Len(f) /\ b + i \notin lost
      BY <1>2
    <2>3. \A i \in 1 .. Len(f) : i \notin 1 .. l => b + i \in lost
      BY <1>2
    <2> HIDE DEF lost, b
    <2> QED
      BY <2>1, <2>2, <2>3 DEF Kept
  <1>10. Len(f) \in 0 .. Len(f)
    BY <1>2
  <1> HIDE DEF e
  <1>11. Fed(f, p, Len(f), e, revised)
    BY <1>2, <1>6, <1>7, <1>8, <1>9, <1>10 DEF Fed
  <1> QED
    BY <1>1, <1>11 DEF e

(* A poll brings what it fetched. *)
LEMMA FedTaken ==
  ASSUME NEW f, NEW p, NEW l, NEW d, NEW revised, Fed(f, p, l, d, revised)
  PROVE  Fed(f, p \o SubSeq(f, l + 1, Len(f)), Len(f), d, revised)
  <1> DEFINE b == Before(p, l, d)
             new == SubSeq(f, l + 1, Len(f))
             grown == p \o new
  <1>1. /\ l \in Nat /\ Len(f) \in Nat /\ Len(p) \in Nat /\ Cardinality(d) \in Nat
        /\ b \in Nat /\ b \in 0 .. Len(p) /\ l <= Len(f) /\ l \in 0 .. Len(f)
        /\ f \in Seq(Point) /\ p \in Seq(Point)
    <2>1. /\ l \in Nat /\ Len(f) \in Nat /\ Len(p) \in Nat /\ Cardinality(d) \in Nat
          /\ b \in 0 .. Len(p)
      BY FedBounds
    <2>2. l \in 0 .. Len(f) /\ b \in Nat /\ f \in Seq(Point) /\ p \in Seq(Point)
      BY DEF Fed
    <2> QED
      BY <2>1, <2>2
  <1>2. new \in Seq(Point) /\ Len(new) = Len(f) - l
    BY FedBehind
  <1>3. grown \in Seq(Point) /\ Len(grown) = Len(p) + (Len(f) - l)
    <2> HIDE DEF new
    <2>1. p \o new \in Seq(Point) /\ Len(p \o new) = Len(p) + Len(new)
      BY <1>1, <1>2, ConcatProperties
    <2> QED
      BY <1>2, <2>1
  <1>4. Before(grown, Len(f), d) = b
    <2> HIDE DEF grown
    <2> QED
      BY <1>1, <1>3 DEF Before
  <1>5. d \subseteq b + 1 .. b + Len(f)
    <2>1. d \subseteq b + 1 .. b + l
      BY DEF Fed
    <2> HIDE DEF b
    <2> QED
      BY <1>1, <2>1
  <1>6. Kept(f, Len(f), d) = Kept(f, l, d) \cup (l + 1 .. Len(f))
    <2>1. \A i \in 1 .. Len(f) : f[i][1] = b + i
      BY DEF Fed
    <2>2. \A i \in l + 1 .. Len(f) : i \in 1 .. Len(f) /\ b + i \notin d
      <3>1. d \subseteq b + 1 .. b + l
        BY DEF Fed
      <3> HIDE DEF b
      <3> QED
        BY <1>1, <3>1
    <2>3. \A i \in 1 .. Len(f) : i \in 1 .. l \/ i \in l + 1 .. Len(f)
      BY <1>1
    <2>4. 1 .. l \subseteq 1 .. Len(f)
      BY <1>1
    <2> HIDE DEF b
    <2> QED
      BY <2>1, <2>2, <2>3, <2>4 DEF Kept
  <1>7. ASSUME ~revised
        PROVE  SubSeq(grown, b + 1, Len(grown)) = Masked(f, Kept(f, Len(f), d))
    <2>1. SubSeq(grown, b + 1, Len(grown)) = SubSeq(p, b + 1, Len(p)) \o new
      <3> HIDE DEF new, b
      <3> QED
        BY <1>1, <1>2, JoinBehind
    <2>2. SubSeq(p, b + 1, Len(p)) = Masked(f, Kept(f, l, d))
      BY <1>7 DEF Fed
    <2>3. Kept(f, l, d) \in SUBSET (1 .. l)
      BY FedBounds
    <2>4. Masked(f, Kept(f, l, d) \cup (l + 1 .. Len(f))) = Masked(f, Kept(f, l, d)) \o new
      BY <1>1, <2>3, MaskedSuffix
    <2> HIDE DEF grown, new, b
    <2> QED
      BY <1>6, <2>1, <2>2, <2>4
  <1>8. Len(f) \in 0 .. Len(f)
    BY <1>1
  <1> HIDE DEF grown
  <1>9. Fed(f, grown, Len(f), d, revised)
    BY <1>1, <1>3, <1>4, <1>5, <1>7, <1>8 DEF Fed
  <1> QED
    BY <1>9 DEF grown

(* A value is revised. *)
LEMMA FedRevised ==
  ASSUME NEW f, NEW p, NEW l, NEW d, NEW revised, Fed(f, p, l, d, revised),
         NEW i \in DOMAIN p, NEW level \in Levels
  PROVE  Fed(f, [p EXCEPT ![i][2] = level], l, d, TRUE)
  <1> DEFINE q == [p EXCEPT ![i][2] = level]
  <1>1. p \in Seq(Point) /\ i \in 1 .. Len(p) /\ p[i] \in Point
    BY DEF Fed
  <1>2. [p[i] EXCEPT ![2] = level] \in Point
    BY <1>1 DEF Point
  <1>3. q \in Seq(Point) /\ Len(q) = Len(p)
    <2>1. q = [p EXCEPT ![i] = [p[i] EXCEPT ![2] = level]]
      BY <1>1
    <2> DEFINE x == [p[i] EXCEPT ![2] = level]
    <2> HIDE DEF q, x
    <2> QED
      BY <1>1, <1>2, <2>1, ExceptSeq DEF x
  <1>4. Before(q, l, d) = Before(p, l, d)
    <2> HIDE DEF q
    <2> QED
      BY <1>3 DEF Before
  <1> HIDE DEF q
  <1>5. Fed(f, q, l, d, TRUE)
    BY <1>3, <1>4 DEF Fed
  <1> QED
    BY <1>5 DEF q

(* Who may have revised need not have.                                     *)
LEMMA FedWeaker ==
  ASSUME NEW f, NEW p, NEW l, NEW d, NEW revised, NEW now,
         Fed(f, p, l, d, revised), revised => now
  PROVE  Fed(f, p, l, d, now)
  BY DEF Fed

-----------------------------------------------------------------------------
(* The loop of a poll. *)

Indexed(st, m) == [st EXCEPT !.lastIndex[m] = Len(file[m])]

Lost(m) == {q[1] : q \in ToSet(Fetched(m))}

GivenUp(st, m) == [Indexed(st, m) EXCEPT !.dropped[m] = @ \cup Lost(m)]

Brought(st, m, mo, v, trace) ==
  [Indexed(st, m) EXCEPT !.parent[m] = parent[m] \o Fetched(m), !.mon[m] = mo, !.w = v,
                         !.past[m] = @ \cup trace]

Streamed(st, m) ==
  AppendData(Invalidated(mon[m]), st.w, m, parent[m] \o Fetched(m), Fetched(m), persist)

(* What the poll makes of one monitor: nothing, the samples given up, or   *)
(* the samples brought.                                                    *)
LEMMA ProcessOutcomes ==
  ASSUME NEW st, NEW m \in Monitors, NEW outcome, outcome[m] \in {"ok", "torn", "contended"}
  PROVE  \/ ProcessMonitorTag(st, m, outcome) = st
         \/ outcome[m] = "contended" /\ ProcessMonitorTag(st, m, outcome) = GivenUp(st, m)
         \/ /\ outcome[m] = "ok"
            /\ \E mo, v, trace :
                 /\ ProcessMonitorTag(st, m, outcome) = Brought(st, m, mo, v, trace)
                 /\ v = st.w \/ v = Streamed(st, m).w
                 /\ mo = Invalidated(mon[m]) \/ mo = Streamed(st, m).mon
  <1> DEFINE taken == Indexed(st, m)
             grown == parent[m] \o Fetched(m)
             cold == Invalidated(mon[m])
             Into(got) == [taken EXCEPT !.parent[m] = grown, !.mon[m] = got.mon, !.w = got.w,
                                        !.past[m] = @ \cup RecomputeTrace(m)]
             got == IF cluster /\ WouldEmit(cold, st.w, m, grown)
                    THEN [mon |-> cold, w |-> st.w]
                    ELSE AppendData(cold, st.w, m, grown, Fetched(m), persist)
             idle == ~newer[m] \/ Fetched(m) = <<>> \/ outcome[m] = "torn"
             after == ProcessMonitorTag(st, m, outcome)
  <1>1. CASE idle
    BY <1>1 DEF ProcessMonitorTag
  <1>2. CASE ~idle /\ outcome[m] = "contended"
    <2>1. after = GivenUp(st, m)
      BY <1>2 DEF ProcessMonitorTag, GivenUp, Lost, Indexed
    <2> QED
      BY <1>2, <2>1
  <1>3. CASE ~idle /\ outcome[m] = "ok"
    <2>1. after = Into(got)
      BY <1>3 DEF ProcessMonitorTag, Indexed
    <2>2. Into(got) = Brought(st, m, got.mon, got.w, RecomputeTrace(m))
      BY DEF Brought
    <2> HIDE DEF got, Into, after
    <2>3. after = Brought(st, m, got.mon, got.w, RecomputeTrace(m))
      BY <2>1, <2>2
    <2>4. /\ got.w = st.w \/ got.w = Streamed(st, m).w
          /\ got.mon = Invalidated(mon[m]) \/ got.mon = Streamed(st, m).mon
      BY DEF got, cold, grown, Streamed
    <2>5. \E mo, v, trace : /\ after = Brought(st, m, mo, v, trace)
                            /\ v = st.w \/ v = Streamed(st, m).w
                            /\ mo = Invalidated(mon[m]) \/ mo = Streamed(st, m).mon
      BY <2>3, <2>4
    <2> QED
      BY <1>3, <2>5 DEF after
  <1> HIDE DEF taken, grown, cold, Into, got, after
  <1>4. outcome[m] # "torn" \/ idle
    OBVIOUS
  <1> HIDE DEF idle
  <1> QED
    BY <1>1, <1>2, <1>3, <1>4

(* The fields a poll works on. *)
PollState(l, p, mo, v, d, t) ==
  [lastIndex |-> l, parent |-> p, mon |-> mo, w |-> v, dropped |-> d, past |-> t]

(* Of a monitor in the middle of a poll: it is untouched, or its samples   *)
(* are given up, or they are in the sensor.                                *)
Account(l, p, d, m, outcome) ==
  \/ l = lastIndex[m] /\ p = parent[m] /\ d = dropped[m]
  \/ /\ outcome[m] = "contended"
     /\ l = Len(file[m]) /\ p = parent[m] /\ d = dropped[m] \cup Lost(m)
  \/ /\ outcome[m] = "ok"
     /\ l = Len(file[m]) /\ p = parent[m] \o Fetched(m) /\ d = dropped[m]

PollFits(st, outcome) ==
  \E l, p, mo, v, d, t :
    /\ st = PollState(l, p, mo, v, d, t)
    /\ l = [m \in Monitors |-> l[m]] /\ p = [m \in Monitors |-> p[m]]
    /\ d = [m \in Monitors |-> d[m]] /\ t = [m \in Monitors |-> t[m]]
    /\ \A m \in Monitors : past[m] \subseteq t[m] /\ Account(l[m], p[m], d[m], m, outcome)

LEMMA ProcessFits ==
  ASSUME NEW outcome \in [Monitors -> {"ok", "torn", "contended"}],
         NEW m \in Monitors, NEW st, PollFits(st, outcome)
  PROVE  PollFits(ProcessMonitorTag(st, m, outcome), outcome)
  <1> DEFINE after == ProcessMonitorTag(st, m, outcome)
             n == Len(file[m])
             grown == parent[m] \o Fetched(m)
  <1>1. PICK l, p, mo, v, d, t :
          /\ st = PollState(l, p, mo, v, d, t)
          /\ l = [k \in Monitors |-> l[k]] /\ p = [k \in Monitors |-> p[k]]
          /\ d = [k \in Monitors |-> d[k]] /\ t = [k \in Monitors |-> t[k]]
          /\ \A k \in Monitors : past[k] \subseteq t[k] /\ Account(l[k], p[k], d[k], k, outcome)
    BY DEF PollFits
  <1> DEFINE ln == [l EXCEPT ![m] = n]
  <1>2. Indexed(st, m) = PollState(ln, p, mo, v, d, t)
    BY <1>1 DEF PollState, Indexed
  <1>3. /\ ln = [k \in Monitors |-> ln[k]] /\ ln[m] = n
        /\ \A k \in Monitors : k # m => ln[k] = l[k]
    BY <1>1
  <1> HIDE DEF ln, n
  <1>4. CASE after = st
    BY <1>4
  <1>5. CASE outcome[m] = "contended" /\ after = GivenUp(st, m)
    <2> DEFINE dn == [d EXCEPT ![m] = @ \cup Lost(m)]
    <2>1. after = PollState(ln, p, mo, v, dn, t)
      <3> DEFINE mid == PollState(ln, p, mo, v, d, t)
      <3>1. after = [mid EXCEPT !.dropped[m] = @ \cup Lost(m)]
        BY <1>2, <1>5 DEF GivenUp
      <3> HIDE DEF after
      <3>2. after = [mid EXCEPT !.dropped = dn]
        BY <3>1 DEF PollState
      <3> HIDE DEF dn
      <3> QED
        BY <3>2 DEF PollState
    <2>2. /\ dn = [k \in Monitors |-> dn[k]] /\ dn[m] = d[m] \cup Lost(m)
          /\ \A k \in Monitors : k # m => dn[k] = d[k]
      BY <1>1
    <2> HIDE DEF dn, after, grown
    <2>3. Account(ln[m], p[m], dn[m], m, outcome)
      <3>1. p[m] = parent[m] /\ (d[m] = dropped[m] \/ d[m] = dropped[m] \cup Lost(m))
        BY <1>1, <1>5 DEF Account
      <3> QED
        BY <1>3, <1>5, <2>2, <3>1 DEF Account, n
    <2>4. \A k \in Monitors : Account(ln[k], p[k], dn[k], k, outcome)
      BY <1>1, <1>3, <2>2, <2>3
    <2> QED
      BY <1>1, <1>3, <2>1, <2>2, <2>4 DEF PollFits, after
  <1>6. ASSUME outcome[m] = "ok",
               NEW mm, NEW vv, NEW trace,
               after = Brought(st, m, mm, vv, trace)
        PROVE  PollFits(after, outcome)
    <2> DEFINE pn == [p EXCEPT ![m] = grown]
               tn == [t EXCEPT ![m] = @ \cup trace]
               mn == [mo EXCEPT ![m] = mm]
    <2>1. after = PollState(ln, pn, mn, vv, d, tn)
      <3> DEFINE mid == PollState(ln, p, mo, v, d, t)
      <3>1. after = [mid EXCEPT !.parent[m] = grown, !.mon[m] = mm, !.w = vv,
                                !.past[m] = @ \cup trace]
        BY <1>2, <1>6 DEF Brought
      <3> HIDE DEF after
      <3>2. after = [mid EXCEPT !.parent = pn, !.mon = mn, !.w = vv, !.past = tn]
        <4> HIDE DEF grown
        <4> QED
          BY <3>1 DEF PollState
      <3> HIDE DEF pn, tn, mn
      <3> QED
        BY <3>2 DEF PollState
    <2>2. /\ pn = [k \in Monitors |-> pn[k]] /\ pn[m] = grown
          /\ \A k \in Monitors : k # m => pn[k] = p[k]
      BY <1>1
    <2>3. /\ tn = [k \in Monitors |-> tn[k]]
          /\ \A k \in Monitors : t[k] \subseteq tn[k]
      BY <1>1
    <2> HIDE DEF pn, tn, mn, after
    <2>4. Account(ln[m], pn[m], d[m], m, outcome)
      <3>1. d[m] = dropped[m]
        BY <1>1, <1>6 DEF Account
      <3> QED
        BY <1>3, <1>6, <2>2, <3>1 DEF Account, n
    <2>5. \A k \in Monitors : Account(ln[k], pn[k], d[k], k, outcome)
      BY <1>1, <1>3, <2>2, <2>4
    <2>6. \A k \in Monitors : past[k] \subseteq tn[k]
      BY <1>1, <2>3
    <2> QED
      BY <1>1, <1>3, <2>1, <2>2, <2>3, <2>5, <2>6 DEF PollFits
  <1>7. \/ after = st
        \/ outcome[m] = "contended" /\ after = GivenUp(st, m)
        \/ outcome[m] = "ok" /\ \E mm, vv, trace : after = Brought(st, m, mm, vv, trace)
    <2>1. outcome[m] \in {"ok", "torn", "contended"}
      OBVIOUS
    <2> QED
      BY <2>1, ProcessOutcomes
  <1> HIDE DEF after, grown
  <1> QED
    BY <1>4, <1>5, <1>6, <1>7 DEF after

(* The loop of a poll defines a function over the monitors it has done.    *)
IsPoll(f, n, before, outcome) ==
  f = [i \in 0 .. n |-> IF i = 0 THEN before
                        ELSE ProcessMonitorTag(f[i - 1], Keys[i], outcome)]

LEMMA PollExists ==
  ASSUME NEW before, NEW outcome, NEW n \in Nat
  PROVE  \E f : IsPoll(f, n, before, outcome)
  <1> DEFINE U == {k \in 0 .. n : \E f : IsPoll(f, k, before, outcome)}
  <1>1. 0 \in U
    <2> DEFINE f == [i \in 0 .. 0 |-> before]
    <2>1. f = [i \in 0 .. 0 |-> IF i = 0 THEN before
                                ELSE ProcessMonitorTag(f[i - 1], Keys[i], outcome)]
      OBVIOUS
    <2> HIDE DEF f
    <2>2. IsPoll(f, 0, before, outcome)
      BY <2>1 DEF IsPoll
    <2> QED
      BY <2>2
  <1>2. ASSUME NEW k \in 1 .. n, k - 1 \in U PROVE k \in U
    <2>1. PICK f : IsPoll(f, k - 1, before, outcome)
      BY <1>2
    <2> DEFINE Step(x, i) == ProcessMonitorTag(x, Keys[i], outcome)
               h == [i \in 0 .. k |-> IF i = k THEN Step(f[k - 1], k) ELSE f[i]]
    <2>2. \A i \in 0 .. k - 1 : f[i] = IF i = 0 THEN before ELSE Step(f[i - 1], i)
      BY <2>1 DEF IsPoll
    <2> HIDE DEF Step
    <2>3. ASSUME NEW i \in 0 .. k
          PROVE  h[i] = IF i = 0 THEN before ELSE Step(h[i - 1], i)
      <3>1. /\ k # 0 /\ k - 1 \in 0 .. k /\ k - 1 # k /\ k \in 0 .. k
            /\ h[i] = IF i = k THEN Step(f[k - 1], k) ELSE f[i]
            /\ h[k - 1] = f[k - 1]
        OBVIOUS
      <3>2. CASE i = k
        <4> HIDE DEF h
        <4> QED
          BY <3>1, <3>2
      <3>3. CASE i # k
        <4>1. i \in 0 .. k - 1 /\ (i # 0 => i - 1 \in 0 .. k /\ i - 1 # k)
          BY <3>3
        <4>2. i # 0 => h[i - 1] = f[i - 1]
          BY <4>1
        <4> HIDE DEF h
        <4> QED
          BY <2>2, <3>1, <3>3, <4>1, <4>2
      <3> QED
        BY <3>2, <3>3
    <2>4. h = [i \in 0 .. k |-> h[i]]
      OBVIOUS
    <2> HIDE DEF h
    <2>5. h = [i \in 0 .. k |-> IF i = 0 THEN before ELSE Step(h[i - 1], i)]
      BY <2>3, <2>4
    <2>6. IsPoll(h, k, before, outcome)
      BY <2>5 DEF IsPoll, Step
    <2>7. k \in 0 .. n
      OBVIOUS
    <2> QED
      BY <2>6, <2>7
  <1>3. 0 .. n \subseteq U
    <2> HIDE DEF U
    <2> QED
      BY <1>1, <1>2, UpToInduction
  <1>4. n \in 0 .. n
    OBVIOUS
  <1> QED
    BY <1>3, <1>4

(* What the loop of a poll computes. *)
LEMMA PolledLoop ==
  ASSUME NEW before, NEW outcome
  PROVE  /\ Len(Keys) \in Nat /\ \A i \in 1 .. Len(Keys) : Keys[i] \in Monitors
         /\ \E f : /\ Polled(before, outcome) = f[Len(Keys)] /\ f[0] = before
                   /\ \A i \in 1 .. Len(Keys) :
                        f[i] = ProcessMonitorTag(f[i - 1], Keys[i], outcome)
  <1> DEFINE n == Len(Keys)
             Loop(f) == f = [i \in 0 .. n |-> IF i = 0 THEN before
                                              ELSE ProcessMonitorTag(f[i - 1], Keys[i], outcome)]
             polled == CHOOSE f : Loop(f)
  <1>1. n \in Nat /\ \A i \in 1 .. n : Keys[i] \in Monitors
    <2>1. Keys \in Seq(Monitors)
      BY LiveAssumption DEF LiveAssumption
    <2> QED
      BY <2>1
  <1>2. \E f : Loop(f)
    <2>1. PICK f : IsPoll(f, n, before, outcome)
      BY <1>1, PollExists
    <2>2. Loop(f)
      BY <2>1 DEF IsPoll
    <2> QED
      BY <2>2
  <1>3. Loop(polled)
    <2> HIDE DEF Loop
    <2> QED
      BY <1>2
  <1>4. Polled(before, outcome) = polled[n]
    BY DEF Polled
  <1> HIDE DEF polled
  <1>5. /\ polled[0] = before
        /\ \A i \in 1 .. n : polled[i] = ProcessMonitorTag(polled[i - 1], Keys[i], outcome)
    <2>1. \A i \in 0 .. n : polled[i] = IF i = 0 THEN before
                                        ELSE ProcessMonitorTag(polled[i - 1], Keys[i], outcome)
      <3> HIDE DEF n
      <3> QED
        BY <1>3
    <2>2. 0 \in 0 .. n /\ \A i \in 1 .. n : i \in 0 .. n /\ i # 0
      BY <1>1
    <2> HIDE DEF n
    <2> QED
      BY <2>1, <2>2
  <1> QED
    BY <1>1, <1>4, <1>5

(* A poll leaves every monitor with one of the three outcomes. *)
LEMMA PolledFits ==
  ASSUME NEW outcome \in [Monitors -> {"ok", "torn", "contended"}],
         NEW before, PollFits(before, outcome)
  PROVE  PollFits(Polled(before, outcome), outcome)
  <1> DEFINE n == Len(Keys)
  <1>1. PICK f : /\ Polled(before, outcome) = f[n] /\ f[0] = before
                 /\ \A i \in 1 .. n : f[i] = ProcessMonitorTag(f[i - 1], Keys[i], outcome)
    BY PolledLoop
  <1>2. n \in Nat /\ \A i \in 1 .. n : Keys[i] \in Monitors
    BY PolledLoop
  <1> HIDE DEF n
  <1> DEFINE U == {i \in 0 .. n : PollFits(f[i], outcome)}
  <1>3. 0 \in U
    BY <1>1, <1>2
  <1>4. ASSUME NEW i \in 1 .. n, i - 1 \in U PROVE i \in U
    <2>1. PollFits(f[i - 1], outcome) /\ Keys[i] \in Monitors /\ i \in 0 .. n
      BY <1>2, <1>4
    <2>2. PollFits(ProcessMonitorTag(f[i - 1], Keys[i], outcome), outcome)
      BY <2>1, ProcessFits
    <2> QED
      BY <1>1, <2>1, <2>2
  <1>5. 0 .. n \subseteq U
    <2> HIDE DEF U
    <2> QED
      BY <1>2, <1>3, <1>4, UpToInduction
  <1>6. n \in 0 .. n
    BY <1>2
  <1> QED
    BY <1>1, <1>5, <1>6

-----------------------------------------------------------------------------
(* The invariant. *)

LEMMA PollInit == Init => PollInv
  <1> SUFFICES ASSUME Init PROVE PollInv
    OBVIOUS
  <1>1. PICK s \in Starts : parent = [m \in Monitors |-> Points(s[m].levels, 0)]
    BY DEF Init
  <1>2. /\ file = [m \in Monitors |-> <<>>] /\ lastIndex = [m \in Monitors |-> 0]
        /\ dropped = [m \in Monitors |-> {}] /\ past = [m \in Monitors |-> {}]
    BY DEF Init
  <1>3. ASSUME NEW m \in Monitors
        PROVE  Fed(file[m], parent[m], lastIndex[m], dropped[m], "revised" \in past[m])
    <2>1. s[m].levels \in Seq(Levels)
      BY LiveAssumption DEF LiveAssumption
    <2>2. Fed(<<>>, Points(s[m].levels, 0), 0, {}, FALSE)
      BY <2>1, FedAtStart
    <2>3. /\ file[m] = <<>> /\ parent[m] = Points(s[m].levels, 0) /\ lastIndex[m] = 0
          /\ dropped[m] = {} /\ "revised" \notin past[m]
      BY <1>1, <1>2
    <2> QED
      BY <2>2, <2>3, FedWeaker
  <1>4. \A m \in Monitors : parent[m] \in Seq(Point)
    BY <1>3 DEF Fed
  <1>5. parent \in [Monitors -> Seq(Point)]
    BY <1>1, <1>4
  <1> QED
    BY <1>2, <1>3, <1>5 DEF PollInv

(* Monitor m is accounted for in the next state. *)
FedNext(m) == Fed(file'[m], parent'[m], lastIndex'[m], dropped'[m], "revised" \in past'[m])

LEMMA PollLog ==
  ASSUME PollInv, NEW m \in Monitors, NEW level \in Levels, Log(m, level)
  PROVE  PollInv'
  <1> DEFINE x == <<Samples(m) + 1, level>>
             l == lastIndex[m]
             p == parent[m]
             d == dropped[m]
             f == file[m]
  <1>1. feed = "pipeline" /\ feed' = "pipeline"
    BY DEF Log, config
  <1>2. /\ file' = [file EXCEPT ![m] = Append(@, x)]
        /\ UNCHANGED <<lastIndex, parent, dropped, past>>
    BY DEF Log
  <1>3. /\ file \in [Monitors -> Seq(Point)] /\ parent \in [Monitors -> Seq(Point)]
        /\ lastIndex \in [Monitors -> Nat] /\ dropped \in [Monitors -> SUBSET Nat]
        /\ past = [k \in Monitors |-> past[k]]
        /\ \A k \in Monitors :
             Fed(file[k], parent[k], lastIndex[k], dropped[k], "revised" \in past[k])
    BY <1>1 DEF PollInv
  <1>4. Samples(m) = Before(p, l, d) + Len(f)
    <2>1. /\ l \in Nat /\ Len(f) \in Nat /\ Len(p) \in Nat /\ Cardinality(d) \in Nat
      BY <1>3, FedBounds
    <2> HIDE DEF l, p, f, d
    <2>2. Len(p) + Cardinality(d) + Len(f) - l = Len(p) + Cardinality(d) - l + Len(f)
      BY <2>1
    <2> QED
      BY <2>2 DEF Samples, Before, l, p, f, d
  <1>5. Fed(Append(f, x), p, l, d, "revised" \in past[m])
    <2>1. Fed(f, p, l, d, "revised" \in past[m])
      BY <1>3
    <2> HIDE DEF f, p, l, d
    <2> QED
      BY <1>4, <2>1, FedLogged
  <1>6. file' \in [Monitors -> Seq(Point)]
    <2>1. Append(f, x) \in Seq(Point)
      BY <1>5 DEF Fed
    <2> HIDE DEF x
    <2> QED
      BY <1>2, <1>3, <2>1
  <1>7. ASSUME NEW k \in Monitors PROVE FedNext(k)
    <2> HIDE DEF x
    <2>1. CASE k = m
      <3>1. file'[k] = Append(f, x)
        BY <1>2, <1>3, <2>1
      <3> QED
        BY <1>2, <1>5, <2>1, <3>1 DEF FedNext
    <2>2. CASE k # m
      <3>1. file'[k] = file[k]
        BY <1>2, <1>3, <2>2
      <3> QED
        BY <1>2, <1>3, <3>1 DEF FedNext
    <2> QED
      BY <2>1, <2>2
  <1> QED
    BY <1>2, <1>3, <1>6, <1>7 DEF PollInv, FedNext

(* A step of one monitor, or of the operator, that leaves the feed alone.  *)
LEMMA PollAside ==
  ASSUME PollInv, UNCHANGED <<feed, file, lastIndex, parent, dropped>>,
         past' = [m \in Monitors |-> past'[m]],
         \A m \in Monitors : past[m] \subseteq past'[m]
  PROVE  PollInv'
  <1> SUFFICES ASSUME feed = "pipeline" PROVE PollInv'
    BY DEF PollInv
  <1>1. /\ file \in [Monitors -> Seq(Point)] /\ parent \in [Monitors -> Seq(Point)]
        /\ lastIndex \in [Monitors -> Nat] /\ dropped \in [Monitors -> SUBSET Nat]
        /\ \A k \in Monitors :
             Fed(file[k], parent[k], lastIndex[k], dropped[k], "revised" \in past[k])
    BY DEF PollInv
  <1>2. ASSUME NEW k \in Monitors PROVE FedNext(k)
    <2>1. "revised" \in past[k] => "revised" \in past'[k]
      OBVIOUS
    <2>2. Fed(file[k], parent[k], lastIndex[k], dropped[k], "revised" \in past'[k])
      BY <1>1, <2>1, FedWeaker
    <2> QED
      BY <2>2 DEF FedNext
  <1> QED
    BY <1>1, <1>2 DEF PollInv, FedNext

LEMMA PollRevise ==
  ASSUME PollInv, feed = "pipeline",
         NEW m \in Monitors, NEW i \in DOMAIN parent[m], NEW level \in Levels,
         Revise(m, i, level)
  PROVE  PollInv'
  <1> DEFINE q == [parent[m] EXCEPT ![i][2] = level]
  <1>1. /\ parent' = [parent EXCEPT ![m][i][2] = level]
        /\ past' = [past EXCEPT ![m] = @ \cup {"revised"}]
        /\ UNCHANGED <<feed, file, lastIndex, dropped>>
    BY DEF Revise, Extra, config, source
  <1>2. /\ file \in [Monitors -> Seq(Point)] /\ parent \in [Monitors -> Seq(Point)]
        /\ lastIndex \in [Monitors -> Nat] /\ dropped \in [Monitors -> SUBSET Nat]
        /\ past = [k \in Monitors |-> past[k]]
        /\ \A k \in Monitors :
             Fed(file[k], parent[k], lastIndex[k], dropped[k], "revised" \in past[k])
    BY DEF PollInv
  <1>3. Fed(file[m], q, lastIndex[m], dropped[m], TRUE)
    BY <1>2, FedRevised
  <1>4. parent' = [parent EXCEPT ![m] = q]
    BY <1>1, <1>2
  <1>5. past' = [k \in Monitors |-> past'[k]] /\ "revised" \in past'[m]
    BY <1>1, <1>2
  <1> HIDE DEF q
  <1>6. parent' \in [Monitors -> Seq(Point)]
    <2>1. q \in Seq(Point)
      BY <1>3 DEF Fed
    <2> QED
      BY <1>2, <1>4, <2>1
  <1>7. ASSUME NEW k \in Monitors PROVE FedNext(k)
    <2>1. CASE k = m
      <3>1. parent'[k] = q
        BY <1>2, <1>4, <2>1
      <3>2. "revised" \in past'[k]
        BY <1>5, <2>1
      <3>3. Fed(file[k], q, lastIndex[k], dropped[k], "revised" \in past'[k])
        BY <1>3, <2>1, <3>2, FedWeaker
      <3> QED
        BY <1>1, <3>1, <3>3 DEF FedNext
    <2>2. CASE k # m
      <3>1. parent'[k] = parent[k] /\ past'[k] = past[k]
        BY <1>1, <1>2, <1>4, <2>2
      <3> QED
        BY <1>1, <1>2, <3>1 DEF FedNext
    <2> QED
      BY <2>1, <2>2
  <1> QED
    BY <1>1, <1>2, <1>5, <1>6, <1>7 DEF PollInv, FedNext

LEMMA PollRunCycle ==
  ASSUME PollInv, feed = "pipeline",
         NEW outcome \in [Monitors -> {"ok", "torn", "contended"}], RunCycle(outcome)
  PROVE  PollInv'
  <1> DEFINE before == PollState(lastIndex, parent, mon, w, dropped, past)
             after == Polled(before, outcome)
  <1>1. /\ file \in [Monitors -> Seq(Point)] /\ parent \in [Monitors -> Seq(Point)]
        /\ lastIndex \in [Monitors -> Nat] /\ dropped \in [Monitors -> SUBSET Nat]
        /\ past = [k \in Monitors |-> past[k]]
        /\ \A k \in Monitors :
             Fed(file[k], parent[k], lastIndex[k], dropped[k], "revised" \in past[k])
    BY DEF PollInv
  <1>2. /\ lastIndex' = after.lastIndex /\ parent' = after.parent
        /\ dropped' = after.dropped /\ past' = after.past
        /\ UNCHANGED <<feed, file>>
    BY DEF RunCycle, config, PollState
  <1>3. PollFits(before, outcome)
    <2>1. \A k \in Monitors : Account(lastIndex[k], parent[k], dropped[k], k, outcome)
      BY DEF Account
    <2>2. /\ lastIndex = [k \in Monitors |-> lastIndex[k]]
          /\ parent = [k \in Monitors |-> parent[k]]
          /\ dropped = [k \in Monitors |-> dropped[k]]
      BY <1>1
    <2> QED
      BY <1>1, <2>1, <2>2 DEF PollFits
  <1>4. PollFits(after, outcome)
    <2> HIDE DEF before
    <2> QED
      BY <1>3, PolledFits
  <1> HIDE DEF after
  <1>5. PICK l, p, mo, v, d, t :
          /\ after = PollState(l, p, mo, v, d, t)
          /\ l = [m \in Monitors |-> l[m]] /\ p = [m \in Monitors |-> p[m]]
          /\ d = [m \in Monitors |-> d[m]] /\ t = [m \in Monitors |-> t[m]]
          /\ \A m \in Monitors : past[m] \subseteq t[m] /\ Account(l[m], p[m], d[m], m, outcome)
    BY <1>4 DEF PollFits
  <1>6. lastIndex' = l /\ parent' = p /\ dropped' = d /\ past' = t /\ UNCHANGED <<feed, file>>
    BY <1>2, <1>5 DEF PollState
  <1>7. ASSUME NEW m \in Monitors
        PROVE  Fed(file[m], p[m], l[m], d[m], "revised" \in t[m])
    <2> DEFINE r == "revised" \in past[m]
    <2>1. Fed(file[m], parent[m], lastIndex[m], dropped[m], r)
      BY <1>1
    <2>2. Account(l[m], p[m], d[m], m, outcome) /\ (r => "revised" \in t[m])
      BY <1>5
    <2> HIDE DEF r
    <2>3. Fed(file[m], p[m], l[m], d[m], r)
      <3>1. CASE l[m] = lastIndex[m] /\ p[m] = parent[m] /\ d[m] = dropped[m]
        BY <2>1, <3>1
      <3>2. CASE /\ l[m] = Len(file[m]) /\ p[m] = parent[m]
                 /\ d[m] = dropped[m] \cup Lost(m)
        <4>1. Fed(file[m], parent[m], Len(file[m]), dropped[m] \cup Lost(m), r)
          BY <2>1, FedDropped DEF Lost, Fetched
        <4> QED
          BY <3>2, <4>1
      <3>3. CASE /\ l[m] = Len(file[m]) /\ p[m] = parent[m] \o Fetched(m)
                 /\ d[m] = dropped[m]
        <4>1. Fed(file[m], parent[m] \o Fetched(m), Len(file[m]), dropped[m], r)
          BY <2>1, FedTaken DEF Fetched
        <4> QED
          BY <3>3, <4>1
      <3> QED
        BY <2>2, <3>1, <3>2, <3>3 DEF Account
    <2> QED
      BY <2>2, <2>3 DEF Fed
  <1>8. /\ l \in [Monitors -> Nat] /\ p \in [Monitors -> Seq(Point)]
        /\ d \in [Monitors -> SUBSET Nat]
    <2>1. ASSUME NEW m \in Monitors
          PROVE  l[m] \in Nat /\ p[m] \in Seq(Point) /\ d[m] \in SUBSET Nat
      <3>1. l[m] \in Nat /\ p[m] \in Seq(Point)
        BY <1>7 DEF Fed
      <3>2. Before(p[m], l[m], d[m]) \in Nat
        BY <1>7 DEF Fed
      <3>3. d[m] \subseteq Before(p[m], l[m], d[m]) + 1 .. Before(p[m], l[m], d[m]) + l[m]
        BY <1>7 DEF Fed
      <3>4. d[m] \in SUBSET Nat
        BY <3>1, <3>2, <3>3
      <3> QED
        BY <3>1, <3>4
    <2> QED
      BY <1>5, <2>1
  <1>9. PollInv'
    <2>1. \A m \in Monitors : FedNext(m)
      BY <1>6, <1>7 DEF FedNext
    <2>2. past' = [m \in Monitors |-> past'[m]]
      BY <1>5, <1>6
    <2> QED
      BY <1>1, <1>6, <1>8, <2>1, <2>2 DEF PollInv, FedNext
  <1> QED
    BY <1>9

LEMMA PollNext == PollInv /\ [Next]_vars => PollInv'
  <1> SUFFICES ASSUME PollInv, [Next]_vars PROVE PollInv'
    OBVIOUS
  <1>1. feed' = feed
    BY DEF Next, Log, View, Stream, Update, Revise, SetRule, RunCycle, RemoveEvent,
           EditWindow, Extra, config, vars
  <1>2. CASE feed # "pipeline"
    BY <1>1, <1>2 DEF PollInv
  <1>3. CASE feed = "pipeline"
    <2>1. past = [k \in Monitors |-> past[k]]
      BY <1>3 DEF PollInv
    <2>2. ASSUME NEW m \in Monitors, NEW level \in Levels, Log(m, level) PROVE PollInv'
      BY <2>2, PollLog
    <2>3. ASSUME NEW m \in Monitors, View(m) PROVE PollInv'
      <3>1. UNCHANGED <<feed, file, lastIndex, parent, dropped>>
        BY <2>3 DEF View, config, source
      <3>2. PICK got : past' = [k \in Monitors |->
                past[k] \union EmitTrace(got.w)
                  \union (IF k = m /\ ~(persist /\ ~Stale(mon[m].row, parent[m]))
                          THEN RecomputeTrace(m) ELSE {})]
        BY <2>3 DEF View
      <3>3. past' = [k \in Monitors |-> past'[k]] /\ \A k \in Monitors : past[k] \subseteq past'[k]
        BY <3>2
      <3> QED
        BY <3>1, <3>3, PollAside
    <2>4. ASSUME NEW m \in Monitors, NEW levels, Stream(m, levels) \/ Update(m, levels)
          PROVE  PollInv'
      BY <1>3, <2>4 DEF Stream, Update
    <2>5. ASSUME NEW m \in Monitors, NEW i \in DOMAIN parent[m], NEW level \in Levels,
                 Revise(m, i, level)
          PROVE  PollInv'
      BY <1>3, <2>5, PollRevise
    <2>6. ASSUME NEW m \in Monitors, NEW rule \in Rules, SetRule(m, rule) PROVE PollInv'
      <3>1. /\ UNCHANGED <<feed, file, lastIndex, parent, dropped>>
            /\ past' = [past EXCEPT ![m] = @ \cup {"ruled"}]
        BY <2>6 DEF SetRule, Extra, config, source
      <3>2. past' = [k \in Monitors |-> past'[k]] /\ \A k \in Monitors : past[k] \subseteq past'[k]
        BY <2>1, <3>1
      <3> QED
        BY <3>1, <3>2, PollAside
    <2>7. ASSUME NEW outcome \in [Monitors -> {"ok", "torn", "contended"}], RunCycle(outcome)
          PROVE  PollInv'
      BY <1>3, <2>7, PollRunCycle
    <2>8. ASSUME NEW id, NEW startT, RemoveEvent(id) \/ EditWindow(id, startT) PROVE PollInv'
      <3>1. UNCHANGED <<feed, file, lastIndex, parent, dropped>> /\ past' = Edited
        BY <2>8 DEF RemoveEvent, EditWindow, Extra, config, source
      <3>2. past' = [k \in Monitors |-> past'[k]] /\ \A k \in Monitors : past[k] \subseteq past'[k]
        BY <3>1 DEF Edited
      <3> QED
        BY <3>1, <3>2, PollAside
    <2>9. CASE UNCHANGED vars
      <3>1. UNCHANGED <<feed, file, lastIndex, parent, dropped, past>>
        BY <2>9 DEF vars
      <3> QED
        BY <2>1, <3>1, PollAside
    <2> QED
      BY <2>2, <2>3, <2>4, <2>5, <2>6, <2>7, <2>8, <2>9 DEF Next
  <1> QED
    BY <1>2, <1>3

(* Of every monitor a pipeline feeds, the samples in its file, in its      *)
(* sensor and given up are numbered on without a gap (LiveEventPipeline).  *)
THEOREM LivePollInvariant == Spec => []PollInv
  <1> QED
    BY PollInit, PollNext, PTL DEF Spec

(* Every sample a poll has fetched is in the sensor, once and in order,    *)
(* except those given up because the lock was taken: runCycle and          *)
(* processMonitorTag_, whatever fetch fails and however mtimes stand.      *)
THEOREM LiveSamplesArrive == Spec => []SamplesArrive
  <1>1. PollInv => SamplesArrive
    <2> SUFFICES ASSUME PollInv, feed = "pipeline", NEW m \in Monitors
                 PROVE  LET old == Len(parent[m]) + Cardinality(dropped[m]) - lastIndex[m]
                            taken == Masked(file[m],
                                            {i \in 1..lastIndex[m] : file[m][i][1] \notin dropped[m]})
                        IN  /\ old >= 0
                            /\ "revised" \notin past[m] =>
                                 SubSeq(parent[m], old + 1, Len(parent[m])) = taken
      BY DEF SamplesArrive
    <2>1. Fed(file[m], parent[m], lastIndex[m], dropped[m], "revised" \in past[m])
      BY DEF PollInv
    <2> QED
      BY <2>1 DEF Fed, Before, Kept
  <1> QED
    BY <1>1, LivePollInvariant, PTL

-----------------------------------------------------------------------------
(* Ids. *)

IsList(s) == s \in Seq(ToSet(s))

IsEvent(e) ==
  e = [mon |-> e.mon, start |-> e.start, end |-> e.end, open |-> e.open, id |-> e.id]

IsStore(s) == s = [list |-> s.list, nextId |-> s.nextId]

IsWorld(v) ==
  /\ v = [events |-> v.events, store |-> v.store, own |-> v.own, bound |-> v.bound]
  /\ IsStore(v.store) /\ IsStore(v.own)
  /\ IsList(v.events) /\ \A h \in 1 .. Len(v.events) : IsEvent(v.events[h])
  /\ v.store.list \in Seq(1 .. Len(v.events))
  /\ v.store.nextId \in Nat /\ v.own.nextId \in Nat

(* Every event, listed or not, has an id of its own that the store has     *)
(* given out; so has every binding, and an event that has the id of a      *)
(* binding belongs to its tag.                                             *)
Named(v) ==
  /\ \A h \in 1 .. Len(v.events) : v.events[h].id \in 1 .. v.store.nextId
  /\ \A g, h \in 1 .. Len(v.events) : v.events[g].id = v.events[h].id => g = h
  /\ \A b \in v.bound :
       /\ b[1] \in 1 .. v.store.nextId
       /\ \A h \in 1 .. Len(v.events) : v.events[h].id = b[1] => v.events[h].mon = b[2]

Sound(v) == IsWorld(v) /\ Named(v)

(* The store has numbered the events in the order they were made. *)
InOrder(v) ==
  /\ v.store.nextId = Len(v.events)
  /\ \A h \in 1 .. Len(v.events) : v.events[h].id = h

NotApart == \A m \in Monitors : "numbered apart" \notin past[m]

IdInv ==
  /\ feed \in {"pipeline", "stream"} /\ sharing \in {"none", "own", "store"}
  /\ parent \in [Monitors -> Seq(Point)]
  /\ past = [m \in Monitors |-> past[m]]
  /\ NotApart =>
       /\ Sound(w)
       /\ sharing = "own" /\ feed = "pipeline" =>
            InOrder(w) /\ w.own.nextId = Len(w.events)

LEMMA ListFacts ==
  ASSUME NEW S, NEW s \in Seq(S)
  PROVE  IsList(s)
  <1>1. s = [i \in 1 .. Len(s) |-> s[i]] /\ Len(s) \in Nat /\ DOMAIN s = 1 .. Len(s)
    OBVIOUS
  <1>2. \A i \in 1 .. Len(s) : s[i] \in ToSet(s)
    BY <1>1 DEF ToSet
  <1>3. s \in [1 .. Len(s) -> ToSet(s)]
    BY <1>1, <1>2
  <1> QED
    BY <1>1, <1>3 DEF IsList

LEMMA ListAppend ==
  ASSUME NEW s, IsList(s), NEW e
  PROVE  /\ IsList(Append(s, e)) /\ Len(s) \in Nat /\ Len(Append(s, e)) = Len(s) + 1
         /\ Append(s, e)[Len(s) + 1] = e
         /\ \A i \in 1 .. Len(s) : Append(s, e)[i] = s[i]
  <1> DEFINE S == ToSet(s) \cup {e}
  <1>1. s \in Seq(S)
    <2>1. s \in Seq(ToSet(s)) /\ ToSet(s) \subseteq S
      BY DEF IsList
    <2> HIDE DEF S
    <2> QED
      BY <2>1, SeqMonotonic
  <1>2. e \in S
    OBVIOUS
  <1> HIDE DEF S
  <1>3. /\ Append(s, e) \in Seq(S) /\ Len(s) \in Nat /\ Len(Append(s, e)) = Len(s) + 1
        /\ Append(s, e)[Len(s) + 1] = e
        /\ \A i \in 1 .. Len(s) : Append(s, e)[i] = s[i]
    BY <1>1, <1>2, AppendProperties
  <1>4. IsList(Append(s, e))
    BY <1>3, ListFacts
  <1> QED
    BY <1>3, <1>4

LEMMA LastRewritten ==
  ASSUME NEW s, IsList(s), NEW x, NEW y
  PROVE  [Append(s, x) EXCEPT ![Len(s) + 1] = y] = Append(s, y)
  <1> DEFINE n == Len(s) + 1
             t == Append(s, x)
             u == Append(s, y)
  <1>1. /\ IsList(t) /\ Len(t) = n /\ \A i \in 1 .. Len(s) : t[i] = s[i]
        /\ IsList(u) /\ Len(u) = n /\ u[n] = y /\ \A i \in 1 .. Len(s) : u[i] = s[i]
        /\ Len(s) \in Nat
    BY ListAppend
  <1> HIDE DEF t, u
  <1>2. DOMAIN t = 1 .. n /\ u = [i \in 1 .. n |-> u[i]]
    <2>1. t \in Seq(ToSet(t)) /\ u \in Seq(ToSet(u))
      BY <1>1 DEF IsList
    <2> HIDE DEF n
    <2> QED
      BY <1>1, <2>1
  <1>3. [t EXCEPT ![n] = y] = [i \in 1 .. n |-> IF i = n THEN y ELSE t[i]]
    BY <1>2
  <1>4. \A i \in 1 .. n : u[i] = IF i = n THEN y ELSE t[i]
    <2>1. \A i \in 1 .. n : i = n \/ i \in 1 .. Len(s)
      BY <1>1
    <2> QED
      BY <1>1, <2>1
  <1>5. [t EXCEPT ![n] = y] = u
    BY <1>2, <1>3, <1>4
  <1> QED
    BY <1>5 DEF t, u

(* u is v after further events: they are numbered and listed in the order  *)
(* they were made, and what was there keeps its place.                     *)
Extends(v, u) ==
  /\ Sound(u)
  /\ Len(v.events) <= Len(u.events)
  /\ u.own = v.own
  /\ InOrder(v) => InOrder(u)
  /\ Len(u.store.list) - Len(v.store.list) = Len(u.events) - Len(v.events)
  /\ \A i \in 1 .. Len(v.store.list) : u.store.list[i] = v.store.list[i]
  /\ \A i \in 1 .. Len(u.events) - Len(v.events) :
       u.store.list[Len(v.store.list) + i] = Len(v.events) + i

LEMMA SoundLengths ==
  ASSUME NEW v, Sound(v)
  PROVE  /\ Len(v.events) \in Nat /\ Len(v.store.list) \in Nat
         /\ v.store.nextId \in Nat /\ v.own.nextId \in Nat
         /\ DOMAIN v.store.list = 1 .. Len(v.store.list)
  <1>1. v.events \in Seq(ToSet(v.events)) /\ v.store.list \in Seq(1 .. Len(v.events))
    BY DEF Sound, IsWorld, IsList
  <1> QED
    BY <1>1 DEF Sound, IsWorld

LEMMA ExtendsItself ==
  ASSUME NEW v, Sound(v)
  PROVE  Extends(v, v)
  BY SoundLengths DEF Extends

LEMMA ExtendsFurther ==
  ASSUME NEW v, NEW u, NEW t, Sound(v), Extends(v, u), Extends(u, t)
  PROVE  Extends(v, t)
  <1>1. /\ Len(v.events) \in Nat /\ Len(u.events) \in Nat /\ Len(t.events) \in Nat
        /\ Len(v.store.list) \in Nat /\ Len(u.store.list) \in Nat /\ Len(t.store.list) \in Nat
    BY SoundLengths DEF Extends
  <1> DEFINE a == Len(v.events)   b == Len(u.events)   c == Len(t.events)
             k == Len(v.store.list)   l == Len(u.store.list)   n == Len(t.store.list)
  <1>2. /\ a <= b /\ b <= c /\ l - k = b - a /\ n - l = c - b
        /\ \A i \in 1 .. k : u.store.list[i] = v.store.list[i]
        /\ \A i \in 1 .. b - a : u.store.list[k + i] = a + i
        /\ \A i \in 1 .. l : t.store.list[i] = u.store.list[i]
        /\ \A i \in 1 .. c - b : t.store.list[l + i] = b + i
    BY DEF Extends
  <1>3. /\ a \in Nat /\ b \in Nat /\ c \in Nat /\ k \in Nat /\ l \in Nat /\ n \in Nat
    BY <1>1
  <1> HIDE DEF a, b, c, k, l, n
  <1>4. a <= c /\ n - k = c - a
    BY <1>2, <1>3
  <1>5. \A i \in 1 .. k : t.store.list[i] = v.store.list[i]
    <2>1. \A i \in 1 .. k : i \in 1 .. l
      BY <1>2, <1>3
    <2> QED
      BY <1>2, <2>1
  <1>6. ASSUME NEW i \in 1 .. c - a PROVE t.store.list[k + i] = a + i
    <2>1. CASE i \in 1 .. b - a
      <3>1. k + i \in 1 .. l
        BY <1>2, <1>3, <2>1
      <3> QED
        BY <1>2, <2>1, <3>1
    <2>2. CASE i \notin 1 .. b - a
      <3> DEFINE j == i - (b - a)
      <3>1. j \in 1 .. c - b /\ l + j = k + i /\ b + j = a + i
        BY <1>2, <1>3, <2>2
      <3> HIDE DEF j
      <3>2. t.store.list[l + j] = b + j
        BY <1>2, <3>1
      <3> QED
        BY <3>1, <3>2
    <2> QED
      BY <2>1, <2>2
  <1>7. Sound(t) /\ t.own = v.own /\ (InOrder(v) => InOrder(t))
    BY DEF Extends
  <1> QED
    BY <1>4, <1>5, <1>6, <1>7 DEF Extends, a, b, c, k, l, n

(* The fields of a world. *)
World(events, list, nextId, own, bound) ==
  [events |-> events, store |-> [list |-> list, nextId |-> nextId], own |-> own,
   bound |-> bound]

LEMMA WorldFields ==
  ASSUME NEW v, IsWorld(v)
  PROVE  v = World(v.events, v.store.list, v.store.nextId, v.own, v.bound)
  BY DEF IsWorld, IsStore, World

(* What the updates of a world do to its fields. *)
LEMMA WorldStored ==
  ASSUME NEW events, NEW list, NEW nextId, NEW own, NEW bound, NEW v, NEW h,
         v = World(events, list, nextId, own, bound)
  PROVE  Stored(v, "store", h)
           = World([events EXCEPT ![h].id = nextId + 1], Append(list, h), nextId + 1, own, bound)
  <1>1. PICK v1 : v1 = [v EXCEPT !["store"].nextId = @ + 1]
    OBVIOUS
  <1>2. v1 = World(events, list, nextId + 1, own, bound) /\ v["store"].nextId = nextId
    BY <1>1 DEF World
  <1>3. PICK v2 : v2 = [v1 EXCEPT !["store"].list = Append(@, h)]
    OBVIOUS
  <1>4. v2 = World(events, Append(list, h), nextId + 1, own, bound)
    BY <1>2, <1>3 DEF World
  <1>5. PICK v3 : v3 = [v2 EXCEPT !.events[h].id = nextId + 1]
    OBVIOUS
  <1>6. v3 = World([events EXCEPT ![h].id = nextId + 1], Append(list, h), nextId + 1, own, bound)
    BY <1>4, <1>5 DEF World
  <1>7. Stored(v, "store", h) = v3
    <2>1. Stored(v, "store", h)
            = [[[v EXCEPT !["store"].nextId = @ + 1] EXCEPT !["store"].list = Append(@, h)]
                 EXCEPT !.events[h].id = v["store"].nextId + 1]
      BY DEF Stored
    <2>2. Stored(v, "store", h)
            = [[v1 EXCEPT !["store"].list = Append(@, h)] EXCEPT !.events[h].id = nextId + 1]
      BY <1>1, <1>2, <2>1
    <2> QED
      BY <1>3, <1>5, <2>2
  <1> QED
    BY <1>6, <1>7

LEMMA EmitExtends ==
  ASSUME NEW v, NEW m, NEW startT, NEW endT, NEW open, Sound(v)
  PROVE  Extends(v, Emit(v, m, startT, endT, open))
  <1> DEFINE n == Len(v.events)
             h == n + 1
             e0 == [mon |-> m, start |-> startT, end |-> endT, open |-> open, id |-> 0]
             e == [mon |-> m, start |-> startT, end |-> endT, open |-> open,
                   id |-> v.store.nextId + 1]
             u == World(Append(v.events, e), Append(v.store.list, h), v.store.nextId + 1,
                        v.own, v.bound \cup {<<v.store.nextId + 1, m>>})
  <1>1. /\ n \in Nat /\ Len(v.store.list) \in Nat /\ v.store.nextId \in Nat
        /\ v.own.nextId \in Nat
    BY SoundLengths
  <1>2. IsList(v.events) /\ v.store.list \in Seq(1 .. n) /\ IsWorld(v) /\ IsStore(v.own)
    BY DEF Sound, IsWorld
  <1>3. v = World(v.events, v.store.list, v.store.nextId, v.own, v.bound)
    BY <1>2, WorldFields
  <1>4. Emit(v, m, startT, endT, open) = u
    <2>1. [v EXCEPT !.events = Append(@, e0)]
            = World(Append(v.events, e0), v.store.list, v.store.nextId, v.own, v.bound)
      <3> DEFINE evs == v.events   lst == v.store.list   num == v.store.nextId
                 own == v.own   bound == v.bound
      <3>1. v = World(evs, lst, num, own, bound)
        BY <1>3
      <3> HIDE DEF evs, lst, num, own, bound, e0
      <3>2. [v EXCEPT !.events = Append(v.events, e0)] = World(Append(v.events, e0), lst, num, own, bound)
        BY <3>1 DEF World
      <3> QED
        BY <3>2 DEF lst, num, own, bound
    <2> DEFINE made == World(Append(v.events, e0), v.store.list, v.store.nextId, v.own, v.bound)
               done == World([Append(v.events, e0) EXCEPT ![h] = e],
                             Append(v.store.list, h), v.store.nextId + 1, v.own, v.bound)
    <2>2. Append(v.events, e0)[h] = e0
      BY <1>2, ListAppend
    <2>3. Stored(made, "store", h) = done
      <3>1. [Append(v.events, e0) EXCEPT ![h].id = v.store.nextId + 1]
              = [Append(v.events, e0) EXCEPT ![h] = e]
        <4> DEFINE evs == Append(v.events, e0)   num == v.store.nextId
        <4>1. [e0 EXCEPT !.id = num + 1] = e
          OBVIOUS
        <4>2. evs[h] = e0
          BY <2>2
        <4> HIDE DEF evs, num, h, e0, e
        <4>3. [evs EXCEPT ![h].id = num + 1] = [evs EXCEPT ![h] = e]
          BY ONLY <4>1, <4>2
        <4> QED
          BY <4>3 DEF evs, num
      <3> DEFINE evs == Append(v.events, e0)   lst == v.store.list   num == v.store.nextId
                 own == v.own   bound == v.bound
      <3>2. Stored(World(evs, lst, num, own, bound), "store", h)
              = World([evs EXCEPT ![h].id = num + 1], Append(lst, h), num + 1, own, bound)
        <4> HIDE DEF evs, lst, num, own, bound, h
        <4> QED
          BY WorldStored
      <3> HIDE DEF e0, h, e
      <3> QED
        BY <3>1, <3>2
    <2>4. [Append(v.events, e0) EXCEPT ![h] = e] = Append(v.events, e)
      <3> HIDE DEF e, e0
      <3> QED
        BY <1>2, LastRewritten
    <2>5. LastId(v) = v.store.nextId
      BY DEF LastId
    <2>6. Emit(v, m, startT, endT, open)
            = [Stored([v EXCEPT !.events = Append(@, e0)], "store", h)
                 EXCEPT !.bound = @ \cup {<<v.store.nextId + 1, m>>}]
      BY DEF Emit
    <2> HIDE DEF e, e0, h
    <2>7. Emit(v, m, startT, endT, open)
            = [done EXCEPT !.bound = @ \cup {<<v.store.nextId + 1, m>>}]
      BY <2>1, <2>3, <2>6
    <2> QED
      BY <2>4, <2>7 DEF World
  <1> DEFINE evs == Append(v.events, e)   lst == Append(v.store.list, h)
             num == v.store.nextId
  <1>5. /\ IsList(evs) /\ Len(evs) = n + 1 /\ evs[n + 1] = e
        /\ \A i \in 1 .. n : evs[i] = v.events[i]
    <2> HIDE DEF e
    <2> QED
      BY <1>2, ListAppend
  <1>6. /\ lst \in Seq(1 .. n + 1) /\ Len(lst) = Len(v.store.list) + 1
        /\ lst[Len(v.store.list) + 1] = n + 1
        /\ \A i \in 1 .. Len(v.store.list) : lst[i] = v.store.list[i]
    <2>1. v.store.list \in Seq(1 .. n + 1) /\ n + 1 \in 1 .. n + 1
      <3> DEFINE A == 1 .. n   B == 1 .. n + 1
      <3>1. A \subseteq B /\ n + 1 \in B
        BY <1>1
      <3>2. v.store.list \in Seq(A)
        BY <1>2
      <3>3. v.store.list \in Seq(B)
        <4> HIDE DEF A, B
        <4> QED
          BY <3>1, <3>2, SeqMonotonic
      <3> QED
        BY <3>1, <3>3
    <2> HIDE DEF n
    <2> QED
      BY <2>1, AppendProperties
  <1>7. /\ u.events = evs /\ u.store.list = lst /\ u.store.nextId = num + 1 /\ u.own = v.own
        /\ u.bound = v.bound \cup {<<num + 1, m>>}
        /\ u = [events |-> u.events, store |-> u.store, own |-> u.own, bound |-> u.bound]
        /\ IsStore(u.store)
    <2> HIDE DEF evs, lst, num
    <2> QED
      BY DEF World, IsStore, evs, lst, num
  <1>8. e.id = num + 1 /\ e.mon = m /\ IsEvent(e)
    BY DEF IsEvent
  <1>9. /\ \A i \in 1 .. n : v.events[i].id \in 1 .. num /\ IsEvent(v.events[i])
        /\ \A g, i \in 1 .. n : v.events[g].id = v.events[i].id => g = i
        /\ \A b \in v.bound :
             /\ b[1] \in 1 .. num
             /\ \A i \in 1 .. n : v.events[i].id = b[1] => v.events[i].mon = b[2]
    BY DEF Sound, Named, IsWorld
  <1>10. num \in Nat /\ n \in Nat
    BY <1>1
  <1>11. \A i \in 1 .. n + 1 : i = n + 1 \/ i \in 1 .. n
    BY <1>10
  <1> HIDE DEF u, evs, lst, num, e, n
  <1>12. IsWorld(u)
    <2>1. \A i \in 1 .. n + 1 : IsEvent(evs[i])
      BY <1>5, <1>8, <1>9, <1>11
    <2>2. num + 1 \in Nat
      BY <1>10
    <2> QED
      BY <1>1, <1>2, <1>5, <1>6, <1>7, <2>1, <2>2 DEF IsWorld
  <1>13. Named(u)
    <2>1. \A i \in 1 .. n + 1 : evs[i].id = num + 1 \/ (i \in 1 .. n /\ evs[i].id \in 1 .. num)
      BY <1>5, <1>8, <1>9, <1>11
    <2>2. \A i \in 1 .. n + 1 : evs[i].id \in 1 .. num + 1
      BY <1>10, <2>1
    <2>3. \A g, i \in 1 .. n + 1 : evs[g].id = evs[i].id => g = i
      <3> SUFFICES ASSUME NEW g \in 1 .. n + 1, NEW i \in 1 .. n + 1, evs[g].id = evs[i].id
                   PROVE  g = i
        OBVIOUS
      <3>1. num + 1 \notin 1 .. num
        BY <1>10
      <3>2. CASE g \in 1 .. n /\ i \in 1 .. n
        BY <1>5, <1>9, <3>2
      <3>3. CASE g = n + 1 /\ i \in 1 .. n
        BY <1>5, <1>8, <1>9, <3>1, <3>3
      <3>4. CASE g \in 1 .. n /\ i = n + 1
        BY <1>5, <1>8, <1>9, <3>1, <3>4
      <3> QED
        BY <1>11, <3>2, <3>3, <3>4
    <2>4. ASSUME NEW b \in u.bound
          PROVE  /\ b[1] \in 1 .. num + 1
                 /\ \A i \in 1 .. n + 1 : evs[i].id = b[1] => evs[i].mon = b[2]
      <3>1. num + 1 \notin 1 .. num /\ \A x \in 1 .. num : x \in 1 .. num + 1
        BY <1>10
      <3>2. CASE b \in v.bound
        BY <1>5, <1>8, <1>9, <1>11, <3>1, <3>2
      <3>3. CASE b = <<num + 1, m>>
        <4>1. b[1] = num + 1 /\ b[2] = m /\ num + 1 \in 1 .. num + 1
          BY <1>10, <3>3
        <4> QED
          BY <1>5, <1>8, <1>9, <1>11, <3>1, <4>1
      <3> QED
        BY <1>7, <3>2, <3>3
    <2> QED
      BY <1>5, <1>7, <2>2, <2>3, <2>4 DEF Named
  <1>14. InOrder(v) => InOrder(u)
    <2> SUFFICES ASSUME InOrder(v) PROVE InOrder(u)
      OBVIOUS
    <2>1. num = n /\ \A i \in 1 .. n : v.events[i].id = i
      BY DEF InOrder, num, n
    <2>2. \A i \in 1 .. n + 1 : evs[i].id = i
      BY <1>5, <1>8, <1>11, <2>1
    <2> QED
      BY <1>5, <1>7, <2>1, <2>2 DEF InOrder
  <1>15. /\ n <= n + 1 /\ (Len(v.store.list) + 1) - Len(v.store.list) = (n + 1) - n
         /\ \A i \in 1 .. (n + 1) - n : i = 1
    BY <1>1, <1>10
  <1>16. Extends(v, u)
    <2>1. \A i \in 1 .. (n + 1) - n : lst[Len(v.store.list) + i] = n + i
      BY <1>6, <1>15
    <2> QED
      BY <1>5, <1>6, <1>7, <1>12, <1>13, <1>14, <1>15, <2>1 DEF Extends, Sound, n
  <1> QED
    BY <1>4, <1>16

LEMMA FunctionIsList ==
  ASSUME NEW n \in Nat, NEW s, s = [i \in 1 .. n |-> s[i]]
  PROVE  IsList(s) /\ Len(s) = n
  <1> DEFINE S == {s[i] : i \in 1 .. n}
  <1>1. s \in [1 .. n -> S]
    OBVIOUS
  <1>2. s \in Seq(S) /\ Len(s) = n
    <2> HIDE DEF S
    <2> QED
      BY ONLY <1>1, n \in Nat
  <1> QED
    BY <1>2, ListFacts

(* Events may be changed in everything but id and monitor. *)
LEMMA RetouchedExtends ==
  ASSUME NEW v, Sound(v), NEW ev, NEW u,
         IsList(ev), Len(ev) = Len(v.events),
         \A h \in 1 .. Len(v.events) :
           IsEvent(ev[h]) /\ ev[h].id = v.events[h].id /\ ev[h].mon = v.events[h].mon,
         u = World(ev, v.store.list, v.store.nextId, v.own, v.bound)
  PROVE  Extends(v, u)
  <1> DEFINE n == Len(v.events)
  <1>1. n \in Nat /\ Len(v.store.list) \in Nat
    BY SoundLengths
  <1>2. IsList(ev) /\ Len(ev) = n
    OBVIOUS
  <1>3. /\ u.events = ev /\ u.store.list = v.store.list /\ u.store.nextId = v.store.nextId
        /\ u.own = v.own /\ u.bound = v.bound /\ IsStore(u.store)
        /\ u = [events |-> u.events, store |-> u.store, own |-> u.own, bound |-> u.bound]
    BY DEF World, IsStore
  <1>4. IsWorld(v) /\ Named(v)
    BY DEF Sound
  <1>5. IsWorld(u)
    BY <1>2, <1>3, <1>4 DEF IsWorld
  <1>6. Named(u)
    <2>1. /\ \A h \in 1 .. n : v.events[h].id \in 1 .. v.store.nextId
          /\ \A g, h \in 1 .. n : v.events[g].id = v.events[h].id => g = h
          /\ \A b \in v.bound :
               /\ b[1] \in 1 .. v.store.nextId
               /\ \A h \in 1 .. n : v.events[h].id = b[1] => v.events[h].mon = b[2]
      BY <1>4 DEF Named
    <2>2. \A h \in 1 .. n : ev[h].id = v.events[h].id /\ ev[h].mon = v.events[h].mon
      OBVIOUS
    <2> HIDE DEF n
    <2>3. /\ \A h \in 1 .. n : ev[h].id \in 1 .. v.store.nextId
          /\ \A g, h \in 1 .. n : ev[g].id = ev[h].id => g = h
          /\ \A b \in v.bound :
               /\ b[1] \in 1 .. v.store.nextId
               /\ \A h \in 1 .. n : ev[h].id = b[1] => ev[h].mon = b[2]
      BY ONLY <2>1, <2>2
    <2> QED
      BY ONLY <1>2, <1>3, <2>3 DEF Named
  <1>7. InOrder(v) => InOrder(u)
    BY <1>2, <1>3 DEF InOrder
  <1>8. 1 .. n - n = {}
    BY <1>1
  <1>9. Len(v.store.list) - Len(v.store.list) = n - n
    BY <1>1
  <1> QED
    BY ONLY <1>1, <1>2, <1>3, <1>5, <1>6, <1>7, <1>8, <1>9 DEF Extends, Sound, n

LEMMA CloseExtends ==
  ASSUME NEW v, Sound(v), NEW id, NEW endT
  PROVE  Extends(v, CloseEvent(v, id, endT))
  <1>1. CASE WithId(v, id) = {} \/ ~v.events[FirstWith(v, id)].open
    BY <1>1, ExtendsItself DEF CloseEvent
  <1>2. CASE ~(WithId(v, id) = {} \/ ~v.events[FirstWith(v, id)].open)
    <2> DEFINE f == FirstWith(v, id)
               n == Len(v.events)
               Shut(e) == [[e EXCEPT !.open = FALSE] EXCEPT !.end = endT]
               ev == [h \in 1 .. n |-> IF h = f THEN Shut(v.events[h]) ELSE v.events[h]]
               lst == v.store.list   num == v.store.nextId   own == v.own   bound == v.bound
    <2>1. v = World(v.events, lst, num, own, bound)
      BY WorldFields DEF Sound
    <2>2. DOMAIN v.events = 1 .. n /\ v.events = [h \in 1 .. n |-> v.events[h]]
      <3>1. v.events \in Seq(ToSet(v.events))
        BY DEF Sound, IsWorld, IsList
      <3> QED
        BY <3>1
    <2>3. CloseEvent(v, id, endT)
            = [[v EXCEPT !.events[f].open = FALSE] EXCEPT !.events[f].end = endT]
      BY <1>2 DEF CloseEvent
    <2> DEFINE evs == v.events
    <2> HIDE DEF f, lst, num, own, bound, evs
    <2>4. CloseEvent(v, id, endT)
            = World([[evs EXCEPT ![f].open = FALSE] EXCEPT ![f].end = endT], lst, num, own, bound)
      <3>1. v = World(evs, lst, num, own, bound)
        BY <2>1 DEF evs
      <3>2. PICK v1 : v1 = [v EXCEPT !.events[f].open = FALSE]
        OBVIOUS
      <3>3. v1 = World([evs EXCEPT ![f].open = FALSE], lst, num, own, bound)
        BY <3>1, <3>2 DEF World
      <3>4. PICK v2 : v2 = [v1 EXCEPT !.events[f].end = endT]
        OBVIOUS
      <3>5. v2 = World([[evs EXCEPT ![f].open = FALSE] EXCEPT ![f].end = endT],
                       lst, num, own, bound)
        BY <3>3, <3>4 DEF World
      <3>6. CloseEvent(v, id, endT) = v2
        BY <2>3, <3>2, <3>4
      <3> QED
        BY <3>5, <3>6
    <2>5. [[evs EXCEPT ![f].open = FALSE] EXCEPT ![f].end = endT] = ev
      <3>1. DOMAIN evs = 1 .. n
        BY <2>2 DEF evs
      <3>2. ev = [h \in 1 .. n |-> IF h = f THEN Shut(evs[h]) ELSE evs[h]]
        BY DEF evs
      <3> HIDE DEF n
      <3>3. PICK e1 : e1 = [evs EXCEPT ![f] = [evs[f] EXCEPT !.open = FALSE]]
        OBVIOUS
      <3>4. e1 = [h \in 1 .. n |-> IF h = f THEN [evs[f] EXCEPT !.open = FALSE] ELSE evs[h]]
        BY <3>1, <3>3
      <3>5. PICK e2 : e2 = [e1 EXCEPT ![f] = [e1[f] EXCEPT !.end = endT]]
        OBVIOUS
      <3>6. e2 = [h \in 1 .. n |-> IF h = f THEN [e1[f] EXCEPT !.end = endT] ELSE e1[h]]
        BY <3>4, <3>5
      <3>7. \A h \in 1 .. n : (IF h = f THEN [e1[f] EXCEPT !.end = endT] ELSE e1[h])
                              = IF h = f THEN Shut(evs[h]) ELSE evs[h]
        BY <3>4
      <3>8. e2 = ev
        <4> HIDE DEF ev, Shut
        <4> QED
          BY <3>2, <3>6, <3>7
      <3> QED
        BY <3>3, <3>5, <3>8
    <2>6. ASSUME NEW e, IsEvent(e)
          PROVE  IsEvent(Shut(e)) /\ Shut(e).id = e.id /\ Shut(e).mon = e.mon
      <3>1. PICK a, b, c, d, x :
              e = [mon |-> a, start |-> b, end |-> c, open |-> d, id |-> x]
        BY <2>6 DEF IsEvent
      <3>2. PICK e1 : e1 = [e EXCEPT !.open = FALSE]
        OBVIOUS
      <3>3. e1 = [mon |-> a, start |-> b, end |-> c, open |-> FALSE, id |-> x]
        BY ONLY <3>1, <3>2
      <3>4. PICK e2 : e2 = [e1 EXCEPT !.end = endT]
        OBVIOUS
      <3>5. e2 = [mon |-> a, start |-> b, end |-> endT, open |-> FALSE, id |-> x]
        BY ONLY <3>3, <3>4
      <3>6. Shut(e) = [mon |-> a, start |-> b, end |-> endT, open |-> FALSE, id |-> x]
        BY <3>2, <3>4, <3>5
      <3> HIDE DEF Shut
      <3> QED
        BY <3>1, <3>6 DEF IsEvent
    <2>7. \A h \in 1 .. n : IsEvent(v.events[h])
      BY DEF Sound, IsWorld
    <2> HIDE DEF Shut
    <2>8. \A h \in 1 .. n : IsEvent(ev[h]) /\ ev[h].id = v.events[h].id /\ ev[h].mon = v.events[h].mon
      BY <2>6, <2>7
    <2>9. IsList(ev) /\ Len(ev) = n
      <3>1. n \in Nat
        BY SoundLengths
      <3>2. ev = [h \in 1 .. n |-> ev[h]]
        OBVIOUS
      <3> HIDE DEF ev, n
      <3> QED
        BY <3>1, <3>2, FunctionIsList
    <2>10. CloseEvent(v, id, endT) = World(ev, v.store.list, v.store.nextId, v.own, v.bound)
      BY <2>4, <2>5 DEF lst, num, own, bound
    <2> HIDE DEF ev
    <2> QED
      BY <2>8, <2>9, <2>10, RetouchedExtends
  <1> QED
    BY <1>1, <1>2

(* The signal has one value for each point. *)
LEMMA SignalDomain ==
  ASSUME NEW pts, NEW rule, NEW hyst, NEW carry
  PROVE  DOMAIN Signal(pts, rule, hyst, carry).bin = DOMAIN pts
  <1> DEFINE raw == Hysteresis(pts, rule, hyst)
             deb == Debounced(pts, raw.bin, rule.minDur, carry)
  <1>1. DOMAIN raw.bin = DOMAIN pts
    BY DEF Hysteresis
  <1>2. ASSUME NEW bin PROVE DOMAIN Debounced(pts, bin, rule.minDur, carry).bin = DOMAIN bin
    BY DEF Debounced
  <1>3. DOMAIN deb.bin = DOMAIN raw.bin
    <2> HIDE DEF raw
    <2> QED
      BY <1>2
  <1>4. Signal(pts, rule, hyst, carry) = [bin |-> deb.bin, hyst |-> raw.hyst, ongoing |-> deb.ongoing]
    BY DEF Signal
  <1> HIDE DEF raw, deb
  <1> QED
    BY <1>1, <1>3, <1>4

LEMMA RunsList ==
  ASSUME NEW n \in Nat, NEW bin, DOMAIN bin = 1 .. n
  PROVE  /\ IsList(Runs(bin)) /\ Len(Runs(bin)) \in Nat
         /\ Runs(bin) # <<>> => Len(Runs(bin)) >= 1
  <1> DEFINE ids == [i \in DOMAIN bin |-> i]
             mask == {i \in DOMAIN bin : bin[i] /\ (i > 1 => ~bin[i - 1])}
             starts == Masked(ids, mask)
             EndOf(s) == Min({e \in s..Len(bin) : e = Len(bin) \/ ~bin[e + 1]})
             runs == [k \in DOMAIN starts |-> <<starts[k], EndOf(starts[k])>>]
  <1>1. Runs(bin) = runs
    BY DEF Runs
  <1>2. ids \in Seq(Nat) /\ Len(ids) = n
    <2>1. ids \in [1 .. n -> Nat]
      OBVIOUS
    <2> HIDE DEF ids
    <2> QED
      BY <2>1
  <1>3. starts \in Seq(Nat)
    <2>1. mask \in SUBSET (1 .. Len(ids))
      <3>1. mask \subseteq 1 .. n
        OBVIOUS
      <3> HIDE DEF mask, ids
      <3> QED
        BY <1>2, <3>1
    <2> HIDE DEF ids, mask
    <2> QED
      BY <1>2, <2>1, MaskedSelects
  <1> HIDE DEF starts, EndOf
  <1>4. Len(starts) \in Nat /\ DOMAIN starts = 1 .. Len(starts)
    BY <1>3
  <1>5. runs = [k \in 1 .. Len(starts) |-> runs[k]]
    BY <1>4
  <1>6. IsList(runs) /\ Len(runs) = Len(starts)
    <2> HIDE DEF runs
    <2> QED
      BY <1>4, <1>5, FunctionIsList
  <1> HIDE DEF runs
  <1>7. runs # <<>> => Len(runs) # 0
    BY <1>6, EmptySeq DEF IsList
  <1>8. Len(runs) \in Nat
    BY <1>4, <1>6
  <1> QED
    BY <1>1, <1>6, <1>7, <1>8

(* The events of a recomputation. *)
LEMMA RisingExtends ==
  ASSUME NEW v, Sound(v), NEW m, NEW pts, NEW bin, NEW n \in Nat, DOMAIN bin = 1 .. n
  PROVE  Extends(v, RisingEdges(v, m, pts, bin).w)
  <1> DEFINE prior == EventsForTag(v, m)
             Ev(h) == v.events[h]
             starts == {Ev(h).start : h \in ToSet(prior)}
             opens == SelectSeq(prior, LAMBDA h : Ev(h).open)
             none == [id |-> 0, start |-> 0]
             existing == IF opens = <<>> THEN none
                         ELSE [id |-> Ev(opens[1]).id, start |-> Ev(opens[1]).start]
             runs == Runs(bin)
             closed == Len(runs) - IF runs # <<>> /\ Last(runs)[2] = Len(bin) THEN 1 ELSE 0
             Closed(st, r) ==
               LET startT == pts[r[1]][1]   endT == pts[r[2]][1]
               IN  IF startT \notin st.starts
                   THEN [st EXCEPT !.w = Emit(@, m, startT, endT, FALSE),
                                   !.starts = @ \union {startT}]
                   ELSE IF st.existing.id # 0 /\ st.existing.start = startT
                   THEN [st EXCEPT !.w = CloseEvent(@, st.existing.id, endT),
                                   !.openId = 0, !.existing = none]
                   ELSE st
             last == pts[Last(runs)[1]][1]
             Opened(end) ==
               IF closed < Len(runs) /\ end.openId = 0 /\ last \notin end.starts
               THEN [w |-> Emit(end.w, m, last, 0, TRUE), openId |-> LastId(end.w) + 1]
               ELSE [w |-> end.w, openId |-> end.openId]
             first == [w |-> v, starts |-> starts, existing |-> existing, openId |-> existing.id]
             Step(x, i) == Closed(x, runs[i])
             Loop(f, k) == f = [i \in 0 .. k |-> IF i = 0 THEN first ELSE Step(f[i - 1], i)]
             fired == CHOOSE f : Loop(f, closed)
             Fits(st) == /\ \E a, b, c, d : st = [w |-> a, starts |-> b, existing |-> c, openId |-> d]
                         /\ Extends(v, st.w)
  <1>1. RisingEdges(v, m, pts, bin) = Opened(fired[closed])
    BY DEF RisingEdges
  <1>2. closed \in Nat
    <2>1. Len(runs) \in Nat /\ (runs # <<>> => Len(runs) >= 1)
      BY RunsList
    <2> HIDE DEF runs
    <2> QED
      BY <2>1
  <1>3. Fits(first)
    <2> HIDE DEF starts, existing
    <2> QED
      BY ExtendsItself
  <1>4. ASSUME NEW x, NEW r, Fits(x) PROVE Fits(Closed(x, r))
    <2> DEFINE startT == pts[r[1]][1]   endT == pts[r[2]][1]
               emitted == [x EXCEPT !.w = Emit(@, m, startT, endT, FALSE),
                                    !.starts = @ \union {startT}]
               shut == [x EXCEPT !.w = CloseEvent(@, x.existing.id, endT),
                                 !.openId = 0, !.existing = none]
    <2>1. PICK a, b, c, d : x = [w |-> a, starts |-> b, existing |-> c, openId |-> d]
      BY <1>4
    <2>2. x.w = a /\ Extends(v, a) /\ Sound(a)
      BY <1>4, <2>1 DEF Extends
    <2>3. Closed(x, r) = emitted \/ Closed(x, r) = shut \/ Closed(x, r) = x
      OBVIOUS
    <2> HIDE DEF startT, endT, none
    <2>4. emitted = [w |-> Emit(a, m, startT, endT, FALSE), starts |-> b \union {startT},
                     existing |-> c, openId |-> d]
      <3>1. PICK x1 : x1 = [x EXCEPT !.w = Emit(x.w, m, startT, endT, FALSE)]
        OBVIOUS
      <3>2. x1 = [w |-> Emit(a, m, startT, endT, FALSE), starts |-> b, existing |-> c,
                  openId |-> d]
        BY <2>1, <3>1
      <3>3. PICK x2 : x2 = [x1 EXCEPT !.starts = x1.starts \union {startT}]
        OBVIOUS
      <3>4. x2 = [w |-> Emit(a, m, startT, endT, FALSE), starts |-> b \union {startT},
                  existing |-> c, openId |-> d]
        BY <3>2, <3>3
      <3>5. emitted = x2
        BY <3>1, <3>3
      <3> QED
        BY <3>4, <3>5
    <2>5. shut = [w |-> CloseEvent(a, c.id, endT), starts |-> b, existing |-> none, openId |-> 0]
      <3>1. PICK x1 : x1 = [x EXCEPT !.w = CloseEvent(x.w, x.existing.id, endT)]
        OBVIOUS
      <3>2. x1 = [w |-> CloseEvent(a, c.id, endT), starts |-> b, existing |-> c, openId |-> d]
        BY <2>1, <3>1
      <3>3. PICK x2 : x2 = [x1 EXCEPT !.openId = 0]
        OBVIOUS
      <3>4. x2 = [w |-> CloseEvent(a, c.id, endT), starts |-> b, existing |-> c, openId |-> 0]
        BY <3>2, <3>3
      <3>5. PICK x3 : x3 = [x2 EXCEPT !.existing = none]
        OBVIOUS
      <3>6. x3 = [w |-> CloseEvent(a, c.id, endT), starts |-> b, existing |-> none, openId |-> 0]
        BY <3>4, <3>5
      <3>7. shut = x3
        BY <3>1, <3>3, <3>5
      <3> QED
        BY <3>6, <3>7
    <2> HIDE DEF emitted, shut, Closed
    <2>6. Fits(emitted)
      <3>1. Extends(v, Emit(a, m, startT, endT, FALSE))
        BY <2>2, EmitExtends, ExtendsFurther
      <3> QED
        BY <2>4, <3>1
    <2>7. Fits(shut)
      <3>1. Extends(v, CloseEvent(a, c.id, endT))
        BY <2>2, CloseExtends, ExtendsFurther
      <3> QED
        BY <2>5, <3>1
    <2> HIDE DEF Fits
    <2> QED
      BY <1>4, <2>3, <2>6, <2>7
  <1> HIDE DEF Closed, closed, runs, first, Fits, last
  <1>5. \E f : Loop(f, closed)
    <2> DEFINE U == {k \in 0 .. closed : \E f : Loop(f, k)}
    <2>1. 0 \in U
      <3> DEFINE h == [i \in 0 .. 0 |-> first]
      <3>1. Loop(h, 0)
        BY DEF Step
      <3>2. 0 \in 0 .. closed
        BY <1>2
      <3> HIDE DEF Loop, h
      <3> QED
        BY <3>1, <3>2
    <2>2. ASSUME NEW k \in 1 .. closed, k - 1 \in U PROVE k \in U
      <3>1. PICK f : Loop(f, k - 1)
        BY <2>2
      <3> DEFINE h == [i \in 0 .. k |-> IF i = k THEN Step(f[k - 1], k) ELSE f[i]]
      <3> HIDE DEF Step
      <3>2. \A i \in 0 .. k - 1 : f[i] = IF i = 0 THEN first ELSE Step(f[i - 1], i)
        BY <3>1
      <3>3. ASSUME NEW i \in 0 .. k PROVE h[i] = IF i = 0 THEN first ELSE Step(h[i - 1], i)
        <4>1. /\ k # 0 /\ k - 1 \in 0 .. k /\ k - 1 # k /\ k \in 0 .. k
              /\ h[i] = IF i = k THEN Step(f[k - 1], k) ELSE f[i]
              /\ h[k - 1] = f[k - 1]
          BY <1>2
        <4>2. CASE i = k
          <5> HIDE DEF h
          <5> QED
            BY <4>1, <4>2
        <4>3. CASE i # k
          <5>1. i \in 0 .. k - 1 /\ (i # 0 => i - 1 \in 0 .. k /\ i - 1 # k)
            BY <1>2, <4>3
          <5>2. i # 0 => h[i - 1] = f[i - 1]
            BY <5>1
          <5> HIDE DEF h
          <5> QED
            BY <3>2, <4>1, <4>3, <5>1, <5>2
        <4> QED
          BY <4>2, <4>3
      <3>4. h = [i \in 0 .. k |-> h[i]]
        OBVIOUS
      <3> HIDE DEF h
      <3>5. Loop(h, k)
        BY <3>3, <3>4
      <3>6. k \in 0 .. closed
        BY <1>2
      <3> HIDE DEF Loop
      <3> QED
        BY <3>5, <3>6
    <2>3. 0 .. closed \subseteq U
      <3> HIDE DEF U
      <3> QED
        BY <1>2, <2>1, <2>2, UpToInduction
    <2>4. closed \in 0 .. closed
      BY <1>2
    <2> QED
      BY <2>3, <2>4
  <1>6. Loop(fired, closed)
    <2> HIDE DEF Loop
    <2> QED
      BY <1>5
  <1> HIDE DEF fired
  <1>7. Fits(fired[closed])
    <2> DEFINE U == {i \in 0 .. closed : Fits(fired[i])}
    <2>1. \A i \in 0 .. closed : fired[i] = IF i = 0 THEN first ELSE Step(fired[i - 1], i)
      <3> HIDE DEF Step
      <3> QED
        BY <1>6
    <2>2. 0 \in U
      BY <1>2, <1>3, <2>1
    <2>3. ASSUME NEW i \in 1 .. closed, i - 1 \in U PROVE i \in U
      <3>1. Fits(Step(fired[i - 1], i))
        BY <1>4, <2>3
      <3>2. i \in 0 .. closed /\ i # 0
        BY <1>2
      <3> HIDE DEF Step
      <3> QED
        BY <2>1, <3>1, <3>2
    <2>4. 0 .. closed \subseteq U
      <3> HIDE DEF U
      <3> QED
        BY <1>2, <2>2, <2>3, UpToInduction
    <2>5. closed \in 0 .. closed
      BY <1>2
    <2> QED
      BY <2>4, <2>5
  <1> DEFINE end == fired[closed]
  <1> HIDE DEF end
  <1>8. Extends(v, end.w) /\ Sound(end.w)
    BY <1>7 DEF Fits, Extends, end
  <1>9. Extends(v, Emit(end.w, m, last, 0, TRUE))
    BY <1>8, EmitExtends, ExtendsFurther
  <1>10. Opened(end).w = Emit(end.w, m, last, 0, TRUE) \/ Opened(end).w = end.w
    OBVIOUS
  <1> HIDE DEF Opened
  <1> QED
    BY <1>1, <1>8, <1>9, <1>10 DEF end

(* The events of a chunk. *)
LEMMA TailExtends ==
  ASSUME NEW v, Sound(v), NEW m, NEW cache, NEW chunk, NEW bin, NEW n \in Nat,
         DOMAIN bin = 1 .. n
  PROVE  Extends(v, TailEdges(v, m, cache, chunk, bin).w)
  <1> DEFINE all == Runs(bin)
             clearsLater == all # <<>> /\ all[1][1] = 1 /\ all[1][2] < Len(bin)
             clears == cache.openId # 0 /\ cache.flag /\ (clearsLater \/ ~bin[1])
             endT == IF clearsLater THEN chunk[all[1][2]][1] ELSE Last(cache.pts)[1]
             closed == IF clears THEN CloseEvent(v, cache.openId, endT) ELSE v
             runs == IF clears THEN SubSeq(all, 2, Len(all)) ELSE all
             Fire(st, k) ==
               LET r == runs[k]
                   startT == IF k = 1 /\ cache.flag /\ r[1] = 1 /\ cache.ongoing # 0
                             THEN cache.ongoing ELSE chunk[r[1]][1]
               IN  IF r[2] < Len(bin)
                   THEN [st EXCEPT !.w = Emit(@, m, startT, chunk[r[2]][1], FALSE)]
                   ELSE IF st.openId # 0 THEN st
                   ELSE [w |-> Emit(st.w, m, startT, 0, TRUE), openId |-> LastId(st.w) + 1]
             first == [w |-> closed, openId |-> IF clears THEN 0 ELSE cache.openId]
             len == Len(runs)
             Loop(f, j) == f = [k \in 0 .. j |-> IF k = 0 THEN first ELSE Fire(f[k - 1], k)]
             fired == CHOOSE f : Loop(f, len)
             Fits(st) == (\E a, b : st = [w |-> a, openId |-> b]) /\ Extends(v, st.w)
  <1>1. TailEdges(v, m, cache, chunk, bin) = fired[len]
    BY DEF TailEdges
  <1>2. len \in Nat
    <2>1. IsList(all) /\ Len(all) \in Nat
      BY RunsList
    <2>2. Len(SubSeq(all, 2, Len(all))) \in Nat
      <3> HIDE DEF all
      <3>1. all \in Seq(ToSet(all)) /\ Len(all) \in Nat
        BY <2>1 DEF IsList
      <3>2. SubSeq(all, 2, Len(all)) \in Seq(ToSet(all))
        BY <3>1
      <3> QED
        BY <3>2, LenProperties
    <2> HIDE DEF all, clears
    <2> QED
      BY <2>1, <2>2
  <1>3. Fits(first)
    <2>1. Extends(v, closed)
      <3>1. Extends(v, CloseEvent(v, cache.openId, endT))
        <4> HIDE DEF endT
        <4> QED
          BY CloseExtends
      <3> HIDE DEF clears, endT
      <3> QED
        BY <3>1, ExtendsItself
    <2> HIDE DEF closed, clears
    <2> QED
      BY <2>1
  <1>4. ASSUME NEW x, NEW k, Fits(x) PROVE Fits(Fire(x, k))
    <2> DEFINE startT == IF k = 1 /\ cache.flag /\ runs[k][1] = 1 /\ cache.ongoing # 0
                         THEN cache.ongoing ELSE chunk[runs[k][1]][1]
               stopT == chunk[runs[k][2]][1]
               emitted == [x EXCEPT !.w = Emit(@, m, startT, stopT, FALSE)]
               opened == [w |-> Emit(x.w, m, startT, 0, TRUE), openId |-> LastId(x.w) + 1]
    <2>1. PICK a, b : x = [w |-> a, openId |-> b]
      BY <1>4
    <2>2. x.w = a /\ Extends(v, a) /\ Sound(a)
      BY <1>4, <2>1 DEF Extends
    <2>3. Fire(x, k) = emitted \/ Fire(x, k) = opened \/ Fire(x, k) = x
      OBVIOUS
    <2> HIDE DEF startT, stopT
    <2>4. emitted = [w |-> Emit(a, m, startT, stopT, FALSE), openId |-> b]
      <3>1. PICK x1 : x1 = [x EXCEPT !.w = Emit(x.w, m, startT, stopT, FALSE)]
        OBVIOUS
      <3>2. x1 = [w |-> Emit(a, m, startT, stopT, FALSE), openId |-> b]
        BY <2>1, <3>1
      <3>3. emitted = x1
        BY <3>1
      <3> QED
        BY <3>2, <3>3
    <2>5. Fits(emitted)
      <3>1. Extends(v, Emit(a, m, startT, stopT, FALSE))
        BY <2>2, EmitExtends, ExtendsFurther
      <3> HIDE DEF emitted
      <3> QED
        BY <2>4, <3>1
    <2>6. Fits(opened)
      <3>1. Extends(v, Emit(a, m, startT, 0, TRUE))
        BY <2>2, EmitExtends, ExtendsFurther
      <3> QED
        BY <2>2, <3>1
    <2> HIDE DEF emitted, opened, Fire, Fits
    <2> QED
      BY <1>4, <2>3, <2>5, <2>6
  <1> HIDE DEF Fire, len, first, Fits
  <1>5. \E f : Loop(f, len)
    <2> DEFINE U == {j \in 0 .. len : \E f : Loop(f, j)}
    <2>1. 0 \in U
      <3> DEFINE h == [k \in 0 .. 0 |-> first]
      <3>1. Loop(h, 0)
        OBVIOUS
      <3>2. 0 \in 0 .. len
        BY <1>2
      <3> HIDE DEF Loop, h
      <3> QED
        BY <3>1, <3>2
    <2>2. ASSUME NEW j \in 1 .. len, j - 1 \in U PROVE j \in U
      <3>1. PICK f : Loop(f, j - 1)
        BY <2>2
      <3> DEFINE h == [k \in 0 .. j |-> IF k = j THEN Fire(f[j - 1], j) ELSE f[k]]
      <3>2. \A k \in 0 .. j - 1 : f[k] = IF k = 0 THEN first ELSE Fire(f[k - 1], k)
        BY <3>1
      <3>3. ASSUME NEW k \in 0 .. j PROVE h[k] = IF k = 0 THEN first ELSE Fire(h[k - 1], k)
        <4>1. /\ j # 0 /\ j - 1 \in 0 .. j /\ j - 1 # j /\ j \in 0 .. j
              /\ h[k] = IF k = j THEN Fire(f[j - 1], j) ELSE f[k]
              /\ h[j - 1] = f[j - 1]
          BY <1>2
        <4>2. CASE k = j
          <5> HIDE DEF h
          <5> QED
            BY <4>1, <4>2
        <4>3. CASE k # j
          <5>1. k \in 0 .. j - 1 /\ (k # 0 => k - 1 \in 0 .. j /\ k - 1 # j)
            BY <1>2, <4>3
          <5>2. k # 0 => h[k - 1] = f[k - 1]
            BY <5>1
          <5> HIDE DEF h
          <5> QED
            BY <3>2, <4>1, <4>3, <5>1, <5>2
        <4> QED
          BY <4>2, <4>3
      <3>4. h = [k \in 0 .. j |-> h[k]]
        OBVIOUS
      <3> HIDE DEF h
      <3>5. Loop(h, j)
        BY <3>3, <3>4
      <3>6. j \in 0 .. len
        BY <1>2
      <3> HIDE DEF Loop
      <3> QED
        BY <3>5, <3>6
    <2>3. 0 .. len \subseteq U
      <3> HIDE DEF U
      <3> QED
        BY <1>2, <2>1, <2>2, UpToInduction
    <2>4. len \in 0 .. len
      BY <1>2
    <2> QED
      BY <2>3, <2>4
  <1>6. Loop(fired, len)
    <2> HIDE DEF Loop
    <2> QED
      BY <1>5
  <1> HIDE DEF fired
  <1>7. Fits(fired[len])
    <2> DEFINE U == {k \in 0 .. len : Fits(fired[k])}
    <2>1. \A k \in 0 .. len : fired[k] = IF k = 0 THEN first ELSE Fire(fired[k - 1], k)
      BY <1>6
    <2>2. 0 \in U
      BY <1>2, <1>3, <2>1
    <2>3. ASSUME NEW k \in 1 .. len, k - 1 \in U PROVE k \in U
      <3>1. Fits(Fire(fired[k - 1], k))
        BY <1>4, <2>3
      <3>2. k \in 0 .. len /\ k # 0
        BY <1>2
      <3> QED
        BY <2>1, <3>1, <3>2
    <2>4. 0 .. len \subseteq U
      <3> HIDE DEF U
      <3> QED
        BY <1>2, <2>2, <2>3, UpToInduction
    <2>5. len \in 0 .. len
      BY <1>2
    <2> QED
      BY <2>4, <2>5
  <1> QED
    BY <1>1, <1>7 DEF Fits

LEMMA RecomputeExtends ==
  ASSUME NEW v, Sound(v), NEW mo, NEW m, NEW pts \in Seq(Point)
  PROVE  Extends(v, Recompute(mo, v, m, pts).w)
  <1> DEFINE sig == Signal(pts, mo.rule, FALSE, 0)
             fired == RisingEdges(v, m, pts, sig.bin)
  <1>1. Recompute(mo, v, m, pts).w = IF pts = <<>> THEN v ELSE fired.w
    <2> DEFINE Cached(s, f) ==
                 [mon |-> [mo EXCEPT !.dirty = FALSE,
                             !.cache = [pts |-> pts, y |-> s.bin, flag |-> Last(s.bin),
                                        hyst |-> s.hyst, ongoing |-> s.ongoing,
                                        openId |-> f.openId]],
                  w |-> f.w]
    <2>1. Recompute(mo, v, m, pts)
            = IF pts = <<>> THEN [mon |-> [mo EXCEPT !.dirty = FALSE, !.cache = NoCache], w |-> v]
              ELSE Cached(sig, fired)
      BY DEF Recompute
    <2> HIDE DEF sig, fired
    <2> QED
      BY <2>1
  <1>2. Extends(v, fired.w)
    <2>1. DOMAIN sig.bin = 1 .. Len(pts) /\ Len(pts) \in Nat
      <3>1. DOMAIN pts = 1 .. Len(pts) /\ Len(pts) \in Nat
        OBVIOUS
      <3> HIDE DEF sig
      <3>2. DOMAIN sig.bin = DOMAIN pts
        BY SignalDomain DEF sig
      <3> QED
        BY <3>1, <3>2
    <2> HIDE DEF sig
    <2> QED
      BY <2>1, RisingExtends
  <1> HIDE DEF fired
  <1> QED
    BY <1>1, <1>2, ExtendsItself

LEMMA AppendDataExtends ==
  ASSUME NEW v, Sound(v), NEW mo, NEW m, NEW pts \in Seq(Point), NEW chunk \in Seq(Point),
         NEW keep
  PROVE  Extends(v, AppendData(mo, v, m, pts, chunk, keep).w)
  <1> DEFINE c == mo.cache
             sig == Signal(chunk, mo.rule, c.hyst, c.ongoing)
             fired == TailEdges(v, m, c, chunk, sig.bin)
  <1>1. AppendData(mo, v, m, pts, chunk, keep).w
          = IF chunk = <<>> THEN v
            ELSE IF Cold(mo) THEN Recompute(mo, v, m, pts).w
            ELSE fired.w
    <2> DEFINE Grown(s, f) ==
                 [mon |-> Persisted(
                     [mo EXCEPT !.cache = [pts |-> c.pts \o chunk, y |-> c.y \o s.bin,
                                            flag |-> Last(s.bin), hyst |-> s.hyst,
                                            ongoing |-> s.ongoing, openId |-> f.openId]],
                     pts, keep),
                  w |-> f.w]
    <2>1. AppendData(mo, v, m, pts, chunk, keep)
            = IF chunk = <<>> THEN [mon |-> mo, w |-> v]
              ELSE IF Cold(mo) THEN Recompute(mo, v, m, pts)
              ELSE Grown(sig, fired)
      BY DEF AppendData
    <2> HIDE DEF sig, fired
    <2> QED
      BY <2>1
  <1>2. Extends(v, fired.w)
    <2>1. DOMAIN sig.bin = 1 .. Len(chunk) /\ Len(chunk) \in Nat
      <3>1. DOMAIN chunk = 1 .. Len(chunk) /\ Len(chunk) \in Nat
        OBVIOUS
      <3> HIDE DEF sig
      <3>2. DOMAIN sig.bin = DOMAIN chunk
        BY SignalDomain DEF sig
      <3> QED
        BY <3>1, <3>2
    <2> HIDE DEF sig
    <2> QED
      BY <2>1, TailExtends
  <1>3. Extends(v, Recompute(mo, v, m, pts).w)
    BY RecomputeExtends
  <1> HIDE DEF fired
  <1> QED
    BY <1>1, <1>2, <1>3, ExtendsItself

LEMMA GetXYExtends ==
  ASSUME NEW v, Sound(v), NEW mo, NEW m, NEW pts \in Seq(Point), NEW keep
  PROVE  Extends(v, GetXY(mo, v, m, pts, keep).w)
  <1> DEFINE new == Recompute(mo, v, m, pts)
  <1>1. GetXY(mo, v, m, pts, keep).w = v \/ GetXY(mo, v, m, pts, keep).w = new.w
    <2>1. CASE keep /\ ~Stale(mo.row, pts)
      BY <2>1 DEF GetXY
    <2>2. CASE ~(keep /\ ~Stale(mo.row, pts))
      <3>1. GetXY(mo, v, m, pts, keep) = [new EXCEPT !.mon = Persisted(@, pts, keep)]
        BY <2>2 DEF GetXY
      <3>2. \E a, b : new = [mon |-> a, w |-> b]
        BY DEF Recompute
      <3> HIDE DEF new
      <3> QED
        BY <3>1, <3>2
    <2> QED
      BY <2>1, <2>2
  <1>2. Extends(v, new.w)
    BY RecomputeExtends
  <1> HIDE DEF new
  <1> QED
    BY <1>1, <1>2, ExtendsItself

(* The events of a poll. *)
LEMMA ProcessExtends ==
  ASSUME NEW outcome \in [Monitors -> {"ok", "torn", "contended"}],
         NEW m \in Monitors, NEW st, PollFits(st, outcome), Sound(st.w),
         parent[m] \in Seq(Point), Fetched(m) \in Seq(Point)
  PROVE  Extends(st.w, ProcessMonitorTag(st, m, outcome).w)
  <1> DEFINE after == ProcessMonitorTag(st, m, outcome)
  <1>1. PICK l, p, mo, v, d, t :
          /\ st = PollState(l, p, mo, v, d, t)
          /\ l = [k \in Monitors |-> l[k]] /\ p = [k \in Monitors |-> p[k]]
          /\ d = [k \in Monitors |-> d[k]] /\ t = [k \in Monitors |-> t[k]]
          /\ \A k \in Monitors : past[k] \subseteq t[k] /\ Account(l[k], p[k], d[k], k, outcome)
    BY DEF PollFits
  <1> DEFINE ln == [l EXCEPT ![m] = Len(file[m])]
  <1>2. st.w = v
    BY <1>1 DEF PollState
  <1>3. Indexed(st, m) = PollState(ln, p, mo, v, d, t)
    BY ONLY <1>1 DEF PollState, Indexed
  <1> HIDE DEF ln
  <1>4. Extends(v, v)
    BY <1>2, ExtendsItself
  <1>5. GivenUp(st, m).w = v
    BY <1>3 DEF GivenUp, PollState
  <1>6. ASSUME NEW mm, NEW vv, NEW trace, vv = st.w \/ vv = Streamed(st, m).w
        PROVE  Extends(v, Brought(st, m, mm, vv, trace).w)
    <2>1. Brought(st, m, mm, vv, trace).w = vv
      <3> DEFINE x0 == PollState(ln, p, mo, v, d, t)
                 x1 == [x0 EXCEPT !.parent[m] = parent[m] \o Fetched(m)]
                 x2 == [x1 EXCEPT !.mon[m] = mm]
                 x3 == [x2 EXCEPT !.w = vv]
                 x4 == [x3 EXCEPT !.past[m] = @ \cup trace]
      <3>1. Brought(st, m, mm, vv, trace) = x4
        BY <1>3 DEF Brought
      <3>2. DOMAIN x2 = DOMAIN x0 /\ "w" \in DOMAIN x0
        BY DEF PollState
      <3> HIDE DEF x2
      <3>3. DOMAIN x3 = DOMAIN x0 /\ x3.w = vv
        BY <3>2
      <3> HIDE DEF x3
      <3>4. x4.w = vv
        BY <3>2, <3>3
      <3> QED
        BY <3>1, <3>4
    <2>2. Extends(v, Streamed(st, m).w)
      <3>1. parent[m] \o Fetched(m) \in Seq(Point)
        BY ConcatProperties
      <3> QED
        BY <1>2, <3>1, AppendDataExtends DEF Streamed
    <2> QED
      BY <1>2, <1>4, <1>6, <2>1, <2>2
  <1>7. \/ after = st
        \/ after = GivenUp(st, m)
        \/ \E mm, vv, trace : /\ after = Brought(st, m, mm, vv, trace)
                              /\ vv = st.w \/ vv = Streamed(st, m).w
    <2>1. outcome[m] \in {"ok", "torn", "contended"}
      OBVIOUS
    <2> QED
      BY <2>1, ProcessOutcomes
  <1> HIDE DEF after
  <1>8. Extends(v, after.w)
    BY <1>2, <1>4, <1>5, <1>6, <1>7
  <1> QED
    BY <1>2, <1>8 DEF after

LEMMA PolledExtends ==
  ASSUME NEW outcome \in [Monitors -> {"ok", "torn", "contended"}],
         NEW before, PollFits(before, outcome), Sound(before.w),
         \A m \in Monitors : parent[m] \in Seq(Point) /\ Fetched(m) \in Seq(Point)
  PROVE  Extends(before.w, Polled(before, outcome).w)
  <1> DEFINE n == Len(Keys)
  <1>1. PICK f : /\ Polled(before, outcome) = f[n] /\ f[0] = before
                 /\ \A i \in 1 .. n : f[i] = ProcessMonitorTag(f[i - 1], Keys[i], outcome)
    BY PolledLoop
  <1>2. n \in Nat /\ \A i \in 1 .. n : Keys[i] \in Monitors
    BY PolledLoop
  <1> HIDE DEF n
  <1> DEFINE U == {i \in 0 .. n : PollFits(f[i], outcome) /\ Extends(before.w, f[i].w)}
  <1>3. 0 \in U
    BY <1>1, <1>2, ExtendsItself
  <1>4. ASSUME NEW i \in 1 .. n, i - 1 \in U PROVE i \in U
    <2> DEFINE st == f[i - 1]
               after == ProcessMonitorTag(st, Keys[i], outcome)
    <2>1. PollFits(st, outcome) /\ Keys[i] \in Monitors /\ i \in 0 .. n
      BY <1>2, <1>4
    <2>2. Extends(before.w, st.w) /\ Sound(st.w)
      BY <1>4 DEF Extends
    <2> HIDE DEF st
    <2>3. PollFits(after, outcome)
      BY <2>1, ProcessFits
    <2>4. Extends(st.w, after.w)
      BY <2>1, <2>2, ProcessExtends
    <2> HIDE DEF after
    <2>5. Extends(before.w, after.w)
      BY <2>2, <2>4, ExtendsFurther
    <2>6. f[i] = after
      BY <1>1 DEF st, after
    <2> QED
      BY <2>1, <2>3, <2>5, <2>6
  <1>5. 0 .. n \subseteq U
    <2> HIDE DEF U
    <2> QED
      BY <1>2, <1>3, <1>4, UpToInduction
  <1>6. n \in 0 .. n
    BY <1>2
  <1> QED
    BY <1>1, <1>5, <1>6
-----------------------------------------------------------------------------
(* The pipeline's store. *)

(* An event gets another id. *)
WithNumber(s, h, k) == [s EXCEPT ![h].id = k]

LEMMA Renumbered ==
  ASSUME NEW s, IsList(s), NEW h \in 1 .. Len(s), IsEvent(s[h]), NEW k
  PROVE  LET t == WithNumber(s, h, k)
         IN  /\ IsList(t) /\ Len(t) = Len(s)
             /\ IsEvent(t[h]) /\ t[h].id = k /\ t[h].mon = s[h].mon
             /\ \A i \in 1 .. Len(s) : i # h => t[i] = s[i]
  <1> DEFINE t == WithNumber(s, h, k)
             n == Len(s)
  <1>1. PICK a, b, c, d, x : s[h] = [mon |-> a, start |-> b, end |-> c, open |-> d, id |-> x]
    BY DEF IsEvent
  <1>2. PICK e : e = [s[h] EXCEPT !.id = k]
    OBVIOUS
  <1>3. e = [mon |-> a, start |-> b, end |-> c, open |-> d, id |-> k]
    BY ONLY <1>1, <1>2
  <1>4. t = [s EXCEPT ![h] = e]
    BY ONLY <1>2 DEF WithNumber
  <1> HIDE DEF t
  <1>5. /\ IsList(t) /\ Len(t) = n
        /\ \A i \in 1 .. n : t[i] = IF i = h THEN e ELSE s[i]
    <2>1. n \in Nat /\ DOMAIN s = 1 .. n
      <3>1. s \in Seq(ToSet(s))
        BY DEF IsList
      <3> QED
        BY <3>1
    <2> HIDE DEF n
    <2>2. t = [i \in 1 .. n |-> IF i = h THEN e ELSE s[i]]
      BY ONLY <1>4, <2>1
    <2>3. t = [i \in 1 .. n |-> t[i]]
      BY ONLY <2>2
    <2> QED
      BY <2>1, <2>2, <2>3, FunctionIsList
  <1>6. t[h] = e
    BY <1>5
  <1>7. IsEvent(t[h]) /\ t[h].id = k /\ t[h].mon = s[h].mon
    BY ONLY <1>1, <1>3, <1>6 DEF IsEvent
  <1> QED
    BY <1>5, <1>7 DEF t

(* An event is stored once more where the monitors store theirs. *)
LEMMA NumberedAgain ==
  ASSUME NEW v, Sound(v), NEW h \in 1 .. Len(v.events)
  PROVE  Sound(Stored(v, "store", h)) /\ Len(Stored(v, "store", h).events) = Len(v.events)
  <1> DEFINE n == Len(v.events)
             k == v.store.nextId + 1
             u == Stored(v, "store", h)
  <1>1. /\ n \in Nat /\ v.store.nextId \in Nat /\ v.own.nextId \in Nat
        /\ k \in Nat /\ k \notin 1 .. v.store.nextId
        /\ 1 .. v.store.nextId \subseteq 1 .. k /\ k \in 1 .. k
    BY SoundLengths
  <1>2. /\ IsList(v.events) /\ v.store.list \in Seq(1 .. n) /\ IsStore(v.own)
        /\ \A i \in 1 .. n : IsEvent(v.events[i])
    BY DEF Sound, IsWorld
  <1> DEFINE ev == WithNumber(v.events, h, k)
  <1>4. /\ IsList(ev) /\ Len(ev) = n /\ IsEvent(ev[h]) /\ ev[h].id = k
        /\ ev[h].mon = v.events[h].mon
        /\ \A i \in 1 .. n : i # h => ev[i] = v.events[i]
    BY <1>2, Renumbered
  <1>5. u = World(ev, Append(v.store.list, h), k, v.own, v.bound)
    <2>1. v = World(v.events, v.store.list, v.store.nextId, v.own, v.bound)
      BY WorldFields DEF Sound
    <2> HIDE DEF u
    <2> QED
      BY <2>1, WorldStored DEF u, WithNumber
  <1> HIDE DEF u
  <1>6. /\ u.events = ev /\ u.store.list = Append(v.store.list, h) /\ u.store.nextId = k
        /\ u.own = v.own /\ u.bound = v.bound /\ IsStore(u.store)
        /\ u = [events |-> u.events, store |-> u.store, own |-> u.own, bound |-> u.bound]
    BY <1>5 DEF World, IsStore
  <1>7. Append(v.store.list, h) \in Seq(1 .. n)
    <2> HIDE DEF n
    <2> QED
      BY <1>2, AppendProperties DEF n
  <1> HIDE DEF k
  <1>8. \A i \in 1 .. n : IsEvent(ev[i])
    BY <1>2, <1>4
  <1>9. IsWorld(u)
    BY ONLY <1>1, <1>2, <1>4, <1>6, <1>7, <1>8 DEF IsWorld
  <1>10. Named(u)
    <2>1. /\ \A i \in 1 .. n : v.events[i].id \in 1 .. v.store.nextId
          /\ \A g, i \in 1 .. n : v.events[g].id = v.events[i].id => g = i
          /\ \A b \in v.bound :
               /\ b[1] \in 1 .. v.store.nextId
               /\ \A i \in 1 .. n : v.events[i].id = b[1] => v.events[i].mon = b[2]
      BY DEF Sound, Named
    <2> HIDE DEF n
    <2>2. \A i \in 1 .. n : ev[i].id \in 1 .. k
      BY ONLY <1>1, <1>4, <2>1
    <2>3. \A i \in 1 .. n : i # h => ev[i].id # k
      BY ONLY <1>1, <1>4, <2>1
    <2>4. \A g, i \in 1 .. n : ev[g].id = ev[i].id => g = i
      BY ONLY <1>4, <2>1, <2>3
    <2>5. ASSUME NEW b \in v.bound
          PROVE  b[1] \in 1 .. k /\ \A i \in 1 .. n : ev[i].id = b[1] => ev[i].mon = b[2]
      <3>1. b[1] \in 1 .. k /\ b[1] # k
        BY ONLY <1>1, <2>1, <2>5
      <3> QED
        BY ONLY <1>4, <2>1, <2>5, <3>1
    <2>6. u.events = ev /\ u.store.nextId = k /\ u.bound = v.bound /\ Len(ev) = n
      BY ONLY <1>4, <1>6
    <2> HIDE DEF ev
    <2> QED
      BY ONLY <2>2, <2>4, <2>5, <2>6 DEF Named
  <1> QED
    BY <1>4, <1>6, <1>9, <1>10 DEF Sound, u

OwnWorld(events, store, list, nextId, bound) ==
  [events |-> events, store |-> store, own |-> [list |-> list, nextId |-> nextId],
   bound |-> bound]

LEMMA WorldStoredOwn ==
  ASSUME NEW events, NEW store, NEW list, NEW nextId, NEW bound, NEW v, NEW h,
         v = OwnWorld(events, store, list, nextId, bound)
  PROVE  Stored(v, "own", h)
           = OwnWorld(WithNumber(events, h, nextId + 1), store, Append(list, h), nextId + 1, bound)
  <1>1. PICK v1 : v1 = [v EXCEPT !["own"].nextId = @ + 1]
    OBVIOUS
  <1>2. v1 = OwnWorld(events, store, list, nextId + 1, bound) /\ v["own"].nextId = nextId
    BY <1>1 DEF OwnWorld
  <1>3. PICK v2 : v2 = [v1 EXCEPT !["own"].list = Append(@, h)]
    OBVIOUS
  <1>4. v2 = OwnWorld(events, store, Append(list, h), nextId + 1, bound)
    BY <1>2, <1>3 DEF OwnWorld
  <1>5. PICK v3 : v3 = [v2 EXCEPT !.events[h].id = nextId + 1]
    OBVIOUS
  <1>6. v3 = OwnWorld(WithNumber(events, h, nextId + 1), store, Append(list, h), nextId + 1, bound)
    BY <1>4, <1>5 DEF OwnWorld, WithNumber
  <1>7. Stored(v, "own", h) = v3
    <2>1. Stored(v, "own", h)
            = [[[v EXCEPT !["own"].nextId = @ + 1] EXCEPT !["own"].list = Append(@, h)]
                 EXCEPT !.events[h].id = v["own"].nextId + 1]
      BY DEF Stored
    <2>2. Stored(v, "own", h)
            = [[v1 EXCEPT !["own"].list = Append(@, h)] EXCEPT !.events[h].id = nextId + 1]
      BY <1>1, <1>2, <2>1
    <2> QED
      BY <1>3, <1>5, <2>2
  <1> QED
    BY <1>6, <1>7

(* The pipeline's own store numbers in the same order: ids stay. *)
LEMMA NumberedAlike ==
  ASSUME NEW v, Sound(v), InOrder(v), NEW h \in 1 .. Len(v.events), v.own.nextId + 1 = h
  PROVE  LET u == Stored(v, "own", h)
         IN  /\ Sound(u) /\ InOrder(u) /\ Len(u.events) = Len(v.events)
             /\ u.own.nextId = h
  <1> DEFINE n == Len(v.events)
             u == Stored(v, "own", h)
  <1>1. n \in Nat /\ v.own.nextId \in Nat /\ h \in Nat
    BY SoundLengths
  <1>2. /\ IsList(v.events) /\ IsStore(v.own) /\ IsStore(v.store)
        /\ \A i \in 1 .. n : IsEvent(v.events[i])
        /\ v = [events |-> v.events, store |-> v.store, own |-> v.own, bound |-> v.bound]
    BY DEF Sound, IsWorld
  <1> DEFINE ev == WithNumber(v.events, h, h)
  <1>4. /\ IsList(ev) /\ Len(ev) = n /\ IsEvent(ev[h]) /\ ev[h].id = h
        /\ ev[h].mon = v.events[h].mon
        /\ \A i \in 1 .. n : i # h => ev[i] = v.events[i]
    BY <1>2, Renumbered
  <1>5. v.events[h].id = h
    BY DEF InOrder
  <1>6. \A i \in 1 .. n : IsEvent(ev[i]) /\ ev[i].id = v.events[i].id /\ ev[i].mon = v.events[i].mon
    BY <1>2, <1>4, <1>5
  <1>7. u = [events |-> ev, store |-> v.store,
             own |-> [list |-> Append(v.own.list, h), nextId |-> h], bound |-> v.bound]
    <2>1. v = OwnWorld(v.events, v.store, v.own.list, v.own.nextId, v.bound)
      BY <1>2 DEF IsStore, OwnWorld
    <2>2. u = OwnWorld(WithNumber(v.events, h, v.own.nextId + 1), v.store,
                       Append(v.own.list, h), v.own.nextId + 1, v.bound)
      BY <2>1, WorldStoredOwn
    <2> HIDE DEF u
    <2> QED
      BY <2>2 DEF OwnWorld
  <1> DEFINE z == World(ev, v.store.list, v.store.nextId, v.own, v.bound)
  <1>8. Extends(v, z)
    BY <1>4, <1>6, RetouchedExtends
  <1>9. /\ z.events = ev /\ z.store = v.store /\ z.own = v.own /\ z.bound = v.bound
    BY <1>2 DEF World, IsStore
  <1>10. Sound(z) /\ InOrder(z)
    BY <1>8 DEF Extends
  <1> HIDE DEF z, u
  <1>11. /\ u.events = z.events /\ u.store = z.store /\ u.bound = z.bound
         /\ u.own.nextId = h /\ IsStore(u.own)
         /\ u = [events |-> u.events, store |-> u.store, own |-> u.own, bound |-> u.bound]
    BY <1>7, <1>9 DEF IsStore
  <1>12. Sound(u)
    <2>1. IsWorld(z) /\ Named(z)
      BY <1>10 DEF Sound
    <2>2. IsWorld(u)
      BY <1>1, <1>11, <2>1 DEF IsWorld
    <2>3. Named(u)
      BY <1>11, <2>1 DEF Named
    <2> QED
      BY <2>2, <2>3 DEF Sound
  <1>13. InOrder(u)
    BY <1>10, <1>11 DEF InOrder
  <1> QED
    BY <1>4, <1>9, <1>11, <1>12, <1>13 DEF u
(* What the loop of an append computes. *)
IsAppend(f, n, v, s, hs) ==
  f = [i \in 0 .. n |-> IF i = 0 THEN v ELSE Stored(f[i - 1], s, hs[i])]

LEMMA AppendExists ==
  ASSUME NEW v, NEW s, NEW hs, NEW n \in Nat
  PROVE  \E f : IsAppend(f, n, v, s, hs)
  <1> DEFINE U == {k \in 0 .. n : \E f : IsAppend(f, k, v, s, hs)}
  <1>1. 0 \in U
    <2> DEFINE f == [i \in 0 .. 0 |-> v]
    <2>1. f = [i \in 0 .. 0 |-> IF i = 0 THEN v ELSE Stored(f[i - 1], s, hs[i])]
      OBVIOUS
    <2> HIDE DEF f
    <2>2. IsAppend(f, 0, v, s, hs)
      BY <2>1 DEF IsAppend
    <2> QED
      BY <2>2
  <1>2. ASSUME NEW k \in 1 .. n, k - 1 \in U PROVE k \in U
    <2>1. PICK f : IsAppend(f, k - 1, v, s, hs)
      BY <1>2
    <2> DEFINE Step(x, i) == Stored(x, s, hs[i])
               h == [i \in 0 .. k |-> IF i = k THEN Step(f[k - 1], k) ELSE f[i]]
    <2>2. \A i \in 0 .. k - 1 : f[i] = IF i = 0 THEN v ELSE Step(f[i - 1], i)
      BY <2>1 DEF IsAppend
    <2> HIDE DEF Step
    <2>3. ASSUME NEW i \in 0 .. k
          PROVE  h[i] = IF i = 0 THEN v ELSE Step(h[i - 1], i)
      <3>1. /\ k # 0 /\ k - 1 \in 0 .. k /\ k - 1 # k /\ k \in 0 .. k
            /\ h[i] = IF i = k THEN Step(f[k - 1], k) ELSE f[i]
            /\ h[k - 1] = f[k - 1]
        OBVIOUS
      <3>2. CASE i = k
        <4> HIDE DEF h
        <4> QED
          BY <3>1, <3>2
      <3>3. CASE i # k
        <4>1. i \in 0 .. k - 1 /\ (i # 0 => i - 1 \in 0 .. k /\ i - 1 # k)
          BY <3>3
        <4>2. i # 0 => h[i - 1] = f[i - 1]
          BY <4>1
        <4> HIDE DEF h
        <4> QED
          BY <2>2, <3>1, <3>3, <4>1, <4>2
      <3> QED
        BY <3>2, <3>3
    <2>4. h = [i \in 0 .. k |-> h[i]]
      OBVIOUS
    <2> HIDE DEF h
    <2>5. h = [i \in 0 .. k |-> IF i = 0 THEN v ELSE Step(h[i - 1], i)]
      BY <2>3, <2>4
    <2>6. IsAppend(h, k, v, s, hs)
      BY <2>5 DEF IsAppend, Step
    <2>7. k \in 0 .. n
      OBVIOUS
    <2> QED
      BY <2>6, <2>7
  <1>3. 0 .. n \subseteq U
    <2> HIDE DEF U
    <2> QED
      BY <1>1, <1>2, UpToInduction
  <1>4. n \in 0 .. n
    OBVIOUS
  <1> QED
    BY <1>3, <1>4

LEMMA AppendLoop ==
  ASSUME NEW v, NEW s, NEW hs, Len(hs) \in Nat
  PROVE  \E f : /\ StoredAll(v, s, hs) = f[Len(hs)] /\ f[0] = v
                /\ \A i \in 1 .. Len(hs) : f[i] = Stored(f[i - 1], s, hs[i])
  <1> DEFINE n == Len(hs)
             Loop(f) == f = [i \in 0 .. n |-> IF i = 0 THEN v ELSE Stored(f[i - 1], s, hs[i])]
             stored == CHOOSE f : Loop(f)
  <1>1. n \in Nat
    OBVIOUS
  <1>2. \E f : Loop(f)
    <2>1. PICK f : IsAppend(f, n, v, s, hs)
      BY <1>1, AppendExists
    <2>2. Loop(f)
      BY <2>1 DEF IsAppend
    <2> QED
      BY <2>2
  <1>3. Loop(stored)
    <2> HIDE DEF Loop
    <2> QED
      BY <1>2
  <1>4. StoredAll(v, s, hs) = stored[n]
    BY DEF StoredAll
  <1> HIDE DEF stored
  <1>5. stored[0] = v /\ \A i \in 1 .. n : stored[i] = Stored(stored[i - 1], s, hs[i])
    <2>1. \A i \in 0 .. n : stored[i] = IF i = 0 THEN v ELSE Stored(stored[i - 1], s, hs[i])
      <3> HIDE DEF n
      <3> QED
        BY <1>3
    <2>2. 0 \in 0 .. n /\ \A i \in 1 .. n : i \in 0 .. n /\ i # 0
      BY <1>1
    <2> HIDE DEF n
    <2> QED
      BY <2>1, <2>2
  <1> QED
    BY <1>4, <1>5

(* Events are stored once more where the monitors store theirs. *)
LEMMA AllNumberedAgain ==
  ASSUME NEW v, Sound(v), NEW hs, Len(hs) \in Nat,
         \A i \in 1 .. Len(hs) : hs[i] \in 1 .. Len(v.events)
  PROVE  Sound(StoredAll(v, "store", hs))
  <1> DEFINE n == Len(hs)
  <1>1. PICK f : /\ StoredAll(v, "store", hs) = f[n] /\ f[0] = v
                 /\ \A i \in 1 .. n : f[i] = Stored(f[i - 1], "store", hs[i])
    BY AppendLoop
  <1>2. n \in Nat /\ n \in 0 .. n
    OBVIOUS
  <1> DEFINE U == {i \in 0 .. n : Sound(f[i]) /\ Len(f[i].events) = Len(v.events)}
  <1>3. 0 \in U
    BY <1>1
  <1>4. ASSUME NEW i \in 1 .. n, i - 1 \in U PROVE i \in U
    <2> DEFINE x == f[i - 1]
    <2>1. Sound(x) /\ Len(x.events) = Len(v.events) /\ i \in 0 .. n
      BY <1>4
    <2>2. hs[i] \in 1 .. Len(x.events)
      BY <2>1
    <2> HIDE DEF x
    <2>3. /\ Sound(Stored(x, "store", hs[i]))
          /\ Len(Stored(x, "store", hs[i]).events) = Len(x.events)
      BY <2>1, <2>2, NumberedAgain
    <2> QED
      BY <1>1, <2>1, <2>3 DEF x
  <1> HIDE DEF n
  <1>5. 0 .. n \subseteq U
    <2> HIDE DEF U
    <2> QED
      BY <1>2, <1>3, <1>4, UpToInduction
  <1> QED
    BY <1>1, <1>2, <1>5 DEF n

(* The pipeline's own store is handed the events behind those it has. *)
LEMMA AllNumberedAlike ==
  ASSUME NEW v, Sound(v), InOrder(v), NEW hs, Len(hs) \in Nat,
         v.own.nextId + Len(hs) = Len(v.events),
         \A i \in 1 .. Len(hs) : hs[i] = v.own.nextId + i
  PROVE  LET u == StoredAll(v, "own", hs)
         IN  Sound(u) /\ InOrder(u) /\ u.own.nextId = Len(u.events)
  <1> DEFINE n == Len(hs)
             b == v.own.nextId
             len == Len(v.events)
  <1>1. PICK f : /\ StoredAll(v, "own", hs) = f[n] /\ f[0] = v
                 /\ \A i \in 1 .. n : f[i] = Stored(f[i - 1], "own", hs[i])
    BY AppendLoop
  <1>2. /\ n \in Nat /\ n \in 0 .. n /\ b \in Nat /\ b + n = len
        /\ \A i \in 1 .. n : hs[i] = b + i
    BY SoundLengths
  <1> DEFINE U == {i \in 0 .. n : /\ Sound(f[i]) /\ InOrder(f[i]) /\ Len(f[i].events) = len
                                  /\ f[i].own.nextId = b + i}
  <1>3. 0 \in U
    <2> HIDE DEF n
    <2>1. 0 \in 0 .. n /\ b + 0 = b
      BY <1>2
    <2> QED
      BY <1>1, <2>1
  <1> HIDE DEF b, len, n
  <1>4. ASSUME NEW i \in 1 .. n, i - 1 \in U PROVE i \in U
    <2> DEFINE x == f[i - 1]
    <2>1. /\ Sound(x) /\ InOrder(x) /\ Len(x.events) = len /\ x.own.nextId = b + (i - 1)
      BY <1>4
    <2>2. /\ b + i \in 1 .. len /\ b + (i - 1) + 1 = b + i /\ hs[i] = b + i /\ i \in 0 .. n
      BY <1>2
    <2> HIDE DEF x
    <2>3. hs[i] \in 1 .. Len(x.events) /\ x.own.nextId + 1 = hs[i]
      BY <2>1, <2>2
    <2> DEFINE y == Stored(x, "own", hs[i])
    <2>4. Sound(y) /\ InOrder(y) /\ Len(y.events) = Len(x.events) /\ y.own.nextId = hs[i]
      BY <2>1, <2>3, NumberedAlike
    <2>5. f[i] = y
      BY <1>1 DEF x
    <2> HIDE DEF y
    <2> QED
      BY <2>1, <2>2, <2>4, <2>5
  <1>5. 0 .. n \subseteq U
    <2> HIDE DEF U
    <2> QED
      BY <1>2, <1>3, <1>4, UpToInduction
  <1> QED
    BY <1>1, <1>2, <1>5

(* An event is removed, or its window edited. *)
LEMMA RemoveSound ==
  ASSUME NEW v, Sound(v), NEW id
  PROVE  LET u == RemoveEvents(v, id)
         IN  /\ Sound(u) /\ (InOrder(v) => InOrder(u))
             /\ Len(u.events) = Len(v.events) /\ u.own = v.own
  <1> DEFINE n == Len(v.events)
             l == v.store.list
             mask == {i \in DOMAIN l : v.events[l[i]].id # id}
             ln == Masked(l, mask)
             bn == {b \in v.bound : b[1] # id}
             u == World(v.events, ln, v.store.nextId, v.own, bn)
  <1>1. RemoveEvents(v, id) = u
    <2>1. RemoveEvents(v, id) = [[v EXCEPT !.store.list = ln] EXCEPT !.bound = bn]
      <3>1. v.store.list = l /\ "store" \in DOMAIN v /\ "list" \in DOMAIN v.store
        BY DEF Sound, IsWorld, IsStore
      <3> QED
        BY DEF RemoveEvents
    <2>2. v = World(v.events, l, v.store.nextId, v.own, v.bound)
      BY WorldFields DEF Sound
    <2> HIDE DEF ln, bn, u, l
    <2>3. PICK v1 : v1 = [v EXCEPT !.store.list = ln]
      OBVIOUS
    <2>4. v1 = World(v.events, ln, v.store.nextId, v.own, v.bound)
      BY <2>2, <2>3 DEF World
    <2>5. PICK v2 : v2 = [v1 EXCEPT !.bound = bn]
      OBVIOUS
    <2>6. v2 = World(v.events, ln, v.store.nextId, v.own, bn)
      BY <2>4, <2>5 DEF World
    <2>7. RemoveEvents(v, id) = v2
      BY <2>1, <2>3, <2>5
    <2> QED
      BY <2>6, <2>7 DEF u
  <1>2. IsWorld(v) /\ Named(v)
    BY DEF Sound
  <1>3. ln \in Seq(1 .. n)
    <2>1. l \in Seq(1 .. n) /\ mask \in SUBSET (1 .. Len(l))
      BY <1>2 DEF IsWorld
    <2> HIDE DEF l, mask, n
    <2> QED
      BY <2>1, MaskedSelects
  <1>4. bn \subseteq v.bound
    OBVIOUS
  <1> HIDE DEF ln, bn
  <1>5. /\ u.events = v.events /\ u.store.list = ln /\ u.store.nextId = v.store.nextId
        /\ u.own = v.own /\ u.bound = bn /\ IsStore(u.store)
        /\ u = [events |-> u.events, store |-> u.store, own |-> u.own, bound |-> u.bound]
    BY DEF World, IsStore
  <1> HIDE DEF u
  <1>6. IsWorld(u)
    BY <1>2, <1>3, <1>5 DEF IsWorld
  <1>7. Named(u)
    BY <1>2, <1>4, <1>5 DEF Named
  <1>8. InOrder(v) => InOrder(u)
    BY <1>5 DEF InOrder
  <1> QED
    BY <1>1, <1>5, <1>6, <1>7, <1>8 DEF Sound

LEMMA EditSound ==
  ASSUME NEW v, Sound(v), NEW id, NEW startT
  PROVE  /\ Extends(v, EditEvent(v, id, startT))
         /\ Len(EditEvent(v, id, startT).events) = Len(v.events)
  <1> DEFINE f == FirstWith(v, id)
             n == Len(v.events)
             Moved(e) == [e EXCEPT !.start = startT]
             evs == v.events
             ev == [h \in 1 .. n |-> IF h = f THEN Moved(evs[h]) ELSE evs[h]]
  <1>1. n \in Nat /\ DOMAIN evs = 1 .. n /\ \A h \in 1 .. n : IsEvent(evs[h])
    <2>1. v.events \in Seq(ToSet(v.events))
      BY DEF Sound, IsWorld, IsList
    <2>2. \A h \in 1 .. n : IsEvent(evs[h])
      BY DEF Sound, IsWorld
    <2> QED
      BY <2>1, <2>2
  <1>2. EditEvent(v, id, startT) = World(ev, v.store.list, v.store.nextId, v.own, v.bound)
    <2> DEFINE lst == v.store.list   num == v.store.nextId   own == v.own   bound == v.bound
    <2>1. v = World(evs, lst, num, own, bound)
      BY WorldFields DEF Sound
    <2>2. EditEvent(v, id, startT) = [v EXCEPT !.events[f].start = startT]
      BY DEF EditEvent
    <2> HIDE DEF f, lst, num, own, bound, evs
    <2>3. PICK v1 : v1 = [v EXCEPT !.events[f].start = startT]
      OBVIOUS
    <2>4. v1 = World([evs EXCEPT ![f].start = startT], lst, num, own, bound)
      BY ONLY <2>1, <2>3 DEF World
    <2>5. [evs EXCEPT ![f].start = startT] = ev
      <3> HIDE DEF n
      <3> QED
        BY ONLY <1>1
    <2> HIDE DEF ev
    <2>6. v1 = World(ev, lst, num, own, bound)
      BY <2>4, <2>5
    <2> QED
      BY <2>2, <2>3, <2>6 DEF lst, num, own, bound
  <1>3. ASSUME NEW e, IsEvent(e)
        PROVE  IsEvent(Moved(e)) /\ Moved(e).id = e.id /\ Moved(e).mon = e.mon
    <2>1. PICK a, b, c, d, x :
            e = [mon |-> a, start |-> b, end |-> c, open |-> d, id |-> x]
      BY <1>3 DEF IsEvent
    <2>2. PICK e1 : e1 = [e EXCEPT !.start = startT]
      OBVIOUS
    <2>3. e1 = [mon |-> a, start |-> startT, end |-> c, open |-> d, id |-> x]
      BY ONLY <2>1, <2>2
    <2>4. Moved(e) = e1
      BY <2>2
    <2> HIDE DEF Moved
    <2> QED
      BY ONLY <2>1, <2>3, <2>4 DEF IsEvent
  <1> HIDE DEF Moved
  <1>4. \A h \in 1 .. n : IsEvent(ev[h]) /\ ev[h].id = v.events[h].id /\ ev[h].mon = v.events[h].mon
    BY <1>1, <1>3
  <1>5. IsList(ev) /\ Len(ev) = n
    <2>1. ev = [h \in 1 .. n |-> ev[h]]
      OBVIOUS
    <2> HIDE DEF ev, n
    <2> QED
      BY <1>1, <2>1, FunctionIsList
  <1> HIDE DEF ev
  <1>6. Extends(v, EditEvent(v, id, startT))
    BY <1>2, <1>4, <1>5, RetouchedExtends
  <1>7. EditEvent(v, id, startT).events = ev
    BY <1>2 DEF World
  <1> QED
    BY <1>5, <1>6, <1>7
-----------------------------------------------------------------------------
(* The steps. *)

(* The events a world has in addition are listed behind those it had. *)
LEMMA AddedEvents ==
  ASSUME NEW v, NEW u, Sound(v), Extends(v, u)
  PROVE  LET hs == SubSeq(u.store.list, Len(v.store.list) + 1, Len(u.store.list))
         IN  /\ Len(hs) \in Nat /\ Len(v.events) + Len(hs) = Len(u.events)
             /\ \A i \in 1 .. Len(hs) : hs[i] = Len(v.events) + i
  <1> DEFINE k == Len(v.store.list)   l == u.store.list   n == Len(l)
             a == Len(v.events)   b == Len(u.events)
             hs == SubSeq(l, k + 1, n)
  <1>1. /\ a \in Nat /\ b \in Nat /\ k \in Nat /\ n \in Nat
        /\ a <= b /\ n - k = b - a
        /\ \A i \in 1 .. b - a : l[k + i] = a + i
    BY SoundLengths DEF Extends
  <1>2. l \in Seq(1 .. b)
    BY DEF Extends, Sound, IsWorld
  <1> HIDE DEF k, l, n, a, b
  <1>3. Len(hs) = n - k /\ \A i \in 1 .. n - k : hs[i] = l[k + i]
    <2>1. n = Len(l)
      BY DEF n
    <2>2. k <= n
      BY <1>1
    <2>3. Len(hs) = n - k
      BY <1>1, <1>2, <2>1, <2>2
    <2>4. ASSUME NEW i \in 1 .. n - k PROVE hs[i] = l[k + i]
      <3>1. hs[i] = l[k + 1 + i - 1] /\ k + 1 + i - 1 = k + i
        BY <1>1, <1>2, <2>1, <2>2
      <3> QED
        BY <3>1
    <2> QED
      BY <2>3, <2>4
  <1> HIDE DEF hs
  <1>4. /\ Len(hs) \in Nat /\ a + Len(hs) = b /\ \A i \in 1 .. Len(hs) : hs[i] = a + i
    <2> DEFINE c == Len(hs)
    <2>1. c = n - k /\ c = b - a /\ c \in Nat /\ a + c = b
      BY ONLY <1>1, <1>3
    <2> HIDE DEF c
    <2>2. \A i \in 1 .. c : hs[i] = a + i
      BY ONLY <1>1, <1>3, <2>1
    <2> QED
      BY <2>1, <2>2 DEF c
  <1> QED
    BY <1>4 DEF k, l, n, a, b, hs

(* What the invariant says of the world. *)
Right(v) == Sound(v) /\ (sharing = "own" /\ feed = "pipeline" =>
                            InOrder(v) /\ v.own.nextId = Len(v.events))

LEMMA PointsTyped ==
  ASSUME NEW levels \in Seq(Levels), NEW n \in Nat
  PROVE  Points(levels, n) \in Seq(Point)
  <1>1. levels = [i \in 1 .. Len(levels) |-> levels[i]] /\ Len(levels) \in Nat
        /\ DOMAIN levels = 1 .. Len(levels) /\ \A i \in 1 .. Len(levels) : levels[i] \in Levels
    OBVIOUS
  <1> DEFINE len == Len(levels)
  <1> HIDE DEF len
  <1>2. Points(levels, n) = [i \in 1 .. len |-> <<n + i, levels[i]>>]
    BY <1>1 DEF Points, len
  <1>3. \A i \in 1 .. len : <<n + i, levels[i]>> \in Point
    BY <1>1 DEF Point, len
  <1>4. Points(levels, n) \in [1 .. len -> Point]
    BY <1>2, <1>3
  <1> QED
    BY ONLY <1>1, <1>4 DEF len

LEMMA IdInit == Init => IdInv
  <1> SUFFICES ASSUME Init PROVE IdInv
    OBVIOUS
  <1>1. PICK c \in Configs : feed = c.feed /\ sharing = c.sharing
    BY DEF Init
  <1>2. feed \in {"pipeline", "stream"} /\ sharing \in {"none", "own", "store"}
    BY <1>1, LiveAssumption DEF LiveAssumption
  <1>3. PICK s \in Starts : parent = [m \in Monitors |-> Points(s[m].levels, 0)]
    BY DEF Init
  <1>4. parent \in [Monitors -> Seq(Point)]
    <2>1. \A m \in Monitors : s[m].levels \in Seq(Levels)
      BY LiveAssumption DEF LiveAssumption
    <2>2. \A m \in Monitors : Points(s[m].levels, 0) \in Seq(Point)
      BY <2>1, PointsTyped
    <2> QED
      BY <1>3, <2>2
  <1>5. w = NoEvents /\ past = [m \in Monitors |-> {}]
    BY DEF Init
  <1>6. /\ w.events = <<>> /\ w.store = [list |-> <<>>, nextId |-> 0]
        /\ w.own = [list |-> <<>>, nextId |-> 0] /\ w.bound = {}
        /\ w = [events |-> w.events, store |-> w.store, own |-> w.own, bound |-> w.bound]
    BY <1>5 DEF NoEvents
  <1>7. Len(w.events) = 0 /\ 1 .. 0 = {} /\ IsList(w.events)
    <2>1. <<>> \in Seq(ToSet(<<>>)) /\ Len(<<>>) = 0
      OBVIOUS
    <2> QED
      BY <1>6, <2>1 DEF IsList
  <1>8. IsWorld(w)
    BY <1>6, <1>7 DEF IsWorld, IsStore
  <1>9. Named(w)
    BY <1>6, <1>7 DEF Named
  <1>10. InOrder(w)
    BY <1>6, <1>7 DEF InOrder
  <1> QED
    BY <1>2, <1>4, <1>5, <1>6, <1>7, <1>8, <1>9, <1>10 DEF IdInv, Sound

(* A step that keeps the trace of every monitor, and the events right. *)
LEMMA IdStep ==
  ASSUME IdInv, UNCHANGED <<feed, sharing>>, parent' \in [Monitors -> Seq(Point)],
         past' = [m \in Monitors |-> past'[m]],
         \A m \in Monitors : past[m] \subseteq past'[m],
         NotApart /\ NotApart' /\ Right(w) => Right(w')
  PROVE  IdInv'
  <1>1. NotApart' => NotApart
    BY DEF NotApart
  <1>2. NotApart => Right(w)
    BY DEF IdInv, Right
  <1> QED
    BY <1>1, <1>2 DEF IdInv, Right

LEMMA IdRunCycle ==
  ASSUME PollInv, IdInv, NEW outcome \in [Monitors -> {"ok", "torn", "contended"}],
         RunCycle(outcome)
  PROVE  IdInv'
  <1> DEFINE before == PollState(lastIndex, parent, mon, w, dropped, past)
             after == Polled(before, outcome)
             a == after.w
             hs == SubSeq(a.store.list, Len(w.store.list) + 1, Len(a.store.list))
  <1>1. feed = "pipeline" /\ UNCHANGED <<feed, sharing, file>>
    BY DEF RunCycle, config
  <1>2. /\ parent' = after.parent /\ past' = after.past
        /\ w' = IF sharing = "none" THEN a ELSE StoredAll(a, sharing, hs)
    BY DEF RunCycle, PollState
  <1>3. /\ file \in [Monitors -> Seq(Point)] /\ parent \in [Monitors -> Seq(Point)]
        /\ lastIndex \in [Monitors -> Nat] /\ dropped \in [Monitors -> SUBSET Nat]
        /\ past = [k \in Monitors |-> past[k]]
        /\ \A k \in Monitors :
             Fed(file[k], parent[k], lastIndex[k], dropped[k], "revised" \in past[k])
    BY <1>1 DEF PollInv
  <1>4. PollFits(before, outcome) /\ before.w = w
    <2>1. \A k \in Monitors : Account(lastIndex[k], parent[k], dropped[k], k, outcome)
      BY DEF Account
    <2>2. /\ lastIndex = [k \in Monitors |-> lastIndex[k]]
          /\ parent = [k \in Monitors |-> parent[k]]
          /\ dropped = [k \in Monitors |-> dropped[k]]
      BY <1>3
    <2>3. before.w = w
      BY DEF PollState
    <2> QED
      BY <1>3, <2>1, <2>2, <2>3 DEF PollFits
  <1>5. ASSUME NEW m \in Monitors
        PROVE  parent[m] \in Seq(Point) /\ Fetched(m) \in Seq(Point)
    <2>1. file[m] \in Seq(Point) /\ parent[m] \in Seq(Point) /\ lastIndex[m] \in 0 .. Len(file[m])
      BY <1>3 DEF Fed
    <2> DEFINE f == file[m]   i == lastIndex[m]
    <2>2. f \in Seq(Point) /\ i \in 0 .. Len(f)
      BY <2>1
    <2> HIDE DEF f, i
    <2>3. SubSeq(f, i + 1, Len(f)) \in Seq(Point)
      BY <2>2
    <2> QED
      BY <2>1, <2>3 DEF Fetched, f, i
  <1>6. PollFits(after, outcome)
    <2> HIDE DEF before
    <2> QED
      BY <1>4, PolledFits
  <1>7. Sound(w) => Extends(w, a)
    <2> HIDE DEF before
    <2> QED
      BY <1>4, <1>5, PolledExtends
  <1> HIDE DEF after, before
  <1>8. past' = [m \in Monitors |-> past'[m]] /\ \A m \in Monitors : past[m] \subseteq past'[m]
    <2>1. PICK l, p, mo, v, d, t :
            /\ after = PollState(l, p, mo, v, d, t)
            /\ t = [m \in Monitors |-> t[m]] /\ \A m \in Monitors : past[m] \subseteq t[m]
      BY <1>6 DEF PollFits
    <2>2. past' = t
      BY <1>2, <2>1 DEF PollState
    <2> QED
      BY <2>1, <2>2
  <1>9. parent' \in [Monitors -> Seq(Point)]
    <2>1. PollInv'
      BY <1>1, PollRunCycle
    <2> QED
      BY <1>1, <2>1 DEF PollInv
  <1>10. ASSUME Right(w) PROVE Right(w')
    <2>1. Sound(w) /\ Extends(w, a) /\ Sound(a)
      BY <1>7, <1>10 DEF Right, Extends
    <2>2. /\ Len(hs) \in Nat /\ Len(w.events) + Len(hs) = Len(a.events)
          /\ \A i \in 1 .. Len(hs) : hs[i] = Len(w.events) + i
      <3> HIDE DEF a
      <3> QED
        BY <2>1, AddedEvents
    <2>3. Len(w.events) \in Nat /\ Len(a.events) \in Nat
      BY <2>1, SoundLengths
    <2> HIDE DEF a, hs
    <2>4. CASE sharing = "none"
      <3>1. w' = a
        BY <1>2, <2>4
      <3> QED
        BY <1>1, <2>1, <2>4, <3>1 DEF Right
    <2>5. CASE sharing = "store"
      <3>1. w' = StoredAll(a, "store", hs)
        BY <1>2, <2>5
      <3>2. \A i \in 1 .. Len(hs) : hs[i] \in 1 .. Len(a.events)
        BY <2>2, <2>3
      <3>3. Sound(w')
        BY <2>1, <2>2, <3>1, <3>2, AllNumberedAgain
      <3> QED
        BY <1>1, <2>5, <3>3 DEF Right
    <2>6. CASE sharing = "own"
      <3>1. w' = StoredAll(a, "own", hs)
        BY <1>2, <2>6
      <3>2. InOrder(a) /\ a.own.nextId = Len(w.events)
        BY <1>1, <1>10, <2>1, <2>6 DEF Right, Extends
      <3>3. Sound(w') /\ InOrder(w') /\ w'.own.nextId = Len(w'.events)
        <4>1. a.own.nextId + Len(hs) = Len(a.events)
              /\ \A i \in 1 .. Len(hs) : hs[i] = a.own.nextId + i
          BY <2>2, <3>2
        <4> QED
          BY <2>1, <2>2, <3>1, <3>2, <4>1, AllNumberedAlike
      <3> QED
        BY <3>3 DEF Right
    <2> QED
      BY <2>4, <2>5, <2>6 DEF IdInv
  <1> QED
    BY <1>1, <1>8, <1>9, <1>10, IdStep

LEMMA IdView ==
  ASSUME IdInv, NEW m \in Monitors, View(m)
  PROVE  IdInv'
  <1>1. UNCHANGED <<feed, sharing, parent>>
    BY DEF View, config
  <1> DEFINE got == GetXY(mon[m], w, m, parent[m], persist)
  <1>2. /\ w' = got.w
        /\ past' = [k \in Monitors |-> past[k] \cup EmitTrace(got.w)
                      \cup (IF k = m /\ ~(persist /\ ~Stale(mon[m].row, parent[m]))
                            THEN RecomputeTrace(m) ELSE {})]
    BY DEF View
  <1>3. parent \in [Monitors -> Seq(Point)]
    BY DEF IdInv
  <1>4. Sound(w) => Extends(w, got.w)
    BY <1>3, GetXYExtends
  <1> HIDE DEF got
  <1>5. /\ past' = [k \in Monitors |-> past'[k]]
        /\ \A k \in Monitors : past[k] \subseteq past'[k] /\ EmitTrace(got.w) \subseteq past'[k]
    BY <1>2
  <1>6. ASSUME NotApart', Right(w) PROVE Right(w')
    <2>1. Sound(w) /\ Extends(w, got.w) /\ Sound(got.w)
      BY <1>4, <1>6 DEF Right, Extends
    <2>2. ASSUME sharing = "own", feed = "pipeline"
          PROVE  InOrder(got.w) /\ got.w.own.nextId = Len(got.w.events)
      <3>1. InOrder(w) /\ w.own.nextId = Len(w.events)
        BY <1>6, <2>2 DEF Right
      <3>2. InOrder(got.w) /\ got.w.own = w.own /\ Len(w.events) <= Len(got.w.events)
        BY <2>1, <3>1 DEF Extends
      <3>3. ~(Len(got.w.events) > Len(w.events))
        <4>1. EmitTrace(got.w) = {}
          BY <1>5, <1>6 DEF NotApart, EmitTrace
        <4> QED
          BY <2>2, <4>1 DEF EmitTrace
      <3>4. Len(w.events) \in Nat /\ Len(got.w.events) \in Nat
        BY <2>1, SoundLengths
      <3>5. Len(got.w.events) = Len(w.events)
        BY <3>2, <3>3, <3>4
      <3> QED
        BY <3>1, <3>2, <3>5
    <2> QED
      BY <1>1, <1>2, <2>1, <2>2 DEF Right
  <1>7. parent' \in [Monitors -> Seq(Point)]
    BY <1>1, <1>3
  <1> QED
    BY <1>1, <1>5, <1>6, <1>7, IdStep
LEMMA IdStream ==
  ASSUME IdInv, NEW m \in Monitors, NEW levels \in Chunks, Stream(m, levels)
  PROVE  IdInv'
  <1> DEFINE chunk == Points(levels, Len(parent[m]))
             grown == parent[m] \o chunk
             got == AppendData(mon[m], w, m, grown, chunk, persist)
             trace == IF Cold(mon[m]) THEN RecomputeTrace(m) ELSE AppendTrace(m, chunk, got.mon)
  <1>1. /\ feed = "stream" /\ UNCHANGED <<feed, sharing>>
        /\ parent' = [parent EXCEPT ![m] = grown] /\ w' = got.w
        /\ past' = [past EXCEPT ![m] = @ \cup trace]
    BY DEF Stream, config
  <1>2. parent \in [Monitors -> Seq(Point)] /\ past = [k \in Monitors |-> past[k]]
    BY DEF IdInv
  <1>3. chunk \in Seq(Point)
    <2>1. levels \in Seq(Levels)
      BY LiveAssumption DEF LiveAssumption
    <2>2. Len(parent[m]) \in Nat
      BY <1>2
    <2> QED
      BY <2>1, <2>2, PointsTyped
  <1> HIDE DEF chunk
  <1>4. grown \in Seq(Point)
    BY <1>2, <1>3, ConcatProperties
  <1> HIDE DEF grown, trace
  <1>5. Sound(w) => Sound(w')
    <2>1. Sound(w) => Extends(w, got.w)
      BY <1>3, <1>4, AppendDataExtends
    <2> HIDE DEF got
    <2> QED
      BY <1>1, <2>1 DEF Extends
  <1> HIDE DEF got
  <1>6. Right(w) => Right(w')
    BY <1>1, <1>5 DEF Right
  <1>7. parent' \in [Monitors -> Seq(Point)]
    BY <1>1, <1>2, <1>4
  <1>8. past' = [k \in Monitors |-> past'[k]] /\ \A k \in Monitors : past[k] \subseteq past'[k]
    BY <1>1, <1>2
  <1> QED
    BY <1>1, <1>6, <1>7, <1>8, IdStep

LEMMA IdUpdate ==
  ASSUME IdInv, NEW m \in Monitors, NEW levels \in Chunks \cup {<<>>}, Update(m, levels)
  PROVE  IdInv'
  <1> DEFINE chunk == Points(levels, Len(parent[m]))
             grown == parent[m] \o chunk
  <1>1. /\ UNCHANGED <<feed, sharing, w, past>>
        /\ parent' = [parent EXCEPT ![m] = @ \o Points(levels, Len(@))]
    BY DEF Update, config
  <1>2. parent \in [Monitors -> Seq(Point)] /\ past = [k \in Monitors |-> past[k]]
    BY DEF IdInv
  <1>3. chunk \in Seq(Point)
    <2>1. levels \in Seq(Levels)
      <3>1. Chunks \subseteq Seq(Levels)
        BY LiveAssumption DEF LiveAssumption
      <3>2. <<>> \in Seq(Levels)
        OBVIOUS
      <3> QED
        BY ONLY <3>1, <3>2, levels \in Chunks \cup {<<>>}
    <2>2. Len(parent[m]) \in Nat
      BY <1>2
    <2> QED
      BY <2>1, <2>2, PointsTyped
  <1>4. parent' = [parent EXCEPT ![m] = grown]
    BY <1>1, <1>2
  <1> HIDE DEF chunk
  <1>5. grown \in Seq(Point)
    BY <1>2, <1>3, ConcatProperties
  <1> HIDE DEF grown
  <1>6. parent' \in [Monitors -> Seq(Point)]
    BY <1>2, <1>4, <1>5
  <1>7. Right(w) => Right(w')
    BY <1>1 DEF Right
  <1> QED
    BY <1>1, <1>2, <1>6, <1>7, IdStep

LEMMA IdRevise ==
  ASSUME IdInv, NEW m \in Monitors, NEW i \in DOMAIN parent[m], NEW level \in Levels,
         Revise(m, i, level)
  PROVE  IdInv'
  <1> DEFINE q == [parent[m] EXCEPT ![i][2] = level]
  <1>1. /\ UNCHANGED <<feed, sharing, w>>
        /\ parent' = [parent EXCEPT ![m][i][2] = level]
        /\ past' = [past EXCEPT ![m] = @ \cup {"revised"}]
    BY DEF Revise, Extra, config
  <1>2. parent \in [Monitors -> Seq(Point)] /\ past = [k \in Monitors |-> past[k]]
    BY DEF IdInv
  <1>3. parent' = [parent EXCEPT ![m] = q]
    BY <1>1, <1>2
  <1>4. q \in Seq(Point)
    <2> DEFINE p == parent[m]
    <2>1. p \in Seq(Point) /\ i \in DOMAIN p
      BY <1>2
    <2> HIDE DEF p
    <2>2. p[i] \in Nat \X Levels
      BY <2>1 DEF Point
    <2>3. [p[i] EXCEPT ![2] = level] \in Point
      BY <2>2 DEF Point
    <2>4. [p EXCEPT ![i] = [p[i] EXCEPT ![2] = level]] \in Seq(Point)
      BY <2>1, <2>3, ExceptSeq
    <2> QED
      BY <2>4 DEF p
  <1> HIDE DEF q
  <1>5. parent' \in [Monitors -> Seq(Point)]
    BY <1>2, <1>3, <1>4
  <1>6. past' = [k \in Monitors |-> past'[k]] /\ \A k \in Monitors : past[k] \subseteq past'[k]
    BY <1>1, <1>2
  <1>7. Right(w) => Right(w')
    BY <1>1 DEF Right
  <1> QED
    BY <1>1, <1>5, <1>6, <1>7, IdStep

LEMMA IdOperator ==
  ASSUME IdInv, NEW id, NEW startT, RemoveEvent(id) \/ EditWindow(id, startT)
  PROVE  IdInv'
  <1>1. UNCHANGED <<feed, sharing, parent>> /\ past' = Edited
    BY DEF RemoveEvent, EditWindow, Extra, config
  <1>2. w' = RemoveEvents(w, id) \/ w' = EditEvent(w, id, startT)
    BY DEF RemoveEvent, EditWindow
  <1>3. past' = [k \in Monitors |-> past'[k]] /\ \A k \in Monitors : past[k] \subseteq past'[k]
    BY <1>1 DEF Edited
  <1>4. parent' \in [Monitors -> Seq(Point)]
    BY <1>1 DEF IdInv
  <1>5. ASSUME Right(w) PROVE Right(w')
    <2>1. Sound(w)
      BY <1>5 DEF Right
    <2>2. /\ Sound(w') /\ (InOrder(w) => InOrder(w'))
          /\ Len(w'.events) = Len(w.events) /\ w'.own = w.own
      <3>1. CASE w' = RemoveEvents(w, id)
        BY <2>1, <3>1, RemoveSound
      <3>2. CASE w' = EditEvent(w, id, startT)
        <4>1. Extends(w, w') /\ Len(w'.events) = Len(w.events)
          BY <2>1, <3>2, EditSound
        <4> QED
          BY <4>1 DEF Extends
      <3> QED
        BY <1>2, <3>1, <3>2
    <2> QED
      BY <1>1, <1>5, <2>2 DEF Right
  <1> QED
    BY <1>1, <1>3, <1>4, <1>5, IdStep

LEMMA IdNext == PollInv /\ IdInv /\ [Next]_vars => IdInv'
  <1> SUFFICES ASSUME PollInv, IdInv, [Next]_vars PROVE IdInv'
    OBVIOUS
  <1>1. past = [k \in Monitors |-> past[k]] /\ parent \in [Monitors -> Seq(Point)]
    BY DEF IdInv
  <1>2. ASSUME UNCHANGED <<feed, sharing, parent, w, past>> PROVE IdInv'
    BY <1>1, <1>2, IdStep DEF Right
  <1>3. ASSUME NEW m \in Monitors, NEW level \in Levels, Log(m, level) PROVE IdInv'
    BY <1>2, <1>3 DEF Log, config
  <1>4. ASSUME NEW m \in Monitors, View(m) PROVE IdInv'
    BY <1>4, IdView
  <1>5. ASSUME NEW m \in Monitors, NEW levels \in Chunks, Stream(m, levels) PROVE IdInv'
    BY <1>5, IdStream
  <1>6. ASSUME NEW m \in Monitors, NEW levels \in Chunks \cup {<<>>}, Update(m, levels)
        PROVE  IdInv'
    BY <1>6, IdUpdate
  <1>7. ASSUME NEW m \in Monitors, NEW i \in DOMAIN parent[m], NEW level \in Levels,
               Revise(m, i, level)
        PROVE  IdInv'
    BY <1>7, IdRevise
  <1>8. ASSUME NEW m \in Monitors, NEW rule \in Rules, SetRule(m, rule) PROVE IdInv'
    <2>1. UNCHANGED <<feed, sharing, parent, w>> /\ past' = [past EXCEPT ![m] = @ \cup {"ruled"}]
      BY <1>8 DEF SetRule, Extra, config
    <2>2. past' = [k \in Monitors |-> past'[k]] /\ \A k \in Monitors : past[k] \subseteq past'[k]
      BY <1>1, <2>1
    <2> QED
      BY <1>1, <2>1, <2>2, IdStep DEF Right
  <1>9. ASSUME NEW outcome \in [Monitors -> {"ok", "torn", "contended"}], RunCycle(outcome)
        PROVE  IdInv'
    BY <1>9, IdRunCycle
  <1>10. ASSUME NEW id, NEW startT, RemoveEvent(id) \/ EditWindow(id, startT) PROVE IdInv'
    BY <1>10, IdOperator
  <1>11. CASE UNCHANGED vars
    BY <1>2, <1>11 DEF vars
  <1> QED
    BY <1>3, <1>4, <1>5, <1>6, <1>7, <1>8, <1>9, <1>10, <1>11 DEF Next

(* The events of a store are numbered once each and bound to the tag they  *)
(* name, unless an event was emitted outside a poll of a pipeline with a   *)
(* store of its own; until then the two stores number alike.               *)
THEOREM LiveIdInvariant == Spec => []IdInv
  <1> QED
    BY IdInit, IdNext, LivePollInvariant, PTL DEF Spec

(* An id names one event, that of the monitor it is bound to: what         *)
(* EventStore.append hands out, whoever closes, edits or removes events.   *)
THEOREM LiveIdsNameOneEvent == Spec => []IdsNameOneEvent
  <1>1. IdInv => IdsNameOneEvent
    <2> SUFFICES ASSUME IdInv, NotApart, NEW g \in ToSet(w.store.list), NEW h \in ToSet(w.store.list)
                 PROVE  /\ w.events[g].id = w.events[h].id => g = h
                        /\ \A m \in Monitors :
                             <<w.events[h].id, m>> \in w.bound => w.events[h].mon = m
      BY DEF IdsNameOneEvent, NotApart
    <2>1. IsWorld(w) /\ Named(w)
      BY DEF IdInv, Sound
    <2>2. g \in 1 .. Len(w.events) /\ h \in 1 .. Len(w.events)
      <3>1. w.store.list \in Seq(1 .. Len(w.events))
        BY <2>1 DEF IsWorld
      <3> QED
        BY <3>1 DEF ToSet
    <2> QED
      BY <2>1, <2>2 DEF Named
  <1> QED
    BY <1>1, LiveIdInvariant, PTL

-----------------------------------------------------------------------------
(* The runs of a signal. *)

Holds(bin, s, e) == \A i \in s .. e : bin[i]

(* Of n values, those from s to e are a run that cannot be longer. *)
Maximal(bin, n, s, e) ==
  /\ s \in 1 .. n /\ e \in s .. n /\ Holds(bin, s, e)
  /\ s > 1 => ~bin[s - 1]
  /\ e < n => ~bin[e + 1]

(* findRuns_ returns the maximal runs, all of them, in their order. *)
LEMMA RunsAre ==
  ASSUME NEW n \in Nat, NEW bin \in [1 .. n -> BOOLEAN]
  PROVE  LET runs == Runs(bin)
         IN  /\ Len(runs) \in Nat
             /\ ToSet(runs) = {runs[k] : k \in 1 .. Len(runs)}
             /\ runs # <<>> => Len(runs) >= 1
             /\ \A k \in 1 .. Len(runs) : Maximal(bin, n, runs[k][1], runs[k][2])
             /\ \A j, k \in 1 .. Len(runs) : j < k => runs[j][1] < runs[k][1]
             /\ \A i \in 1 .. n : bin[i] =>
                  \E k \in 1 .. Len(runs) : i \in runs[k][1] .. runs[k][2]
  <1> DEFINE ids == [i \in DOMAIN bin |-> i]
             mask == {i \in DOMAIN bin : bin[i] /\ (i > 1 => ~bin[i - 1])}
             starts == Masked(ids, mask)
             Ends(s) == {e \in s..Len(bin) : e = Len(bin) \/ ~bin[e + 1]}
             EndOf(s) == Min(Ends(s))
             runs == [k \in DOMAIN starts |-> <<starts[k], EndOf(starts[k])>>]
  <1>1. Runs(bin) = runs
    BY DEF Runs
  <1>2. DOMAIN bin = 1 .. n /\ Len(bin) = n
    OBVIOUS
  <1>3. ids \in Seq(Nat) /\ Len(ids) = n /\ \A i \in 1 .. n : ids[i] = i
    <2>1. ids \in [1 .. n -> Nat] /\ \A i \in 1 .. n : ids[i] = i
      OBVIOUS
    <2> HIDE DEF ids
    <2> QED
      BY <2>1
  <1>4. mask \in SUBSET (1 .. Len(ids))
    <2>1. mask \subseteq 1 .. n
      OBVIOUS
    <2> HIDE DEF mask, ids
    <2> QED
      BY <1>3, <2>1
  <1>5. /\ starts \in Seq(Nat)
        /\ \E pos : /\ Lists(pos, Len(starts), mask)
                    /\ \A k \in 1 .. Len(starts) : starts[k] = ids[pos[k]]
    <2> HIDE DEF ids, mask
    <2>1. ids \in Seq(Nat)
      BY <1>3
    <2>2. /\ Masked(ids, mask) \in Seq(Nat)
          /\ \E pos : /\ Lists(pos, Len(Masked(ids, mask)), mask)
                      /\ \A k \in 1 .. Len(Masked(ids, mask)) : Masked(ids, mask)[k] = ids[pos[k]]
      BY ONLY <1>4, <2>1, MaskedSelects
    <2> QED
      BY ONLY <2>2 DEF starts
  <1> DEFINE m == Len(starts)
  <1>6. m \in Nat /\ DOMAIN starts = 1 .. m
    <2> HIDE DEF starts, ids, mask
    <2> QED
      BY <1>5
  <1> HIDE DEF starts
  <1>7. /\ \A k \in 1 .. m : starts[k] \in mask
        /\ \A j, k \in 1 .. m : j < k => starts[j] < starts[k]
        /\ \A i \in mask : \E k \in 1 .. m : starts[k] = i
    <2>1. PICK pos : /\ Lists(pos, m, mask)
                     /\ \A k \in 1 .. m : starts[k] = ids[pos[k]]
      <3> HIDE DEF ids, mask
      <3> QED
        BY <1>5
    <2>2. /\ \A k \in 1 .. m : pos[k] \in mask
          /\ \A j, k \in 1 .. m : j < k => pos[j] < pos[k]
          /\ \A i \in mask : \E k \in 1 .. m : pos[k] = i
      <3> HIDE DEF mask, m
      <3> QED
        BY <2>1 DEF Lists
    <2>3. \A k \in 1 .. m : starts[k] = pos[k]
      <3>1. mask \subseteq 1 .. n
        OBVIOUS
      <3> HIDE DEF mask, m, ids
      <3> QED
        BY <1>3, <2>1, <2>2, <3>1
    <2> HIDE DEF mask, m, ids
    <2> QED
      BY <2>2, <2>3
  <1>8. ASSUME NEW s \in mask
        PROVE  Maximal(bin, n, s, EndOf(s))
    <2>1. s \in 1 .. n /\ bin[s] /\ (s > 1 => ~bin[s - 1])
      OBVIOUS
    <2> HIDE DEF mask
    <2> DEFINE T == {e \in s .. n : e = n \/ ~bin[e + 1]}
    <2>2. Ends(s) = T
      BY <1>2
    <2>3. T \in SUBSET (s .. n) /\ n \in T /\ T # {}
      BY <2>1
    <2>4. Min(T) \in T /\ \A e \in T : Min(T) <= e
      <3>1. s \in Nat /\ n \in Nat
        BY <2>1
      <3> HIDE DEF T
      <3> QED
        BY <2>3, <3>1, MinExists
    <2> DEFINE e == EndOf(s)
    <2>5. e \in T /\ \A i \in T : e <= i
      BY <2>2, <2>4
    <2> HIDE DEF e
    <2>6. e \in s .. n /\ (e < n => ~bin[e + 1])
      BY <2>1, <2>5
    <2>7. ASSUME NEW i \in s .. e PROVE bin[i]
      <3>1. CASE i = s
        BY <2>1, <3>1
      <3>2. CASE i # s
        <4>1. i - 1 \in s .. n /\ ~(e <= i - 1) /\ i - 1 # n /\ (i - 1) + 1 = i
          BY <2>1, <2>6, <3>2
        <4>2. i - 1 \notin T
          BY <2>5, <4>1
        <4> QED
          BY <4>1, <4>2
      <3> QED
        BY <3>1, <3>2
    <2> QED
      BY <2>1, <2>6, <2>7 DEF Maximal, Holds, e
  <1>9. ASSUME NEW i \in 1 .. n, bin[i]
        PROVE  \E s \in mask : i \in s .. EndOf(s)
    <2> DEFINE T == {s \in 1 .. i : Holds(bin, s, i)}
    <2>1. T \in SUBSET (1 .. i) /\ i \in T
      BY <1>9 DEF Holds
    <2>2. Min(T) \in T /\ \A j \in T : Min(T) <= j
      <3>1. 1 \in Nat /\ i \in Nat /\ T # {}
        BY <2>1
      <3> HIDE DEF T
      <3> QED
        BY <2>1, <3>1, MinExists
    <2> DEFINE s == Min(T)
    <2>3. s \in 1 .. i /\ Holds(bin, s, i) /\ \A j \in T : s <= j
      BY <2>2
    <2> HIDE DEF s
    <2>4. s > 1 => ~bin[s - 1]
      <3> SUFFICES ASSUME s > 1, bin[s - 1] PROVE FALSE
        OBVIOUS
      <3>1. s - 1 \in 1 .. i /\ \A j \in s - 1 .. i : j = s - 1 \/ j \in s .. i
        BY <2>3
      <3>2. s - 1 \in T
        BY <2>3, <3>1 DEF Holds
      <3> QED
        BY <2>3, <3>2
    <2>5. s \in mask
      BY <1>2, <2>3, <2>4 DEF Holds
    <2>6. Maximal(bin, n, s, EndOf(s))
      BY <1>8, <2>5
    <2> DEFINE e == EndOf(s)
    <2> HIDE DEF mask, EndOf
    <2>7. i <= e
      <3> SUFFICES ASSUME e < i PROVE FALSE
        BY <2>3, <2>6 DEF Maximal
      <3>1. e \in s .. n /\ (e < n => ~bin[e + 1])
        BY <2>6 DEF Maximal
      <3>2. e < n /\ e + 1 \in s .. i
        BY <2>3, <3>1
      <3> QED
        BY <2>3, <3>1, <3>2 DEF Holds
    <2>8. i \in s .. e
      BY <2>3, <2>6, <2>7 DEF Maximal
    <2> QED
      BY <2>5, <2>8
  <1> HIDE DEF mask, EndOf
  <1>10. /\ runs = [k \in 1 .. m |-> runs[k]]
         /\ \A k \in 1 .. m : runs[k] = <<starts[k], EndOf(starts[k])>>
    BY <1>6
  <1>11. IsList(runs) /\ Len(runs) = m
    <2> HIDE DEF runs
    <2> QED
      BY <1>6, <1>10, FunctionIsList
  <1> HIDE DEF runs
  <1>12. runs # <<>> => Len(runs) >= 1
    BY <1>1, <1>2, RunsList
  <1>13. ToSet(runs) = {runs[k] : k \in 1 .. m}
    <2>1. DOMAIN runs = 1 .. m
      BY <1>10
    <2> QED
      BY <2>1 DEF ToSet
  <1>14. \A k \in 1 .. m : runs[k][1] = starts[k] /\ runs[k][2] = EndOf(starts[k])
    BY <1>10
  <1> HIDE DEF m
  <1>15. \A i \in 1 .. n : bin[i] => \E k \in 1 .. m : i \in runs[k][1] .. runs[k][2]
    BY <1>7, <1>9, <1>14
  <1>16. \A k \in 1 .. m : Maximal(bin, n, runs[k][1], runs[k][2])
    BY <1>7, <1>8, <1>14
  <1>17. \A j, k \in 1 .. m : j < k => runs[j][1] < runs[k][1]
    BY <1>7, <1>14
  <1> QED
    BY <1>1, <1>6, <1>11, <1>12, <1>13, <1>15, <1>16, <1>17

-----------------------------------------------------------------------------
(* The minimum duration. *)

(* x does not decrease along a line. *)
Rises(pts) == \A i, j \in 1 .. Len(pts) : i <= j => pts[i][1] <= pts[j][1]

(* When the run began that the chunk pts has from position s on. *)
Begun(pts, carry, s) == IF s = 1 /\ carry # 0 THEN carry ELSE pts[s][1]

(* The alarm is on around position i for long enough. *)
Lasts(pts, bin, minDur, carry, i) ==
  \E s \in 1 .. i, e \in i .. Len(pts) :
    Holds(bin, s, e) /\ pts[e][1] - Begun(pts, carry, s) >= minDur

(* applyDebounce_ keeps what lasts long enough, and hands on when the run  *)
(* began that reaches the end of the chunk.                                *)
LEMMA DebouncedIs ==
  ASSUME NEW pts \in Seq(Point), Rises(pts), NEW bin \in [1 .. Len(pts) -> BOOLEAN],
         NEW minDur \in Nat, NEW carry \in Nat,
         carry # 0 /\ pts # <<>> => carry <= pts[1][1]
  PROVE  LET deb == Debounced(pts, bin, minDur, carry)
         IN  /\ deb.bin \in [1 .. Len(pts) -> BOOLEAN]
             /\ \A i \in 1 .. Len(pts) : deb.bin[i] <=> Lasts(pts, bin, minDur, carry, i)
             /\ \/ deb.ongoing = 0
                \/ \E s \in 1 .. Len(pts) :
                     deb.ongoing = Begun(pts, carry, s) /\ Holds(bin, s, Len(pts))
  <1> DEFINE n == Len(pts)
             Start(r) == IF r[1] = 1 /\ carry # 0 THEN carry ELSE pts[r[1]][1]
             short == {r \in ToSet(Runs(bin)) : pts[r[2]][1] - Start(r) < minDur}
             kept == [i \in DOMAIN bin |-> bin[i] /\ \A r \in short : i \notin r[1]..r[2]]
             ongoing == IF kept # <<>> /\ Last(kept) THEN Start(Last(Runs(kept))) ELSE 0
             runs == Runs(bin)
  <1>1. Debounced(pts, bin, minDur, carry) = [bin |-> kept, ongoing |-> ongoing]
    BY DEF Debounced
  <1>2. n \in Nat /\ \A i \in 1 .. n : pts[i][1] \in Nat
    BY DEF Point
  <1>3. \A r : Start(r) = Begun(pts, carry, r[1])
    BY DEF Begun
  <1>4. /\ Len(runs) \in Nat
        /\ ToSet(runs) = {runs[k] : k \in 1 .. Len(runs)}
        /\ \A k \in 1 .. Len(runs) : Maximal(bin, n, runs[k][1], runs[k][2])
        /\ \A i \in 1 .. n : bin[i] => \E k \in 1 .. Len(runs) : i \in runs[k][1] .. runs[k][2]
    BY <1>2, RunsAre
  <1>5. DOMAIN bin = 1 .. n
    OBVIOUS
  <1> HIDE DEF n, Start, runs
  <1>6. kept \in [1 .. n -> BOOLEAN]
    <2>1. \A i \in 1 .. n : bin[i] \in BOOLEAN
      BY DEF n
    <2> HIDE DEF short
    <2> QED
      BY <1>5, <2>1
  <1>7. ASSUME NEW i \in 1 .. n, kept[i] PROVE Lasts(pts, bin, minDur, carry, i)
    <2>1. bin[i] /\ \A r \in short : i \notin r[1] .. r[2]
      BY <1>5, <1>7
    <2>2. PICK k \in 1 .. Len(runs) : i \in runs[k][1] .. runs[k][2]
      BY <1>4, <2>1
    <2> DEFINE r == runs[k]
    <2>3. Maximal(bin, n, r[1], r[2]) /\ r \in ToSet(runs)
      BY <1>4
    <2>4. ~(pts[r[2]][1] - Start(r) < minDur)
      BY <2>1, <2>2, <2>3 DEF runs
    <2> DEFINE s == r[1]   e == r[2]
    <2>5. s \in 1 .. i /\ e \in i .. n /\ Holds(bin, s, e)
      BY <2>2, <2>3 DEF Maximal
    <2>6. pts[e][1] - Begun(pts, carry, s) \in Int
      <3> HIDE DEF s, e
      <3> QED
        BY <1>2, <2>5 DEF Begun
    <2>7. pts[e][1] - Begun(pts, carry, s) >= minDur
      <3> DEFINE span == pts[e][1] - Begun(pts, carry, s)
      <3>1. ~(span < minDur) /\ span \in Int
        BY <1>3, <2>4, <2>6
      <3> HIDE DEF span
      <3>2. span >= minDur
        BY ONLY <3>1, minDur \in Nat
      <3> QED
        BY <3>2 DEF span
    <2> HIDE DEF s, e
    <2> QED
      BY <2>5, <2>7 DEF Lasts, n
  <1>8. ASSUME NEW i \in 1 .. n, Lasts(pts, bin, minDur, carry, i) PROVE kept[i]
    <2>1. PICK s \in 1 .. i, e \in i .. n :
            Holds(bin, s, e) /\ pts[e][1] - Begun(pts, carry, s) >= minDur
      BY <1>8 DEF Lasts, n
    <2>2. bin[i]
      BY <2>1 DEF Holds
    <2>3. ASSUME NEW r \in short, i \in r[1] .. r[2] PROVE FALSE
      <3> DEFINE a == r[1]   b == r[2]
      <3>1. r \in ToSet(runs) /\ pts[b][1] - Begun(pts, carry, a) < minDur
        BY <1>3 DEF runs
      <3>2. /\ a \in 1 .. n /\ b \in a .. n /\ Holds(bin, a, b)
            /\ a > 1 => ~bin[a - 1]
            /\ b < n => ~bin[b + 1]
        BY <1>4, <3>1 DEF Maximal
      <3>3. i \in a .. b
        BY <2>3
      <3> HIDE DEF a, b, short, kept
      <3>0. /\ a \in Int /\ b \in Int /\ s \in Int /\ e \in Int /\ i \in Int /\ n \in Int
            /\ 1 <= s /\ s <= i /\ i <= e /\ e <= n /\ a <= i /\ i <= b
        <4>1. i \in Int /\ n \in Int
          BY ONLY <1>2, i \in 1 .. n
        <4>2. a \in Int /\ b \in Int /\ a <= i /\ i <= b
          BY ONLY <3>2, <3>3, <4>1
        <4>3. s \in Int /\ e \in Int /\ 1 <= s /\ s <= i /\ i <= e /\ e <= n
          BY ONLY <4>1, s \in 1 .. i, e \in i .. n
        <4> QED
          BY ONLY <4>1, <4>2, <4>3
      <3>4. a <= s
        <4> SUFFICES ASSUME ~(a <= s) PROVE FALSE
          OBVIOUS
        <4>0. s < a
          BY ONLY <3>0, ~(a <= s)
        <4>1. a > 1 /\ a - 1 \in s .. e
          BY ONLY <3>0, <4>0
        <4> QED
          BY <2>1, <3>2, <4>1 DEF Holds
      <3>5. e <= b
        <4> SUFFICES ASSUME ~(e <= b) PROVE FALSE
          OBVIOUS
        <4>0. b < e
          BY ONLY <3>0, ~(e <= b)
        <4>1. b < n /\ b + 1 \in s .. e
          BY ONLY <3>0, <4>0
        <4> QED
          BY <2>1, <3>2, <4>1 DEF Holds
      <3>6. s \in 1 .. n /\ e \in 1 .. n
        BY <1>2, <2>1
      <3>7. pts[e][1] <= pts[b][1]
        BY <3>2, <3>5, <3>6 DEF Rises, n
      <3>8. pts[a][1] <= pts[s][1] /\ pts[1][1] <= pts[s][1]
        BY <1>2, <3>2, <3>4, <3>6 DEF Rises, n
      <3>9. /\ Begun(pts, carry, a) <= Begun(pts, carry, s)
            /\ Begun(pts, carry, a) \in Nat /\ Begun(pts, carry, s) \in Nat
        <4>1. pts # <<>>
          BY <3>6 DEF n
        <4>2. carry # 0 => carry <= pts[1][1]
          BY <4>1
        <4>3. /\ carry \in Nat /\ pts[1][1] \in Nat /\ pts[a][1] \in Nat /\ pts[s][1] \in Nat
              /\ a \in Nat /\ s \in Nat /\ 1 <= a
          BY <1>2, <3>2, <3>6
        <4> QED
          BY ONLY <3>4, <3>8, <4>2, <4>3 DEF Begun
      <3>10. pts[e][1] \in Nat /\ pts[b][1] \in Nat
        BY <1>2, <3>2, <3>6
      <3>11. /\ pts[e][1] - Begun(pts, carry, s) >= minDur
             /\ pts[b][1] - Begun(pts, carry, a) < minDur
        BY <2>1, <3>1
      <3> DEFINE pe == pts[e][1]   pb == pts[b][1]
                 ba == Begun(pts, carry, a)   bs == Begun(pts, carry, s)
      <3> HIDE DEF pe, pb, ba, bs
      <3>12. /\ pe - bs >= minDur /\ pb - ba < minDur /\ pe <= pb /\ ba <= bs
             /\ pe \in Nat /\ pb \in Nat /\ ba \in Nat /\ bs \in Nat /\ minDur \in Nat
        BY <3>7, <3>9, <3>10, <3>11 DEF pe, pb, ba, bs
      <3> QED
        BY ONLY <3>12
    <2> HIDE DEF short
    <2> QED
      BY <1>5, <2>2, <2>3
  <1>9. ASSUME kept # <<>>, Last(kept)
        PROVE  \E s \in 1 .. n : ongoing = Begun(pts, carry, s) /\ Holds(bin, s, n)
    <2>1. \A i \in 1 .. n : kept[i] => bin[i]
      BY <1>5
    <2> DEFINE lasting == Runs(kept)
    <2>2. ongoing = Start(Last(lasting))
      BY <1>9
    <2> HIDE DEF kept, ongoing
    <2>3. Len(kept) = n
      BY <1>2, <1>6
    <2>4. n >= 1
      <3>1. n = 0 => kept = <<>>
        BY <1>6, <2>3
      <3> QED
        BY <1>2, <1>9, <3>1
    <2>5. n \in 1 .. n /\ kept[n]
      BY <1>2, <1>9, <2>3, <2>4 DEF Last
    <2>6. /\ Len(lasting) \in Nat
          /\ \A k \in 1 .. Len(lasting) : Maximal(kept, n, lasting[k][1], lasting[k][2])
          /\ \A j, k \in 1 .. Len(lasting) : j < k => lasting[j][1] < lasting[k][1]
          /\ \A i \in 1 .. n : kept[i] =>
               \E k \in 1 .. Len(lasting) : i \in lasting[k][1] .. lasting[k][2]
      BY <1>2, <1>6, RunsAre
    <2> DEFINE m == Len(lasting)
    <2> HIDE DEF lasting
    <2>7. PICK k \in 1 .. m : n \in lasting[k][1] .. lasting[k][2]
      BY <2>5, <2>6
    <2> DEFINE s == lasting[k][1]
    <2>8. s \in 1 .. n /\ lasting[k][2] = n /\ Holds(kept, s, n)
      <3>1. Maximal(kept, n, lasting[k][1], lasting[k][2])
        BY <2>6
      <3>2. lasting[k][1] \in 1 .. n /\ lasting[k][2] \in lasting[k][1] .. n
            /\ Holds(kept, lasting[k][1], lasting[k][2])
        BY <3>1 DEF Maximal
      <3>3. lasting[k][2] = n
        BY <2>7, <3>2
      <3> QED
        BY <3>2, <3>3
    <2>9. k = m
      <3> SUFFICES ASSUME k # m PROVE FALSE
        OBVIOUS
      <3> DEFINE z == lasting[m][1]
      <3>1. m \in 1 .. m /\ k < m
        BY <2>6
      <3>2. s < z
        BY <2>6, <3>1
      <3>3. z \in 1 .. n /\ (z > 1 => ~kept[z - 1])
        BY <2>6, <3>1 DEF Maximal
      <3> HIDE DEF s, z
      <3>4. z > 1 /\ z - 1 \in s .. n
        BY <1>2, <2>8, <3>2, <3>3
      <3> QED
        BY <2>8, <3>3, <3>4 DEF Holds
    <2>10. ongoing = Begun(pts, carry, s)
      BY <1>3, <2>2, <2>9 DEF Last
    <2>11. Holds(bin, s, n)
      <3> HIDE DEF s
      <3> QED
        BY <2>1, <2>8 DEF Holds
    <2> HIDE DEF s
    <2> QED
      BY <2>8, <2>10, <2>11
  <1>10. ongoing = 0 \/ (kept # <<>> /\ Last(kept))
    OBVIOUS
  <1> HIDE DEF kept, ongoing
  <1> QED
    BY <1>1, <1>6, <1>7, <1>8, <1>9, <1>10 DEF n

(* Without a minimum duration nothing is suppressed. *)
LEMMA KeptAll ==
  ASSUME NEW pts \in Seq(Point), Rises(pts), NEW bin \in [1 .. Len(pts) -> BOOLEAN],
         NEW carry \in Nat, carry # 0 /\ pts # <<>> => carry <= pts[1][1]
  PROVE  Debounced(pts, bin, 0, carry).bin = bin
  <1> DEFINE n == Len(pts)
             kept == Debounced(pts, bin, 0, carry).bin
  <1>1. /\ kept \in [1 .. n -> BOOLEAN]
        /\ \A i \in 1 .. n : kept[i] <=> Lasts(pts, bin, 0, carry, i)
    BY DebouncedIs
  <1>2. n \in Nat /\ \A i \in 1 .. n : pts[i][1] \in Nat
    BY DEF Point
  <1> HIDE DEF kept
  <1>3. ASSUME NEW i \in 1 .. n PROVE kept[i] = bin[i]
    <2>1. Lasts(pts, bin, 0, carry, i) => bin[i]
      BY DEF Lasts, Holds
    <2>2. ASSUME bin[i] PROVE Lasts(pts, bin, 0, carry, i)
      <3>1. i \in 1 .. i /\ i \in i .. n
        BY <1>2
      <3>2. Holds(bin, i, i)
        BY <1>2, <2>2 DEF Holds
      <3>3. pts # <<>> /\ pts[i][1] \in Nat
        BY <1>2
      <3>4. Begun(pts, carry, i) \in Nat /\ Begun(pts, carry, i) <= pts[i][1]
        BY <3>3 DEF Begun
      <3>5. pts[i][1] - Begun(pts, carry, i) >= 0
        BY <3>3, <3>4
      <3> QED
        BY <3>1, <3>2, <3>5 DEF Lasts
    <2>3. kept[i] \in BOOLEAN /\ bin[i] \in BOOLEAN
      BY <1>1
    <2> QED
      BY <1>1, <2>1, <2>2, <2>3
  <1> QED
    BY <1>1, <1>3 DEF kept

-----------------------------------------------------------------------------
(* The hysteresis. *)

(* The state after each point, from an initial one. *)
Turns(pts, rule, i, before) == IF before THEN pts[i][2] \notin rule.off ELSE pts[i][2] \in rule.on

IsState(f, pts, rule, initial) ==
  /\ f \in [0 .. Len(pts) -> BOOLEAN]
  /\ f[0] = initial
  /\ \A i \in 1 .. Len(pts) : f[i] = Turns(pts, rule, i, f[i - 1])

(* The signal and the last state, with a clearing condition and without. *)
IsRaw(raw, pts, rule, initial) ==
  /\ raw.bin \in [1 .. Len(pts) -> BOOLEAN] /\ raw.hyst \in BOOLEAN
  /\ rule.off = {} => \A i \in 1 .. Len(pts) : raw.bin[i] = (pts[i][2] \in rule.on)
  /\ rule.off # {} =>
       \E f : /\ IsState(f, pts, rule, initial)
              /\ raw.hyst = f[Len(pts)]
              /\ \A i \in 1 .. Len(pts) : raw.bin[i] = f[i]

(* applyHysteresis_ goes from state to state. *)
LEMMA HysteresisIs ==
  ASSUME NEW pts \in Seq(Point), NEW rule, NEW initial \in BOOLEAN
  PROVE  IsRaw(Hysteresis(pts, rule, initial), pts, rule, initial)
  <1> DEFINE n == Len(pts)
             Step(x, i) == IF x THEN pts[i][2] \notin rule.off ELSE pts[i][2] \in rule.on
             Loop(f) == f = [i \in 0 .. n |-> IF i = 0 THEN initial ELSE Step(f[i - 1], i)]
             state == CHOOSE f : Loop(f)
             g == [p \in BOOLEAN \X (1 .. n) |-> Step(p[1], p[2])]
             raw == Hysteresis(pts, rule, initial)
  <1>1. n \in Nat /\ DOMAIN pts = 1 .. n
    OBVIOUS
  <1>2. raw = IF rule.off = {}
              THEN [bin |-> [i \in DOMAIN pts |-> pts[i][2] \in rule.on], hyst |-> initial]
              ELSE [bin |-> [i \in DOMAIN pts |-> state[i]], hyst |-> state[n]]
    BY DEF Hysteresis
  <1>3. g \in [BOOLEAN \X (1 .. n) -> BOOLEAN]
    <2>1. ASSUME NEW x, NEW i PROVE Step(x, i) \in BOOLEAN
      <3>1. CASE x
        BY <3>1
      <3>2. CASE ~x
        BY <3>2
      <3> QED
        BY <3>1, <3>2
    <2> HIDE DEF Step
    <2> QED
      BY <2>1
  <1>4. PICK f \in [0 .. n -> BOOLEAN] : Iterates(f, n, initial, g)
    <2> HIDE DEF g, n
    <2> QED
      BY <1>1, <1>3, IterationExists
  <1>5. \A x \in BOOLEAN, i \in 1 .. n : g[<<x, i>>] = Step(x, i)
    OBVIOUS
  <1> HIDE DEF g, Step
  <1>6. Loop(f)
    <2>1. f = [i \in 0 .. n |-> IF i = 0 THEN initial ELSE g[<<f[i - 1], i>>]]
      BY <1>4 DEF Iterates
    <2>2. ASSUME NEW i \in 0 .. n
          PROVE  (IF i = 0 THEN initial ELSE g[<<f[i - 1], i>>])
                   = IF i = 0 THEN initial ELSE Step(f[i - 1], i)
      <3>1. CASE i = 0
        BY <3>1
      <3>2. CASE i # 0
        <4>1. i \in 1 .. n /\ i - 1 \in 0 .. n
          BY <1>1, <3>2
        <4>2. f[i - 1] \in BOOLEAN
          BY <4>1
        <4> QED
          BY <1>5, <3>2, <4>1, <4>2
      <3> QED
        BY <3>1, <3>2
    <2> QED
      BY <2>1, <2>2
  <1>7. Loop(state)
    <2> HIDE DEF Loop
    <2> QED
      BY <1>6
  <1> HIDE DEF state
  <1>8. IsState(state, pts, rule, initial)
    <2>1. DOMAIN state = 0 .. n /\ state = [i \in 0 .. n |-> state[i]]
      BY <1>7
    <2>2. state[0] = initial
      BY <1>1, <1>7
    <2>3. ASSUME NEW i \in 1 .. n PROVE state[i] = Turns(pts, rule, i, state[i - 1])
      <3>1. i \in 0 .. n /\ i # 0
        BY <1>1
      <3>2. state[i] = Step(state[i - 1], i)
        BY <1>7, <3>1
      <3> QED
        BY <3>2 DEF Turns, Step
    <2> DEFINE U == {i \in 0 .. n : state[i] \in BOOLEAN}
    <2>4. 0 .. n \subseteq U
      <3>1. 0 \in U
        BY <1>1, <2>2
      <3>2. ASSUME NEW i \in 1 .. n, i - 1 \in U PROVE i \in U
        <4>1. i \in 0 .. n
          BY <1>1
        <4>2. \A x : Turns(pts, rule, i, x) \in BOOLEAN
          BY DEF Turns
        <4>3. state[i] \in BOOLEAN
          BY <2>3, <4>2
        <4> QED
          BY <4>1, <4>3
      <3> HIDE DEF U, n
      <3> QED
        BY <1>1, <3>1, <3>2, UpToInduction
    <2>5. state \in [0 .. n -> BOOLEAN]
      BY <2>1, <2>4
    <2> QED
      BY <2>2, <2>3, <2>5 DEF IsState
  <1>9. CASE rule.off = {}
    <2>1. raw = [bin |-> [i \in 1 .. n |-> pts[i][2] \in rule.on], hyst |-> initial]
      BY <1>1, <1>2, <1>9
    <2> HIDE DEF raw
    <2>2. raw.hyst = initial /\ raw.bin = [i \in 1 .. n |-> pts[i][2] \in rule.on]
      BY <2>1
    <2>3. raw.bin \in [1 .. n -> BOOLEAN]
      BY <2>2
    <2> QED
      BY <1>9, <2>2, <2>3 DEF raw, IsRaw
  <1>10. CASE rule.off # {}
    <2>1. raw = [bin |-> [i \in 1 .. n |-> state[i]], hyst |-> state[n]]
      BY <1>1, <1>2, <1>10
    <2> HIDE DEF raw
    <2>2. raw.hyst = state[n] /\ raw.bin = [i \in 1 .. n |-> state[i]]
      BY <2>1
    <2>3. \A i \in 0 .. n : state[i] \in BOOLEAN
      BY <1>8 DEF IsState
    <2>4. n \in 0 .. n /\ \A i \in 1 .. n : i \in 0 .. n
      BY <1>1
    <2>5. raw.bin \in [1 .. n -> BOOLEAN] /\ raw.hyst \in BOOLEAN
      BY <2>2, <2>3, <2>4
    <2>6. \A i \in 1 .. n : raw.bin[i] = state[i]
      BY <2>2
    <2> QED
      BY <1>8, <1>10, <2>2, <2>5, <2>6 DEF raw, IsRaw
  <1> QED
    BY <1>9, <1>10

(* The signal of one recomputation before the minimum duration. *)
Raw(pts, rule) == Hysteresis(pts, rule, FALSE)

LEMMA RawIs ==
  ASSUME NEW pts \in Seq(Point), NEW rule
  PROVE  IsRaw(Raw(pts, rule), pts, rule, FALSE)
  BY HysteresisIs DEF Raw

(* A state that is right for the line, or is off too early. *)
StateFits(hyst, pts, rule) ==
  /\ hyst \in BOOLEAN
  /\ rule.off # {} =>
       /\ hyst => Raw(pts, rule).hyst
       /\ rule.minDur = 0 => hyst = Raw(pts, rule).hyst

IsRule(rule) == rule.minDur \in Nat /\ (rule.minDur = 0 \/ rule.on \cap rule.off = {})

(* The state at the end of a line is its last value. *)
LEMMA LastState ==
  ASSUME NEW pts \in Seq(Point), pts # <<>>, NEW rule, rule.off # {}
  PROVE  Raw(pts, rule).hyst = Raw(pts, rule).bin[Len(pts)]
  <1>1. Len(pts) \in 1 .. Len(pts)
    OBVIOUS
  <1> DEFINE raw == Raw(pts, rule)
  <1>2. IsRaw(raw, pts, rule, FALSE)
    BY RawIs
  <1> HIDE DEF raw
  <1>3. PICK f : raw.hyst = f[Len(pts)] /\ \A i \in 1 .. Len(pts) : raw.bin[i] = f[i]
    BY <1>2 DEF IsRaw
  <1>4. raw.hyst = raw.bin[Len(pts)]
    BY <1>1, <1>3
  <1> QED
    BY <1>4 DEF raw

(* What comes behind a line does not change the signal before it; and the  *)
(* signal of a chunk, begun in a state that fits, fits.                    *)
LEMMA HysteresisGrows ==
  ASSUME NEW p \in Seq(Point), NEW q \in Seq(Point), NEW rule, IsRule(rule),
         NEW hyst, StateFits(hyst, p, rule)
  PROVE  LET part == Hysteresis(q, rule, hyst)
             whole == Raw(p \o q, rule)
         IN  /\ \A i \in 1 .. Len(p) : whole.bin[i] = Raw(p, rule).bin[i]
             /\ \A i \in 1 .. Len(q) : part.bin[i] => whole.bin[Len(p) + i]
             /\ rule.minDur = 0 =>
                  \A i \in 1 .. Len(q) : part.bin[i] = whole.bin[Len(p) + i]
             /\ StateFits(part.hyst, p \o q, rule)
  <1> DEFINE a == Len(p)   n == Len(q)
             pq == p \o q
             part == Hysteresis(q, rule, hyst)
             whole == Raw(pq, rule)
             head == Raw(p, rule)
  <1>1. /\ pq \in Seq(Point) /\ Len(pq) = a + n /\ a \in Nat /\ n \in Nat
        /\ \A i \in 1 .. a : pq[i] = p[i]
        /\ \A i \in 1 .. n : pq[a + i] = q[i]
    <2>1. /\ pq \in Seq(Point) /\ Len(pq) = a + n
          /\ \A i \in 1 .. a + n : pq[i] = IF i <= a THEN p[i] ELSE q[i - a]
      BY ConcatProperties
    <2>2. a \in Nat /\ n \in Nat
      OBVIOUS
    <2> HIDE DEF pq, a, n
    <2>3. \A i \in 1 .. a : i \in 1 .. a + n /\ i <= a
      BY <2>2
    <2>4. \A i \in 1 .. n : a + i \in 1 .. a + n /\ ~(a + i <= a) /\ (a + i) - a = i
      BY <2>2
    <2> QED
      BY <2>1, <2>2, <2>3, <2>4
  <1>2. hyst \in BOOLEAN
    BY DEF StateFits
  <1> HIDE DEF pq
  <1>3. CASE rule.off = {}
    <2>1. /\ \A i \in 1 .. a : head.bin[i] = (p[i][2] \in rule.on)
          /\ \A i \in 1 .. n : part.bin[i] = (q[i][2] \in rule.on)
          /\ \A i \in 1 .. a + n : whole.bin[i] = (pq[i][2] \in rule.on)
          /\ part.hyst \in BOOLEAN
      <3>1. \A i \in 1 .. a : head.bin[i] = (p[i][2] \in rule.on)
        BY <1>3, RawIs DEF IsRaw
      <3>2. (\A i \in 1 .. n : part.bin[i] = (q[i][2] \in rule.on)) /\ part.hyst \in BOOLEAN
        BY <1>2, <1>3, HysteresisIs DEF IsRaw
      <3>3. \A i \in 1 .. Len(pq) : whole.bin[i] = (pq[i][2] \in rule.on)
        BY <1>1, <1>3, RawIs DEF IsRaw
      <3> HIDE DEF head, part, whole
      <3> QED
        BY <1>1, <3>1, <3>2, <3>3
    <2> HIDE DEF head, part, whole, a, n
    <2>2. \A i \in 1 .. a : i \in 1 .. a + n
      BY <1>1
    <2>3. \A i \in 1 .. n : a + i \in 1 .. a + n
      BY <1>1
    <2>4. ASSUME NEW i \in 1 .. a PROVE whole.bin[i] = head.bin[i]
      <3>1. whole.bin[i] = (pq[i][2] \in rule.on) /\ head.bin[i] = (p[i][2] \in rule.on)
        BY <2>1, <2>2, Zenon
      <3>2. pq[i] = p[i]
        BY <1>1
      <3> QED
        BY <3>1, <3>2
    <2>5. ASSUME NEW i \in 1 .. n PROVE part.bin[i] = whole.bin[a + i]
      <3>1. a + i \in 1 .. a + n /\ pq[a + i] = q[i]
        BY <1>1, <2>3
      <3>2. whole.bin[a + i] = (pq[a + i][2] \in rule.on) /\ part.bin[i] = (q[i][2] \in rule.on)
        BY <2>1, <3>1, Zenon
      <3> QED
        BY <3>1, <3>2
    <2>6. StateFits(part.hyst, pq, rule)
      BY <1>3, <2>1 DEF StateFits
    <2> QED
      BY <2>4, <2>5, <2>6 DEF head, part, whole, a, n, pq
  <1>4. CASE rule.off # {}
    <2>1. PICK f : /\ IsState(f, p, rule, FALSE) /\ head.hyst = f[a]
                   /\ \A i \in 1 .. a : head.bin[i] = f[i]
      <3>1. IsRaw(head, p, rule, FALSE)
        BY RawIs
      <3> HIDE DEF head
      <3> QED
        BY <1>4, <3>1 DEF IsRaw
    <2>2. PICK g : /\ IsState(g, q, rule, hyst) /\ part.hyst = g[n]
                   /\ \A i \in 1 .. n : part.bin[i] = g[i]
      BY <1>2, <1>4, HysteresisIs DEF IsRaw
    <2>3. PICK h : /\ IsState(h, pq, rule, FALSE) /\ whole.hyst = h[a + n]
                   /\ \A i \in 1 .. a + n : whole.bin[i] = h[i]
      <3>1. IsRaw(whole, pq, rule, FALSE) /\ Len(pq) = a + n
        BY <1>1, RawIs
      <3> HIDE DEF whole, a, n, pq
      <3>2. \E h : /\ IsState(h, pq, rule, FALSE) /\ whole.hyst = h[Len(pq)]
                   /\ \A i \in 1 .. Len(pq) : whole.bin[i] = h[i]
        BY <1>4, <3>1, Zenon DEF IsRaw
      <3> QED
        BY <3>1, <3>2, Zenon
    <2>4. /\ f[0] = FALSE /\ \A i \in 1 .. a : f[i] = Turns(p, rule, i, f[i - 1])
          /\ g[0] = hyst /\ \A i \in 1 .. n : g[i] = Turns(q, rule, i, g[i - 1])
          /\ h[0] = FALSE /\ \A i \in 1 .. a + n : h[i] = Turns(pq, rule, i, h[i - 1])
          /\ \A i \in 0 .. n : g[i] \in BOOLEAN
          /\ \A i \in 0 .. a + n : h[i] \in BOOLEAN
      <3>1. f[0] = FALSE /\ \A i \in 1 .. a : f[i] = Turns(p, rule, i, f[i - 1])
        BY <2>1 DEF IsState
      <3>2. g[0] = hyst /\ (\A i \in 1 .. n : g[i] = Turns(q, rule, i, g[i - 1]))
            /\ \A i \in 0 .. n : g[i] \in BOOLEAN
        BY <2>2 DEF IsState
      <3>3. h[0] = FALSE /\ (\A i \in 1 .. a + n : h[i] = Turns(pq, rule, i, h[i - 1]))
            /\ \A i \in 0 .. a + n : h[i] \in BOOLEAN
        BY <1>1, <2>3 DEF IsState
      <3> QED
        BY <3>1, <3>2, <3>3
    <2> HIDE DEF head, part, whole, a, n
    <2> DEFINE U == {i \in 0 .. a : f[i] = h[i]}
    <2>5. 0 .. a \subseteq U
      <3>1. 0 \in U
        <4>1. f[0] = FALSE /\ h[0] = FALSE
          BY <2>4
        <4>2. f[0] = h[0]
          BY <4>1, Zenon
        <4>3. 0 \in 0 .. a
          BY <1>1
        <4> QED
          BY <4>2, <4>3
      <3>2. ASSUME NEW i \in 1 .. a, i - 1 \in U PROVE i \in U
        <4>1. i \in 0 .. a /\ i \in 1 .. a + n
          BY <1>1
        <4>2. f[i - 1] = h[i - 1] /\ pq[i] = p[i]
          BY <1>1, <3>2
        <4>3. f[i] = h[i]
          BY <2>4, <4>1, <4>2 DEF Turns
        <4> QED
          BY <4>1, <4>3
      <3> HIDE DEF U
      <3> QED
        BY <1>1, <3>1, <3>2, UpToInduction
    <2>6. head.hyst = h[a] /\ \A i \in 1 .. a : whole.bin[i] = head.bin[i]
      <3>1. a \in 0 .. a /\ \A i \in 1 .. a : i \in 0 .. a /\ i \in 1 .. a + n
        BY <1>1
      <3> QED
        BY <2>1, <2>3, <2>5, <3>1
    <2>7. (hyst => h[a]) /\ (rule.minDur = 0 => hyst = h[a])
      BY <1>4, <2>6 DEF StateFits, head
    <2>8. ASSUME NEW i \in 1 .. n PROVE h[a + i] = Turns(q, rule, i, h[a + (i - 1)])
      <3>1. a + i \in 1 .. a + n /\ (a + i) - 1 = a + (i - 1)
        BY <1>1
      <3>2. h[a + i] = Turns(pq, rule, a + i, h[a + (i - 1)])
        BY <2>4, <3>1
      <3> QED
        BY <1>1, <3>2 DEF Turns
    <2> DEFINE V == {i \in 0 .. n : (g[i] => h[a + i]) /\ (rule.minDur = 0 => g[i] = h[a + i])}
    <2>9. 0 .. n \subseteq V
      <3>1. 0 \in V
        BY <1>1, <2>4, <2>7
      <3>2. ASSUME NEW i \in 1 .. n, i - 1 \in V PROVE i \in V
        <4> DEFINE x == g[i - 1]   y == h[a + (i - 1)]
        <4>1. (x => y) /\ (rule.minDur = 0 => x = y)
          BY <3>2
        <4>2. g[i] = Turns(q, rule, i, x) /\ h[a + i] = Turns(q, rule, i, y)
          BY <2>4, <2>8
        <4>3. x \in BOOLEAN /\ y \in BOOLEAN
          <5>1. i - 1 \in 0 .. n /\ a + (i - 1) \in 0 .. a + n
            BY <1>1
          <5> QED
            BY <2>4, <5>1
        <4>4. rule.minDur = 0 \/ rule.on \cap rule.off = {}
          BY DEF IsRule
        <4> HIDE DEF x, y
        <4>5. (g[i] => h[a + i]) /\ (rule.minDur = 0 => g[i] = h[a + i])
          <5>1. CASE rule.minDur = 0
            BY <4>1, <4>2, <5>1
          <5>2. CASE rule.minDur # 0
            <6>1. q[i][2] \in rule.on => q[i][2] \notin rule.off
              BY <4>4, <5>2
            <6> QED
              BY <4>1, <4>2, <4>3, <5>2, <6>1 DEF Turns
          <5> QED
            BY <5>1, <5>2
        <4>6. i \in 0 .. n
          BY <1>1
        <4> QED
          BY <4>5, <4>6
      <3> HIDE DEF V
      <3> QED
        BY <1>1, <3>1, <3>2, UpToInduction
    <2>10. \A i \in 1 .. n : /\ part.bin[i] => whole.bin[a + i]
                             /\ rule.minDur = 0 => part.bin[i] = whole.bin[a + i]
      <3>1. \A i \in 1 .. n : i \in 0 .. n /\ a + i \in 1 .. a + n
        BY <1>1
      <3> QED
        BY <2>2, <2>3, <2>9, <3>1
    <2>11. StateFits(part.hyst, pq, rule)
      <3>1. n \in 0 .. n
        BY <1>1
      <3>2. part.hyst \in BOOLEAN
        BY <2>2, <2>4, <3>1
      <3>3. (part.hyst => whole.hyst) /\ (rule.minDur = 0 => part.hyst = whole.hyst)
        BY <2>2, <2>3, <2>9, <3>1
      <3> QED
        BY <3>2, <3>3 DEF StateFits, whole
    <2> QED
      BY <2>6, <2>10, <2>11 DEF head, part, whole, a, n, pq
  <1> QED
    BY <1>3, <1>4

-----------------------------------------------------------------------------
(* The signal, chunk by chunk. *)

(* A signal suppresses what one recomputation suppresses, or more where    *)
(* the rule has a minimum duration.                                        *)
SignalFits(y, pts, rule) ==
  /\ y \in Seq(BOOLEAN) /\ Len(y) = Len(pts)
  /\ \A i \in 1 .. Len(pts) : y[i] => Batch(pts, rule)[i]
  /\ rule.minDur = 0 => y = Batch(pts, rule)

(* The start handed on is that of a stretch of the alarm that is not over. *)
CarryFits(carry, pts, rule) ==
  \/ carry = 0
  \/ \E j \in 1 .. Len(pts) : carry = pts[j][1] /\ Holds(Raw(pts, rule).bin, j, Len(pts))

LEMMA SignalStages ==
  ASSUME NEW pts, NEW rule, NEW hyst, NEW carry
  PROVE  LET sig == Signal(pts, rule, hyst, carry)
             raw == Hysteresis(pts, rule, hyst)
             deb == Debounced(pts, raw.bin, rule.minDur, carry)
         IN  sig.bin = deb.bin /\ sig.hyst = raw.hyst /\ sig.ongoing = deb.ongoing
  <1> DEFINE raw == Hysteresis(pts, rule, hyst)
             deb == Debounced(pts, raw.bin, rule.minDur, carry)
  <1>1. Signal(pts, rule, hyst, carry) = [bin |-> deb.bin, hyst |-> raw.hyst, ongoing |-> deb.ongoing]
    BY DEF Signal
  <1> HIDE DEF raw, deb
  <1> QED
    BY <1>1 DEF raw, deb

(* What a recomputation raises. *)
LEMMA BatchIs ==
  ASSUME NEW pts \in Seq(Point), Rises(pts), NEW rule, IsRule(rule)
  PROVE  /\ Batch(pts, rule) \in [1 .. Len(pts) -> BOOLEAN]
         /\ \A i \in 1 .. Len(pts) :
              Batch(pts, rule)[i] <=> Lasts(pts, Raw(pts, rule).bin, rule.minDur, 0, i)
         /\ rule.minDur = 0 => Batch(pts, rule) = Raw(pts, rule).bin
         /\ Raw(pts, rule).bin \in [1 .. Len(pts) -> BOOLEAN]
         /\ CarryFits(Signal(pts, rule, FALSE, 0).ongoing, pts, rule)
  <1> DEFINE bin == Raw(pts, rule).bin
             deb == Debounced(pts, bin, rule.minDur, 0)
             sig == Signal(pts, rule, FALSE, 0)
  <1>1. Batch(pts, rule) = deb.bin /\ sig.ongoing = deb.ongoing
    <2> DEFINE off == FALSE
               none == 0
    <2> HIDE DEF off, none
    <2>1. LET s == Signal(pts, rule, off, none)
              d == Debounced(pts, Hysteresis(pts, rule, off).bin, rule.minDur, none)
          IN  s.bin = d.bin /\ s.ongoing = d.ongoing
      BY ONLY SignalStages
    <2> QED
      BY ONLY <2>1 DEF Batch, Raw, off, none
  <1>2. bin \in [1 .. Len(pts) -> BOOLEAN]
    BY RawIs DEF IsRaw
  <1>3. rule.minDur \in Nat /\ 0 \in Nat
    BY DEF IsRule
  <1> HIDE DEF bin, sig
  <1>4. /\ deb.bin \in [1 .. Len(pts) -> BOOLEAN]
        /\ \A i \in 1 .. Len(pts) : deb.bin[i] <=> Lasts(pts, bin, rule.minDur, 0, i)
        /\ \/ deb.ongoing = 0
           \/ \E s \in 1 .. Len(pts) : deb.ongoing = Begun(pts, 0, s) /\ Holds(bin, s, Len(pts))
    BY <1>2, <1>3, DebouncedIs
  <1>5. rule.minDur = 0 => deb.bin = bin
    BY <1>2, <1>3, KeptAll
  <1> HIDE DEF deb
  <1>6. CarryFits(sig.ongoing, pts, rule)
    BY <1>1, <1>4 DEF CarryFits, Begun, bin
  <1> QED
    BY <1>1, <1>2, <1>4, <1>5, <1>6 DEF bin, sig

(* A recomputation fits. *)
LEMMA RecomputedFits ==
  ASSUME NEW pts \in Seq(Point), Rises(pts), NEW rule, IsRule(rule)
  PROVE  LET sig == Signal(pts, rule, FALSE, 0)
         IN  /\ SignalFits(sig.bin, pts, rule) /\ StateFits(sig.hyst, pts, rule)
             /\ CarryFits(sig.ongoing, pts, rule)
  <1> DEFINE sig == Signal(pts, rule, FALSE, 0)
             batch == Batch(pts, rule)
  <1>1. sig.bin = batch
    BY DEF Batch
  <1>2. sig.hyst = Raw(pts, rule).hyst
    <2> DEFINE off == FALSE
               none == 0
    <2> HIDE DEF off, none
    <2>1. Signal(pts, rule, off, none).hyst = Hysteresis(pts, rule, off).hyst
      BY ONLY SignalStages
    <2> QED
      BY ONLY <2>1 DEF Raw, off, none
  <1>3. batch \in [1 .. Len(pts) -> BOOLEAN] /\ CarryFits(sig.ongoing, pts, rule)
    BY BatchIs
  <1>4. Raw(pts, rule).hyst \in BOOLEAN
    BY RawIs DEF IsRaw
  <1>5. batch \in Seq(BOOLEAN) /\ Len(batch) = Len(pts)
    <2>1. Len(pts) \in Nat
      OBVIOUS
    <2> HIDE DEF batch
    <2> QED
      BY <1>3, <2>1
  <1>6. SignalFits(batch, pts, rule)
    BY <1>5 DEF SignalFits
  <1> HIDE DEF sig, batch
  <1> QED
    BY <1>1, <1>2, <1>3, <1>4, <1>6 DEF StateFits, sig

(* What lasts in a part of a line lasts in the line; a chunk may have been *)
(* told when its first run began.                                          *)
LEMMA LastsLonger ==
  ASSUME NEW p \in Seq(Point), NEW q \in Seq(Point), NEW minDur \in Nat, NEW carry \in Nat,
         NEW whole, NEW part,
         \A i \in 1 .. Len(q) : part[i] => whole[Len(p) + i],
         \/ carry = 0
         \/ \E j \in 1 .. Len(p) : carry = p[j][1] /\ Holds(whole, j, Len(p)),
         NEW i \in 1 .. Len(q), Lasts(q, part, minDur, carry, i)
  PROVE  Lasts(p \o q, whole, minDur, 0, Len(p) + i)
  <1> DEFINE a == Len(p)   n == Len(q)   pq == p \o q
  <1>1. /\ Len(pq) = a + n /\ a \in Nat /\ n \in Nat
        /\ \A k \in 1 .. a : pq[k] = p[k]
        /\ \A k \in 1 .. n : pq[a + k] = q[k]
    BY ConcatProperties
  <1>2. PICK s \in 1 .. i, e \in i .. n :
          Holds(part, s, e) /\ q[e][1] - Begun(q, carry, s) >= minDur
    BY DEF Lasts
  <1> HIDE DEF pq, a, n
  <1>3. /\ s \in 1 .. n /\ e \in 1 .. n /\ a + i \in 1 .. a + n
        /\ a + s \in 1 .. a + i /\ a + e \in a + i .. a + n
    BY <1>1, <1>2 DEF n
  <1>4. pq[a + e][1] = q[e][1] /\ pq[a + s][1] = q[s][1]
    BY <1>1, <1>3
  <1>5. Holds(whole, a + s, a + e)
    <2> SUFFICES ASSUME NEW k \in a + s .. a + e PROVE whole[k]
      BY DEF Holds
    <2>1. k - a \in s .. e /\ k - a \in 1 .. n /\ a + (k - a) = k
      BY <1>1, <1>3
    <2>2. part[k - a]
      BY <1>2, <2>1 DEF Holds
    <2> QED
      BY <2>1, <2>2 DEF a, n
  <1>6. CASE s = 1 /\ carry # 0
    <2>1. PICK j \in 1 .. a : carry = p[j][1] /\ Holds(whole, j, a)
      BY <1>6 DEF a
    <2>2. pq[j][1] = carry /\ Begun(pq, 0, j) = carry /\ Begun(q, carry, s) = carry
      BY <1>1, <1>6, <2>1 DEF Begun
    <2>3. j \in 1 .. a + i
      BY <1>1, <1>3
    <2>4. Holds(whole, j, a + e)
      <3> SUFFICES ASSUME NEW k \in j .. a + e PROVE whole[k]
        BY DEF Holds
      <3>1. k \in j .. a \/ k \in a + s .. a + e
        BY <1>1, <1>3, <1>6
      <3> QED
        BY <1>5, <2>1, <3>1 DEF Holds
    <2>5. pq[a + e][1] - Begun(pq, 0, j) >= minDur
      BY <1>2, <1>4, <2>2
    <2> QED
      BY <1>1, <1>3, <2>3, <2>4, <2>5 DEF Lasts, a, pq
  <1>7. CASE ~(s = 1 /\ carry # 0)
    <2>1. Begun(pq, 0, a + s) = Begun(q, carry, s)
      BY <1>4, <1>7 DEF Begun
    <2>2. pq[a + e][1] - Begun(pq, 0, a + s) >= minDur
      BY <1>2, <1>4, <2>1
    <2> QED
      BY <1>1, <1>3, <1>5, <2>2 DEF Lasts, a, pq
  <1> QED
    BY <1>6, <1>7

(* And what lasts in a line lasts when more comes. *)
LEMMA LastsStill ==
  ASSUME NEW p \in Seq(Point), NEW q \in Seq(Point), NEW minDur, NEW whole, NEW head,
         \A i \in 1 .. Len(p) : whole[i] = head[i],
         NEW i \in 1 .. Len(p), Lasts(p, head, minDur, 0, i)
  PROVE  Lasts(p \o q, whole, minDur, 0, i)
  <1> DEFINE a == Len(p)   n == Len(q)   pq == p \o q
  <1>1. /\ Len(pq) = a + n /\ a \in Nat /\ n \in Nat
        /\ \A k \in 1 .. a : pq[k] = p[k]
    BY ConcatProperties
  <1>2. PICK s \in 1 .. i, e \in i .. a :
          Holds(head, s, e) /\ p[e][1] - Begun(p, 0, s) >= minDur
    BY DEF Lasts
  <1> HIDE DEF pq, n
  <1>3. s \in 1 .. a /\ e \in 1 .. a /\ e \in i .. a + n /\ \A k \in s .. e : k \in 1 .. a
    BY <1>1, <1>2
  <1>4. Holds(whole, s, e)
    BY <1>2, <1>3 DEF Holds
  <1>5. pq[e][1] - Begun(pq, 0, s) >= minDur
    BY <1>1, <1>2, <1>3 DEF Begun
  <1> QED
    BY <1>1, <1>3, <1>4, <1>5 DEF Lasts, pq

-----------------------------------------------------------------------------
(* Joining keeps both parts. *)
LEMMA JoinParts ==
  ASSUME NEW S, NEW s \in Seq(S), NEW t \in Seq(S), NEW st, st = s \o t
  PROVE  /\ st \in Seq(S) /\ Len(st) = Len(s) + Len(t)
         /\ \A i \in 1 .. Len(s) : st[i] = s[i]
         /\ \A i \in 1 .. Len(t) : st[Len(s) + i] = t[i]
  <1> DEFINE a == Len(s)   n == Len(t)
  <1>1. /\ st \in Seq(S) /\ Len(st) = a + n
        /\ \A i \in 1 .. a + n : st[i] = IF i <= a THEN s[i] ELSE t[i - a]
    BY ConcatProperties
  <1>2. a \in Nat /\ n \in Nat
    OBVIOUS
  <1> HIDE DEF a, n
  <1>3. \A i \in 1 .. a : i \in 1 .. a + n /\ i <= a
    BY <1>2
  <1>4. \A i \in 1 .. n : a + i \in 1 .. a + n /\ ~(a + i <= a) /\ (a + i) - a = i
    BY <1>2
  <1> QED
    BY <1>1, <1>3, <1>4 DEF a, n

(* What a chunk adds fits the line that ends with it. *)
LEMMA AppendedFits ==
  ASSUME NEW p \in Seq(Point), NEW q \in Seq(Point), Rises(p \o q),
         NEW rule, IsRule(rule), NEW y, NEW hyst, NEW carry,
         SignalFits(y, p, rule), StateFits(hyst, p, rule), CarryFits(carry, p, rule)
  PROVE  LET sig == Signal(q, rule, hyst, carry)
         IN  /\ SignalFits(y \o sig.bin, p \o q, rule)
             /\ StateFits(sig.hyst, p \o q, rule)
             /\ CarryFits(sig.ongoing, p \o q, rule)
  <1> DEFINE a == Len(p)   n == Len(q)   pq == p \o q
             raw == Hysteresis(q, rule, hyst)
             part == raw.bin
             whole == Raw(pq, rule).bin
             head == Raw(p, rule).bin
             deb == Debounced(q, part, rule.minDur, carry)
             sig == Signal(q, rule, hyst, carry)
             kept == deb.bin
  <1>1. /\ pq \in Seq(Point) /\ Len(pq) = a + n /\ a \in Nat /\ n \in Nat
        /\ \A i \in 1 .. a : pq[i] = p[i]
        /\ \A i \in 1 .. n : pq[a + i] = q[i]
    BY ConcatProperties
  <1>2. /\ \A i \in 1 .. a : p[i][1] \in Nat
        /\ \A i \in 1 .. n : q[i][1] \in Nat
    BY DEF Point
  <1>3. sig.bin = kept /\ sig.hyst = raw.hyst /\ sig.ongoing = deb.ongoing
    BY SignalStages
  <1>4. rule.minDur \in Nat
    BY DEF IsRule
  <1>5. /\ \A i \in 1 .. a : whole[i] = head[i]
        /\ \A i \in 1 .. n : part[i] => whole[a + i]
        /\ rule.minDur = 0 => \A i \in 1 .. n : part[i] = whole[a + i]
        /\ StateFits(raw.hyst, pq, rule)
    BY HysteresisGrows
  <1>6. part \in [1 .. n -> BOOLEAN]
    BY HysteresisIs DEF StateFits, IsRaw
  <1>7. Rises(p) /\ Rises(q)
    <2> HIDE DEF pq, n, a
    <2>1. ASSUME NEW i \in 1 .. a, NEW j \in 1 .. a, i <= j PROVE p[i][1] <= p[j][1]
      <3>1. i \in 1 .. a + n /\ j \in 1 .. a + n
        BY <1>1
      <3>2. pq[i][1] <= pq[j][1]
        BY <1>1, <2>1, <3>1 DEF Rises, pq
      <3> QED
        BY <1>1, <3>2
    <2>2. ASSUME NEW i \in 1 .. n, NEW j \in 1 .. n, i <= j PROVE q[i][1] <= q[j][1]
      <3>1. a + i \in 1 .. a + n /\ a + j \in 1 .. a + n /\ a + i <= a + j
        BY <1>1, <2>2
      <3>2. pq[a + i][1] <= pq[a + j][1]
        BY <1>1, <3>1 DEF Rises, pq
      <3> QED
        BY <1>1, <3>2
    <2> QED
      BY <2>1, <2>2 DEF Rises, a, n
  <1>8. \/ carry = 0
        \/ \E j \in 1 .. a : carry = p[j][1] /\ Holds(whole, j, a)
    <2> SUFFICES ASSUME carry # 0
                 PROVE  \E j \in 1 .. a : carry = p[j][1] /\ Holds(whole, j, a)
      OBVIOUS
    <2>1. PICK j \in 1 .. a : carry = p[j][1] /\ Holds(head, j, a)
      BY DEF CarryFits
    <2> HIDE DEF whole, head
    <2>2. \A i \in j .. a : i \in 1 .. a
      BY <1>1
    <2>3. Holds(whole, j, a)
      BY <1>5, <2>1, <2>2 DEF Holds
    <2> QED
      BY <2>1, <2>3
  <1>9. carry \in Nat /\ (carry # 0 /\ q # <<>> => carry <= q[1][1])
    <2> HIDE DEF whole, pq, n
    <2>1. carry \in Nat
      BY <1>2, <1>8
    <2>2. ASSUME carry # 0, q # <<>> PROVE carry <= q[1][1]
      <3>1. PICK j \in 1 .. a : carry = p[j][1]
        BY <1>8, <2>2
      <3>2. 1 \in 1 .. n
        BY <2>2 DEF n
      <3> HIDE DEF a
      <3>3. j \in 1 .. a + n /\ a + 1 \in 1 .. a + n /\ j <= a + 1
        BY <1>1, <3>2
      <3>4. pq[j][1] <= pq[a + 1][1]
        BY <1>1, <3>3 DEF Rises, pq
      <3> QED
        BY <1>1, <3>1, <3>2, <3>4
    <2> QED
      BY <2>1, <2>2
  <1>10. /\ kept \in [1 .. n -> BOOLEAN]
         /\ \A i \in 1 .. n : kept[i] <=> Lasts(q, part, rule.minDur, carry, i)
         /\ \/ deb.ongoing = 0
            \/ \E s \in 1 .. n : deb.ongoing = Begun(q, carry, s) /\ Holds(part, s, n)
    BY <1>4, <1>6, <1>7, <1>9, DebouncedIs
  <1>11. /\ Batch(pq, rule) \in [1 .. a + n -> BOOLEAN]
         /\ \A i \in 1 .. a + n :
              Batch(pq, rule)[i] <=> Lasts(pq, whole, rule.minDur, 0, i)
         /\ rule.minDur = 0 => Batch(pq, rule) = whole
    BY <1>1, BatchIs
  <1>12. /\ \A i \in 1 .. a : Batch(p, rule)[i] <=> Lasts(p, head, rule.minDur, 0, i)
         /\ rule.minDur = 0 => Batch(p, rule) = head
    BY <1>7, BatchIs
  <1>13. rule.minDur = 0 => kept = part
    BY <1>6, <1>7, <1>9, KeptAll
  <1> DEFINE new == y \o kept
  <1>14. /\ y \in Seq(BOOLEAN) /\ Len(y) = a
         /\ \A i \in 1 .. a : y[i] => Batch(p, rule)[i]
         /\ rule.minDur = 0 => y = Batch(p, rule)
    BY DEF SignalFits
  <1> HIDE DEF raw, deb, kept, sig
  <1>15. kept \in Seq(BOOLEAN) /\ Len(kept) = n
    <2> HIDE DEF n
    <2> QED
      BY <1>1, <1>10
  <1>16. /\ new \in Seq(BOOLEAN) /\ Len(new) = a + n
         /\ \A i \in 1 .. a : new[i] = y[i]
         /\ \A i \in 1 .. n : new[a + i] = kept[i]
    <2>1. y \in Seq(BOOLEAN) /\ Len(y) = a /\ kept \in Seq(BOOLEAN) /\ Len(kept) = n
      BY <1>14, <1>15
    <2>2. new = y \o kept
      OBVIOUS
    <2> HIDE DEF a, n, new
    <2>3. y \in Seq(BOOLEAN) /\ kept \in Seq(BOOLEAN)
      BY <2>1
    <2>4. /\ new \in Seq(BOOLEAN) /\ Len(new) = Len(y) + Len(kept)
          /\ \A i \in 1 .. Len(y) : new[i] = y[i]
          /\ \A i \in 1 .. Len(kept) : new[Len(y) + i] = kept[i]
      BY ONLY <2>2, <2>3, JoinParts
    <2> QED
      BY <2>1, <2>4
  <1> HIDE DEF new, part, whole, head
  <1>17. ASSUME NEW i \in 1 .. a + n, new[i] PROVE Batch(pq, rule)[i]
    <2>1. CASE i \in 1 .. a
      <3>1. Batch(p, rule)[i]
        BY <1>14, <1>16, <1>17, <2>1
      <3>2. Lasts(p, head, rule.minDur, 0, i)
        BY <1>12, <2>1, <3>1
      <3>3. Lasts(pq, whole, rule.minDur, 0, i)
        BY <1>5, <2>1, <3>2, LastsStill
      <3> QED
        BY <1>11, <3>3
    <2>2. CASE i \notin 1 .. a
      <3> DEFINE k == i - a
      <3>1. k \in 1 .. n /\ a + k = i
        <4> HIDE DEF a, n
        <4> QED
          BY <1>1, <2>2
      <3> HIDE DEF k
      <3>2. Lasts(q, part, rule.minDur, carry, k)
        BY <1>10, <1>16, <1>17, <3>1
      <3>3. Lasts(pq, whole, rule.minDur, 0, a + k)
        BY <1>4, <1>5, <1>8, <1>9, <3>1, <3>2, LastsLonger
      <3> QED
        BY <1>11, <3>1, <3>3
    <2> QED
      BY <2>1, <2>2
  <1>18. ASSUME rule.minDur = 0 PROVE new = Batch(pq, rule)
    <2>1. Batch(pq, rule) = whole /\ y = head /\ kept = part
      BY <1>11, <1>12, <1>13, <1>14, <1>18
    <2>2. ASSUME NEW i \in 1 .. a + n PROVE new[i] = whole[i]
      <3>1. CASE i \in 1 .. a
        BY <1>5, <1>16, <2>1, <3>1
      <3>2. CASE i \notin 1 .. a
        <4> DEFINE k == i - a
        <4>1. k \in 1 .. n /\ a + k = i
          <5> HIDE DEF a, n
          <5> QED
            BY <1>1, <3>2
        <4> HIDE DEF k
        <4> QED
          BY <1>5, <1>16, <1>18, <2>1, <4>1
      <3> QED
        BY <3>1, <3>2
    <2> HIDE DEF a, n, pq
    <2>3. new = [i \in 1 .. a + n |-> new[i]]
      BY <1>16
    <2>4. whole = [i \in 1 .. a + n |-> whole[i]]
      BY <1>11, <2>1
    <2>5. new = whole
      BY <2>2, <2>3, <2>4
    <2> QED
      BY <2>1, <2>5
  <1>19. SignalFits(new, pq, rule)
    <2> HIDE DEF a, n, pq
    <2> QED
      BY <1>1, <1>16, <1>17, <1>18 DEF SignalFits
  <1>20. CarryFits(deb.ongoing, pq, rule)
    <2> SUFFICES ASSUME deb.ongoing # 0
                 PROVE  \E j \in 1 .. a + n : deb.ongoing = pq[j][1] /\ Holds(whole, j, a + n)
      BY <1>1 DEF CarryFits, whole
    <2>1. PICK s \in 1 .. n : deb.ongoing = Begun(q, carry, s) /\ Holds(part, s, n)
      BY <1>10
    <2> HIDE DEF a, n, pq
    <2>2. Holds(whole, a + s, a + n)
      <3> SUFFICES ASSUME NEW k \in a + s .. a + n PROVE whole[k]
        BY DEF Holds
      <3>1. k - a \in s .. n /\ k - a \in 1 .. n /\ a + (k - a) = k
        BY <1>1
      <3>2. part[k - a]
        BY <2>1, <3>1 DEF Holds
      <3>3. whole[a + (k - a)]
        BY <1>5, <3>1, <3>2
      <3> QED
        BY <3>1, <3>3
    <2>3. CASE s = 1 /\ carry # 0
      <3>1. PICK j \in 1 .. a : carry = p[j][1] /\ Holds(whole, j, a)
        BY <1>8, <2>3
      <3>2. j \in 1 .. a + n
        BY <1>1
      <3>3. deb.ongoing = pq[j][1]
        BY <1>1, <2>1, <2>3, <3>1 DEF Begun
      <3>4. Holds(whole, j, a + n)
        <4> SUFFICES ASSUME NEW k \in j .. a + n PROVE whole[k]
          BY DEF Holds
        <4>1. k \in j .. a \/ k \in a + s .. a + n
          BY <1>1, <2>3
        <4> QED
          BY <2>2, <3>1, <4>1 DEF Holds
      <3> QED
        BY <3>2, <3>3, <3>4
    <2>4. CASE ~(s = 1 /\ carry # 0)
      <3>1. a + s \in 1 .. a + n
        BY <1>1
      <3>2. deb.ongoing = pq[a + s][1]
        BY <1>1, <2>1, <2>4 DEF Begun
      <3> QED
        BY <2>2, <3>1, <3>2
    <2> QED
      BY <2>3, <2>4
  <1> QED
    BY <1>3, <1>5, <1>19, <1>20 DEF new, sig, pq

-----------------------------------------------------------------------------
(* The operations of a monitor. *)

CacheFits(c, pts, rule) ==
  /\ c.pts = pts
  /\ SignalFits(c.y, pts, rule) /\ StateFits(c.hyst, pts, rule) /\ CarryFits(c.ongoing, pts, rule)

(* A row belongs to the samples its line began with. *)
RowFits(row, pts, rule) ==
  /\ row.pts \in Seq(Point) /\ row.num = Len(row.pts) /\ row.num <= Len(pts)
  /\ \A i \in 1 .. row.num : row.pts[i] = pts[i]
  /\ SignalFits(row.y, row.pts, rule)

DataFit(mo, pts) ==
  /\ persist => RowFits(mo.row, pts, mo.rule)
  /\ ~mo.dirty => CacheFits(mo.cache, pts, mo.rule)

IsMonitor(mo) ==
  mo = [rule |-> mo.rule, dirty |-> mo.dirty, cache |-> mo.cache, row |-> mo.row] /\ IsRule(mo.rule)

(* A line without samples has no signal. *)
LEMMA NothingFits ==
  ASSUME NEW rule, IsRule(rule)
  PROVE  CacheFits(NoCache, <<>>, rule) /\ RowFits(NoRow, <<>>, rule)
  <1>1. <<>> \in Seq(Point) /\ Len(<<>>) = 0 /\ <<>> \in Seq(BOOLEAN)
    OBVIOUS
  <1>2. Rises(<<>>)
    BY <1>1 DEF Rises
  <1>3. SignalFits(Batch(<<>>, rule), <<>>, rule)
    BY <1>1, <1>2, RecomputedFits DEF Batch
  <1>4. Batch(<<>>, rule) = <<>>
    <2> DEFINE b == Batch(<<>>, rule)
    <2>1. b \in Seq(BOOLEAN) /\ Len(b) = 0
      BY <1>1, <1>3 DEF SignalFits
    <2> HIDE DEF b
    <2>2. b = <<>>
      BY <2>1, EmptySeq
    <2> QED
      BY <2>2 DEF b
  <1>5. SignalFits(<<>>, <<>>, rule)
    BY <1>3, <1>4
  <1>6. StateFits(FALSE, <<>>, rule)
    <2>1. IsRaw(Raw(<<>>, rule), <<>>, rule, FALSE)
      BY <1>1, RawIs
    <2> DEFINE raw == Raw(<<>>, rule)
    <2> HIDE DEF raw
    <2>2. rule.off # {} => raw.hyst = FALSE
      <3> SUFFICES ASSUME rule.off # {} PROVE raw.hyst = FALSE
        OBVIOUS
      <3>1. PICK f : IsState(f, <<>>, rule, FALSE) /\ raw.hyst = f[Len(<<>>)]
        BY <2>1 DEF IsRaw, raw
      <3> QED
        BY <1>1, <3>1 DEF IsState
    <2> QED
      BY <2>2 DEF StateFits, raw
  <1>7. /\ NoCache.pts = <<>> /\ NoCache.y = <<>> /\ NoCache.hyst = FALSE /\ NoCache.ongoing = 0
        /\ NoRow.pts = <<>> /\ NoRow.y = <<>> /\ NoRow.num = 0
    BY DEF NoCache, NoRow
  <1>8. CarryFits(0, <<>>, rule)
    BY DEF CarryFits
  <1>9. CacheFits(NoCache, <<>>, rule)
    BY <1>5, <1>6, <1>7, <1>8 DEF CacheFits
  <1>10. \A i \in 1 .. 0 : NoRow.pts[i] = <<>>[i]
    <2>1. 1 .. 0 = {}
      OBVIOUS
    <2> QED
      BY <2>1, Zenon
  <1>11. RowFits(NoRow, <<>>, rule)
    <2>1. 0 <= 0
      OBVIOUS
    <2> QED
      BY <1>1, <1>5, <1>7, <1>10, <2>1, Zenon DEF RowFits
  <1> QED
    BY <1>9, <1>11

LEMMA RowGrows ==
  ASSUME NEW p \in Seq(Point), NEW q \in Seq(Point), NEW row, NEW rule, RowFits(row, p, rule)
  PROVE  RowFits(row, p \o q, rule)
  <1> DEFINE pq == p \o q
  <1>1. /\ Len(pq) = Len(p) + Len(q) /\ Len(p) \in Nat /\ Len(q) \in Nat
        /\ \A i \in 1 .. Len(p) : pq[i] = p[i]
    BY ConcatProperties
  <1>2. row.pts \in Seq(Point) /\ row.num = Len(row.pts) /\ row.num <= Len(p)
    BY DEF RowFits
  <1>3. row.num \in Nat
    BY <1>2
  <1> HIDE DEF pq
  <1>4. \A i \in 1 .. row.num : i \in 1 .. Len(p)
    BY <1>1, <1>2, <1>3
  <1>5. row.num <= Len(pq) /\ \A i \in 1 .. row.num : row.pts[i] = pq[i]
    BY <1>1, <1>2, <1>3, <1>4 DEF RowFits
  <1> QED
    BY <1>5 DEF RowFits, pq

(* recompute_ *)
LEMMA RecomputeFits ==
  ASSUME NEW pts \in Seq(Point), Rises(pts), NEW mo, IsMonitor(mo), NEW v, NEW m
  PROVE  LET new == Recompute(mo, v, m, pts).mon
         IN  /\ IsMonitor(new) /\ new.rule = mo.rule /\ new.row = mo.row /\ new.dirty = FALSE
             /\ CacheFits(new.cache, pts, mo.rule)
  <1> DEFINE sig == Signal(pts, mo.rule, FALSE, 0)
             fired == RisingEdges(v, m, pts, sig.bin)
             Cached(s, f) ==
               [mon |-> [mo EXCEPT !.dirty = FALSE,
                           !.cache = [pts |-> pts, y |-> s.bin, flag |-> Last(s.bin),
                                      hyst |-> s.hyst, ongoing |-> s.ongoing,
                                      openId |-> f.openId]],
                w |-> f.w]
             new == Recompute(mo, v, m, pts).mon
             cache == IF pts = <<>> THEN NoCache
                      ELSE [pts |-> pts, y |-> sig.bin, flag |-> Last(sig.bin), hyst |-> sig.hyst,
                            ongoing |-> sig.ongoing, openId |-> fired.openId]
  <1>1. Recompute(mo, v, m, pts)
          = IF pts = <<>> THEN [mon |-> [mo EXCEPT !.dirty = FALSE, !.cache = NoCache], w |-> v]
            ELSE Cached(sig, fired)
    BY DEF Recompute
  <1>2. IsRule(mo.rule)
    BY DEF IsMonitor
  <1>3. CacheFits(cache, pts, mo.rule)
    <2>1. CASE pts = <<>>
      BY <1>2, <2>1, NothingFits
    <2>2. CASE pts # <<>>
      <3>1. /\ SignalFits(sig.bin, pts, mo.rule) /\ StateFits(sig.hyst, pts, mo.rule)
            /\ CarryFits(sig.ongoing, pts, mo.rule)
        BY <1>2, RecomputedFits
      <3> HIDE DEF sig, fired
      <3>2. cache.pts = pts /\ cache.y = sig.bin /\ cache.hyst = sig.hyst /\ cache.ongoing = sig.ongoing
        BY <2>2
      <3> QED
        BY <3>1, <3>2 DEF CacheFits
    <2> QED
      BY <2>1, <2>2
  <1>4. new = [mo EXCEPT !.dirty = FALSE, !.cache = cache]
    <2> HIDE DEF sig, fired
    <2>1. CASE pts = <<>>
      BY <1>1, <2>1
    <2>2. CASE pts # <<>>
      BY <1>1, <2>2
    <2> QED
      BY <2>1, <2>2
  <1> HIDE DEF new, cache
  <1>5. new = [rule |-> mo.rule, dirty |-> FALSE, cache |-> cache, row |-> mo.row]
    <2>1. PICK r, d, c, o : mo = [rule |-> r, dirty |-> d, cache |-> c, row |-> o]
      BY DEF IsMonitor
    <2> QED
      BY <1>4, <2>1
  <1>6. IsMonitor(new) /\ new.rule = mo.rule /\ new.row = mo.row /\ new.dirty = FALSE
        /\ new.cache = cache
    BY <1>2, <1>5 DEF IsMonitor
  <1> QED
    BY <1>3, <1>6 DEF new

(* persistIfEnabled_ *)
LEMMA PersistedFits ==
  ASSUME NEW pts \in Seq(Point), NEW mo, IsMonitor(mo)
  PROVE  LET new == Persisted(mo, pts, persist)
         IN  /\ IsMonitor(new) /\ new.rule = mo.rule
             /\ ~mo.dirty /\ DataFit(mo, pts) => DataFit(new, pts)
  <1> DEFINE new == Persisted(mo, pts, persist)
             row == [pts |-> mo.cache.pts, y |-> mo.cache.y, num |-> Len(pts),
                     xmin |-> pts[1][1], xmax |-> Last(pts)[1]]
  <1>1. CASE new = mo
    BY <1>1
  <1>2. CASE new # mo
    <2>1. new = [mo EXCEPT !.row = row]
      BY <1>2 DEF Persisted
    <2>2. row.pts = mo.cache.pts /\ row.y = mo.cache.y /\ row.num = Len(pts)
      OBVIOUS
    <2> HIDE DEF new, row
    <2>3. new = [rule |-> mo.rule, dirty |-> mo.dirty, cache |-> mo.cache, row |-> row]
      <3>1. PICK r, d, c, o : mo = [rule |-> r, dirty |-> d, cache |-> c, row |-> o]
        BY DEF IsMonitor
      <3> QED
        BY <2>1, <3>1
    <2>4. IsMonitor(new) /\ new.rule = mo.rule /\ new.row = row /\ new.dirty = mo.dirty
          /\ new.cache = mo.cache
      BY <2>3 DEF IsMonitor
    <2>5. ASSUME ~mo.dirty, DataFit(mo, pts) PROVE DataFit(new, pts)
      <3>1. CacheFits(mo.cache, pts, mo.rule)
        BY <2>5 DEF DataFit
      <3>2. mo.cache.pts = pts /\ SignalFits(mo.cache.y, pts, mo.rule)
        BY <3>1 DEF CacheFits
      <3>3. Len(pts) \in Nat
        OBVIOUS
      <3>4. RowFits(row, pts, mo.rule)
        BY <2>2, <3>2, <3>3 DEF RowFits
      <3> QED
        BY <2>4, <3>1, <3>4 DEF DataFit
    <2> QED
      BY <2>4, <2>5 DEF new
  <1> QED
    BY <1>1, <1>2

-----------------------------------------------------------------------------
(* The last value of a signal is no more than the state of the hysteresis  *)
(* (tryLoadFromDisk_ takes the one for the other).                         *)
LEMMA LastFits ==
  ASSUME NEW pts \in Seq(Point), Rises(pts), pts # <<>>, NEW rule, IsRule(rule),
         NEW y, SignalFits(y, pts, rule)
  PROVE  StateFits(Last(y), pts, rule)
  <1> DEFINE n == Len(pts)
             bin == Raw(pts, rule).bin
             batch == Batch(pts, rule)
  <1>1. n \in Nat /\ n >= 1 /\ n \in 1 .. n
    <2>1. Len(pts) \in Nat /\ (Len(pts) = 0 => pts = <<>>)
      BY EmptySeq
    <2> QED
      BY <2>1
  <1>2. y \in Seq(BOOLEAN) /\ Len(y) = n /\ (y[n] => batch[n]) /\ (rule.minDur = 0 => y = batch)
    BY <1>1 DEF SignalFits
  <1>3. y[n] \in BOOLEAN /\ Last(y) = y[n]
    <2>1. y[n] \in BOOLEAN
      BY <1>1, <1>2, ElementOfSeq
    <2> QED
      BY <1>2, <2>1 DEF Last
  <1>4. batch[n] => bin[n]
    <2>1. batch[n] <=> Lasts(pts, bin, rule.minDur, 0, n)
      BY <1>1, BatchIs
    <2> HIDE DEF bin, batch
    <2> SUFFICES ASSUME batch[n] PROVE bin[n]
      OBVIOUS
    <2>2. PICK s \in 1 .. n, e \in n .. n : Holds(bin, s, e)
      BY <2>1 DEF Lasts
    <2>3. n \in s .. e
      BY <1>1
    <2> QED
      BY <2>2, <2>3 DEF Holds
  <1>5. rule.minDur = 0 => batch = bin
    BY BatchIs
  <1>6. rule.off # {} => Raw(pts, rule).hyst = bin[n]
    BY LastState
  <1>7. bin[n] \in BOOLEAN
    <2>1. bin \in [1 .. n -> BOOLEAN]
      BY BatchIs
    <2> HIDE DEF bin, n
    <2> QED
      BY <1>1, <2>1
  <1> DEFINE hyst == Raw(pts, rule).hyst
  <1>8. rule.off # {} => hyst = bin[n]
    BY <1>6
  <1> HIDE DEF n, bin, batch, hyst
  <1>9. Last(y) \in BOOLEAN
    BY <1>3
  <1>10. rule.off # {} => ((Last(y) => hyst) /\ (rule.minDur = 0 => Last(y) = hyst))
    <2> SUFFICES ASSUME rule.off # {}
                 PROVE  (y[n] => hyst) /\ (rule.minDur = 0 => y[n] = hyst)
      BY <1>3
    <2>1. y[n] => hyst
      BY <1>2, <1>4, <1>8
    <2>2. ASSUME rule.minDur = 0 PROVE y[n] = hyst
      <3>1. y = bin
        BY <1>2, <1>5, <2>2
      <3> QED
        BY <1>8, <3>1
    <2> QED
      BY <2>1, <2>2
  <1> QED
    BY <1>9, <1>10 DEF StateFits, hyst

(* getXY: the row is read back only for the very samples it was kept for.  *)
LEMMA GetXYFits ==
  ASSUME NEW pts \in Seq(Point), Rises(pts), NEW mo, IsMonitor(mo), NEW v, NEW m
  PROVE  LET new == GetXY(mo, v, m, pts, persist).mon
         IN  /\ IsMonitor(new) /\ new.rule = mo.rule
             /\ (persist => RowFits(mo.row, pts, mo.rule)) => DataFit(new, pts)
  <1> DEFINE new == GetXY(mo, v, m, pts, persist).mon
             lastOn == Last(mo.row.y)
             c == [pts |-> mo.row.pts, y |-> mo.row.y, flag |-> lastOn, hyst |-> lastOn,
                   ongoing |-> 0, openId |-> 0]
             loads == persist /\ ~Stale(mo.row, pts)
             rec == Recompute(mo, v, m, pts)
  <1>0. GetXY(mo, v, m, pts, persist)
          = IF loads THEN [mon |-> [mo EXCEPT !.dirty = FALSE, !.cache = c], w |-> v]
            ELSE [rec EXCEPT !.mon = Persisted(@, pts, persist)]
    BY DEF GetXY
  <1>1. CASE loads
    <2>1. IsRule(mo.rule)
      BY DEF IsMonitor
    <2>2. c.pts = mo.row.pts /\ c.y = mo.row.y /\ c.hyst = lastOn /\ c.ongoing = 0
      OBVIOUS
    <2>3. new = [mo EXCEPT !.dirty = FALSE, !.cache = c]
      BY <1>0, <1>1
    <2>4. ~Stale(mo.row, pts) /\ persist
      BY <1>1
    <2> HIDE DEF c, lastOn, loads, new, rec
    <2>5. new = [rule |-> mo.rule, dirty |-> FALSE, cache |-> c, row |-> mo.row]
      <3>1. PICK r, d, x, o : mo = [rule |-> r, dirty |-> d, cache |-> x, row |-> o]
        BY DEF IsMonitor
      <3> QED
        BY <2>3, <3>1
    <2>6. IsMonitor(new) /\ new.rule = mo.rule /\ new.row = mo.row /\ new.cache = c
      BY <2>1, <2>5 DEF IsMonitor
    <2>7. ASSUME RowFits(mo.row, pts, mo.rule) PROVE DataFit(new, pts)
      <3>1. pts # <<>> /\ mo.row.num = Len(pts)
        BY <2>4 DEF Stale
      <3>2. mo.row.pts = pts
        <4>1. /\ mo.row.pts \in Seq(Point) /\ Len(mo.row.pts) = Len(pts)
              /\ \A i \in 1 .. Len(pts) : mo.row.pts[i] = pts[i]
          BY <2>7, <3>1 DEF RowFits
        <4> QED
          BY <4>1, SeqEqual
      <3>3. SignalFits(mo.row.y, pts, mo.rule)
        BY <2>7, <3>2 DEF RowFits
      <3>4. StateFits(lastOn, pts, mo.rule)
        BY <2>1, <3>1, <3>3, LastFits DEF lastOn
      <3>5. CacheFits(c, pts, mo.rule)
        BY <2>2, <3>2, <3>3, <3>4 DEF CacheFits, CarryFits
      <3> QED
        BY <2>6, <2>7, <3>5 DEF DataFit
    <2> QED
      BY <2>4, <2>6, <2>7 DEF new
  <1>2. CASE ~loads
    <2> DEFINE mid == rec.mon
    <2>1. /\ IsMonitor(mid) /\ mid.rule = mo.rule /\ mid.row = mo.row /\ mid.dirty = FALSE
          /\ CacheFits(mid.cache, pts, mo.rule)
      BY RecomputeFits
    <2>2. new = Persisted(mid, pts, persist)
      <3>1. \E x, y : rec = [mon |-> x, w |-> y]
        <4> HIDE DEF rec
        <4>1. rec = Recompute(mo, v, m, pts)
          BY DEF rec
        <4> QED
          BY <4>1 DEF Recompute
      <3> HIDE DEF rec, c, lastOn, loads
      <3>2. PICK x, y : rec = [mon |-> x, w |-> y]
        BY <3>1
      <3> QED
        BY <1>0, <1>2, <3>2
    <2> HIDE DEF mid, new, rec, c, lastOn, loads
    <2>3. (persist => RowFits(mo.row, pts, mo.rule)) => DataFit(mid, pts)
      BY <2>1 DEF DataFit
    <2>4. IsMonitor(new) /\ new.rule = mid.rule /\ (DataFit(mid, pts) => DataFit(new, pts))
      BY <2>1, <2>2, PersistedFits
    <2> QED
      BY <2>1, <2>3, <2>4 DEF new
  <1> QED
    BY <1>1, <1>2

(* appendData: a recomputation of the grown line, or a chunk. *)
LEMMA AppendDataFits ==
  ASSUME NEW p \in Seq(Point), NEW chunk \in Seq(Point), Rises(p \o chunk),
         NEW mo, IsMonitor(mo), NEW v, NEW m
  PROVE  LET new == AppendData(mo, v, m, p \o chunk, chunk, persist).mon
         IN  IsMonitor(new) /\ new.rule = mo.rule /\ (DataFit(mo, p) => DataFit(new, p \o chunk))
  <1> DEFINE pts == p \o chunk
             new == AppendData(mo, v, m, pts, chunk, persist).mon
             c == mo.cache
             sig == Signal(chunk, mo.rule, c.hyst, c.ongoing)
             fired == TailEdges(v, m, c, chunk, sig.bin)
             cache == [pts |-> c.pts \o chunk, y |-> c.y \o sig.bin, flag |-> Last(sig.bin),
                       hyst |-> sig.hyst, ongoing |-> sig.ongoing, openId |-> fired.openId]
             mid == [mo EXCEPT !.cache = cache]
  <1>1. AppendData(mo, v, m, pts, chunk, persist)
          = IF chunk = <<>> THEN [mon |-> mo, w |-> v]
            ELSE IF Cold(mo) THEN Recompute(mo, v, m, pts)
            ELSE [mon |-> Persisted(mid, pts, persist), w |-> fired.w]
    BY DEF AppendData
  <1>2. pts \in Seq(Point) /\ (chunk = <<>> => pts = p)
    BY ConcatProperties
  <1>3. IsRule(mo.rule)
    BY DEF IsMonitor
  <1>4. ASSUME DataFit(mo, p), persist PROVE RowFits(mo.row, pts, mo.rule)
    BY <1>4, RowGrows DEF DataFit
  <1>5. CASE chunk = <<>>
    <2>1. new = mo
      BY <1>1, <1>5
    <2> HIDE DEF new, pts
    <2> QED
      BY <1>2, <1>5, <2>1 DEF new, pts
  <1>6. CASE chunk # <<>> /\ Cold(mo)
    <2>1. new = Recompute(mo, v, m, pts).mon
      BY <1>1, <1>6
    <2>2. /\ IsMonitor(new) /\ new.rule = mo.rule /\ new.row = mo.row /\ new.dirty = FALSE
          /\ CacheFits(new.cache, pts, mo.rule)
      <3>1. Rises(pts)
        OBVIOUS
      <3> DEFINE rec == Recompute(mo, v, m, pts).mon
      <3> HIDE DEF new, pts, mid, sig, fired, cache, c
      <3>2. pts \in Seq(Point)
        BY <1>2
      <3>3. /\ IsMonitor(rec) /\ rec.rule = mo.rule /\ rec.row = mo.row /\ rec.dirty = FALSE
            /\ CacheFits(rec.cache, pts, mo.rule)
        BY <3>1, <3>2, RecomputeFits
      <3>4. new = rec
        BY <2>1
      <3> HIDE DEF rec
      <3> QED
        BY <3>3, <3>4
    <2>3. ASSUME DataFit(mo, p) PROVE DataFit(new, pts)
      <3> HIDE DEF new, pts
      <3> QED
        BY <1>4, <2>2, <2>3 DEF DataFit
    <2> QED
      BY <2>2, <2>3
  <1>7. CASE chunk # <<>> /\ ~Cold(mo)
    <2>1. new = Persisted(mid, pts, persist)
      BY <1>1, <1>7
    <2>2. cache.pts = c.pts \o chunk /\ cache.y = c.y \o sig.bin /\ cache.hyst = sig.hyst
          /\ cache.ongoing = sig.ongoing
      OBVIOUS
    <2>3. mid = [rule |-> mo.rule, dirty |-> mo.dirty, cache |-> cache, row |-> mo.row]
      <3> HIDE DEF cache
      <3>1. PICK r, d, x, o : mo = [rule |-> r, dirty |-> d, cache |-> x, row |-> o]
        BY DEF IsMonitor
      <3> QED
        BY <3>1
    <2> HIDE DEF mid, cache, sig, fired, new
    <2>4. /\ IsMonitor(mid) /\ mid.rule = mo.rule /\ mid.row = mo.row /\ mid.cache = cache
          /\ mid.dirty = mo.dirty
      BY <1>3, <2>3 DEF IsMonitor
    <2>5. ~mo.dirty
      BY <1>7 DEF Cold
    <2>6. ASSUME DataFit(mo, p) PROVE DataFit(mid, pts)
      <3>1. CacheFits(c, p, mo.rule)
        BY <2>5, <2>6 DEF DataFit
      <3>2. c.pts = p /\ SignalFits(c.y, p, mo.rule) /\ StateFits(c.hyst, p, mo.rule)
            /\ CarryFits(c.ongoing, p, mo.rule)
        BY <3>1 DEF CacheFits
      <3>3. /\ SignalFits(c.y \o sig.bin, pts, mo.rule) /\ StateFits(sig.hyst, pts, mo.rule)
            /\ CarryFits(sig.ongoing, pts, mo.rule)
        BY <1>3, <3>2, AppendedFits DEF sig
      <3>4. cache.pts = pts
        BY <2>2, <3>2
      <3> HIDE DEF c, pts
      <3>5. CacheFits(cache, pts, mo.rule)
        BY <2>2, <3>3, <3>4 DEF CacheFits
      <3> QED
        BY <1>4, <2>4, <2>6, <3>5 DEF DataFit
    <2>7. IsMonitor(new) /\ new.rule = mid.rule /\ (DataFit(mid, pts) => DataFit(new, pts))
      BY <1>2, <2>1, <2>4, <2>5, PersistedFits
    <2> QED
      BY <2>4, <2>6, <2>7 DEF new
  <1> QED
    BY <1>5, <1>6, <1>7

-----------------------------------------------------------------------------
(* The invariant: what a poll and every other step keep. *)

(* A persisted row is not trusted after its rule or its samples changed. *)
Trusted(marks) == ~(persist /\ marks \cap {"ruled", "revised"} # {})

MonitorFits(mo, pts, marks) == IsMonitor(mo) /\ (Trusted(marks) => DataFit(mo, pts))

(* A line in the order of its times, the last of them at most bound. *)
Ordered(pts, bound) == Rises(pts) /\ \A i \in 1 .. Len(pts) : pts[i][1] <= bound

SignalInv ==
  /\ parent \in [Monitors -> Seq(Point)]
  /\ mon = [m \in Monitors |-> mon[m]] /\ past = [m \in Monitors |-> past[m]]
  /\ feed # "pipeline" => dropped = [m \in Monitors |-> {}]
  /\ \A m \in Monitors : /\ Ordered(parent[m], Len(parent[m]) + Cardinality(dropped[m]))
                         /\ MonitorFits(mon[m], parent[m], past[m])

(* Samples that are numbered on. *)
LEMMA OrderedGrows ==
  ASSUME NEW p \in Seq(Point), NEW q \in Seq(Point), NEW b \in Nat, Ordered(p, b),
         \A i \in 1 .. Len(q) : q[i][1] = b + i
  PROVE  p \o q \in Seq(Point) /\ Ordered(p \o q, b + Len(q))
  <1> DEFINE pq == p \o q
             n == Len(p)
             k == Len(q)
  <1>1. n \in Nat /\ k \in Nat
    OBVIOUS
  <1>2. /\ pq \in Seq(Point) /\ Len(pq) = n + k
        /\ \A i \in 1 .. n : pq[i] = p[i]
        /\ \A i \in 1 .. k : pq[n + i] = q[i]
    BY JoinParts
  <1>3. /\ \A i, j \in 1 .. n : i <= j => p[i][1] <= p[j][1]
        /\ \A i \in 1 .. n : p[i][1] <= b
    BY DEF Ordered, Rises
  <1>4. \A i \in 1 .. n : p[i][1] \in Nat
    <2>1. \A i \in 1 .. n : p[i] \in Point
      OBVIOUS
    <2> QED
      BY <2>1 DEF Point
  <1>5. ASSUME NEW i \in 1 .. n + k
        PROVE  /\ i <= n => pq[i][1] = p[i][1]
               /\ i > n => pq[i][1] = b + (i - n)
    <2>1. CASE i <= n
      <3>1. i \in 1 .. n /\ ~(i > n)
        BY <1>1, <2>1
      <3>2. pq[i] = p[i]
        BY <1>2, <3>1
      <3> HIDE DEF pq, n
      <3> QED
        BY <3>1, <3>2
    <2>2. CASE i > n
      <3>1. i - n \in 1 .. k /\ i = n + (i - n) /\ ~(i <= n)
        BY <1>1, <2>2
      <3>2. pq[n + (i - n)] = q[i - n]
        BY <1>2, <3>1
      <3>3. q[i - n][1] = b + (i - n)
        BY <3>1
      <3> HIDE DEF pq, n, k
      <3> QED
        BY <3>1, <3>2, <3>3
    <2> HIDE DEF pq, n, k
    <2> QED
      BY <1>1, <2>1, <2>2
  <1> HIDE DEF pq, n, k
  <1>6. ASSUME NEW i \in 1 .. n + k, NEW j \in 1 .. n + k, i <= j
        PROVE  pq[i][1] <= pq[j][1]
    <2>1. CASE j <= n
      <3>1. i \in 1 .. n /\ j \in 1 .. n /\ i <= n
        BY <1>1, <1>6, <2>1
      <3>2. p[i][1] <= p[j][1]
        BY <1>3, <1>6, <3>1
      <3> QED
        BY <1>5, <2>1, <3>1, <3>2
    <2>2. CASE j > n /\ i <= n
      <3>1. i \in 1 .. n
        BY <1>1, <2>2
      <3>2. p[i][1] <= b /\ p[i][1] \in Nat
        BY <1>3, <1>4, <3>1
      <3>3. pq[i][1] = p[i][1] /\ pq[j][1] = b + (j - n)
        BY <1>5, <2>2
      <3> QED
        BY <1>1, <2>2, <3>2, <3>3
    <2>3. CASE i > n
      <3>1. j > n
        BY <1>1, <1>6, <2>3
      <3>2. pq[i][1] = b + (i - n) /\ pq[j][1] = b + (j - n)
        BY <1>5, <2>3, <3>1
      <3> QED
        BY <1>1, <1>6, <3>2
    <2> QED
      BY <1>1, <2>1, <2>2, <2>3
  <1>7. ASSUME NEW i \in 1 .. n + k PROVE pq[i][1] <= b + k
    <2>1. CASE i <= n
      <3>1. i \in 1 .. n
        BY <1>1, <2>1
      <3>2. p[i][1] <= b /\ p[i][1] \in Nat /\ pq[i][1] = p[i][1]
        BY <1>3, <1>4, <1>5, <2>1, <3>1
      <3> QED
        BY <1>1, <3>2
    <2>2. CASE i > n
      <3>1. pq[i][1] = b + (i - n)
        BY <1>5, <2>2
      <3> QED
        BY <1>1, <2>2, <3>1
    <2> QED
      BY <1>1, <2>1, <2>2
  <1>8. Ordered(pq, b + k)
    BY <1>2, <1>6, <1>7 DEF Ordered, Rises
  <1> QED
    BY <1>2, <1>8 DEF pq, k

LEMMA OrderedWider ==
  ASSUME NEW p \in Seq(Point), NEW b \in Nat, NEW c \in Nat, Ordered(p, b), b <= c
  PROVE  Ordered(p, c)
  <1>1. ASSUME NEW i \in 1 .. Len(p) PROVE p[i][1] <= c
    <2>1. p[i] \in Point
      OBVIOUS
    <2>2. p[i][1] \in Nat /\ p[i][1] <= b
      BY <2>1 DEF Point, Ordered
    <2> QED
      BY <2>2
  <1> QED
    BY <1>1 DEF Ordered

(* What a poll fetches. *)
LEMMA FetchedFits ==
  ASSUME NEW m \in Monitors, NEW revised,
         Fed(file[m], parent[m], lastIndex[m], dropped[m], revised)
  PROVE  LET b == Len(parent[m]) + Cardinality(dropped[m])
         IN  /\ b \in Nat /\ Fetched(m) \in Seq(Point) /\ parent[m] \in Seq(Point)
             /\ \A i \in 1 .. Len(Fetched(m)) : Fetched(m)[i][1] = b + i
  <1> DEFINE f == file[m]
             l == lastIndex[m]
             beg == Before(parent[m], l, dropped[m])
             b == Len(parent[m]) + Cardinality(dropped[m])
             q == Fetched(m)
  <1>1. /\ f \in Seq(Point) /\ parent[m] \in Seq(Point) /\ l \in 0 .. Len(f) /\ beg \in Nat
        /\ \A i \in 1 .. Len(f) : f[i][1] = beg + i
    BY DEF Fed
  <1>2. b = beg + l /\ b \in Nat
    <2>1. l \in Nat /\ Len(parent[m]) \in Nat /\ Cardinality(dropped[m]) \in Nat
      BY FedBounds
    <2>2. beg = Len(parent[m]) + Cardinality(dropped[m]) - l
      BY DEF Before
    <2> QED
      BY <2>1, <2>2
  <1> HIDE DEF f, l, beg
  <1>3. /\ q \in Seq(Point) /\ Len(q) = Len(f) - l
        /\ \A i \in 1 .. Len(f) - l : q[i] = f[l + i]
    <2>1. q = SubSeq(f, l + 1, Len(f))
      BY DEF Fetched, f, l
    <2> HIDE DEF q
    <2> QED
      BY <1>1, <2>1
  <1> HIDE DEF q, b
  <1>4. ASSUME NEW i \in 1 .. Len(q) PROVE q[i][1] = b + i
    <2>1. Len(f) \in Nat
      BY <1>1
    <2>2. i \in 1 .. Len(f) - l /\ l + i \in 1 .. Len(f)
      BY <1>1, <1>3, <2>1
    <2>3. q[i][1] = beg + (l + i)
      BY <1>1, <1>3, <2>2
    <2> QED
      BY <1>1, <1>2, <2>2, <2>3
  <1> QED
    BY <1>1, <1>2, <1>3, <1>4 DEF q, b

(* onParentUpdated: the cache is gone, the row stays. *)
LEMMA InvalidatedFits ==
  ASSUME NEW p \in Seq(Point), NEW q \in Seq(Point), NEW mo, NEW marks, MonitorFits(mo, p, marks)
  PROVE  LET new == Invalidated(mo)
         IN  /\ MonitorFits(new, p, marks) /\ MonitorFits(new, p \o q, marks)
             /\ new.dirty = TRUE /\ new.rule = mo.rule /\ new.row = mo.row
  <1> DEFINE new == Invalidated(mo)
  <1>1. new = [rule |-> mo.rule, dirty |-> TRUE, cache |-> NoCache, row |-> mo.row]
    <2>1. new = [mo EXCEPT !.dirty = TRUE, !.cache = NoCache]
      BY DEF Invalidated
    <2> HIDE DEF new
    <2>2. PICK r, d, x, o : mo = [rule |-> r, dirty |-> d, cache |-> x, row |-> o]
      BY DEF MonitorFits, IsMonitor
    <2> QED
      BY <2>1, <2>2
  <1> HIDE DEF new
  <1>2. new.rule = mo.rule /\ new.dirty = TRUE /\ new.row = mo.row /\ new.cache = NoCache
    BY <1>1
  <1>3. IsMonitor(new)
    BY <1>1, <1>2 DEF MonitorFits, IsMonitor
  <1>4. Trusted(marks) => DataFit(new, p)
    BY <1>2 DEF MonitorFits, DataFit
  <1>5. Trusted(marks) => DataFit(new, p \o q)
    <2> SUFFICES ASSUME persist, RowFits(new.row, p, new.rule) PROVE RowFits(new.row, p \o q, new.rule)
      BY <1>2, <1>4 DEF DataFit
    <2> QED
      BY RowGrows
  <1> QED
    BY <1>2, <1>3, <1>4, <1>5 DEF MonitorFits, new

LEMMA MarksGrow ==
  ASSUME NEW mo, NEW p, NEW marks, NEW more, MonitorFits(mo, p, marks), marks \subseteq more
  PROVE  MonitorFits(mo, p, more)
  BY DEF MonitorFits, Trusted

-----------------------------------------------------------------------------
(* In the middle of a poll the monitors fit the sensors as they are then. *)
SignalPolled(st) ==
  /\ st.mon = [m \in Monitors |-> st.mon[m]]
  /\ \A m \in Monitors : MonitorFits(st.mon[m], st.parent[m], past[m])

LEMMA StreamedFits ==
  ASSUME PollInv, SignalInv, feed = "pipeline", NEW m \in Monitors, NEW st, NEW mm,
         mm = Invalidated(mon[m]) \/ mm = Streamed(st, m).mon
  PROVE  MonitorFits(mm, parent[m] \o Fetched(m), past[m])
  <1> DEFINE p == parent[m]
             q == Fetched(m)
             cold == Invalidated(mon[m])
             b == Len(p) + Cardinality(dropped[m])
  <1>1. /\ b \in Nat /\ q \in Seq(Point) /\ p \in Seq(Point)
        /\ \A i \in 1 .. Len(q) : q[i][1] = b + i
    <2>1. Fed(file[m], parent[m], lastIndex[m], dropped[m], "revised" \in past[m])
      BY DEF PollInv
    <2> QED
      BY <2>1, FetchedFits
  <1>2. Ordered(p, b) /\ MonitorFits(mon[m], p, past[m])
    BY DEF SignalInv
  <1> HIDE DEF p, q, b
  <1>3. Rises(p \o q)
    BY <1>1, <1>2, OrderedGrows DEF Ordered
  <1>4. MonitorFits(cold, p, past[m]) /\ MonitorFits(cold, p \o q, past[m])
    BY <1>1, <1>2, InvalidatedFits
  <1>5. CASE mm = cold
    BY <1>4, <1>5 DEF p, q
  <1>6. CASE mm = Streamed(st, m).mon
    <2> DEFINE new == AppendData(cold, st.w, m, p \o q, q, persist).mon
    <2>1. IsMonitor(cold) /\ (Trusted(past[m]) => DataFit(cold, p))
      BY <1>4 DEF MonitorFits
    <2>2. mm = new
      BY <1>6 DEF Streamed, p, q
    <2> HIDE DEF cold
    <2>3. IsMonitor(new) /\ (DataFit(cold, p) => DataFit(new, p \o q))
      BY <1>1, <1>3, <2>1, AppendDataFits
    <2> HIDE DEF new
    <2>4. MonitorFits(new, p \o q, past[m])
      BY <2>1, <2>3 DEF MonitorFits
    <2> QED
      BY <2>2, <2>4 DEF p, q
  <1> QED
    BY <1>5, <1>6

LEMMA ProcessKeepsSignal ==
  ASSUME PollInv, SignalInv, feed = "pipeline",
         NEW outcome \in [Monitors -> {"ok", "torn", "contended"}],
         NEW m \in Monitors, NEW st, PollFits(st, outcome), SignalPolled(st)
  PROVE  SignalPolled(ProcessMonitorTag(st, m, outcome))
  <1> DEFINE after == ProcessMonitorTag(st, m, outcome)
             grown == parent[m] \o Fetched(m)
             n == Len(file[m])
  <1>1. PICK l, p, mo, v, d, t :
          /\ st = PollState(l, p, mo, v, d, t)
          /\ l = [k \in Monitors |-> l[k]] /\ p = [k \in Monitors |-> p[k]]
          /\ d = [k \in Monitors |-> d[k]] /\ t = [k \in Monitors |-> t[k]]
    BY DEF PollFits
  <1>2. /\ mo = [k \in Monitors |-> mo[k]]
        /\ \A k \in Monitors : MonitorFits(mo[k], p[k], past[k])
    BY <1>1 DEF PollState, SignalPolled
  <1> DEFINE ln == [l EXCEPT ![m] = n]
  <1>3. Indexed(st, m) = PollState(ln, p, mo, v, d, t)
    BY <1>1 DEF PollState, Indexed
  <1> HIDE DEF ln, n
  <1>4. CASE after = st
    BY <1>4
  <1>5. CASE after = GivenUp(st, m)
    <2>1. after.mon = mo /\ after.parent = p
      <3> DEFINE mid == PollState(ln, p, mo, v, d, t)
      <3>1. after = [mid EXCEPT !.dropped[m] = @ \cup Lost(m)]
        BY <1>3, <1>5 DEF GivenUp
      <3> HIDE DEF after
      <3> QED
        BY <3>1 DEF PollState
    <2> HIDE DEF after
    <2> QED
      BY <1>2, <2>1 DEF SignalPolled, after
  <1>6. ASSUME NEW mm, NEW vv, NEW trace,
               after = Brought(st, m, mm, vv, trace),
               mm = Invalidated(mon[m]) \/ mm = Streamed(st, m).mon
        PROVE  SignalPolled(after)
    <2> DEFINE pn == [p EXCEPT ![m] = grown]
               mn == [mo EXCEPT ![m] = mm]
    <2>1. after.parent = pn /\ after.mon = mn
      <3> DEFINE mid == PollState(ln, p, mo, v, d, t)
      <3>1. after = [mid EXCEPT !.parent[m] = grown, !.mon[m] = mm, !.w = vv,
                                !.past[m] = @ \cup trace]
        BY <1>3, <1>6 DEF Brought
      <3> HIDE DEF after, grown
      <3> QED
        BY <3>1 DEF PollState
    <2>2. /\ \A k \in Monitors : k # m => pn[k] = p[k] /\ mn[k] = mo[k]
          /\ pn[m] = grown /\ mn[m] = mm /\ mn = [k \in Monitors |-> mn[k]]
      BY <1>1, <1>2
    <2>3. MonitorFits(mm, grown, past[m])
      BY <1>6, StreamedFits
    <2> HIDE DEF pn, mn, after, grown
    <2>4. \A k \in Monitors : MonitorFits(mn[k], pn[k], past[k])
      BY <1>2, <2>2, <2>3
    <2> QED
      BY <2>1, <2>2, <2>4 DEF SignalPolled
  <1>7. \/ after = st
        \/ after = GivenUp(st, m)
        \/ \E mm, vv, trace : /\ after = Brought(st, m, mm, vv, trace)
                              /\ mm = Invalidated(mon[m]) \/ mm = Streamed(st, m).mon
    <2>1. outcome[m] \in {"ok", "torn", "contended"}
      OBVIOUS
    <2> QED
      BY <2>1, ProcessOutcomes
  <1> HIDE DEF after, grown
  <1> QED
    BY <1>4, <1>5, <1>6, <1>7 DEF after

LEMMA PolledKeepsSignal ==
  ASSUME PollInv, SignalInv, feed = "pipeline",
         NEW outcome \in [Monitors -> {"ok", "torn", "contended"}],
         NEW before, PollFits(before, outcome), SignalPolled(before)
  PROVE  SignalPolled(Polled(before, outcome))
  <1> DEFINE n == Len(Keys)
  <1>1. PICK f : /\ Polled(before, outcome) = f[n] /\ f[0] = before
                 /\ \A i \in 1 .. n : f[i] = ProcessMonitorTag(f[i - 1], Keys[i], outcome)
    BY PolledLoop
  <1>2. n \in Nat /\ \A i \in 1 .. n : Keys[i] \in Monitors
    BY PolledLoop
  <1> HIDE DEF n
  <1> DEFINE U == {i \in 0 .. n : PollFits(f[i], outcome) /\ SignalPolled(f[i])}
  <1>3. 0 \in U
    BY <1>1, <1>2
  <1>4. ASSUME NEW i \in 1 .. n, i - 1 \in U PROVE i \in U
    <2>1. PollFits(f[i - 1], outcome) /\ SignalPolled(f[i - 1]) /\ Keys[i] \in Monitors /\ i \in 0 .. n
      BY <1>2, <1>4
    <2>2. PollFits(ProcessMonitorTag(f[i - 1], Keys[i], outcome), outcome)
      BY <2>1, ProcessFits
    <2>3. SignalPolled(ProcessMonitorTag(f[i - 1], Keys[i], outcome))
      BY <2>1, ProcessKeepsSignal
    <2> QED
      BY <1>1, <2>1, <2>2, <2>3
  <1>5. 0 .. n \subseteq U
    <2> HIDE DEF U
    <2> QED
      BY <1>2, <1>3, <1>4, UpToInduction
  <1>6. n \in 0 .. n
    BY <1>2
  <1> QED
    BY <1>1, <1>5, <1>6

(* runCycle *)
LEMMA SignalRunCycle ==
  ASSUME PollInv, SignalInv,
         NEW outcome \in [Monitors -> {"ok", "torn", "contended"}], RunCycle(outcome)
  PROVE  SignalInv'
  <1> DEFINE before == PollState(lastIndex, parent, mon, w, dropped, past)
             after == Polled(before, outcome)
  <1>1. feed = "pipeline" /\ feed' = "pipeline"
    BY DEF RunCycle, config
  <1>2. /\ file \in [Monitors -> Seq(Point)] /\ parent \in [Monitors -> Seq(Point)]
        /\ lastIndex \in [Monitors -> Nat] /\ dropped \in [Monitors -> SUBSET Nat]
        /\ past = [k \in Monitors |-> past[k]]
        /\ \A k \in Monitors :
             Fed(file[k], parent[k], lastIndex[k], dropped[k], "revised" \in past[k])
    BY <1>1 DEF PollInv
  <1>3. /\ lastIndex' = after.lastIndex /\ parent' = after.parent /\ mon' = after.mon
        /\ dropped' = after.dropped /\ past' = after.past
        /\ UNCHANGED <<feed, cluster, sharing, persist, file>>
    BY DEF RunCycle, config, PollState
  <1>4. PollFits(before, outcome)
    <2>1. \A k \in Monitors : Account(lastIndex[k], parent[k], dropped[k], k, outcome)
      BY DEF Account
    <2>2. /\ lastIndex = [k \in Monitors |-> lastIndex[k]]
          /\ parent = [k \in Monitors |-> parent[k]]
          /\ dropped = [k \in Monitors |-> dropped[k]]
      BY <1>2
    <2> QED
      BY <1>2, <2>1, <2>2 DEF PollFits
  <1>5. SignalPolled(before)
    BY DEF SignalInv, SignalPolled, PollState
  <1>6. PollFits(after, outcome) /\ SignalPolled(after)
    <2> HIDE DEF before
    <2> QED
      BY <1>1, <1>4, <1>5, PolledFits, PolledKeepsSignal
  <1>7. PollInv'
    BY <1>1, PollRunCycle
  <1> HIDE DEF after
  <1>8. PICK l, p, mo, v, d, t :
          /\ after = PollState(l, p, mo, v, d, t)
          /\ l = [m \in Monitors |-> l[m]] /\ p = [m \in Monitors |-> p[m]]
          /\ d = [m \in Monitors |-> d[m]] /\ t = [m \in Monitors |-> t[m]]
          /\ \A m \in Monitors : past[m] \subseteq t[m] /\ Account(l[m], p[m], d[m], m, outcome)
    BY <1>6 DEF PollFits
  <1>9. lastIndex' = l /\ parent' = p /\ mon' = mo /\ dropped' = d /\ past' = t
    BY <1>3, <1>8 DEF PollState
  <1>10. ASSUME NEW m \in Monitors
         PROVE  Ordered(p[m], Len(p[m]) + Cardinality(d[m]))
    <2> DEFINE b == Len(parent[m]) + Cardinality(dropped[m])
               q == Fetched(m)
    <2>1. /\ b \in Nat /\ q \in Seq(Point) /\ parent[m] \in Seq(Point)
          /\ \A i \in 1 .. Len(q) : q[i][1] = b + i
      BY <1>2, FetchedFits
    <2>2. Ordered(parent[m], b)
      BY DEF SignalInv
    <2>3. Fed(file[m], p[m], l[m], d[m], "revised" \in t[m])
      BY <1>1, <1>3, <1>7, <1>9 DEF PollInv
    <2>4. IsFiniteSet(d[m]) /\ Len(p[m]) + Cardinality(d[m]) \in Nat
      <3>1. IsFiniteSet(d[m])
        BY <2>3 DEF Fed
      <3>2. Len(p[m]) \in Nat /\ Cardinality(d[m]) \in Nat
        BY <2>3, FedBounds
      <3> QED
        BY <3>1, <3>2
    <2>5. CASE p[m] = parent[m] /\ dropped[m] \subseteq d[m]
      <3>1. Cardinality(dropped[m]) <= Cardinality(d[m])
        BY <2>4, <2>5, FS_Subset
      <3>2. Cardinality(dropped[m]) \in Nat /\ Cardinality(d[m]) \in Nat
        BY <1>2, <2>3, FedBounds
      <3>3. Len(parent[m]) \in Nat
        BY <2>1
      <3>4. b <= Len(p[m]) + Cardinality(d[m])
        BY <2>5, <3>1, <3>2, <3>3
      <3> HIDE DEF b
      <3> QED
        BY <2>1, <2>2, <2>4, <2>5, <3>4, OrderedWider
    <2>6. CASE p[m] = parent[m] \o q /\ d[m] = dropped[m]
      <3> HIDE DEF q, b
      <3>1. Ordered(parent[m] \o q, b + Len(q))
        BY <2>1, <2>2, OrderedGrows
      <3>2. Len(parent[m] \o q) = Len(parent[m]) + Len(q)
        BY <2>1
      <3>3. Len(p[m]) + Cardinality(d[m]) = b + Len(q)
        <4>1. Cardinality(dropped[m]) \in Nat
          BY <1>2, FedBounds
        <4>2. Len(parent[m]) \in Nat /\ Len(q) \in Nat
          BY <2>1
        <4> QED
          BY <2>6, <3>2, <4>1, <4>2 DEF b
      <3> QED
        BY <2>6, <3>1, <3>3
    <2> QED
      BY <1>8, <2>5, <2>6 DEF Account
  <1>11. ASSUME NEW m \in Monitors PROVE MonitorFits(mo[m], p[m], t[m])
    <2>1. MonitorFits(mo[m], p[m], past[m])
      BY <1>6, <1>8 DEF SignalPolled, PollState
    <2> QED
      BY <1>8, <2>1, MarksGrow
  <1>12. mo = [m \in Monitors |-> mo[m]]
    BY <1>6, <1>8 DEF SignalPolled, PollState
  <1>13. p \in [Monitors -> Seq(Point)]
    BY <1>1, <1>7, <1>9 DEF PollInv
  <1>14. ASSUME NEW m \in Monitors
         PROVE  /\ Ordered(parent'[m], Len(parent'[m]) + Cardinality(dropped'[m]))
                /\ MonitorFits(mon[m], parent[m], past[m])'
    <2>1. Ordered(parent'[m], Len(parent'[m]) + Cardinality(dropped'[m]))
      BY <1>9, <1>10
    <2>2. MonitorFits(mo[m], p[m], t[m])
      BY <1>11
    <2> QED
      BY <1>3, <1>9, <2>1, <2>2 DEF MonitorFits, Trusted, DataFit
  <1> QED
    BY <1>1, <1>8, <1>9, <1>12, <1>13, <1>14 DEF SignalInv

-----------------------------------------------------------------------------
(* A step that concerns one monitor. *)
LEMMA SignalOne ==
  ASSUME SignalInv, NEW m \in Monitors, NEW p \in Seq(Point), NEW mo, NEW marks,
         UNCHANGED <<feed, persist, dropped>>,
         parent' = [parent EXCEPT ![m] = p], mon' = [mon EXCEPT ![m] = mo],
         past' = [k \in Monitors |-> past'[k]], past'[m] = marks,
         \A k \in Monitors : past[k] \subseteq past'[k],
         Ordered(p, Len(p) + Cardinality(dropped[m])), MonitorFits(mo, p, marks)
  PROVE  SignalInv'
  <1>1. /\ parent \in [Monitors -> Seq(Point)]
        /\ mon = [k \in Monitors |-> mon[k]]
        /\ \A k \in Monitors : /\ Ordered(parent[k], Len(parent[k]) + Cardinality(dropped[k]))
                               /\ MonitorFits(mon[k], parent[k], past[k])
    BY DEF SignalInv
  <1>2. /\ parent' \in [Monitors -> Seq(Point)] /\ parent'[m] = p
        /\ \A k \in Monitors : k # m => parent'[k] = parent[k]
    BY <1>1
  <1>3. /\ mon' = [k \in Monitors |-> mon'[k]] /\ mon'[m] = mo
        /\ \A k \in Monitors : k # m => mon'[k] = mon[k]
    BY <1>1
  <1>4. ASSUME NEW k \in Monitors
        PROVE  /\ Ordered(parent'[k], Len(parent'[k]) + Cardinality(dropped'[k]))
               /\ MonitorFits(mon'[k], parent'[k], past'[k])
    <2>1. CASE k = m
      BY <1>2, <1>3, <2>1
    <2>2. CASE k # m
      <3>1. MonitorFits(mon[k], parent[k], past[k]) /\ past[k] \subseteq past'[k]
        BY <1>1
      <3>2. MonitorFits(mon[k], parent[k], past'[k])
        BY <3>1, MarksGrow
      <3> QED
        BY <1>1, <1>2, <1>3, <2>2, <3>2
    <2> QED
      BY <2>1, <2>2
  <1>5. ASSUME NEW k \in Monitors PROVE MonitorFits(mon[k], parent[k], past[k])'
    BY <1>4 DEF MonitorFits, Trusted, DataFit
  <1>6. feed' # "pipeline" => dropped' = [k \in Monitors |-> {}]
    BY DEF SignalInv
  <1> QED
    BY <1>2, <1>3, <1>4, <1>5, <1>6 DEF SignalInv

(* A step that leaves the samples and the monitors alone. *)
LEMMA SignalAside ==
  ASSUME SignalInv, UNCHANGED <<feed, persist, dropped, parent, mon>>,
         past' = [k \in Monitors |-> past'[k]],
         \A k \in Monitors : past[k] \subseteq past'[k]
  PROVE  SignalInv'
  <1>1. ASSUME NEW k \in Monitors
        PROVE  /\ Ordered(parent'[k], Len(parent'[k]) + Cardinality(dropped'[k]))
               /\ MonitorFits(mon[k], parent[k], past[k])'
    <2>1. MonitorFits(mon[k], parent[k], past[k]) /\ past[k] \subseteq past'[k]
      BY DEF SignalInv
    <2>2. MonitorFits(mon[k], parent[k], past'[k])
      BY <2>1, MarksGrow
    <2>3. Ordered(parent[k], Len(parent[k]) + Cardinality(dropped[k]))
      BY DEF SignalInv
    <2> QED
      BY <2>2, <2>3 DEF MonitorFits, Trusted, DataFit
  <1> QED
    BY <1>1 DEF SignalInv

LEMMA RuleIs ==
  ASSUME NEW rule,
         rule \in Rules \/ \E s \in Starts, m \in Monitors : rule = s[m].rule
  PROVE  IsRule(rule)
  <1>1. rule \in Rules \union {s[m].rule : s \in Starts, m \in Monitors}
    OBVIOUS
  <1> QED
    BY <1>1, RuleAssumption DEF RuleAssumption, IsRule

LEMMA SignalInit == Init => SignalInv
  <1> SUFFICES ASSUME Init PROVE SignalInv
    OBVIOUS
  <1>1. PICK s \in Starts :
          /\ parent = [m \in Monitors |-> Points(s[m].levels, 0)]
          /\ mon = [m \in Monitors |-> [rule |-> s[m].rule, dirty |-> TRUE,
                                        cache |-> NoCache, row |-> NoRow]]
    BY DEF Init
  <1>2. dropped = [m \in Monitors |-> {}] /\ past = [m \in Monitors |-> {}]
    BY DEF Init
  <1>3. ASSUME NEW m \in Monitors
        PROVE  /\ parent[m] \in Seq(Point)
               /\ Ordered(parent[m], Len(parent[m]) + Cardinality(dropped[m]))
               /\ MonitorFits(mon[m], parent[m], past[m])
    <2> DEFINE levels == s[m].levels
               rule == s[m].rule
               p == Points(levels, 0)
    <2>1. levels \in Seq(Levels)
      BY LiveAssumption DEF LiveAssumption
    <2>2. p \in Seq(Point) /\ Len(p) = Len(levels) /\ \A i \in 1 .. Len(p) : p[i][1] = i
      <3>1. p \in Seq(Point)
        BY <2>1, FedAtStart DEF Fed
      <3>2. p = [i \in 1 .. Len(levels) |-> <<0 + i, levels[i]>>]
        BY <2>1 DEF Points
      <3>3. Len(levels) \in Nat
        BY <2>1
      <3>4. \A i \in 1 .. Len(levels) : 0 + i = i
        BY <3>3
      <3> HIDE DEF levels, p
      <3>5. Len(p) = Len(levels)
        BY <3>2, <3>3
      <3> QED
        BY <3>1, <3>2, <3>4, <3>5
    <2>3. IsRule(rule)
      BY RuleIs
    <2> HIDE DEF p
    <2>4. Len(p) \in Nat
      BY <2>2
    <2>5. Ordered(p, Len(p))
      <3>1. \A i, j \in 1 .. Len(p) : i <= j => p[i][1] <= p[j][1]
        BY <2>2, <2>4
      <3>2. \A i \in 1 .. Len(p) : p[i][1] <= Len(p)
        BY <2>2, <2>4
      <3> QED
        BY <3>1, <3>2 DEF Ordered, Rises
    <2>6. parent[m] = p /\ dropped[m] = {} /\ past[m] = {}
      BY <1>1, <1>2 DEF p
    <2>7. Cardinality({}) = 0 /\ Len(p) + 0 = Len(p)
      BY <2>4, FS_EmptySet
    <2>8. mon[m] = [rule |-> rule, dirty |-> TRUE, cache |-> NoCache, row |-> NoRow]
      BY <1>1
    <2> HIDE DEF rule, levels
    <2>9. mon[m].rule = rule /\ mon[m].dirty = TRUE /\ mon[m].cache = NoCache /\ mon[m].row = NoRow
      BY <2>8
    <2>10. RowFits(NoRow, p, rule)
      <3> DEFINE none == <<>>
      <3>1. RowFits(NoRow, none, rule) /\ none \in Seq(Point)
        BY <2>3, NothingFits
      <3>2. none \o p = p
        BY <2>2
      <3> HIDE DEF none
      <3>3. RowFits(NoRow, none \o p, rule)
        BY <2>2, <3>1, RowGrows
      <3> QED
        BY <3>2, <3>3
    <2>11. MonitorFits(mon[m], p, past[m])
      BY <2>3, <2>8, <2>9, <2>10 DEF MonitorFits, IsMonitor, DataFit
    <2> QED
      BY <2>2, <2>5, <2>6, <2>7, <2>11
  <1> QED
    BY <1>1, <1>2, <1>3 DEF SignalInv

(* getXY *)
LEMMA SignalView ==
  ASSUME SignalInv, NEW m \in Monitors, View(m)
  PROVE  SignalInv'
  <1> DEFINE new == GetXY(mon[m], w, m, parent[m], persist).mon
             p == parent[m]
  <1>1. UNCHANGED <<feed, persist, dropped, parent>> /\ mon' = [mon EXCEPT ![m] = new]
    BY DEF View, config, source
  <1>2. PICK got : past' = [k \in Monitors |->
            past[k] \union EmitTrace(got.w)
              \union (IF k = m /\ ~(persist /\ ~Stale(mon[m].row, parent[m]))
                      THEN RecomputeTrace(m) ELSE {})]
    BY DEF View
  <1>3. past' = [k \in Monitors |-> past'[k]] /\ \A k \in Monitors : past[k] \subseteq past'[k]
    BY <1>2
  <1>4. /\ p \in Seq(Point) /\ parent \in [Monitors -> Seq(Point)]
        /\ Ordered(p, Len(p) + Cardinality(dropped[m]))
        /\ MonitorFits(mon[m], p, past[m])
    BY DEF SignalInv
  <1>5. parent' = [parent EXCEPT ![m] = p]
    BY <1>1, <1>4
  <1> HIDE DEF p
  <1>6. new = GetXY(mon[m], w, m, p, persist).mon
    BY DEF p
  <1> HIDE DEF new
  <1>7. MonitorFits(new, p, past[m])
    <2>1. IsMonitor(mon[m]) /\ (Trusted(past[m]) => DataFit(mon[m], p))
      BY <1>4 DEF MonitorFits
    <2>2. Rises(p)
      BY <1>4 DEF Ordered
    <2>3. /\ IsMonitor(new)
          /\ (persist => RowFits(mon[m].row, p, mon[m].rule)) => DataFit(new, p)
      BY <1>4, <1>6, <2>1, <2>2, GetXYFits
    <2> QED
      BY <2>1, <2>3 DEF MonitorFits, DataFit
  <1>8. MonitorFits(new, p, past'[m])
    BY <1>3, <1>7, MarksGrow
  <1> QED
    BY <1>1, <1>3, <1>4, <1>5, <1>8, SignalOne

-----------------------------------------------------------------------------
(* A chunk that a caller brings is numbered on. *)
LEMMA ChunkGrows ==
  ASSUME SignalInv, feed = "stream", NEW m \in Monitors, NEW levels \in Seq(Levels)
  PROVE  LET p == parent[m]
             chunk == Points(levels, Len(p))
         IN  /\ p \in Seq(Point) /\ chunk \in Seq(Point) /\ p \o chunk \in Seq(Point)
             /\ Ordered(p \o chunk, Len(p \o chunk) + Cardinality(dropped[m]))
  <1> DEFINE p == parent[m]
             chunk == Points(levels, Len(p))
  <1>1. p \in Seq(Point) /\ Len(p) \in Nat
    BY DEF SignalInv
  <1>2. dropped[m] = {} /\ Cardinality({}) = 0
    BY FS_EmptySet DEF SignalInv
  <1>3. Ordered(p, Len(p) + Cardinality(dropped[m]))
    BY DEF SignalInv
  <1>4. Len(p) + 0 = Len(p)
    BY <1>1
  <1> HIDE DEF p
  <1>5. Ordered(p, Len(p))
    BY <1>2, <1>3, <1>4
  <1>6. chunk \in Seq(Point)
    BY <1>1, PointsTyped
  <1>7. \A i \in 1 .. Len(chunk) : chunk[i][1] = Len(p) + i
    <2>1. chunk = [i \in 1 .. Len(levels) |-> <<Len(p) + i, levels[i]>>]
      BY DEF Points
    <2>2. Len(levels) \in Nat
      OBVIOUS
    <2> HIDE DEF chunk
    <2>3. Len(chunk) = Len(levels)
      BY <2>1, <2>2
    <2> QED
      BY <2>1, <2>3
  <1> HIDE DEF chunk
  <1>8. p \o chunk \in Seq(Point) /\ Ordered(p \o chunk, Len(p) + Len(chunk))
    BY <1>1, <1>5, <1>6, <1>7, OrderedGrows
  <1>9. Len(p \o chunk) + Cardinality(dropped[m]) = Len(p) + Len(chunk)
    <2>1. Len(p \o chunk) = Len(p) + Len(chunk) /\ Len(chunk) \in Nat
      BY <1>1, <1>6
    <2> QED
      BY <1>1, <1>2, <2>1
  <1> QED
    BY <1>1, <1>6, <1>8, <1>9 DEF p, chunk

(* appendData *)
LEMMA SignalStream ==
  ASSUME SignalInv, NEW m \in Monitors, NEW levels \in Chunks, Stream(m, levels)
  PROVE  SignalInv'
  <1> DEFINE p == parent[m]
             chunk == Points(levels, Len(parent[m]))
             grown == parent[m] \o chunk
             new == AppendData(mon[m], w, m, grown, chunk, persist).mon
  <1>1. PICK trace :
          /\ feed = "stream" /\ UNCHANGED <<feed, persist, dropped>>
          /\ parent' = [parent EXCEPT ![m] = grown] /\ mon' = [mon EXCEPT ![m] = new]
          /\ past' = [past EXCEPT ![m] = @ \cup trace]
    BY DEF Stream, config, source
  <1>2. past = [k \in Monitors |-> past[k]] /\ MonitorFits(mon[m], p, past[m])
    BY DEF SignalInv
  <1>3. past' = [k \in Monitors |-> past'[k]] /\ \A k \in Monitors : past[k] \subseteq past'[k]
    BY <1>1, <1>2
  <1>4. /\ p \in Seq(Point) /\ chunk \in Seq(Point) /\ grown \in Seq(Point)
        /\ Ordered(grown, Len(grown) + Cardinality(dropped[m]))
    <2>1. levels \in Seq(Levels)
      BY LiveAssumption DEF LiveAssumption
    <2> QED
      BY <1>1, <2>1, ChunkGrows
  <1>5. MonitorFits(new, grown, past[m])
    <2> DEFINE made == AppendData(mon[m], w, m, p \o chunk, chunk, persist).mon
    <2>1. grown = p \o chunk /\ new = made
      OBVIOUS
    <2> HIDE DEF p, chunk, grown, new
    <2>2. Rises(p \o chunk)
      BY <1>4, <2>1 DEF Ordered
    <2>3. IsMonitor(mon[m]) /\ (Trusted(past[m]) => DataFit(mon[m], p))
      BY <1>2 DEF MonitorFits
    <2>4. IsMonitor(made) /\ (DataFit(mon[m], p) => DataFit(made, p \o chunk))
      BY <1>4, <2>2, <2>3, AppendDataFits
    <2> HIDE DEF made
    <2> QED
      BY <2>1, <2>3, <2>4 DEF MonitorFits
  <1>6. MonitorFits(new, grown, past'[m])
    BY <1>3, <1>5, MarksGrow
  <1> HIDE DEF new, grown
  <1> QED
    BY <1>1, <1>3, <1>4, <1>6, SignalOne

(* onParentUpdated after updateData *)
LEMMA SignalUpdate ==
  ASSUME SignalInv, NEW m \in Monitors, NEW levels \in Chunks \cup {<<>>}, Update(m, levels)
  PROVE  SignalInv'
  <1> DEFINE p == parent[m]
             chunk == Points(levels, Len(parent[m]))
             grown == parent[m] \o chunk
             new == Invalidated(mon[m])
  <1>1. /\ feed = "stream" /\ UNCHANGED <<feed, persist, dropped, past>>
        /\ parent' = [parent EXCEPT ![m] = grown] /\ mon' = [mon EXCEPT ![m] = new]
    <2>1. /\ parent' = [parent EXCEPT ![m] = @ \o Points(levels, Len(@))]
          /\ mon' = [mon EXCEPT ![m] = Invalidated(@)]
      BY DEF Update
    <2>2. parent \in [Monitors -> Seq(Point)] /\ mon = [k \in Monitors |-> mon[k]]
      BY DEF SignalInv
    <2>3. parent' = [parent EXCEPT ![m] = grown] /\ mon' = [mon EXCEPT ![m] = new]
      BY <2>1, <2>2
    <2> QED
      BY <2>3 DEF Update, config, source
  <1>2. past = [k \in Monitors |-> past[k]] /\ MonitorFits(mon[m], p, past[m])
    BY DEF SignalInv
  <1>3. past' = [k \in Monitors |-> past'[k]] /\ \A k \in Monitors : past[k] \subseteq past'[k]
    BY <1>1, <1>2
  <1>4. /\ p \in Seq(Point) /\ chunk \in Seq(Point) /\ grown \in Seq(Point)
        /\ Ordered(grown, Len(grown) + Cardinality(dropped[m]))
    <2>1. levels \in Seq(Levels)
      <3>1. <<>> \in Seq(Levels)
        OBVIOUS
      <3> QED
        BY <3>1, LiveAssumption DEF LiveAssumption
    <2> QED
      BY <1>1, <2>1, ChunkGrows
  <1>5. MonitorFits(new, grown, past[m])
    <2>1. grown = p \o chunk
      OBVIOUS
    <2> HIDE DEF p, chunk, grown
    <2> QED
      BY <1>2, <1>4, <2>1, InvalidatedFits
  <1> HIDE DEF new, grown
  <1>6. MonitorFits(new, grown, past'[m])
    BY <1>1, <1>5
  <1> QED
    BY <1>1, <1>3, <1>4, <1>6, SignalOne

(* updateData with corrected values *)
LEMMA SignalRevise ==
  ASSUME SignalInv, NEW m \in Monitors, NEW i \in DOMAIN parent[m], NEW level \in Levels,
         Revise(m, i, level)
  PROVE  SignalInv'
  <1> DEFINE p == parent[m]
             x == [p[i] EXCEPT ![2] = level]
             q == [p EXCEPT ![i] = x]
             new == Invalidated(mon[m])
  <1>1. parent \in [Monitors -> Seq(Point)] /\ mon = [k \in Monitors |-> mon[k]]
        /\ past = [k \in Monitors |-> past[k]]
        /\ MonitorFits(mon[m], p, past[m])
        /\ Ordered(p, Len(p) + Cardinality(dropped[m]))
    BY DEF SignalInv
  <1>2. p \in Seq(Point) /\ i \in 1 .. Len(p) /\ p[i] \in Point
    BY <1>1
  <1>3. x \in Point /\ x[1] = p[i][1]
    BY <1>2 DEF Point
  <1>4. /\ UNCHANGED <<feed, persist, dropped>>
        /\ parent' = [parent EXCEPT ![m] = q] /\ mon' = [mon EXCEPT ![m] = new]
        /\ past' = [past EXCEPT ![m] = @ \cup {"revised"}]
    <2>1. /\ parent' = [parent EXCEPT ![m][i][2] = level]
          /\ mon' = [mon EXCEPT ![m] = Invalidated(@)]
      BY DEF Revise
    <2>2. parent' = [parent EXCEPT ![m] = q] /\ mon' = [mon EXCEPT ![m] = new]
      BY <1>1, <1>2, <2>1
    <2> QED
      BY <2>2 DEF Revise, Extra, config, source
  <1>5. /\ past' = [k \in Monitors |-> past'[k]] /\ "revised" \in past'[m]
        /\ \A k \in Monitors : past[k] \subseteq past'[k]
    BY <1>1, <1>4
  <1> HIDE DEF x
  <1>6. q \in Seq(Point) /\ Len(q) = Len(p) /\ \A k \in 1 .. Len(p) : q[k][1] = p[k][1]
    <2> HIDE DEF p
    <2>1. q \in Seq(Point) /\ Len(q) = Len(p)
      BY <1>2, <1>3, ExceptSeq
    <2>2. ASSUME NEW k \in 1 .. Len(p) PROVE q[k][1] = p[k][1]
      <3>1. DOMAIN p = 1 .. Len(p)
        BY <1>2
      <3>2. CASE k = i
        BY <1>3, <3>1, <3>2
      <3>3. CASE k # i
        BY <3>1, <3>3
      <3> QED
        BY <3>2, <3>3
    <2> QED
      BY <2>1, <2>2
  <1> HIDE DEF q
  <1>7. Ordered(q, Len(q) + Cardinality(dropped[m]))
    <2>1. \A j, k \in 1 .. Len(q) : j <= k => q[j][1] <= q[k][1]
      <3> SUFFICES ASSUME NEW j \in 1 .. Len(p), NEW k \in 1 .. Len(p), j <= k
                   PROVE  q[j][1] <= q[k][1]
        BY <1>6
      <3>1. p[j][1] <= p[k][1]
        BY <1>1 DEF Ordered, Rises
      <3> QED
        BY <1>6, <3>1
    <2>2. \A k \in 1 .. Len(q) : q[k][1] <= Len(q) + Cardinality(dropped[m])
      BY <1>1, <1>6 DEF Ordered
    <2> QED
      BY <2>1, <2>2 DEF Ordered, Rises
  <1>8. MonitorFits(new, q, past'[m])
    <2>1. MonitorFits(new, p, past[m]) /\ new.dirty = TRUE
      BY <1>1, <1>2, InvalidatedFits
    <2>2. IsMonitor(new)
      BY <2>1 DEF MonitorFits
    <2>3. Trusted(past'[m]) => ~persist
      BY <1>5 DEF Trusted
    <2> HIDE DEF new
    <2> QED
      BY <2>1, <2>2, <2>3 DEF MonitorFits, DataFit
  <1> HIDE DEF new
  <1> QED
    BY <1>4, <1>5, <1>6, <1>7, <1>8, SignalOne

(* The setters of a rule *)
LEMMA SignalSetRule ==
  ASSUME SignalInv, NEW m \in Monitors, NEW rule \in Rules, SetRule(m, rule)
  PROVE  SignalInv'
  <1> DEFINE p == parent[m]
             cold == Invalidated(mon[m])
             new == [cold EXCEPT !.rule = rule]
  <1>1. parent \in [Monitors -> Seq(Point)] /\ mon = [k \in Monitors |-> mon[k]]
        /\ past = [k \in Monitors |-> past[k]]
        /\ MonitorFits(mon[m], p, past[m])
        /\ Ordered(p, Len(p) + Cardinality(dropped[m]))
    BY DEF SignalInv
  <1>2. p \in Seq(Point) /\ parent = [parent EXCEPT ![m] = p]
    BY <1>1
  <1>3. /\ UNCHANGED <<feed, persist, dropped, parent>> /\ mon' = [mon EXCEPT ![m] = new]
        /\ past' = [past EXCEPT ![m] = @ \cup {"ruled"}]
    <2>1. mon' = [mon EXCEPT ![m] = [Invalidated(@) EXCEPT !.rule = rule]]
      BY DEF SetRule
    <2>2. mon' = [mon EXCEPT ![m] = new]
      BY <1>1, <2>1
    <2> QED
      BY <2>2 DEF SetRule, Extra, config, source
  <1>4. /\ past' = [k \in Monitors |-> past'[k]] /\ "ruled" \in past'[m]
        /\ \A k \in Monitors : past[k] \subseteq past'[k]
    BY <1>1, <1>3
  <1>5. MonitorFits(new, p, past'[m])
    <2>1. MonitorFits(cold, p, past[m]) /\ cold.dirty = TRUE
      BY <1>1, <1>2, InvalidatedFits
    <2> HIDE DEF cold
    <2>2. new = [rule |-> rule, dirty |-> cold.dirty, cache |-> cold.cache, row |-> cold.row]
      <3>1. new = [cold EXCEPT !.rule = rule]
        OBVIOUS
      <3> HIDE DEF new
      <3>2. PICK r, d, x, o : cold = [rule |-> r, dirty |-> d, cache |-> x, row |-> o]
        BY <2>1 DEF MonitorFits, IsMonitor
      <3> QED
        BY ONLY <3>1, <3>2
    <2>3. IsRule(rule)
      BY RuleIs
    <2> HIDE DEF new
    <2>4. IsMonitor(new) /\ new.dirty = TRUE
      BY <2>1, <2>2, <2>3 DEF IsMonitor
    <2>5. Trusted(past'[m]) => ~persist
      BY <1>4 DEF Trusted
    <2> QED
      BY <2>4, <2>5 DEF MonitorFits, DataFit
  <1> HIDE DEF new, p
  <1>6. parent' = [parent EXCEPT ![m] = p]
    BY <1>2, <1>3
  <1> QED
    BY <1>1, <1>2, <1>3, <1>4, <1>5, <1>6, SignalOne

LEMMA SignalNext == PollInv /\ SignalInv /\ [Next]_vars => SignalInv'
  <1> SUFFICES ASSUME PollInv, SignalInv, [Next]_vars PROVE SignalInv'
    OBVIOUS
  <1>1. past = [k \in Monitors |-> past[k]]
    BY DEF SignalInv
  <1>2. ASSUME UNCHANGED <<feed, persist, dropped, parent, mon, past>> PROVE SignalInv'
    BY <1>1, <1>2, SignalAside
  <1>3. ASSUME NEW m \in Monitors, NEW level \in Levels, Log(m, level) PROVE SignalInv'
    BY <1>2, <1>3 DEF Log, config
  <1>4. ASSUME NEW m \in Monitors, View(m) PROVE SignalInv'
    BY <1>4, SignalView
  <1>5. ASSUME NEW m \in Monitors, NEW levels \in Chunks, Stream(m, levels) PROVE SignalInv'
    BY <1>5, SignalStream
  <1>6. ASSUME NEW m \in Monitors, NEW levels \in Chunks \cup {<<>>}, Update(m, levels)
        PROVE  SignalInv'
    BY <1>6, SignalUpdate
  <1>7. ASSUME NEW m \in Monitors, NEW i \in DOMAIN parent[m], NEW level \in Levels,
               Revise(m, i, level)
        PROVE  SignalInv'
    BY <1>7, SignalRevise
  <1>8. ASSUME NEW m \in Monitors, NEW rule \in Rules, SetRule(m, rule) PROVE SignalInv'
    BY <1>8, SignalSetRule
  <1>9. ASSUME NEW outcome \in [Monitors -> {"ok", "torn", "contended"}], RunCycle(outcome)
        PROVE  SignalInv'
    BY <1>9, SignalRunCycle
  <1>10. ASSUME NEW id, NEW startT, RemoveEvent(id) \/ EditWindow(id, startT) PROVE SignalInv'
    <2>1. UNCHANGED <<feed, persist, dropped, parent, mon>> /\ past' = Edited
      BY <1>10 DEF RemoveEvent, EditWindow, Extra, config, source
    <2>2. past' = [k \in Monitors |-> past'[k]] /\ \A k \in Monitors : past[k] \subseteq past'[k]
      BY <2>1 DEF Edited
    <2> QED
      BY <2>1, <2>2, SignalAside
  <1>11. CASE UNCHANGED vars
    BY <1>2, <1>11 DEF vars
  <1> QED
    BY <1>3, <1>4, <1>5, <1>6, <1>7, <1>8, <1>9, <1>10, <1>11 DEF Next

(* A cached or persisted signal, the state of its hysteresis and the start *)
(* of its open run are what one recomputation of the same samples allows   *)
(* (recompute_, appendData, tryLoadFromDisk_), in lines that stay in the   *)
(* order of their times.                                                   *)
THEOREM LiveSignalInvariant == Spec => []SignalInv
  <1> QED
    BY SignalInit, SignalNext, LivePollInvariant, PTL DEF Spec

(* The signal of a monitor is that of one recomputation of what its sensor *)
(* holds, except that a minimum duration may suppress more of it: however  *)
(* polls, chunks, setters, views and persisted rows follow each other.     *)
THEOREM LiveSignalMatchesBatch == Spec => []SignalMatchesBatch
  <1>1. SignalInv => SignalMatchesBatch
    <2> SUFFICES ASSUME SignalInv, NEW m \in Monitors, ~mon[m].dirty,
                        ~(persist /\ past[m] \cap {"ruled", "revised"} # {})
                 PROVE  LET c == mon[m].cache
                            batch == Batch(parent[m], mon[m].rule)
                        IN  /\ c.pts = parent[m]
                            /\ \A i \in DOMAIN c.y : c.y[i] => batch[i]
                            /\ mon[m].rule.minDur = 0 => c.y = batch
      BY DEF SignalMatchesBatch
    <2>1. MonitorFits(mon[m], parent[m], past[m]) /\ parent[m] \in Seq(Point)
      BY DEF SignalInv
    <2>2. CacheFits(mon[m].cache, parent[m], mon[m].rule)
      BY <2>1 DEF MonitorFits, Trusted, DataFit
    <2>3. SignalFits(mon[m].cache.y, parent[m], mon[m].rule) /\ mon[m].cache.pts = parent[m]
      BY <2>2 DEF CacheFits
    <2>4. DOMAIN mon[m].cache.y = 1 .. Len(parent[m])
      BY <2>3 DEF SignalFits
    <2> QED
      BY <2>3, <2>4 DEF SignalFits
  <1> QED
    BY <1>1, LiveSignalInvariant, PTL
=============================================================================
