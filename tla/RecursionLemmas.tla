-------------------------- MODULE RecursionLemmas --------------------------
(***************************************************************************)
(* Induction over the naturals, stated for sets; the functions defined by  *)
(* iteration; from these what Masked returns; and the least and the        *)
(* greatest of a set of integers.                                          *)
(***************************************************************************)
EXTENDS LogicalIndexing, FiniteSetsExt, SequenceTheorems, WellFoundedInduction, TLAPS

(* A set that holds 0 and with every number its successor holds them all.  *)
LEMMA NatSetInduction ==
  ASSUME NEW S, 0 \in S, \A n \in Nat : n \in S => n + 1 \in S
  PROVE  Nat \subseteq S
  <1> DEFINE T == {n \in Nat : n \notin S}
             R == OpToRel(<, Nat)
  <1> SUFFICES ASSUME T # {} PROVE FALSE
    OBVIOUS
  <1>1. IsWellFoundedOn(R, Nat)
    BY NatLessThanWellFounded
  <1>2. PICK x \in T : \A y \in T : ~(<<y, x>> \in R)
    <2>1. T \subseteq Nat
      OBVIOUS
    <2> HIDE DEF T, R
    <2> QED
      BY <1>1, <2>1, WFMin
  <1>3. x # 0 /\ x \in Nat /\ x \notin S
    OBVIOUS
  <1>4. x - 1 \in Nat /\ (x - 1) + 1 = x
    BY <1>3
  <1>5. <<x - 1, x>> \in R
    BY <1>3 DEF OpToRel
  <1>6. x - 1 \notin T
    <2> HIDE DEF T, R
    <2> QED
      BY <1>2, <1>5
  <1> QED
    BY <1>3, <1>4, <1>6

(* The same, up to a bound. *)
LEMMA UpToInduction ==
  ASSUME NEW n \in Nat, NEW S, 0 \in S, \A i \in 1 .. n : i - 1 \in S => i \in S
  PROVE  0 .. n \subseteq S
  <1> DEFINE U == {i \in Nat : i <= n => i \in S}
  <1>1. 0 \in U
    OBVIOUS
  <1>2. ASSUME NEW i \in Nat, i \in U PROVE i + 1 \in U
    <2>1. CASE i + 1 <= n
      <3>1. i + 1 \in 1 .. n /\ (i + 1) - 1 = i /\ i \in S
        BY <1>2, <2>1
      <3> QED
        BY <3>1
    <2> QED
      BY <2>1
  <1>3. Nat \subseteq U
    <2> HIDE DEF U
    <2> QED
      BY <1>1, <1>2, NatSetInduction
  <1> QED
    BY <1>3

(* f[0] is base, and g makes f[i] of f[i - 1]. *)
Iterates(f, n, base, g) ==
  f = [i \in 0 .. n |-> IF i = 0 THEN base ELSE g[<<f[i - 1], i>>]]

(* Iteration defines a function. *)
LEMMA IterationExists ==
  ASSUME NEW V, NEW n \in Nat, NEW base \in V, NEW g \in [V \X (1 .. n) -> V]
  PROVE  \E f \in [0 .. n -> V] : Iterates(f, n, base, g)
  <1> DEFINE S == {m \in Nat : \E f \in [0 .. m -> V] : Iterates(f, m, base, g)}
  <1>1. 0 \in S
    <2> DEFINE f == [i \in 0 .. 0 |-> base]
    <2>1. f \in [0 .. 0 -> V] /\ Iterates(f, 0, base, g)
      BY DEF Iterates
    <2> QED
      BY <2>1
  <1>2. ASSUME NEW m \in 1 .. n, m - 1 \in S PROVE m \in S
    <2>1. PICK f \in [0 .. m - 1 -> V] : Iterates(f, m - 1, base, g)
      BY <1>2
    <2> DEFINE h == [i \in 0 .. m |-> IF i = m THEN g[<<f[m - 1], m>>] ELSE f[i]]
    <2>2. f[m - 1] \in V /\ g[<<f[m - 1], m>>] \in V
      OBVIOUS
    <2>3. h \in [0 .. m -> V]
      BY <2>2
    <2>4. \A i \in 0 .. m - 1 : f[i] = IF i = 0 THEN base ELSE g[<<f[i - 1], i>>]
      BY <2>1 DEF Iterates
    <2>5. \A i \in 0 .. m : h[i] = IF i = 0 THEN base ELSE g[<<h[i - 1], i>>]
      <3> SUFFICES ASSUME NEW i \in 0 .. m
                   PROVE  h[i] = IF i = 0 THEN base ELSE g[<<h[i - 1], i>>]
        OBVIOUS
      <3>1. /\ m # 0 /\ m - 1 \in 0 .. m /\ m - 1 # m
            /\ h[i] = IF i = m THEN g[<<f[m - 1], m>>] ELSE f[i]
            /\ h[m - 1] = f[m - 1]
        OBVIOUS
      <3>2. CASE i = m
        <4> HIDE DEF h
        <4> QED
          BY <3>1, <3>2
      <3>3. CASE i # m
        <4>1. i \in 0 .. m - 1 /\ (i # 0 => i - 1 \in 0 .. m /\ i - 1 # m)
          BY <3>3
        <4>2. i # 0 => h[i - 1] = f[i - 1]
          BY <4>1
        <4> HIDE DEF h
        <4> QED
          BY <2>4, <3>1, <3>3, <4>1, <4>2
      <3> QED
        BY <3>2, <3>3
    <2>6. Iterates(h, m, base, g)
      <3> HIDE DEF h
      <3> QED
        BY <2>3, <2>5 DEF Iterates
    <2> QED
      BY <2>3, <2>6
  <1>3. n \in S
    <2> HIDE DEF S
    <2> QED
      BY <1>1, <1>2, UpToInduction
  <1> QED
    BY <1>3

-----------------------------------------------------------------------------
(* Logical indexing. *)

(* f holds what the loop has appended after each position. *)
Loops(f, S, s, mask) ==
  /\ Masked(s, mask) = f[Len(s)]
  /\ f[0] = <<>>
  /\ \A i \in 0 .. Len(s) : f[i] \in Seq(S)
  /\ \A i \in 1 .. Len(s) :
       f[i] = IF i \in mask THEN Append(f[i - 1], s[i]) ELSE f[i - 1]

(* Masked is what the loop leaves after the last position. *)
LEMMA MaskedLoop ==
  ASSUME NEW S, NEW s \in Seq(S), NEW mask
  PROVE  \E f : Loops(f, S, s, mask)
  <1> DEFINE n == Len(s)
             g == [p \in Seq(S) \X (1 .. n) |->
                     IF p[2] \in mask THEN Append(p[1], s[p[2]]) ELSE p[1]]
             Loop(f) == f = [i \in 0 .. n |->
                               IF i = 0 THEN <<>>
                               ELSE IF i \in mask THEN Append(f[i - 1], s[i]) ELSE f[i - 1]]
             upTo == CHOOSE f : Loop(f)
  <1>1. n \in Nat /\ <<>> \in Seq(S)
    OBVIOUS
  <1>2. g \in [Seq(S) \X (1 .. n) -> Seq(S)]
    <2> SUFFICES ASSUME NEW p \in Seq(S) \X (1 .. n)
                 PROVE  (IF p[2] \in mask THEN Append(p[1], s[p[2]]) ELSE p[1]) \in Seq(S)
      OBVIOUS
    <2>1. p[1] \in Seq(S) /\ s[p[2]] \in S
      OBVIOUS
    <2> QED
      BY <2>1
  <1>3. PICK h \in [0 .. n -> Seq(S)] : Iterates(h, n, <<>>, g)
    <2> HIDE DEF n, g
    <2> QED
      BY <1>1, <1>2, IterationExists
  <1>4. Loop(h)
    <2>1. \A i \in 1 .. n : i - 1 \in 0 .. n /\ h[i - 1] \in Seq(S)
      BY <1>1
    <2>2. \A i \in 1 .. n : g[<<h[i - 1], i>>]
                              = IF i \in mask THEN Append(h[i - 1], s[i]) ELSE h[i - 1]
      BY <2>1
    <2>3. \A i \in 0 .. n : h[i] = IF i = 0 THEN <<>> ELSE g[<<h[i - 1], i>>]
      <3> HIDE DEF n, g
      <3> QED
        BY <1>3 DEF Iterates
    <2>4. \A i \in 0 .. n : h[i] = IF i = 0 THEN <<>>
                                   ELSE IF i \in mask THEN Append(h[i - 1], s[i]) ELSE h[i - 1]
      <3> SUFFICES ASSUME NEW i \in 0 .. n
                   PROVE  h[i] = IF i = 0 THEN <<>>
                                 ELSE IF i \in mask THEN Append(h[i - 1], s[i]) ELSE h[i - 1]
        OBVIOUS
      <3>1. i # 0 => i \in 1 .. n
        OBVIOUS
      <3> HIDE DEF g, n
      <3> QED
        BY <2>2, <2>3, <3>1
    <2> HIDE DEF g, n
    <2> QED
      BY <2>4
  <1>5. Loop(upTo)
    <2> HIDE DEF Loop
    <2> QED
      BY <1>4
  <1>6. Masked(s, mask) = upTo[n]
    BY DEF Masked
  <1> HIDE DEF upTo
  <1>7. /\ upTo[0] = <<>>
        /\ \A i \in 1 .. n : upTo[i] = IF i \in mask THEN Append(upTo[i - 1], s[i]) ELSE upTo[i - 1]
    <2>1. \A i \in 0 .. n : upTo[i] = IF i = 0 THEN <<>>
                                      ELSE IF i \in mask THEN Append(upTo[i - 1], s[i])
                                      ELSE upTo[i - 1]
      <3> HIDE DEF n
      <3> QED
        BY <1>5
    <2>2. 0 \in 0 .. n /\ \A i \in 1 .. n : i \in 0 .. n /\ i # 0
      BY <1>1
    <2> HIDE DEF n
    <2> QED
      BY <2>1, <2>2
  <1>8. \A i \in 0 .. n : upTo[i] \in Seq(S)
    <2> DEFINE U == {i \in 0 .. n : upTo[i] \in Seq(S)}
    <2>1. 0 \in U
      <3>1. 0 \in 0 .. n /\ upTo[0] \in Seq(S)
        BY <1>1, <1>7
      <3> HIDE DEF n
      <3> QED
        BY <3>1
    <2>2. ASSUME NEW i \in 1 .. n, i - 1 \in U PROVE i \in U
      <3>1. s[i] \in S /\ upTo[i - 1] \in Seq(S) /\ i \in 0 .. n
        BY <2>2
      <3>2. Append(upTo[i - 1], s[i]) \in Seq(S)
        BY <3>1
      <3>3. upTo[i] \in Seq(S)
        BY <1>7, <3>1, <3>2
      <3> QED
        BY <3>1, <3>3
    <2>3. 0 .. n \subseteq U
      <3> HIDE DEF U, n
      <3> QED
        BY <1>1, <2>1, <2>2, UpToInduction
    <2> QED
      BY <2>3
  <1>9. Loops(upTo, S, s, mask)
    <2> HIDE DEF n
    <2>1. n = Len(s)
      BY DEF n
    <2> QED
      BY <1>6, <1>7, <1>8, <2>1 DEF Loops
  <1> QED
    BY <1>9

(* pos lists the positions in mask, in order. *)
Lists(pos, m, mask) ==
  /\ pos \in [1 .. m -> mask]
  /\ \A j, k \in 1 .. m : j < k => pos[j] < pos[k]
  /\ \A i \in mask : \E k \in 1 .. m : pos[k] = i

(* Masked returns the elements at the positions in mask, in order, each    *)
(* once.                                                                   *)
LEMMA MaskedSelects ==
  ASSUME NEW S, NEW s \in Seq(S), NEW mask \in SUBSET (1 .. Len(s))
  PROVE  /\ Masked(s, mask) \in Seq(S)
         /\ \E pos : /\ Lists(pos, Len(Masked(s, mask)), mask)
                     /\ \A k \in 1 .. Len(Masked(s, mask)) : Masked(s, mask)[k] = s[pos[k]]
  <1>0. PICK f : Loops(f, S, s, mask)
    BY MaskedLoop
  <1>1. /\ Masked(s, mask) = f[Len(s)]
        /\ f[0] = <<>>
        /\ \A i \in 0 .. Len(s) : f[i] \in Seq(S)
        /\ \A i \in 1 .. Len(s) :
              f[i] = IF i \in mask THEN Append(f[i - 1], s[i]) ELSE f[i - 1]
    BY <1>0 DEF Loops
  <1> DEFINE Selects(pos, i) == /\ Lists(pos, Len(f[i]), mask \cap 1 .. i)
                                /\ \A k \in 1 .. Len(f[i]) : f[i][k] = s[pos[k]]
             U == {i \in 0 .. Len(s) : \E pos : Selects(pos, i)}
  <1>2. 0 \in U
    <2> DEFINE pos == [k \in 1 .. 0 |-> 0]
    <2>1. Selects(pos, 0)
      BY <1>1 DEF Lists
    <2> HIDE DEF Selects, pos
    <2> QED
      BY <2>1
  <1>3. ASSUME NEW i \in 1 .. Len(s), i - 1 \in U PROVE i \in U
    <2>1. PICK pos : Selects(pos, i - 1)
      BY <1>3
    <2>2. f[i - 1] \in Seq(S) /\ s[i] \in S /\ i - 1 \in 0 .. Len(s)
      BY <1>1
    <2> DEFINE m == Len(f[i - 1])
    <2>3. CASE i \notin mask
      <3>1. f[i] = f[i - 1] /\ mask \cap 1 .. i = mask \cap 1 .. (i - 1)
        BY <1>1, <2>3
      <3>2. Selects(pos, i)
        BY <2>1, <3>1
      <3> HIDE DEF Selects
      <3> QED
        BY <3>2
    <2>4. CASE i \in mask
      <3> DEFINE next == [k \in 1 .. m + 1 |-> IF k = m + 1 THEN i ELSE pos[k]]
      <3>1. m \in Nat
        BY <2>2
      <3>2. f[i] = Append(f[i - 1], s[i])
        BY <1>1, <2>4
      <3>3. /\ Len(f[i]) = m + 1 /\ f[i][m + 1] = s[i]
            /\ \A k \in 1 .. m : f[i][k] = f[i - 1][k]
        BY <2>2, <3>2
      <3>4. /\ \A k \in 1 .. m : pos[k] \in mask \cap 1 .. (i - 1)
            /\ \A j, k \in 1 .. m : j < k => pos[j] < pos[k]
            /\ \A j \in mask \cap 1 .. (i - 1) : \E k \in 1 .. m : pos[k] = j
            /\ \A k \in 1 .. m : f[i - 1][k] = s[pos[k]]
        <4> HIDE DEF U
        <4> QED
          BY <2>1 DEF Lists
      <3> HIDE DEF m
      <3>5. next[m + 1] = i /\ \A k \in 1 .. m : next[k] = pos[k]
        BY <3>1
      <3>6. next \in [1 .. m + 1 -> mask \cap 1 .. i]
        <4>1. \A k \in 1 .. m + 1 : k = m + 1 \/ k \in 1 .. m
          BY <3>1
        <4> QED
          BY <2>4, <3>4, <4>1
      <3> HIDE DEF next
      <3>7. ASSUME NEW j \in 1 .. m + 1, NEW k \in 1 .. m + 1, j < k PROVE next[j] < next[k]
        <4>1. j \in 1 .. m
          BY <3>1, <3>7
        <4>2. CASE k = m + 1
          BY <3>4, <3>5, <4>1, <4>2
        <4>3. CASE k \in 1 .. m
          BY <3>4, <3>5, <3>7, <4>1, <4>3
        <4> QED
          BY <3>1, <4>2, <4>3
      <3>8. ASSUME NEW j \in mask \cap 1 .. i PROVE \E k \in 1 .. m + 1 : next[k] = j
        <4>1. CASE j = i
          BY <3>1, <3>5, <4>1
        <4>2. CASE j # i
          <5>1. j \in mask \cap 1 .. (i - 1)
            BY <4>2
          <5>2. PICK k \in 1 .. m : pos[k] = j
            BY <3>4, <5>1
          <5> QED
            BY <3>1, <3>5, <5>2
        <4> QED
          BY <4>1, <4>2
      <3>9. ASSUME NEW k \in 1 .. m + 1 PROVE f[i][k] = s[next[k]]
        <4>1. CASE k = m + 1
          BY <3>3, <3>5, <4>1
        <4>2. CASE k \in 1 .. m
          BY <3>3, <3>4, <3>5, <4>2
        <4> QED
          BY <3>1, <4>1, <4>2
      <3>10. Selects(next, i)
        BY <3>3, <3>6, <3>7, <3>8, <3>9 DEF Lists
      <3> HIDE DEF Selects
      <3> QED
        BY <3>10
    <2> QED
      BY <2>3, <2>4
  <1>4. Len(s) \in U
    <2>1. Len(s) \in Nat /\ Len(s) \in 0 .. Len(s)
      OBVIOUS
    <2> HIDE DEF U
    <2> QED
      BY <1>2, <1>3, <2>1, UpToInduction
  <1>5. f[Len(s)] \in Seq(S)
    <2>1. Len(s) \in 0 .. Len(s)
      OBVIOUS
    <2> QED
      BY <1>1, <2>1
  <1>6. mask \cap 1 .. Len(s) = mask
    OBVIOUS
  <1>7. PICK pos : Selects(pos, Len(s))
    BY <1>4
  <1>8. Lists(pos, Len(f[Len(s)]), mask)
    BY <1>6, <1>7
  <1>9. \A k \in 1 .. Len(f[Len(s)]) : f[Len(s)][k] = s[pos[k]]
    BY <1>7
  <1> HIDE DEF Selects, U
  <1> QED
    BY <1>1, <1>5, <1>8, <1>9

(* A mask that begins with 1 .. n keeps the first n elements in place. *)
LEMMA MaskedKeeps ==
  ASSUME NEW S, NEW s \in Seq(S), NEW mask \in SUBSET (1 .. Len(s)),
         NEW n \in 0 .. Len(s), 1 .. n \subseteq mask
  PROVE  /\ n <= Len(Masked(s, mask))
         /\ \A k \in 1 .. n : Masked(s, mask)[k] = s[k]
  <1>0. PICK f : Loops(f, S, s, mask)
    BY MaskedLoop
  <1>1. /\ Masked(s, mask) = f[Len(s)]
        /\ f[0] = <<>>
        /\ \A i \in 0 .. Len(s) : f[i] \in Seq(S)
        /\ \A i \in 1 .. Len(s) :
              f[i] = IF i \in mask THEN Append(f[i - 1], s[i]) ELSE f[i - 1]
    BY <1>0 DEF Loops
  <1> DEFINE Begins(i) == /\ IF i <= n THEN Len(f[i]) = i ELSE n <= Len(f[i])
                          /\ \A k \in 1 .. n : k <= i => f[i][k] = s[k]
             U == {i \in 0 .. Len(s) : Begins(i)}
  <1>2. 0 \in U
    BY <1>1
  <1>3. ASSUME NEW i \in 1 .. Len(s), i - 1 \in U PROVE i \in U
    <2>1. f[i - 1] \in Seq(S) /\ s[i] \in S /\ i - 1 \in 0 .. Len(s) /\ Begins(i - 1)
      BY <1>1, <1>3
    <2>2. CASE i \in mask
      <3>0. f[i] = Append(f[i - 1], s[i])
        BY <1>1, <2>2
      <3>1. /\ Len(f[i]) = Len(f[i - 1]) + 1 /\ f[i][Len(f[i - 1]) + 1] = s[i]
            /\ \A k \in 1 .. Len(f[i - 1]) : f[i][k] = f[i - 1][k]
        BY <2>1, <3>0
      <3>2. Len(f[i - 1]) \in Nat
        BY <2>1
      <3>3. IF i <= n THEN Len(f[i]) = i ELSE n <= Len(f[i])
        BY <2>1, <3>1, <3>2
      <3>4. ASSUME NEW k \in 1 .. n, k <= i PROVE f[i][k] = s[k]
        <4>1. CASE k = i
          BY <2>1, <3>1, <3>4, <4>1
        <4>2. CASE k # i
          BY <2>1, <3>1, <3>2, <3>4, <4>2
        <4> QED
          BY <4>1, <4>2
      <3> QED
        BY <3>3, <3>4
    <2>3. CASE i \notin mask
      <3>1. f[i] = f[i - 1] /\ i > n
        BY <1>1, <2>3
      <3> QED
        BY <2>1, <3>1
    <2> QED
      BY <2>2, <2>3
  <1>4. Len(s) \in U
    <2>1. Len(s) \in Nat /\ Len(s) \in 0 .. Len(s)
      OBVIOUS
    <2> HIDE DEF U
    <2> QED
      BY <1>2, <1>3, <2>1, UpToInduction
  <1> QED
    BY <1>1, <1>4

(* The loop does not look beyond the last position of the mask. *)
LEMMA MaskedPrefix ==
  ASSUME NEW S, NEW s \in Seq(S), NEW x \in S, NEW mask \in SUBSET (1 .. Len(s))
  PROVE  Masked(Append(s, x), mask) = Masked(s, mask)
  <1> DEFINE n == Len(s)
             t == Append(s, x)
  <1>1. n \in Nat /\ t \in Seq(S) /\ Len(t) = n + 1 /\ \A i \in 1 .. n : t[i] = s[i]
    OBVIOUS
  <1>2. PICK f : /\ Masked(s, mask) = f[n] /\ f[0] = <<>>
                 /\ \A i \in 1 .. n :
                      f[i] = IF i \in mask THEN Append(f[i - 1], s[i]) ELSE f[i - 1]
    <2>1. PICK f : Loops(f, S, s, mask)
      BY MaskedLoop
    <2> QED
      BY <2>1 DEF Loops
  <1> HIDE DEF t
  <1>3. PICK g : /\ Masked(t, mask) = g[n + 1] /\ g[0] = <<>>
                 /\ \A i \in 1 .. n + 1 :
                      g[i] = IF i \in mask THEN Append(g[i - 1], t[i]) ELSE g[i - 1]
    <2>1. PICK g : Loops(g, S, t, mask)
      BY <1>1, MaskedLoop
    <2> QED
      BY <1>1, <2>1 DEF Loops
  <1> DEFINE U == {i \in 0 .. n : g[i] = f[i]}
  <1>4. 0 \in U
    BY <1>1, <1>2, <1>3
  <1>5. ASSUME NEW i \in 1 .. n, i - 1 \in U PROVE i \in U
    BY <1>1, <1>2, <1>3, <1>5
  <1>6. n \in U
    <2>1. n \in 0 .. n
      BY <1>1
    <2> HIDE DEF U, n
    <2>2. n \in Nat
      BY <1>1
    <2>3. 0 .. n \subseteq U
      BY <1>4, <1>5, <2>2, UpToInduction
    <2> QED
      BY <2>1, <2>3
  <1>7. g[n + 1] = g[n]
    <2>1. n + 1 \in 1 .. n + 1 /\ (n + 1) - 1 = n /\ n + 1 \notin mask
      BY <1>1
    <2> HIDE DEF n
    <2> QED
      BY <1>3, <2>1
  <1> QED
    BY <1>2, <1>3, <1>6, <1>7 DEF t

(* A mask that takes all from some position on appends that much of s. *)
LEMMA MaskedSuffix ==
  ASSUME NEW S, NEW s \in Seq(S), NEW n \in 0 .. Len(s), NEW mask \in SUBSET (1 .. n)
  PROVE  Masked(s, mask \cup (n + 1 .. Len(s))) = Masked(s, mask) \o SubSeq(s, n + 1, Len(s))
  <1> DEFINE more == mask \cup (n + 1 .. Len(s))
             len == Len(s)
             Part(i) == SubSeq(s, n + 1, i)
  <1>1. PICK f : Loops(f, S, s, mask)
    BY MaskedLoop
  <1> HIDE DEF more
  <1>2. PICK g : Loops(g, S, s, more)
    BY MaskedLoop
  <1>3. len \in Nat /\ n \in Nat /\ n <= len /\ \A i \in 1 .. len : s[i] \in S
    OBVIOUS
  <1>4. /\ \A i \in 1 .. n : i \in more <=> i \in mask
        /\ \A i \in n + 1 .. len : i \in more /\ i \notin mask
    BY <1>3 DEF more
  <1>5. /\ f[0] = <<>> /\ g[0] = <<>>
        /\ \A i \in 0 .. len : f[i] \in Seq(S)
        /\ Masked(s, mask) = f[len] /\ Masked(s, more) = g[len]
        /\ \A i \in 1 .. n : f[i] = IF i \in mask THEN Append(f[i - 1], s[i]) ELSE f[i - 1]
        /\ \A i \in 1 .. n : g[i] = IF i \in mask THEN Append(g[i - 1], s[i]) ELSE g[i - 1]
        /\ \A i \in n + 1 .. len : f[i] = f[i - 1] /\ g[i] = Append(g[i - 1], s[i])
    <2>1. /\ f[0] = <<>> /\ g[0] = <<>>
          /\ \A i \in 0 .. len : f[i] \in Seq(S)
          /\ Masked(s, mask) = f[len] /\ Masked(s, more) = g[len]
          /\ \A i \in 1 .. len : f[i] = IF i \in mask THEN Append(f[i - 1], s[i]) ELSE f[i - 1]
          /\ \A i \in 1 .. len : g[i] = IF i \in more THEN Append(g[i - 1], s[i]) ELSE g[i - 1]
      BY <1>1, <1>2 DEF Loops
    <2>2. 1 .. n \subseteq 1 .. len /\ n + 1 .. len \subseteq 1 .. len
      BY <1>3
    <2> HIDE DEF len
    <2>3. \A i \in 1 .. n : g[i] = IF i \in mask THEN Append(g[i - 1], s[i]) ELSE g[i - 1]
      BY <1>4, <2>1, <2>2
    <2>4. \A i \in n + 1 .. len : f[i] = f[i - 1] /\ g[i] = Append(g[i - 1], s[i])
      BY <1>4, <2>1, <2>2
    <2> QED
      BY <2>1, <2>2, <2>3, <2>4
  <1> HIDE DEF len
  <1>6. g[n] = f[n]
    <2> DEFINE U == {i \in 0 .. n : g[i] = f[i]}
    <2>1. 0 \in U
      BY <1>3, <1>5
    <2>2. ASSUME NEW i \in 1 .. n, i - 1 \in U PROVE i \in U
      BY <1>3, <1>5, <2>2
    <2>3. 0 .. n \subseteq U
      <3> HIDE DEF U
      <3> QED
        BY <1>3, <2>1, <2>2, UpToInduction
    <2> QED
      BY <1>3, <2>3
  <1>7. ASSUME NEW k \in 0 .. len - n
        PROVE  f[n + k] = f[n] /\ g[n + k] = f[n] \o Part(n + k)
    <2> DEFINE U == {i \in 0 .. len - n : f[n + i] = f[n] /\ g[n + i] = f[n] \o Part(n + i)}
    <2>1. 0 \in U
      <3>1. Part(n + 0) = <<>> /\ f[n] \in Seq(S) /\ n + 0 = n /\ 0 \in 0 .. len - n
        BY <1>3, <1>5
      <3>2. f[n] \o <<>> = f[n]
        BY <3>1
      <3> HIDE DEF Part
      <3> QED
        BY <1>6, <3>1, <3>2
    <2>2. ASSUME NEW i \in 1 .. len - n, i - 1 \in U PROVE i \in U
      <3>1. /\ n + i \in n + 1 .. len /\ n + i \in 1 .. len /\ (n + i) - 1 = n + (i - 1)
            /\ i \in 0 .. len - n /\ n \in 0 .. len
        BY <1>3
      <3>2. f[n + i] = f[n + (i - 1)] /\ g[n + i] = Append(g[n + (i - 1)], s[n + i])
        BY <1>5, <3>1
      <3>3. f[n + (i - 1)] = f[n] /\ g[n + (i - 1)] = f[n] \o Part(n + (i - 1))
        BY <2>2
      <3>4. /\ Part(n + (i - 1)) \in Seq(S) /\ s[n + i] \in S
            /\ Append(Part(n + (i - 1)), s[n + i]) = Part(n + i)
        <4>1. n + i \in 1 .. Len(s) /\ n + 1 \in 1 .. Len(s)
          BY <1>3, <3>1 DEF len
        <4>2. n + i \in n + 1 .. Len(s)
          BY <3>1 DEF len
        <4>3. Part(n + i) = SubSeq(s, n + 1, (n + i) - 1) \o <<s[n + i]>>
          BY <4>1, <4>2, SubSeqRecursiveSecond
        <4>4. Part(n + (i - 1)) \in Seq(S) /\ s[n + i] \in S
          BY <1>3, <3>1, <4>1
        <4> QED
          BY <3>1, <4>3, <4>4, AppendIsConcat
      <3>5. \A a, b \in Seq(S), x \in S : Append(a \o b, x) = a \o Append(b, x)
        <4> SUFFICES ASSUME NEW a \in Seq(S), NEW b \in Seq(S), NEW x \in S
                     PROVE  Append(a \o b, x) = a \o Append(b, x)
          OBVIOUS
        <4> DEFINE ab == a \o b   one == <<x>>
        <4>1. ab \in Seq(S) /\ one \in Seq(S)
          OBVIOUS
        <4>2. Append(ab, x) = ab \o one /\ Append(b, x) = b \o one
          <5> HIDE DEF ab
          <5> QED
            BY <4>1, AppendIsConcat
        <4>3. ab \o one = a \o (b \o one)
          <5> HIDE DEF one
          <5> QED
            BY <4>1, ConcatAssociative
        <4> QED
          BY <4>2, <4>3
      <3>6. f[n] \in Seq(S)
        BY <1>5, <3>1
      <3> HIDE DEF Part
      <3>7. Append(f[n] \o Part(n + (i - 1)), s[n + i]) = f[n] \o Part(n + i)
        <4>1. Append(f[n] \o Part(n + (i - 1)), s[n + i])
                = f[n] \o Append(Part(n + (i - 1)), s[n + i])
          <5> HIDE DEF len
          <5> QED
            BY ONLY <3>4, <3>5, <3>6
        <4> QED
          BY <3>4, <4>1
      <3> QED
        BY <3>1, <3>2, <3>3, <3>7
    <2>3. 0 .. len - n \subseteq U
      <3>1. len - n \in Nat
        BY <1>3
      <3> HIDE DEF U
      <3> QED
        BY <2>1, <2>2, <3>1, UpToInduction
    <2> QED
      BY <2>3
  <1>8. len - n \in 0 .. len - n /\ n + (len - n) = len
    BY <1>3
  <1>9. f[len] = f[n] /\ g[len] = f[n] \o Part(len)
    <2> HIDE DEF Part
    <2> QED
      BY <1>7, <1>8
  <1> QED
    BY <1>5, <1>9 DEF more, len
-----------------------------------------------------------------------------
(* The least and the greatest number of a set. *)

LEMMA MinIs ==
  ASSUME NEW S \in SUBSET Int, NEW m \in S, \A i \in S : m <= i
  PROVE  Min(S) = m
  <1>1. Min(S) \in S /\ \A i \in S : Min(S) <= i
    BY DEF Min
  <1>2. m \in Int /\ Min(S) \in Int /\ Min(S) <= m /\ m <= Min(S)
    BY <1>1
  <1> QED
    BY <1>2

LEMMA MaxIs ==
  ASSUME NEW S \in SUBSET Int, NEW m \in S, \A i \in S : m >= i
  PROVE  Max(S) = m
  <1>1. Max(S) \in S /\ \A i \in S : Max(S) >= i
    BY DEF Max
  <1>2. m \in Int /\ Max(S) \in Int /\ Max(S) <= m /\ m <= Max(S)
    BY <1>1
  <1> QED
    BY <1>2

(* A set of numbers between two bounds has both. *)
LEMMA MinExists ==
  ASSUME NEW a \in Nat, NEW b \in Nat, NEW S \in SUBSET (a .. b), S # {}
  PROVE  Min(S) \in S /\ \A i \in S : Min(S) <= i
  <1> DEFINE R == OpToRel(<, Nat)
  <1>1. IsWellFoundedOn(R, Nat)
    BY NatLessThanWellFounded
  <1>2. S \subseteq Nat
    OBVIOUS
  <1>3. PICK m \in S : \A i \in S : ~(<<i, m>> \in R)
    <2> HIDE DEF R
    <2> QED
      BY <1>1, <1>2, WFMin
  <1>4. \A i \in S : m <= i
    <2> SUFFICES ASSUME NEW i \in S PROVE m <= i
      OBVIOUS
    <2>1. i \in Nat /\ m \in Nat
      BY <1>2
    <2>2. ~(i < m)
      BY <1>3, <2>1 DEF OpToRel
    <2> HIDE DEF R
    <2> QED
      BY ONLY <2>1, <2>2
  <1> QED
    BY <1>2, <1>4 DEF Min

LEMMA MaxExists ==
  ASSUME NEW a \in Nat, NEW b \in Nat, NEW S \in SUBSET (a .. b), S # {}
  PROVE  Max(S) \in S /\ \A i \in S : Max(S) >= i
  <1> DEFINE T == {b - i : i \in S}
  <1>0. \A i \in S : i \in Nat /\ i <= b
    OBVIOUS
  <1>1. T \in SUBSET (0 .. b) /\ T # {} /\ 0 \in Nat
    <2>1. \A i \in S : b - i \in 0 .. b
      BY <1>0
    <2> QED
      BY <2>1
  <1>2. Min(T) \in T /\ \A j \in T : Min(T) <= j
    <2> HIDE DEF T
    <2> QED
      BY <1>1, MinExists
  <1>3. PICK m \in S : b - m = Min(T)
    BY <1>2
  <1>4. \A i \in S : m >= i
    <2> SUFFICES ASSUME NEW i \in S PROVE m >= i
      OBVIOUS
    <2>1. b - i \in T
      OBVIOUS
    <2>2. b - m <= b - i
      BY <1>2, <1>3, <2>1
    <2>3. i \in Nat /\ m \in Nat
      BY <1>0
    <2> QED
      BY ONLY b \in Nat, <2>2, <2>3
  <1> QED
    BY <1>4 DEF Max
=============================================================================
