-------------------------- MODULE PlotViewProofs --------------------------
(***************************************************************************)
(* Proofs about PlotView for every line, view and width: the store answers *)
(* like the line in memory, and line and markers belong to the view.       *)
(***************************************************************************)
EXTENDS PlotView, RecursionLemmas, FiniteSetTheorems

-----------------------------------------------------------------------------
(* Binary search. *)

InOrder(xs) == \A i, j \in DOMAIN xs : i <= j => xs[i] <= xs[j]

(* What the loop of SearchLeft computes between lo and hi. *)
AtLeast(xs, val, lo, hi) == {i \in lo .. hi : xs[i] >= val}
Earliest(xs, val, lo, hi, idx) ==
  IF AtLeast(xs, val, lo, hi) = {} THEN idx ELSE Min(AtLeast(xs, val, lo, hi))

(* The middle of an interval lies in it. *)
LEMMA Middle ==
  ASSUME NEW n \in Nat, NEW lo \in 1 .. n + 1, NEW hi \in 0 .. n, lo <= hi
  PROVE  lo + ((hi - lo) \div 2) \in lo .. hi
  OBVIOUS

LEMMA AroundMiddle ==
  ASSUME NEW n \in Nat, NEW lo \in 1 .. n + 1, NEW hi \in 0 .. n, lo <= hi, NEW mid \in lo .. hi
  PROVE  mid \in 1 .. n /\ mid - 1 \in 0 .. n /\ mid + 1 \in 1 .. n + 1
  OBVIOUS

LEMMA EarliestStep ==
  ASSUME NEW n \in Nat \ {0}, NEW xs \in [1 .. n -> Int], InOrder(xs), NEW val \in Int,
         NEW lo \in 1 .. n + 1, NEW hi \in 0 .. n, NEW mid \in lo .. hi, NEW idx
  PROVE  Earliest(xs, val, lo, hi, idx) =
           IF xs[mid] >= val THEN Earliest(xs, val, lo, mid - 1, mid)
                             ELSE Earliest(xs, val, mid + 1, hi, idx)
  <1> DEFINE All == AtLeast(xs, val, lo, hi)
             Low == AtLeast(xs, val, lo, mid - 1)
             High == AtLeast(xs, val, mid + 1, hi)
  <1>1. lo \in Nat /\ hi \in Nat /\ mid \in Nat /\ lo <= mid /\ mid <= hi
    OBVIOUS
  <1>2. /\ \A i \in All : i \in Nat /\ i \in lo .. hi
        /\ All \in SUBSET Int /\ Low \in SUBSET (0 .. n)
    BY <1>1 DEF AtLeast
  <1>3. CASE xs[mid] >= val
    <2>1. mid \in All
      BY <1>3 DEF AtLeast
    <2>2. \A i : i \in Low <=> i \in All /\ i < mid
      BY <1>1 DEF AtLeast
    <2>3. CASE Low = {}
      <3> HIDE DEF All, Low
      <3>1. \A i \in All : mid <= i
        BY <1>1, <1>2, <2>2, <2>3
      <3>2. Min(All) = mid
        BY <1>2, <2>1, <3>1, MinIs
      <3> QED
        BY <1>3, <2>1, <2>3, <3>2 DEF Earliest, All, Low
    <2>4. CASE Low # {}
      <3> DEFINE m == Min(Low)
      <3>1. m \in Low /\ \A i \in Low : m <= i
        <4> HIDE DEF Low
        <4> QED
          BY <1>2, <2>4, MinExists
      <3> HIDE DEF m, All, Low
      <3>2. m \in All /\ m < mid /\ m \in Nat
        BY <1>2, <2>2, <3>1
      <3>3. \A i \in All : m <= i
        <4> SUFFICES ASSUME NEW i \in All PROVE m <= i
          OBVIOUS
        <4>1. i \in Nat /\ (i < mid => i \in Low)
          BY <1>2, <2>2
        <4> QED
          BY <1>1, <3>1, <3>2, <4>1
      <3>4. Min(All) = m
        BY <1>2, <3>2, <3>3, MinIs
      <3> QED
        BY <1>3, <2>1, <2>4, <3>4 DEF Earliest, m, All, Low
    <2> QED
      BY <2>3, <2>4
  <1>4. CASE ~(xs[mid] >= val)
    <2>1. \A i \in lo .. hi : i \in 1 .. n /\ xs[i] \in Int
      BY <1>1
    <2>2. \A i \in lo .. mid : xs[i] <= xs[mid]
      BY <1>1, <2>1 DEF InOrder
    <2>3. \A i \in lo .. mid : ~(xs[i] >= val)
      <3> SUFFICES ASSUME NEW i \in lo .. mid PROVE ~(xs[i] >= val)
        OBVIOUS
      <3>1. xs[i] \in Int /\ xs[mid] \in Int /\ xs[i] <= xs[mid]
        BY <1>1, <2>1, <2>2
      <3> QED
        BY <1>4, <3>1
    <2>4. High = All
      <3>1. \A i : i \in mid + 1 .. hi <=> i \in lo .. hi /\ ~(i \in lo .. mid)
        BY <1>1
      <3> QED
        BY <2>3, <3>1 DEF AtLeast
    <2> QED
      BY <1>4, <2>4 DEF Earliest
  <1> QED
    BY <1>3, <1>4

(* SearchLeft returns the first place whose x is val or more, the last     *)
(* place when there is none.                                               *)
LEMMA SearchLeftIs ==
  ASSUME NEW n \in Nat \ {0}, NEW xs \in [1 .. n -> Int], InOrder(xs), Len(xs) = n, NEW val \in Int
  PROVE  SearchLeft(xs, val) = Earliest(xs, val, 1, n, n)
  <1> DEFINE Mid(s) == s.lo + ((s.hi - s.lo) \div 2)
             Left(s) == [lo |-> s.lo, hi |-> Mid(s) - 1, idx |-> Mid(s)]
             Right(s) == [lo |-> Mid(s) + 1, hi |-> s.hi, idx |-> s.idx]
             Loop(f) ==
               f = [s \in Interval(Len(xs)) |->
                      IF s.lo > s.hi THEN s.idx
                      ELSE IF xs[Mid(s)] >= val THEN f[Left(s)] ELSE f[Right(s)]]
             First(s) == Earliest(xs, val, s.lo, s.hi, s.idx)
             found == [s \in Interval(Len(xs)) |-> First(s)]
             loop == CHOOSE f : Loop(f)
  <1>0. SearchLeft(xs, val) = loop[[lo |-> 1, hi |-> Len(xs), idx |-> Len(xs)]]
    BY DEF SearchLeft
  <1>1. ASSUME NEW s \in Interval(n)
        PROVE  /\ s.lo \in 1 .. n + 1 /\ s.hi \in 0 .. n /\ s.idx \in 1 .. n
               /\ s.lo > s.hi => First(s) = s.idx
    <2>1. s.lo \in 1 .. n + 1 /\ s.hi \in 0 .. n /\ s.idx \in 1 .. n
      BY DEF Interval
    <2>2. s.lo > s.hi => s.lo .. s.hi = {}
      BY <2>1
    <2> QED
      BY <2>1, <2>2 DEF Earliest, AtLeast
  <1>2. ASSUME NEW s \in Interval(n), ~(s.lo > s.hi)
        PROVE  /\ Mid(s) \in s.lo .. s.hi
               /\ Left(s) \in Interval(n) /\ Right(s) \in Interval(n)
               /\ First(s) = IF xs[Mid(s)] >= val THEN First(Left(s)) ELSE First(Right(s))
    <2>1. s.lo \in 1 .. n + 1 /\ s.hi \in 0 .. n /\ s.idx \in 1 .. n /\ s.lo <= s.hi
      BY <1>1, <1>2
    <2>2. Mid(s) \in s.lo .. s.hi
      <3> DEFINE lo == s.lo
                 hi == s.hi
      <3>1. lo \in 1 .. n + 1 /\ hi \in 0 .. n /\ lo <= hi /\ n \in Nat
        BY <2>1
      <3>2. Mid(s) = lo + ((hi - lo) \div 2)
        OBVIOUS
      <3> HIDE DEF lo, hi, Mid
      <3>3. lo + ((hi - lo) \div 2) \in lo .. hi
        BY ONLY <3>1, Middle
      <3> QED
        BY <3>2, <3>3 DEF lo, hi
    <2> HIDE DEF Mid
    <2>3. Mid(s) \in 1 .. n /\ Mid(s) - 1 \in 0 .. n /\ Mid(s) + 1 \in 1 .. n + 1
      <3> DEFINE lo == s.lo
                 hi == s.hi
                 mid == Mid(s)
      <3>1. lo \in 1 .. n + 1 /\ hi \in 0 .. n /\ lo <= hi /\ mid \in lo .. hi /\ n \in Nat
        BY <2>1, <2>2
      <3> HIDE DEF lo, hi, mid
      <3>2. mid \in 1 .. n /\ mid - 1 \in 0 .. n /\ mid + 1 \in 1 .. n + 1
        BY ONLY <3>1, AroundMiddle
      <3> QED
        BY <3>2 DEF mid
    <2>4. Left(s) \in Interval(n) /\ Right(s) \in Interval(n)
      BY <2>1, <2>3 DEF Interval
    <2>5. First(s) = IF xs[Mid(s)] >= val
                     THEN Earliest(xs, val, s.lo, Mid(s) - 1, Mid(s))
                     ELSE Earliest(xs, val, Mid(s) + 1, s.hi, s.idx)
      <3> HIDE DEF Left, Right, found, loop, Loop
      <3>1. \A lo \in 1 .. n + 1, hi \in 0 .. n : \A mid \in lo .. hi, idx \in 1 .. n :
              Earliest(xs, val, lo, hi, idx) =
                IF xs[mid] >= val THEN Earliest(xs, val, lo, mid - 1, mid)
                                  ELSE Earliest(xs, val, mid + 1, hi, idx)
        BY EarliestStep, SMTT(30)
      <3>2. PICK lo \in 1 .. n + 1, hi \in 0 .. n, idx \in 1 .. n :
              lo = s.lo /\ hi = s.hi /\ idx = s.idx
        BY <2>1
      <3>3. PICK mid \in lo .. hi : mid = Mid(s)
        BY <2>2, <3>2
      <3>4. Earliest(xs, val, lo, hi, idx) =
              IF xs[mid] >= val THEN Earliest(xs, val, lo, mid - 1, mid)
                                ELSE Earliest(xs, val, mid + 1, hi, idx)
        BY <3>1
      <3> QED
        BY <3>2, <3>3, <3>4
    <2> QED
      BY <2>2, <2>4, <2>5
  <1> HIDE DEF Mid
  <1>3. Loop(found)
    <2>1. \A s \in Interval(n) :
            First(s) = IF s.lo > s.hi THEN s.idx
                       ELSE IF xs[Mid(s)] >= val THEN found[Left(s)] ELSE found[Right(s)]
      <3> HIDE DEF First, Left, Right
      <3> QED
        BY <1>1, <1>2
    <2> HIDE DEF First, Left, Right
    <2> QED
      BY <2>1
  <1>4. Loop(loop)
    <2> HIDE DEF Loop, found
    <2> QED
      BY <1>3
  <1> HIDE DEF loop, found, First, Left, Right
  <1>5. \A s \in Interval(n) :
          loop[s] = IF s.lo > s.hi THEN s.idx
                    ELSE IF xs[Mid(s)] >= val THEN loop[Left(s)] ELSE loop[Right(s)]
    BY <1>4
  <1> HIDE DEF Loop
  <1> DEFINE U == {k \in 0 .. n : \A s \in Interval(n) :
                      s.hi - s.lo + 1 <= k => loop[s] = First(s)}
  <1>6. 0 \in U
    <2>1. ASSUME NEW s \in Interval(n), s.hi - s.lo + 1 <= 0 PROVE s.lo > s.hi
      <3>1. s.lo \in Int /\ s.hi \in Int
        BY <1>1
      <3> QED
        BY <2>1, <3>1
    <2> QED
      BY <1>1, <1>5, <2>1
  <1>7. ASSUME NEW k \in 1 .. n, k - 1 \in U PROVE k \in U
    <2> SUFFICES ASSUME NEW s \in Interval(n), s.hi - s.lo + 1 <= k
                 PROVE  loop[s] = First(s)
      OBVIOUS
    <2>1. CASE s.lo > s.hi
      BY <1>1, <1>5, <2>1
    <2>2. CASE ~(s.lo > s.hi)
      <3>1. /\ Left(s) \in Interval(n) /\ Right(s) \in Interval(n)
            /\ Mid(s) \in s.lo .. s.hi /\ s.lo \in Int /\ s.hi \in Int
        BY <1>1, <1>2, <2>2
      <3>2. Left(s).hi - Left(s).lo + 1 <= k - 1 /\ Right(s).hi - Right(s).lo + 1 <= k - 1
        <4> DEFINE lo == s.lo
                   hi == s.hi
                   mid == Mid(s)
        <4>1. lo \in Int /\ hi \in Int /\ mid \in lo .. hi /\ hi - lo + 1 <= k
          BY <3>1
        <4>2. /\ Left(s).lo = lo /\ Left(s).hi = mid - 1
              /\ Right(s).lo = mid + 1 /\ Right(s).hi = hi
          BY DEF Left, Right
        <4> HIDE DEF lo, hi, mid, Left, Right
        <4>3. (mid - 1) - lo + 1 <= k - 1 /\ hi - (mid + 1) + 1 <= k - 1
          BY <4>1
        <4> QED
          BY <4>2, <4>3
      <3>3. loop[Left(s)] = First(Left(s)) /\ loop[Right(s)] = First(Right(s))
        BY <1>7, <3>1, <3>2
      <3> QED
        BY <1>2, <1>5, <2>2, <3>3
    <2> QED
      BY <2>1, <2>2
  <1>8. n \in U
    <2>1. 0 .. n \subseteq U
      <3> HIDE DEF U
      <3> QED
        BY <1>6, <1>7, UpToInduction
    <2> QED
      BY <2>1
  <1> DEFINE start == [lo |-> 1, hi |-> n, idx |-> n]
  <1>9. start \in Interval(n) /\ start.hi - start.lo + 1 <= n
    BY DEF Interval
  <1> HIDE DEF start
  <1>10. loop[start] = First(start)
    BY <1>8, <1>9
  <1> QED
    BY <1>0, <1>10 DEF First, start

(* What the loop of SearchRight computes between lo and hi. *)
AtMost(xs, val, lo, hi) == {i \in lo .. hi : xs[i] <= val}
Latest(xs, val, lo, hi, idx) ==
  IF AtMost(xs, val, lo, hi) = {} THEN idx ELSE Max(AtMost(xs, val, lo, hi))

LEMMA LatestStep ==
  ASSUME NEW n \in Nat \ {0}, NEW xs \in [1 .. n -> Int], InOrder(xs), NEW val \in Int,
         NEW lo \in 1 .. n + 1, NEW hi \in 0 .. n, NEW mid \in lo .. hi, NEW idx
  PROVE  Latest(xs, val, lo, hi, idx) =
           IF xs[mid] <= val THEN Latest(xs, val, mid + 1, hi, mid)
                             ELSE Latest(xs, val, lo, mid - 1, idx)
  <1> DEFINE All == AtMost(xs, val, lo, hi)
             Low == AtMost(xs, val, lo, mid - 1)
             High == AtMost(xs, val, mid + 1, hi)
  <1>1. lo \in Nat /\ hi \in Nat /\ mid \in Nat /\ lo <= mid /\ mid <= hi
    OBVIOUS
  <1>2. /\ \A i \in All : i \in Nat /\ i \in lo .. hi
        /\ All \in SUBSET Int /\ High \in SUBSET (0 .. n)
    BY <1>1 DEF AtMost
  <1>3. CASE xs[mid] <= val
    <2>1. mid \in All
      BY <1>3 DEF AtMost
    <2>2. \A i : i \in High <=> i \in All /\ i > mid
      BY <1>1 DEF AtMost
    <2>3. CASE High = {}
      <3> HIDE DEF All, High
      <3>1. \A i \in All : mid >= i
        BY <1>1, <1>2, <2>2, <2>3
      <3>2. Max(All) = mid
        BY <1>2, <2>1, <3>1, MaxIs
      <3> QED
        BY <1>3, <2>1, <2>3, <3>2 DEF Latest, All, High
    <2>4. CASE High # {}
      <3> DEFINE m == Max(High)
      <3>1. m \in High /\ \A i \in High : m >= i
        <4> HIDE DEF High
        <4> QED
          BY <1>2, <2>4, MaxExists
      <3> HIDE DEF m, All, High
      <3>2. m \in All /\ m > mid /\ m \in Nat
        BY <1>2, <2>2, <3>1
      <3>3. \A i \in All : m >= i
        <4> SUFFICES ASSUME NEW i \in All PROVE m >= i
          OBVIOUS
        <4>1. i \in Nat /\ (i > mid => i \in High)
          BY <1>2, <2>2
        <4> QED
          BY <1>1, <3>1, <3>2, <4>1
      <3>4. Max(All) = m
        BY <1>2, <3>2, <3>3, MaxIs
      <3> QED
        BY <1>3, <2>1, <2>4, <3>4 DEF Latest, m, All, High
    <2> QED
      BY <2>3, <2>4
  <1>4. CASE ~(xs[mid] <= val)
    <2>1. \A i \in lo .. hi : i \in 1 .. n /\ xs[i] \in Int
      BY <1>1
    <2>2. \A i \in mid .. hi : xs[mid] <= xs[i]
      BY <1>1, <2>1 DEF InOrder
    <2>3. \A i \in mid .. hi : ~(xs[i] <= val)
      <3> SUFFICES ASSUME NEW i \in mid .. hi PROVE ~(xs[i] <= val)
        OBVIOUS
      <3>1. xs[i] \in Int /\ xs[mid] \in Int /\ xs[mid] <= xs[i]
        BY <1>1, <2>1, <2>2
      <3> QED
        BY <1>4, <3>1
    <2>4. Low = All
      <3>1. \A i : i \in lo .. mid - 1 <=> i \in lo .. hi /\ ~(i \in mid .. hi)
        BY <1>1
      <3> QED
        BY <2>3, <3>1 DEF AtMost
    <2> QED
      BY <1>4, <2>4 DEF Latest
  <1> QED
    BY <1>3, <1>4

(* SearchRight returns the last place whose x is val or less, the first    *)
(* place when there is none.                                               *)
LEMMA SearchRightIs ==
  ASSUME NEW n \in Nat \ {0}, NEW xs \in [1 .. n -> Int], InOrder(xs), Len(xs) = n, NEW val \in Int
  PROVE  SearchRight(xs, val) = Latest(xs, val, 1, n, 1)
  <1> DEFINE Mid(s) == s.lo + ((s.hi - s.lo) \div 2)
             Left(s) == [lo |-> s.lo, hi |-> Mid(s) - 1, idx |-> s.idx]
             Right(s) == [lo |-> Mid(s) + 1, hi |-> s.hi, idx |-> Mid(s)]
             Loop(f) ==
               f = [s \in Interval(Len(xs)) |->
                      IF s.lo > s.hi THEN s.idx
                      ELSE IF xs[Mid(s)] <= val THEN f[Right(s)] ELSE f[Left(s)]]
             End(s) == Latest(xs, val, s.lo, s.hi, s.idx)
             found == [s \in Interval(Len(xs)) |-> End(s)]
             loop == CHOOSE f : Loop(f)
  <1>0. SearchRight(xs, val) = loop[[lo |-> 1, hi |-> Len(xs), idx |-> 1]]
    BY DEF SearchRight
  <1>1. ASSUME NEW s \in Interval(n)
        PROVE  /\ s.lo \in 1 .. n + 1 /\ s.hi \in 0 .. n /\ s.idx \in 1 .. n
               /\ s.lo > s.hi => End(s) = s.idx
    <2>1. s.lo \in 1 .. n + 1 /\ s.hi \in 0 .. n /\ s.idx \in 1 .. n
      BY DEF Interval
    <2>2. s.lo > s.hi => s.lo .. s.hi = {}
      BY <2>1
    <2> QED
      BY <2>1, <2>2 DEF Latest, AtMost
  <1>2. ASSUME NEW s \in Interval(n), ~(s.lo > s.hi)
        PROVE  /\ Mid(s) \in s.lo .. s.hi
               /\ Left(s) \in Interval(n) /\ Right(s) \in Interval(n)
               /\ End(s) = IF xs[Mid(s)] <= val THEN End(Right(s)) ELSE End(Left(s))
    <2>1. s.lo \in 1 .. n + 1 /\ s.hi \in 0 .. n /\ s.idx \in 1 .. n /\ s.lo <= s.hi
      BY <1>1, <1>2
    <2>2. Mid(s) \in s.lo .. s.hi
      <3> DEFINE lo == s.lo
                 hi == s.hi
      <3>1. lo \in 1 .. n + 1 /\ hi \in 0 .. n /\ lo <= hi /\ n \in Nat
        BY <2>1
      <3>2. Mid(s) = lo + ((hi - lo) \div 2)
        OBVIOUS
      <3> HIDE DEF lo, hi, Mid
      <3>3. lo + ((hi - lo) \div 2) \in lo .. hi
        BY ONLY <3>1, Middle
      <3> QED
        BY <3>2, <3>3 DEF lo, hi
    <2> HIDE DEF Mid
    <2>3. Mid(s) \in 1 .. n /\ Mid(s) - 1 \in 0 .. n /\ Mid(s) + 1 \in 1 .. n + 1
      <3> DEFINE lo == s.lo
                 hi == s.hi
                 mid == Mid(s)
      <3>1. lo \in 1 .. n + 1 /\ hi \in 0 .. n /\ lo <= hi /\ mid \in lo .. hi /\ n \in Nat
        BY <2>1, <2>2
      <3> HIDE DEF lo, hi, mid
      <3>2. mid \in 1 .. n /\ mid - 1 \in 0 .. n /\ mid + 1 \in 1 .. n + 1
        BY ONLY <3>1, AroundMiddle
      <3> QED
        BY <3>2 DEF mid
    <2>4. Left(s) \in Interval(n) /\ Right(s) \in Interval(n)
      BY <2>1, <2>3 DEF Interval
    <2>5. End(s) = IF xs[Mid(s)] <= val
                     THEN Latest(xs, val, Mid(s) + 1, s.hi, Mid(s))
                     ELSE Latest(xs, val, s.lo, Mid(s) - 1, s.idx)
      <3> HIDE DEF Left, Right, found, loop, Loop
      <3>1. \A lo \in 1 .. n + 1, hi \in 0 .. n : \A mid \in lo .. hi, idx \in 1 .. n :
              Latest(xs, val, lo, hi, idx) =
                IF xs[mid] <= val THEN Latest(xs, val, mid + 1, hi, mid)
                                  ELSE Latest(xs, val, lo, mid - 1, idx)
        BY LatestStep, SMTT(30)
      <3>2. PICK lo \in 1 .. n + 1, hi \in 0 .. n, idx \in 1 .. n :
              lo = s.lo /\ hi = s.hi /\ idx = s.idx
        BY <2>1
      <3>3. PICK mid \in lo .. hi : mid = Mid(s)
        BY <2>2, <3>2
      <3>4. Latest(xs, val, lo, hi, idx) =
              IF xs[mid] <= val THEN Latest(xs, val, mid + 1, hi, mid)
                                ELSE Latest(xs, val, lo, mid - 1, idx)
        BY <3>1
      <3> QED
        BY <3>2, <3>3, <3>4
    <2> QED
      BY <2>2, <2>4, <2>5
  <1> HIDE DEF Mid
  <1>3. Loop(found)
    <2>1. \A s \in Interval(n) :
            End(s) = IF s.lo > s.hi THEN s.idx
                       ELSE IF xs[Mid(s)] <= val THEN found[Right(s)] ELSE found[Left(s)]
      <3> HIDE DEF End, Left, Right
      <3> QED
        BY <1>1, <1>2
    <2> HIDE DEF End, Left, Right
    <2> QED
      BY <2>1
  <1>4. Loop(loop)
    <2> HIDE DEF Loop, found
    <2> QED
      BY <1>3
  <1> HIDE DEF loop, found, End, Left, Right
  <1>5. \A s \in Interval(n) :
          loop[s] = IF s.lo > s.hi THEN s.idx
                    ELSE IF xs[Mid(s)] <= val THEN loop[Right(s)] ELSE loop[Left(s)]
    BY <1>4
  <1> HIDE DEF Loop
  <1> DEFINE U == {k \in 0 .. n : \A s \in Interval(n) :
                      s.hi - s.lo + 1 <= k => loop[s] = End(s)}
  <1>6. 0 \in U
    <2>1. ASSUME NEW s \in Interval(n), s.hi - s.lo + 1 <= 0 PROVE s.lo > s.hi
      <3>1. s.lo \in Int /\ s.hi \in Int
        BY <1>1
      <3> QED
        BY <2>1, <3>1
    <2> QED
      BY <1>1, <1>5, <2>1
  <1>7. ASSUME NEW k \in 1 .. n, k - 1 \in U PROVE k \in U
    <2> SUFFICES ASSUME NEW s \in Interval(n), s.hi - s.lo + 1 <= k
                 PROVE  loop[s] = End(s)
      OBVIOUS
    <2>1. CASE s.lo > s.hi
      BY <1>1, <1>5, <2>1
    <2>2. CASE ~(s.lo > s.hi)
      <3>1. /\ Left(s) \in Interval(n) /\ Right(s) \in Interval(n)
            /\ Mid(s) \in s.lo .. s.hi /\ s.lo \in Int /\ s.hi \in Int
        BY <1>1, <1>2, <2>2
      <3>2. Left(s).hi - Left(s).lo + 1 <= k - 1 /\ Right(s).hi - Right(s).lo + 1 <= k - 1
        <4> DEFINE lo == s.lo
                   hi == s.hi
                   mid == Mid(s)
        <4>1. lo \in Int /\ hi \in Int /\ mid \in lo .. hi /\ hi - lo + 1 <= k
          BY <3>1
        <4>2. /\ Left(s).lo = lo /\ Left(s).hi = mid - 1
              /\ Right(s).lo = mid + 1 /\ Right(s).hi = hi
          BY DEF Left, Right
        <4> HIDE DEF lo, hi, mid, Left, Right
        <4>3. (mid - 1) - lo + 1 <= k - 1 /\ hi - (mid + 1) + 1 <= k - 1
          BY <4>1
        <4> QED
          BY <4>2, <4>3
      <3>3. loop[Left(s)] = End(Left(s)) /\ loop[Right(s)] = End(Right(s))
        BY <1>7, <3>1, <3>2
      <3> QED
        BY <1>2, <1>5, <2>2, <3>3
    <2> QED
      BY <2>1, <2>2
  <1>8. n \in U
    <2>1. 0 .. n \subseteq U
      <3> HIDE DEF U
      <3> QED
        BY <1>6, <1>7, UpToInduction
    <2> QED
      BY <2>1
  <1> DEFINE start == [lo |-> 1, hi |-> n, idx |-> 1]
  <1>9. start \in Interval(n) /\ start.hi - start.lo + 1 <= n
    BY DEF Interval
  <1> HIDE DEF start
  <1>10. loop[start] = End(start)
    BY <1>8, <1>9
  <1> QED
    BY <1>0, <1>10 DEF End, start

-----------------------------------------------------------------------------
(* Lines: samples in the order of x. *)

IsLine(line) ==
  /\ line \in Seq(Sample) /\ Len(line) \in Nat \ {0} /\ DOMAIN line = 1 .. Len(line)
  /\ \A i \in 1 .. Len(line) : line[i] \in Sample /\ line[i][1] \in Int
  /\ \A i, j \in 1 .. Len(line) : i <= j => line[i][1] <= line[j][1]

LEMMA DatasetsAreLines ==
  ASSUME NEW line \in Datasets PROVE IsLine(line)
  <1>1. /\ line \in Seq(Sample) /\ line # <<>>
        /\ \A i, j \in DOMAIN line : i <= j => line[i][1] <= line[j][1]
    BY PlotAssumption
  <1>2. Len(line) \in Nat \ {0} /\ DOMAIN line = 1 .. Len(line)
    BY <1>1, EmptySeq, LenProperties
  <1>3. \A i \in 1 .. Len(line) : line[i] \in Sample
    BY <1>1, ElementOfSeq
  <1>4. \A i \in 1 .. Len(line) : line[i][1] \in Int
    BY <1>3 DEF Sample
  <1> QED
    BY <1>1, <1>2, <1>3, <1>4 DEF IsLine

LEMMA XsOfLine ==
  ASSUME NEW line, IsLine(line)
  PROVE  /\ Xs(line) \in [1 .. Len(line) -> Int] /\ Len(Xs(line)) = Len(line)
         /\ InOrder(Xs(line))
         /\ \A i \in 1 .. Len(line) : Xs(line)[i] = line[i][1]
  <1>1. Xs(line) \in [1 .. Len(line) -> Int] /\ \A i \in 1 .. Len(line) : Xs(line)[i] = line[i][1]
    BY DEF IsLine, Xs
  <1>2. Len(line) \in Nat
    BY DEF IsLine
  <1>3. Xs(line) \in Seq(Int) /\ Len(Xs(line)) = Len(line)
    BY <1>1, <1>2
  <1>4. DOMAIN Xs(line) = 1 .. Len(line)
    BY <1>1
  <1>5. InOrder(Xs(line))
    BY <1>1, <1>4 DEF InOrder, IsLine
  <1> QED
    BY <1>1, <1>3, <1>5

(* i is where SearchLeft ends, and where SearchRight does. *)
Leftmost(line, val, i) ==
  /\ i \in 1 .. Len(line)
  /\ \A j \in 1 .. i - 1 : line[j][1] < val
  /\ line[i][1] >= val \/ i = Len(line)
Rightmost(line, val, i) ==
  /\ i \in 1 .. Len(line)
  /\ \A j \in i + 1 .. Len(line) : line[j][1] > val
  /\ line[i][1] <= val \/ i = 1

LEMMA SearchedLeft ==
  ASSUME NEW line, IsLine(line), NEW val \in Int
  PROVE  /\ Leftmost(line, val, SearchLeft(Xs(line), val))
         /\ \A i : Leftmost(line, val, i) => i = SearchLeft(Xs(line), val)
  <1> DEFINE n == Len(line)
             hits == AtLeast(Xs(line), val, 1, n)
             found == SearchLeft(Xs(line), val)
  <1>1. n \in Nat \ {0} /\ \A i \in 1 .. n : line[i][1] \in Int
    BY DEF IsLine
  <1>2. found = IF hits = {} THEN n ELSE Min(hits)
    BY <1>1, XsOfLine, SearchLeftIs DEF Earliest
  <1>3. \A i : i \in hits <=> i \in 1 .. n /\ line[i][1] >= val
    BY XsOfLine DEF AtLeast
  <1>4. hits # {} => Min(hits) \in hits /\ \A i \in hits : Min(hits) <= i
    <2>1. hits \in SUBSET (0 .. n)
      BY <1>1, <1>3
    <2> HIDE DEF hits, n
    <2> QED
      BY <1>1, <2>1, MinExists
  <1> HIDE DEF hits, found, n
  <1>5. \A i \in 1 .. n : ~(i \in hits) => line[i][1] < val
    BY <1>1, <1>3
  <1>6. found \in 1 .. n /\ (found \in hits \/ found = n)
    BY <1>1, <1>2, <1>3, <1>4
  <1>7. \A j \in 1 .. found - 1 : j \in 1 .. n /\ j \notin hits
    <2> SUFFICES ASSUME NEW j \in 1 .. found - 1 PROVE j \in 1 .. n /\ j \notin hits
      OBVIOUS
    <2>1. j \in 1 .. n /\ j \in Int /\ j < found
      BY <1>1, <1>6
    <2>2. CASE hits = {}
      BY <2>1, <2>2
    <2>3. CASE hits # {}
      <3>1. j \in hits => found <= j
        BY <1>2, <1>4, <2>3
      <3> QED
        BY <1>6, <2>1, <3>1
    <2> QED
      BY <2>2, <2>3
  <1>8. Leftmost(line, val, found)
    BY <1>3, <1>5, <1>6, <1>7 DEF Leftmost, n
  <1>9. ASSUME NEW i, Leftmost(line, val, i) PROVE i = found
    <2>1. /\ i \in 1 .. n /\ i \in Int /\ found \in Int
          /\ \A j \in 1 .. i - 1 : line[j][1] < val
          /\ line[i][1] >= val \/ i = n
      BY <1>6, <1>9 DEF Leftmost, n
    <2>2. ~(i < found)
      <3> SUFFICES ASSUME i < found PROVE FALSE
        OBVIOUS
      <3>1. i \in 1 .. found - 1 /\ i # n
        BY <1>1, <1>6, <2>1
      <3> QED
        BY <1>3, <1>7, <2>1, <3>1
    <2>3. ~(found < i)
      <3> SUFFICES ASSUME found < i PROVE FALSE
        OBVIOUS
      <3>1. found \in 1 .. i - 1 /\ found # n
        BY <1>1, <1>6, <2>1
      <3>2. line[found][1] < val /\ line[found][1] >= val /\ line[found][1] \in Int
        BY <1>1, <1>3, <1>6, <2>1, <3>1
      <3> QED
        BY <3>2
    <2> QED
      BY <2>1, <2>2, <2>3
  <1> QED
    BY <1>8, <1>9 DEF found

LEMMA SearchedRight ==
  ASSUME NEW line, IsLine(line), NEW val \in Int
  PROVE  /\ Rightmost(line, val, SearchRight(Xs(line), val))
         /\ \A i : Rightmost(line, val, i) => i = SearchRight(Xs(line), val)
  <1> DEFINE n == Len(line)
             hits == AtMost(Xs(line), val, 1, n)
             found == SearchRight(Xs(line), val)
  <1>1. n \in Nat \ {0} /\ \A i \in 1 .. n : line[i][1] \in Int
    BY DEF IsLine
  <1>2. found = IF hits = {} THEN 1 ELSE Max(hits)
    BY <1>1, XsOfLine, SearchRightIs DEF Latest
  <1>3. \A i : i \in hits <=> i \in 1 .. n /\ line[i][1] <= val
    BY XsOfLine DEF AtMost
  <1>4. hits # {} => Max(hits) \in hits /\ \A i \in hits : Max(hits) >= i
    <2>1. hits \in SUBSET (0 .. n)
      BY <1>1, <1>3
    <2> HIDE DEF hits, n
    <2> QED
      BY <1>1, <2>1, MaxExists
  <1> HIDE DEF hits, found, n
  <1>5. \A i \in 1 .. n : ~(i \in hits) => line[i][1] > val
    BY <1>1, <1>3
  <1>6. found \in 1 .. n /\ (found \in hits \/ found = 1)
    BY <1>1, <1>2, <1>3, <1>4
  <1>7. \A j \in found + 1 .. n : j \in 1 .. n /\ j \notin hits
    <2> SUFFICES ASSUME NEW j \in found + 1 .. n PROVE j \in 1 .. n /\ j \notin hits
      OBVIOUS
    <2>1. j \in 1 .. n /\ j \in Int /\ j > found
      BY <1>1, <1>6
    <2>2. CASE hits = {}
      BY <2>1, <2>2
    <2>3. CASE hits # {}
      <3>1. j \in hits => found >= j
        BY <1>2, <1>4, <2>3
      <3> QED
        BY <1>6, <2>1, <3>1
    <2> QED
      BY <2>2, <2>3
  <1>8. Rightmost(line, val, found)
    BY <1>3, <1>5, <1>6, <1>7 DEF Rightmost, n
  <1>9. ASSUME NEW i, Rightmost(line, val, i) PROVE i = found
    <2>1. /\ i \in 1 .. n /\ i \in Int /\ found \in Int
          /\ \A j \in i + 1 .. n : line[j][1] > val
          /\ line[i][1] <= val \/ i = 1
      BY <1>6, <1>9 DEF Rightmost, n
    <2>2. ~(i > found)
      <3> SUFFICES ASSUME i > found PROVE FALSE
        OBVIOUS
      <3>1. i \in found + 1 .. n /\ i # 1
        BY <1>1, <1>6, <2>1
      <3> QED
        BY <1>3, <1>7, <2>1, <3>1
    <2>3. ~(found > i)
      <3> SUFFICES ASSUME found > i PROVE FALSE
        OBVIOUS
      <3>1. found \in i + 1 .. n /\ found # 1
        BY <1>1, <1>6, <2>1
      <3>2. line[found][1] > val /\ line[found][1] <= val /\ line[found][1] \in Int
        BY <1>1, <1>3, <1>6, <2>1, <3>1
      <3> QED
        BY <3>2
    <2> QED
      BY <2>1, <2>2, <2>3
  <1> QED
    BY <1>8, <1>9 DEF found

-----------------------------------------------------------------------------
(* The chunks of a store. *)

(* first and end cut line into consecutive pieces, the chunks of store. *)
Cuts(store, line, first, end) ==
  /\ Len(store) \in Nat \ {0} /\ DOMAIN store = 1 .. Len(store)
  /\ first \in [1 .. Len(store) -> 1 .. Len(line)]
  /\ end \in [1 .. Len(store) -> 1 .. Len(line)]
  /\ first[1] = 1 /\ end[Len(store)] = Len(line)
  /\ \A c \in 1 .. Len(store) : first[c] <= end[c]
  /\ \A c, d \in 1 .. Len(store) : c < d => end[c] < first[d]
  /\ \A c \in 1 .. Len(store) - 1 : first[c + 1] = end[c] + 1
  /\ \A c \in 1 .. Len(store) :
       /\ store[c].xmin = line[first[c]][1] /\ store[c].xmax = line[end[c]][1]
       /\ store[c].offset = first[c] /\ store[c].points = SubSeq(line, first[c], end[c])

(* How many chunks of size k hold n samples. *)
LEMMA Rounding ==
  ASSUME NEW n \in Nat \ {0}, NEW k \in Nat \ {0}
  PROVE  /\ (n + k - 1) \div k \in Nat \ {0}
         /\ (((n + k - 1) \div k) - 1) * k < n
         /\ n <= ((n + k - 1) \div k) * k
  <1> DEFINE r == (n + k - 1) \div k
             m == (n + k - 1) % k
  <1>1. r \in Int /\ m \in Int /\ n + k - 1 = r * k + m /\ 0 <= m /\ m < k
    OBVIOUS
  <1> HIDE DEF r, m
  <1>2. r * k \in Int /\ r * k <= n + k - 1 /\ n + k - 1 < r * k + k
    BY <1>1
  <1>3. (r - 1) * k = r * k - k
    BY <1>1
  <1>4. r > 0
    <2> SUFFICES ASSUME r <= 0 PROVE FALSE
      BY <1>1
    <2>1. r * k <= 0
      BY <1>1
    <2> QED
      BY <1>2, <2>1
  <1> QED
    BY <1>1, <1>2, <1>3, <1>4 DEF r

LEMMA Times ==
  ASSUME NEW k \in Nat \ {0}, NEW a \in Nat, NEW b \in Nat, a < b
  PROVE  a * k \in Nat /\ b * k \in Nat /\ a * k + k <= b * k
  <1>1. PICK d \in Nat : b = a + 1 + d
    <2>1. b - a - 1 \in Nat /\ b = a + 1 + (b - a - 1)
      OBVIOUS
    <2> QED
      BY <2>1
  <1>2. b * k = a * k + k + d * k /\ d * k \in Nat /\ a * k \in Nat
    BY <1>1
  <1> QED
    BY <1>2

LEMMA StoreCuts ==
  ASSUME NEW line, IsLine(line)
  PROVE  \E first, end : Cuts(Store(line), line, first, end)
  <1> DEFINE n == Len(line)
             k == ChunkPoints
             rows == (n + k - 1) \div k
             First(c) == (c - 1) * k + 1
             End(c) == Min({c * k, n})
             first == [c \in 1 .. rows |-> First(c)]
             end == [c \in 1 .. rows |-> End(c)]
             store == Store(line)
  <1>1. n \in Nat \ {0} /\ k \in Nat \ {0}
    BY DataStoreAssumption DEF IsLine
  <1>2. rows \in Nat \ {0} /\ (rows - 1) * k < n /\ n <= rows * k
    BY <1>1, Rounding
  <1>3. store = [c \in 1 .. rows |->
                   [xmin |-> line[First(c)][1], xmax |-> line[End(c)][1],
                    offset |-> First(c), points |-> SubSeq(line, First(c), End(c))]]
    BY DEF Store
  <1> HIDE DEF n, k, rows, store
  <1>4. ASSUME NEW c \in 1 .. rows
        PROVE  /\ (c - 1) * k \in Nat /\ c * k \in Nat /\ c * k = (c - 1) * k + k
               /\ (c - 1) * k <= (rows - 1) * k /\ (rows - 1) * k \in Nat
               /\ c < rows => c * k <= (rows - 1) * k
    <2>1. c \in Nat /\ c - 1 \in Nat /\ rows \in Nat /\ rows - 1 \in Nat /\ c <= rows
      BY <1>2
    <2>2. (c - 1) * k \in Nat /\ c * k \in Nat /\ (rows - 1) * k \in Nat
      BY <1>1, <2>1
    <2>3. c * k = (c - 1) * k + k
      BY <1>1, <2>1
    <2>4. c < rows => (c - 1) * k + k <= (rows - 1) * k
      BY <1>1, <2>1, Times
    <2> QED
      BY <1>1, <2>1, <2>2, <2>3, <2>4
  <1>5. ASSUME NEW c \in 1 .. rows
        PROVE  /\ End(c) = IF c < rows THEN c * k ELSE n
               /\ First(c) \in 1 .. n /\ End(c) \in 1 .. n /\ First(c) <= End(c)
    <2>1. \A a, b \in Nat : a <= b => Min({a, b}) = a /\ Min({b, a}) = a
      <3> SUFFICES ASSUME NEW a \in Nat, NEW b \in Nat, a <= b
                   PROVE  Min({a, b}) = a /\ Min({b, a}) = a
        OBVIOUS
      <3>1. {a, b} = {b, a} /\ {a, b} \in SUBSET Int /\ a \in {a, b} /\ \A i \in {a, b} : a <= i
        OBVIOUS
      <3> QED
        BY <3>1, MinIs
    <2>2. c \in Nat /\ c <= rows
      BY <1>2
    <2>3. CASE c < rows
      <3>1. c * k <= n
        BY <1>1, <1>2, <1>4, <2>3
      <3>2. End(c) = c * k
        BY <1>1, <1>4, <2>1, <3>1
      <3> QED
        BY <1>1, <1>4, <2>3, <3>1, <3>2
    <2>4. CASE c = rows
      <3>1. End(c) = n
        BY <1>1, <1>2, <1>4, <2>1, <2>4
      <3> QED
        BY <1>1, <1>2, <1>4, <2>4, <3>1
    <2> QED
      BY <1>2, <2>2, <2>3, <2>4
  <1>6. /\ DOMAIN store = 1 .. rows /\ Len(store) = rows
        /\ \A c \in 1 .. rows :
             /\ store[c].xmin = line[First(c)][1] /\ store[c].xmax = line[End(c)][1]
             /\ store[c].offset = First(c) /\ store[c].points = SubSeq(line, First(c), End(c))
    <2> HIDE DEF First, End
    <2>1. DOMAIN store = 1 .. rows
      BY <1>3
    <2>2. Len(store) = rows
      BY <1>2, <1>3
    <2> QED
      BY <1>3, <2>1, <2>2
  <1>7. First(1) = 1 /\ End(rows) = n
    <2>1. First(1) = 1
      BY <1>1
    <2>2. rows \in 1 .. rows /\ ~(rows < rows)
      BY <1>2
    <2> HIDE DEF First, End
    <2> QED
      BY <1>5, <2>1, <2>2
  <1>8. ASSUME NEW c \in 1 .. rows, NEW d \in 1 .. rows, c < d PROVE End(c) < First(d)
    <2>1. c \in Nat /\ c < rows /\ d - 1 \in Nat /\ c <= d - 1 /\ c - 1 \in Nat /\ c - 1 < d - 1
      BY <1>2, <1>8
    <2>2. End(c) = c * k
      BY <1>5, <2>1
    <2>3. (c - 1) * k + k <= (d - 1) * k
      BY <1>1, <2>1, Times
    <2> HIDE DEF End
    <2> QED
      BY <1>4, <2>2, <2>3
  <1>9. ASSUME NEW c \in 1 .. rows - 1 PROVE First(c + 1) = End(c) + 1
    <2>1. c \in 1 .. rows /\ c < rows /\ (c + 1) - 1 = c
      BY <1>2
    <2>2. End(c) = c * k
      BY <1>5, <2>1
    <2> HIDE DEF End
    <2> QED
      BY <2>1, <2>2
  <1> HIDE DEF First, End
  <1>10. /\ first \in [1 .. rows -> 1 .. n] /\ end \in [1 .. rows -> 1 .. n]
         /\ \A c \in 1 .. rows : first[c] = First(c) /\ end[c] = End(c)
    BY <1>5
  <1> HIDE DEF first, end
  <1>11. /\ first[1] = 1 /\ end[rows] = n
         /\ \A c \in 1 .. rows : first[c] <= end[c]
         /\ \A c \in 1 .. rows - 1 : first[c + 1] = end[c] + 1
    <2>1. 1 \in 1 .. rows /\ rows \in 1 .. rows
          /\ \A c \in 1 .. rows - 1 : c \in 1 .. rows /\ c + 1 \in 1 .. rows
      BY <1>2
    <2> QED
      BY <1>5, <1>7, <1>9, <1>10, <2>1
  <1>12. \A c, d \in 1 .. rows : c < d => end[c] < first[d]
    BY <1>8, <1>10
  <1>13. \A c \in 1 .. rows :
             /\ store[c].xmin = line[first[c]][1] /\ store[c].xmax = line[end[c]][1]
             /\ store[c].offset = first[c] /\ store[c].points = SubSeq(line, first[c], end[c])
    BY <1>6, <1>10
  <1>14. Cuts(store, line, first, end)
    BY <1>2, <1>6, <1>10, <1>11, <1>12, <1>13 DEF Cuts, n
  <1> QED
    BY <1>14 DEF store

(* FlattenSeq is the concatenation of the sequences, one after the other.  *)
LEMMA FlattenIs ==
  ASSUME NEW seqs, Len(seqs) \in Nat \ {0}, NEW f,
         f = [i \in 1 .. Len(seqs) |-> IF i = 1 THEN seqs[i] ELSE f[i - 1] \o seqs[i]]
  PROVE  FlattenSeq(seqs) = f[Len(seqs)]
  <1> DEFINE n == Len(seqs)
             Loop(g) == g = [i \in 1 .. n |-> IF i = 1 THEN seqs[i] ELSE g[i - 1] \o seqs[i]]
             flatten == CHOOSE g : Loop(g)
  <1>1. FlattenSeq(seqs) = flatten[n]
    BY DEF FlattenSeq
  <1>2. Loop(f)
    OBVIOUS
  <1>3. Loop(flatten)
    <2> HIDE DEF Loop
    <2> QED
      BY <1>2
  <1> HIDE DEF flatten
  <1>4. /\ \A i \in 1 .. n : flatten[i] = IF i = 1 THEN seqs[i] ELSE flatten[i - 1] \o seqs[i]
        /\ \A i \in 1 .. n : f[i] = IF i = 1 THEN seqs[i] ELSE f[i - 1] \o seqs[i]
    BY <1>2, <1>3
  <1> DEFINE U == {i \in 0 .. n : i = 0 \/ flatten[i] = f[i]}
  <1> HIDE DEF Loop, n
  <1>5. n \in Nat \ {0}
    BY DEF n
  <1>6. 0 \in U
    BY <1>5
  <1>7. ASSUME NEW i \in 1 .. n, i - 1 \in U PROVE i \in U
    <2>1. i = 1 \/ flatten[i - 1] = f[i - 1]
      BY <1>5, <1>7
    <2>2. flatten[i] = f[i]
      BY <1>4, <2>1
    <2> QED
      BY <1>5, <2>2
  <1>8. n \in U
    <2>1. n \in 0 .. n /\ n \in Nat
      BY <1>5
    <2> HIDE DEF U
    <2>2. 0 .. n \subseteq U
      BY <1>6, <1>7, <2>1, UpToInduction
    <2> QED
      BY <2>1, <2>2
  <1> QED
    BY <1>1, <1>5, <1>8 DEF n

(* Consecutive chunks together are a part of the line. *)
LEMMA ConcatIs ==
  ASSUME NEW store, NEW line, IsLine(line), NEW first, NEW end, Cuts(store, line, first, end),
         NEW lo \in 1 .. Len(store), NEW hi \in lo .. Len(store)
  PROVE  Concat(store, lo, hi) = SubSeq(line, first[lo], end[hi])
  <1> DEFINE n == hi - lo + 1
             seqs == [c \in 1 .. n |-> store[lo + c - 1].points]
             f == [c \in 1 .. n |-> SubSeq(line, first[lo], end[lo + c - 1])]
  <1>1. n \in Nat \ {0} /\ hi = lo + n - 1 /\ lo \in Nat /\ hi \in 1 .. Len(store)
        /\ \A c \in 1 .. n : lo + c - 1 \in 1 .. Len(store) /\ lo <= lo + c - 1
    BY DEF Cuts
  <1> HIDE DEF n
  <1>2. Len(seqs) = n
    BY <1>1
  <1>3. \A c \in 1 .. n : seqs[c] = SubSeq(line, first[lo + c - 1], end[lo + c - 1])
    BY <1>1 DEF Cuts
  <1>4. ASSUME NEW c \in 1 .. n, c # 1 PROVE f[c] = f[c - 1] \o seqs[c]
    <2>1. c - 1 \in 1 .. n /\ lo + c - 1 \in 1 .. Len(store) /\ lo + c - 2 \in 1 .. Len(store)
          /\ lo <= lo + c - 2 /\ lo + (c - 1) - 1 = lo + c - 2 /\ (lo + c - 2) + 1 = lo + c - 1
      BY <1>1, <1>4
    <2> DEFINE a == first[lo]
               b == end[lo + c - 2]
               d == end[lo + c - 1]
    <2>2. f[c] = SubSeq(line, a, d) /\ f[c - 1] = SubSeq(line, a, b)
      BY <2>1
    <2>3. first[lo + c - 1] = b + 1
      <3>1. lo + c - 2 \in 1 .. Len(store) - 1
        BY <1>1, <2>1
      <3> QED
        BY <2>1, <3>1 DEF Cuts
    <2>4. a \in 1 .. Len(line) /\ b \in 1 .. Len(line) /\ d \in 1 .. Len(line) /\ Len(line) \in Nat
      BY <1>1, <2>1 DEF Cuts, IsLine
    <2>5. a <= b
      <3>1. first[lo] <= end[lo] /\ (lo < lo + c - 2 => end[lo] < first[lo + c - 2])
            /\ first[lo + c - 2] <= end[lo + c - 2]
            /\ end[lo] \in Int /\ first[lo + c - 2] \in Int
        <4> DEFINE e == lo + c - 2
        <4>1. e \in 1 .. Len(store)
          BY <2>1
        <4> HIDE DEF e
        <4>2. first[lo] <= end[lo] /\ (lo < e => end[lo] < first[e]) /\ first[e] <= end[e]
              /\ end[lo] \in 1 .. Len(line) /\ first[e] \in 1 .. Len(line)
          <5>1. first[lo] <= end[lo] /\ end[lo] \in 1 .. Len(line)
            BY <1>1 DEF Cuts
          <5>2. first[e] <= end[e] /\ first[e] \in 1 .. Len(line)
            BY <4>1 DEF Cuts
          <5>3. lo < e => end[lo] < first[e]
            BY <1>1, <4>1 DEF Cuts
          <5> QED
            BY <5>1, <5>2, <5>3
        <4> QED
          BY <4>2 DEF e
      <3> QED
        BY <2>1, <2>4, <3>1, SMTT(30)
    <2>6. b < d
      <3>1. end[lo + c - 2] < first[lo + c - 1] /\ first[lo + c - 1] <= end[lo + c - 1]
        BY <1>1, <2>1 DEF Cuts
      <3> QED
        BY <2>3, <2>4, <3>1
    <2>7. seqs[c] = SubSeq(line, b + 1, d)
      BY <1>3, <2>3
    <2> HIDE DEF f, seqs, a, b, d
    <2>8. SubSeq(line, a, b) \o SubSeq(line, b + 1, d) = SubSeq(line, a, d)
      <3>1. a \in 1 .. Len(line) + 1 /\ b \in a - 1 .. Len(line) /\ d \in b .. Len(line)
        BY <2>4, <2>5, <2>6
      <3>2. line \in Seq(Sample)
        BY DEF IsLine
      <3> QED
        BY <3>1, <3>2, ConcatAdjacentSubSeq
    <2> QED
      BY <2>2, <2>7, <2>8
  <1>5. f[1] = seqs[1]
    <2>1. 1 \in 1 .. n /\ lo + 1 - 1 = lo
      BY <1>1
    <2>2. f[1] = SubSeq(line, first[lo], end[lo])
      BY <2>1
    <2>3. seqs[1] = SubSeq(line, first[lo], end[lo])
      BY <1>3, <2>1
    <2> QED
      BY <2>2, <2>3
  <1>6. f = [i \in 1 .. n |-> IF i = 1 THEN seqs[i] ELSE f[i - 1] \o seqs[i]]
    <2>1. \A i \in 1 .. n : f[i] = IF i = 1 THEN seqs[i] ELSE f[i - 1] \o seqs[i]
      <3> HIDE DEF f, seqs
      <3> QED
        BY <1>4, <1>5
    <2>2. f = [i \in 1 .. n |-> f[i]]
      OBVIOUS
    <2> HIDE DEF f, seqs
    <2> QED
      BY <2>1, <2>2
  <1>7. f[n] = SubSeq(line, first[lo], end[hi])
    <2>1. n \in 1 .. n /\ lo + n - 1 = hi
      BY <1>1
    <2>2. f[n] = SubSeq(line, first[lo], end[lo + n - 1])
      BY <2>1
    <2> QED
      BY <2>1, <2>2
  <1> HIDE DEF f, seqs
  <1>8. FlattenSeq(seqs) = f[n]
    BY <1>1, <1>2, <1>6, FlattenIs
  <1>9. Concat(store, lo, hi) = FlattenSeq(seqs)
    BY DEF Concat, seqs, n
  <1> QED
    BY <1>7, <1>8, <1>9

-----------------------------------------------------------------------------
(* Parts of a line, and windows. *)

LEMMA Max2 ==
  ASSUME NEW a \in Int, NEW b \in Int PROVE Max({a, b}) = IF a >= b THEN a ELSE b
  <1> DEFINE m == IF a >= b THEN a ELSE b
  <1>1. {a, b} \in SUBSET Int /\ m \in {a, b} /\ \A i \in {a, b} : m >= i
    OBVIOUS
  <1> HIDE DEF m
  <1>2. Max({a, b}) = m
    BY <1>1, MaxIs
  <1> QED
    BY <1>2 DEF m

LEMMA Min2 ==
  ASSUME NEW a \in Int, NEW b \in Int PROVE Min({a, b}) = IF a <= b THEN a ELSE b
  <1> DEFINE m == IF a <= b THEN a ELSE b
  <1>1. {a, b} \in SUBSET Int /\ m \in {a, b} /\ \A i \in {a, b} : m <= i
    OBVIOUS
  <1> HIDE DEF m
  <1>2. Min({a, b}) = m
    BY <1>1, MinIs
  <1> QED
    BY <1>2 DEF m

LEMMA PartIsLine ==
  ASSUME NEW line, IsLine(line), NEW p \in 1 .. Len(line), NEW q \in p .. Len(line)
  PROVE  /\ IsLine(SubSeq(line, p, q)) /\ Len(SubSeq(line, p, q)) = q - p + 1
         /\ \A i \in 1 .. q - p + 1 : SubSeq(line, p, q)[i] = line[p + i - 1]
  <1> DEFINE part == SubSeq(line, p, q)
  <1>1. /\ Len(line) \in Nat /\ p \in Nat /\ q \in Nat /\ p <= q /\ 1 <= p /\ q <= Len(line)
        /\ \A i \in p .. q : i \in 1 .. Len(line) /\ line[i] \in Sample
    BY DEF IsLine
  <1>2. /\ part \in Seq(Sample) /\ Len(part) = q - p + 1
        /\ \A i \in 1 .. q - p + 1 : part[i] = line[p + i - 1]
    BY <1>1, SubSeqProperties
  <1> HIDE DEF part
  <1>3. DOMAIN part = 1 .. Len(part)
    BY <1>2, LenProperties
  <1>4. \A i \in 1 .. q - p + 1 : p + i - 1 \in 1 .. Len(line)
    BY <1>1
  <1>5. \A i \in 1 .. Len(part) : part[i] \in Sample /\ part[i][1] \in Int
    BY <1>2, <1>4 DEF IsLine
  <1>6. ASSUME NEW i \in 1 .. Len(part), NEW j \in 1 .. Len(part), i <= j
        PROVE  part[i][1] <= part[j][1]
    <2>1. p + i - 1 <= p + j - 1
      BY <1>1, <1>2, <1>6
    <2>2. p + i - 1 \in 1 .. Len(line) /\ p + j - 1 \in 1 .. Len(line)
      BY <1>2, <1>4
    <2>3. line[p + i - 1][1] <= line[p + j - 1][1]
      BY <2>1, <2>2 DEF IsLine
    <2> QED
      BY <1>2, <2>3
  <1>7. IsLine(part)
    BY <1>1, <1>2, <1>3, <1>5, <1>6 DEF IsLine
  <1> QED
    BY <1>2, <1>7 DEF part

(* A search in a part of the line that holds the place finds it there. *)
LEMMA SearchedInPart ==
  ASSUME NEW line, IsLine(line), NEW val \in Int, NEW p \in 1 .. Len(line), NEW q \in p .. Len(line)
  PROVE  /\ SearchLeft(Xs(line), val) \in p .. q =>
              SearchLeft(Xs(SubSeq(line, p, q)), val) = SearchLeft(Xs(line), val) - p + 1
         /\ SearchRight(Xs(line), val) \in p .. q =>
              SearchRight(Xs(SubSeq(line, p, q)), val) = SearchRight(Xs(line), val) - p + 1
  <1> DEFINE part == SubSeq(line, p, q)
             n == Len(line)
             a == SearchLeft(Xs(line), val)
             b == SearchRight(Xs(line), val)
  <1>1. n \in Nat /\ p \in Nat /\ q \in Nat /\ 1 <= p /\ p <= q /\ q <= n
    BY DEF IsLine
  <1>2. /\ IsLine(part) /\ Len(part) = q - p + 1
        /\ \A i \in 1 .. q - p + 1 : part[i] = line[p + i - 1]
    BY PartIsLine
  <1>3. Leftmost(line, val, a) /\ Rightmost(line, val, b)
    BY SearchedLeft, SearchedRight
  <1> HIDE DEF part, n, a, b
  <1>4. ASSUME a \in p .. q PROVE Leftmost(part, val, a - p + 1)
    <2>1. a - p + 1 \in 1 .. q - p + 1 /\ p + (a - p + 1) - 1 = a /\ a \in Int
      BY <1>1, <1>4
    <2>2. ASSUME NEW j \in 1 .. (a - p + 1) - 1 PROVE part[j][1] < val
      <3>1. j \in 1 .. q - p + 1 /\ p + j - 1 \in 1 .. a - 1
        BY <1>1, <1>4, <2>1
      <3> QED
        BY <1>2, <1>3, <3>1 DEF Leftmost
    <2>3. part[a - p + 1] = line[a]
      BY <1>2, <2>1
    <2>4. a = n => a - p + 1 = q - p + 1
      BY <1>1, <1>4
    <2> QED
      BY <1>2, <1>3, <2>1, <2>2, <2>3, <2>4 DEF Leftmost, n
  <1>5. ASSUME b \in p .. q PROVE Rightmost(part, val, b - p + 1)
    <2>1. b - p + 1 \in 1 .. q - p + 1 /\ p + (b - p + 1) - 1 = b /\ b \in Int
      BY <1>1, <1>5
    <2>2. ASSUME NEW j \in (b - p + 1) + 1 .. Len(part) PROVE part[j][1] > val
      <3>1. j \in 1 .. q - p + 1 /\ p + j - 1 \in b + 1 .. n
        BY <1>1, <1>2, <1>5, <2>1
      <3> QED
        BY <1>2, <1>3, <3>1 DEF Rightmost, n
    <2>3. part[b - p + 1] = line[b]
      BY <1>2, <2>1
    <2>4. b = 1 => b - p + 1 = 1
      BY <1>1, <1>5
    <2> QED
      BY <1>2, <1>3, <2>1, <2>2, <2>3, <2>4 DEF Rightmost
  <1> QED
    BY <1>2, <1>4, <1>5, SearchedLeft, SearchedRight DEF part, a, b

(* A part that holds a window and what it is padded with has the same one. *)
LEMMA WindowOfPart ==
  ASSUME NEW line, IsLine(line), NEW lim \in Int \X Int,
         NEW p \in 1 .. Len(line), NEW q \in p .. Len(line),
         SearchLeft(Xs(line), lim[1]) \in p .. q, SearchRight(Xs(line), lim[2]) \in p .. q,
         p = 1 \/ p < SearchLeft(Xs(line), lim[1]),
         q = Len(line) \/ SearchRight(Xs(line), lim[2]) < q
  PROVE  Window(SubSeq(line, p, q), lim) = Window(line, lim)
  <1> DEFINE part == SubSeq(line, p, q)
             n == Len(line)
             a == SearchLeft(Xs(line), lim[1])
             b == SearchRight(Xs(line), lim[2])
             a1 == SearchLeft(Xs(part), lim[1])
             b1 == SearchRight(Xs(part), lim[2])
             from == Max({1, a1 - 1})
             to == Min({Len(part), b1 + 1})
  <1>1. /\ n \in Nat /\ p \in Nat /\ q \in Nat /\ a \in Nat /\ b \in Nat
        /\ 1 <= p /\ p <= q /\ q <= n /\ p <= a /\ a <= q /\ p <= b /\ b <= q
        /\ (p = 1 \/ p < a) /\ (q = n \/ b < q)
    BY DEF IsLine
  <1>2. lim[1] \in Int /\ lim[2] \in Int
    OBVIOUS
  <1>3. a1 = a - p + 1 /\ b1 = b - p + 1
    BY <1>2, SearchedInPart
  <1>4. Len(part) = q - p + 1
    BY PartIsLine
  <1>5. Window(part, lim) = SubSeq(part, from, to)
    BY DEF Window
  <1>6. Window(line, lim) = SubSeq(line, Max({1, a - 1}), Min({n, b + 1}))
    BY DEF Window
  <1> HIDE DEF n, a, b, a1, b1
  <1>7. /\ from = (IF 1 >= a - p THEN 1 ELSE a - p)
        /\ to = (IF q - p + 1 <= b - p + 2 THEN q - p + 1 ELSE b - p + 2)
    <2>1. a1 - 1 = a - p /\ b1 + 1 = b - p + 2 /\ a - p \in Int /\ q - p + 1 \in Int /\ b - p + 2 \in Int
      BY <1>1, <1>3
    <2> QED
      BY <1>4, <2>1, Max2, Min2
  <1>8. /\ Max({1, a - 1}) = (IF 1 >= a - 1 THEN 1 ELSE a - 1)
        /\ Min({n, b + 1}) = (IF n <= b + 1 THEN n ELSE b + 1)
    BY <1>1, Max2, Min2
  <1> HIDE DEF from, to
  <1>9. /\ from \in 1 .. q - p + 1 /\ to \in 1 .. q - p + 1
        /\ p + from - 1 = Max({1, a - 1}) /\ p + to - 1 = Min({n, b + 1})
    BY <1>1, <1>7, <1>8
  <1>10. SubSeq(SubSeq(line, p, q), from, to) = SubSeq(line, p + from - 1, p + to - 1)
    <2>1. p \in 1 .. Len(line) /\ q \in 1 .. Len(line) /\ line \in Seq(Sample)
      BY <1>1 DEF IsLine, n
    <2> QED
      BY <1>9, <2>1, SubSeqOfSubSeq
  <1> QED
    BY <1>5, <1>6, <1>9, <1>10

(* A window is a part of the line. *)
LEMMA WindowType ==
  ASSUME NEW line, IsLine(line), NEW lim \in Int \X Int
  PROVE  Window(line, lim) \in Seq(Sample) /\ Len(Window(line, lim)) \in Nat
  <1> DEFINE a == SearchLeft(Xs(line), lim[1])
             b == SearchRight(Xs(line), lim[2])
             from == Max({1, a - 1})
             to == Min({Len(line), b + 1})
  <1>1. lim[1] \in Int /\ lim[2] \in Int
    OBVIOUS
  <1>2. Leftmost(line, lim[1], a) /\ Rightmost(line, lim[2], b)
    <2>1. Leftmost(line, lim[1], a)
      BY <1>1, SearchedLeft, Zenon
    <2>2. Rightmost(line, lim[2], b)
      BY <1>1, SearchedRight, Zenon
    <2> QED
      BY <2>1, <2>2
  <1>3. a \in 1 .. Len(line) /\ b \in 1 .. Len(line) /\ Len(line) \in Nat
    BY <1>2 DEF Leftmost, Rightmost, IsLine
  <1>4. Window(line, lim) = SubSeq(line, from, to)
    BY DEF Window
  <1> HIDE DEF a, b
  <1>5. /\ from = (IF 1 >= a - 1 THEN 1 ELSE a - 1)
        /\ to = (IF Len(line) <= b + 1 THEN Len(line) ELSE b + 1)
    BY <1>3, Max2, Min2
  <1> HIDE DEF from, to
  <1>6. from \in Int /\ to \in Int /\ \A i \in from .. to : line[i] \in Sample
    <2>1. from \in 1 .. Len(line) /\ to \in 1 .. Len(line)
      BY <1>3, <1>5
    <2>2. from .. to \subseteq 1 .. Len(line)
      BY <1>3, <2>1
    <2> QED
      BY <2>1, <2>2 DEF IsLine
  <1>7. SubSeq(line, from, to) \in Seq(Sample)
    BY <1>6, SubSeqProperties
  <1> QED
    BY <1>4, <1>7, LenProperties

(* Where the chunk is that a search ends in. *)
LEMMA ChunkOfSearch ==
  ASSUME NEW store, NEW line, IsLine(line), NEW first, NEW end, Cuts(store, line, first, end),
         NEW val \in Int, NEW c \in 1 .. Len(store)
  PROVE  /\ store[c].xmax >= val /\ (c = 1 \/ store[c - 1].xmax < val) =>
              SearchLeft(Xs(line), val) \in first[c] .. end[c]
         /\ store[c].xmin <= val /\ (c = Len(store) \/ store[c + 1].xmin > val) =>
              SearchRight(Xs(line), val) \in first[c] .. end[c]
  <1> DEFINE n == Len(line)
             m == Len(store)
             a == SearchLeft(Xs(line), val)
             b == SearchRight(Xs(line), val)
  <1>1. /\ n \in Nat /\ m \in Nat /\ \A i \in 1 .. n : line[i][1] \in Int
        /\ \A i, j \in 1 .. n : i <= j => line[i][1] <= line[j][1]
    <2>1. n \in Nat /\ \A i \in 1 .. n : line[i][1] \in Int
      BY DEF IsLine
    <2>2. \A i, j \in 1 .. n : i <= j => line[i][1] <= line[j][1]
      BY DEF IsLine
    <2>3. m \in Nat
      BY DEF Cuts
    <2> QED
      BY <2>1, <2>2, <2>3
  <1>2. /\ first[c] \in 1 .. n /\ end[c] \in 1 .. n /\ first[c] <= end[c]
        /\ c = 1 => first[c] = 1
        /\ c = m => end[c] = n
        /\ store[c].xmin = line[first[c]][1] /\ store[c].xmax = line[end[c]][1]
    BY DEF Cuts
  <1>3. Leftmost(line, val, a) /\ Rightmost(line, val, b)
    BY SearchedLeft, SearchedRight
  <1> HIDE DEF a, b
  <1>4. ASSUME store[c].xmax >= val, c = 1 \/ store[c - 1].xmax < val
        PROVE  a \in first[c] .. end[c]
    <2>1. a \in 1 .. n /\ (\A j \in 1 .. a - 1 : line[j][1] < val) /\ (line[a][1] >= val \/ a = n)
      BY <1>3 DEF Leftmost
    <2>2. ~(end[c] < a)
      <3> SUFFICES ASSUME end[c] < a PROVE FALSE
        OBVIOUS
      <3>1. end[c] \in 1 .. a - 1
        BY <1>2, <2>1
      <3>2. line[end[c]][1] < val /\ line[end[c]][1] >= val /\ line[end[c]][1] \in Int
        BY <1>1, <1>2, <1>4, <2>1, <3>1
      <3> QED
        BY <3>2
    <2>3. CASE c = 1
      BY <1>2, <2>1, <2>2, <2>3
    <2>4. CASE c # 1
      <3>1. c - 1 \in 1 .. m - 1 /\ c - 1 \in 1 .. m /\ (c - 1) + 1 = c
        BY <1>1, <2>4
      <3>2. end[c - 1] \in 1 .. n /\ first[c] = end[c - 1] + 1 /\ store[c - 1].xmax = line[end[c - 1]][1]
        BY <3>1 DEF Cuts
      <3>3. ~(a <= end[c - 1])
        <4> SUFFICES ASSUME a <= end[c - 1] PROVE FALSE
          OBVIOUS
        <4>1. line[a][1] <= line[end[c - 1]][1] /\ line[end[c - 1]][1] < val
          BY <1>1, <1>4, <2>1, <2>4, <3>2
        <4>2. a # n
          BY <1>2, <2>1, <3>2
        <4>3. line[a][1] >= val /\ line[a][1] \in Int /\ line[end[c - 1]][1] \in Int
          BY <1>1, <2>1, <3>2, <4>2
        <4> QED
          BY <4>1, <4>3
      <3> QED
        BY <1>2, <2>1, <2>2, <3>2, <3>3
    <2> QED
      BY <2>3, <2>4
  <1>5. ASSUME store[c].xmin <= val, c = m \/ store[c + 1].xmin > val
        PROVE  b \in first[c] .. end[c]
    <2>1. b \in 1 .. n /\ (\A j \in b + 1 .. n : line[j][1] > val) /\ (line[b][1] <= val \/ b = 1)
      BY <1>3 DEF Rightmost
    <2>2. ~(first[c] > b)
      <3> SUFFICES ASSUME first[c] > b PROVE FALSE
        OBVIOUS
      <3>1. first[c] \in b + 1 .. n
        BY <1>2, <2>1
      <3>2. line[first[c]][1] > val /\ line[first[c]][1] <= val /\ line[first[c]][1] \in Int
        BY <1>1, <1>2, <1>5, <2>1, <3>1
      <3> QED
        BY <3>2
    <2>3. CASE c = m
      BY <1>2, <2>1, <2>2, <2>3
    <2>4. CASE c # m
      <3>1. c \in 1 .. m - 1 /\ c + 1 \in 1 .. m
        BY <1>1, <2>4
      <3>2. /\ first[c + 1] \in 1 .. n /\ first[c + 1] = end[c] + 1
            /\ store[c + 1].xmin = line[first[c + 1]][1]
        BY <3>1 DEF Cuts
      <3>3. ~(b >= first[c + 1])
        <4> SUFFICES ASSUME b >= first[c + 1] PROVE FALSE
          OBVIOUS
        <4>1. line[first[c + 1]][1] <= line[b][1] /\ line[first[c + 1]][1] > val
          BY <1>1, <1>5, <2>1, <2>4, <3>2
        <4>2. b # 1
          BY <1>2, <2>1, <3>2
        <4>3. line[b][1] <= val /\ line[b][1] \in Int /\ line[first[c + 1]][1] \in Int
          BY <1>1, <2>1, <3>2, <4>2
        <4> QED
          BY <4>1, <4>3
      <3> QED
        BY <1>2, <2>1, <2>2, <3>2, <3>3
    <2> QED
      BY <2>3, <2>4
  <1> QED
    BY <1>4, <1>5 DEF a, b

(* The chunks follow one another, and so do their limits. *)
LEMMA ChunksInOrder ==
  ASSUME NEW store, NEW line, IsLine(line), NEW first, NEW end, Cuts(store, line, first, end)
  PROVE  /\ \A c \in 1 .. Len(store) : store[c].xmin \in Int /\ store[c].xmax \in Int
         /\ \A c, d \in 1 .. Len(store) : c <= d =>
              /\ first[c] <= first[d] /\ end[c] <= end[d] /\ first[c] <= end[d]
              /\ store[c].xmin <= store[d].xmin /\ store[c].xmax <= store[d].xmax
  <1>1. \A c \in 1 .. Len(store) :
          /\ first[c] \in 1 .. Len(line) /\ end[c] \in 1 .. Len(line) /\ first[c] <= end[c]
          /\ store[c].xmin = line[first[c]][1] /\ store[c].xmax = line[end[c]][1]
    BY DEF Cuts
  <1>2. \A c \in 1 .. Len(store) : store[c].xmin \in Int /\ store[c].xmax \in Int
    BY <1>1 DEF IsLine
  <1>3. ASSUME NEW c \in 1 .. Len(store), NEW d \in 1 .. Len(store), c <= d
        PROVE  /\ first[c] <= first[d] /\ end[c] <= end[d] /\ first[c] <= end[d]
               /\ store[c].xmin <= store[d].xmin /\ store[c].xmax <= store[d].xmax
    <2>1. c = d \/ c < d
      BY <1>3 DEF Cuts
    <2>2. c < d => end[c] < first[d]
      BY DEF Cuts
    <2>3. /\ first[c] \in Nat /\ end[c] \in Nat /\ first[d] \in Nat /\ end[d] \in Nat
          /\ first[c] <= end[c] /\ first[d] <= end[d]
      BY <1>1
    <2>4. first[c] <= first[d] /\ end[c] <= end[d] /\ first[c] <= end[d]
      BY <2>1, <2>2, <2>3
    <2> QED
      BY <1>1, <2>4 DEF IsLine
  <1> QED
    BY <1>2, <1>3

(* getRange gives the window of the line, unless no chunk overlaps.        *)
LEMMA RangeAnswers ==
  ASSUME NEW store, NEW line, IsLine(line), NEW first, NEW end, Cuts(store, line, first, end),
         NEW lim \in Int \X Int, lim[1] <= lim[2]
  PROVE  /\ \/ \E c \in 1 .. Len(store) - 1 :
                   store[c].xmax < lim[1] /\ lim[2] < store[c + 1].xmin
            \/ lim[2] < store[1].xmin
            \/ lim[1] > store[Len(store)].xmax
            \/ GetRange(store, lim) = Window(line, lim)
         /\ GetRange(store, lim) = <<>> \/ GetRange(store, lim) = Window(line, lim)
  <1> DEFINE n == Len(line)
             m == Len(store)
             Ids == {c \in 1 .. m : store[c].xmax >= lim[1] /\ store[c].xmin <= lim[2]}
             c1 == Min(Ids)
             c2 == Max(Ids)
             a == SearchLeft(Xs(line), lim[1])
             b == SearchRight(Xs(line), lim[2])
  <1>1. m \in Nat \ {0} /\ n \in Nat /\ lim[1] \in Int /\ lim[2] \in Int
    BY DEF Cuts, IsLine
  <1>2. /\ \A c \in 1 .. m : store[c].xmin \in Int /\ store[c].xmax \in Int
        /\ \A c, d \in 1 .. m : c <= d =>
              /\ first[c] <= first[d] /\ end[c] <= end[d] /\ first[c] <= end[d]
              /\ store[c].xmin <= store[d].xmin /\ store[c].xmax <= store[d].xmax
    BY ChunksInOrder
  <1>3. /\ first[1] = 1 /\ end[m] = n
        /\ \A c \in 1 .. m : first[c] \in 1 .. n /\ end[c] \in 1 .. n /\ first[c] <= end[c]
        /\ \A c \in 1 .. m - 1 : first[c + 1] = end[c] + 1
    BY DEF Cuts
  <1> HIDE DEF n, m
  <1>4. CASE Ids = {}
    <2>0. GetRange(store, lim) = <<>>
      <3>1. DOMAIN store = 1 .. m
        BY DEF Cuts, m
      <3> QED
        BY <1>4, <3>1 DEF GetRange
    <2> SUFFICES ASSUME ~(lim[2] < store[1].xmin), ~(lim[1] > store[m].xmax)
                 PROVE  \E c \in 1 .. m - 1 : store[c].xmax < lim[1] /\ lim[2] < store[c + 1].xmin
      BY <2>0 DEF m
    <2> DEFINE Over == {c \in 1 .. m : store[c].xmax < lim[1]}
               c == Max(Over)
    <2>1. 1 \in 1 .. m /\ m \in 1 .. m
      BY <1>1
    <2>2. \A d \in 1 .. m : store[d].xmax < lim[1] \/ store[d].xmin > lim[2]
      BY <1>1, <1>2, <1>4
    <2>3. 1 \in Over /\ m \notin Over
      BY <1>1, <1>2, <2>1, <2>2
    <2>4. Over \in SUBSET (1 .. m) /\ Over # {}
      BY <2>3
    <2>5. c \in Over /\ \A d \in Over : c >= d
      <3> HIDE DEF Over
      <3> QED
        BY <1>1, <2>4, MaxExists
    <2> HIDE DEF c
    <2>6. c \in 1 .. m - 1 /\ c + 1 \in 1 .. m /\ store[c].xmax < lim[1]
      BY <1>1, <2>3, <2>5
    <2>7. c + 1 \notin Over
      <3> HIDE DEF Over
      <3>1. c \in Int /\ (c + 1 \in Over => c >= c + 1)
        BY <2>5, <2>6
      <3> QED
        BY <3>1
    <2>8. store[c + 1].xmin > lim[2] /\ store[c + 1].xmin \in Int
      BY <1>2, <2>2, <2>6, <2>7
    <2> QED
      BY <1>1, <2>6, <2>8
  <1>5. CASE Ids # {}
    <2>1. Ids \in SUBSET (1 .. m)
      OBVIOUS
    <2>2. /\ c1 \in Ids /\ \A c \in Ids : c1 <= c
          /\ c2 \in Ids /\ \A c \in Ids : c2 >= c
      <3> HIDE DEF Ids
      <3> QED
        BY <1>1, <1>5, <2>1, MinExists, MaxExists
    <2>3. /\ c1 \in 1 .. m /\ c2 \in 1 .. m /\ c1 <= c2
          /\ store[c1].xmax >= lim[1] /\ store[c1].xmin <= lim[2]
          /\ store[c2].xmax >= lim[1] /\ store[c2].xmin <= lim[2]
      BY <2>2
    <2>4. c1 = 1 \/ store[c1 - 1].xmax < lim[1]
      <3> SUFFICES ASSUME c1 # 1 PROVE store[c1 - 1].xmax < lim[1]
        OBVIOUS
      <3> HIDE DEF c1, c2
      <3>1. c1 - 1 \in 1 .. m /\ c1 - 1 <= c1 /\ ~(c1 <= c1 - 1)
        BY <1>1, <2>3
      <3>2. c1 - 1 \notin Ids
        <4> HIDE DEF Ids
        <4> QED
          BY <2>2, <3>1
      <3>3. store[c1 - 1].xmin <= store[c1].xmin
        BY <1>2, <2>3, <3>1
      <3>4. store[c1 - 1].xmin \in Int /\ store[c1 - 1].xmax \in Int /\ store[c1].xmin \in Int
        BY <1>2, <2>3, <3>1
      <3>5. store[c1 - 1].xmin <= lim[2]
        BY <1>1, <2>3, <3>3, <3>4
      <3>6. ~(store[c1 - 1].xmax >= lim[1])
        BY <3>1, <3>2, <3>5
      <3> QED
        BY <1>1, <3>4, <3>6
    <2>5. c2 = m \/ store[c2 + 1].xmin > lim[2]
      <3> SUFFICES ASSUME c2 # m PROVE store[c2 + 1].xmin > lim[2]
        OBVIOUS
      <3> HIDE DEF c1, c2
      <3>1. c2 + 1 \in 1 .. m /\ c2 <= c2 + 1 /\ ~(c2 >= c2 + 1)
        BY <1>1, <2>3
      <3>2. c2 + 1 \notin Ids
        <4> HIDE DEF Ids
        <4> QED
          BY <2>2, <3>1
      <3>3. store[c2].xmax <= store[c2 + 1].xmax
        BY <1>2, <2>3, <3>1
      <3>4. store[c2 + 1].xmin \in Int /\ store[c2 + 1].xmax \in Int /\ store[c2].xmax \in Int
        BY <1>2, <2>3, <3>1
      <3>5. store[c2 + 1].xmax >= lim[1]
        BY <1>1, <2>3, <3>3, <3>4
      <3>6. ~(store[c2 + 1].xmin <= lim[2])
        BY <3>1, <3>2, <3>5
      <3> QED
        BY <1>1, <3>4, <3>6
    <2> DEFINE lo == Max({1, c1 - 1})
               hi == Min({m, c2 + 1})
    <2> HIDE DEF c1, c2
    <2>6. a \in first[c1] .. end[c1] /\ b \in first[c2] .. end[c2]
      <3>1. /\ store[c1].xmax >= lim[1] /\ (c1 = 1 \/ store[c1 - 1].xmax < lim[1])
            /\ store[c2].xmin <= lim[2] /\ (c2 = m \/ store[c2 + 1].xmin > lim[2])
        BY <2>3, <2>4, <2>5
      <3> QED
        BY <1>1, <2>3, <3>1, ChunkOfSearch DEF m
    <2>7. lo = (IF c1 = 1 THEN 1 ELSE c1 - 1) /\ hi = (IF c2 = m THEN m ELSE c2 + 1)
      <3>1. c1 \in Int /\ c2 \in Int /\ m \in Int /\ 1 <= c1 /\ c2 <= m
        BY <1>1, <2>3
      <3>2. /\ lo = (IF 1 >= c1 - 1 THEN 1 ELSE c1 - 1)
            /\ hi = (IF m <= c2 + 1 THEN m ELSE c2 + 1)
        BY <3>1, Max2, Min2
      <3> QED
        BY <3>1, <3>2
    <2> HIDE DEF lo, hi, a, b, Ids
    <2>8. lo \in 1 .. m /\ hi \in lo .. m /\ hi \in 1 .. m /\ lo <= c1 /\ c2 <= hi
      BY <1>1, <2>3, <2>7
    <2>9. /\ first[lo] \in 1 .. n /\ end[hi] \in first[lo] .. n
          /\ first[lo] <= first[c1] /\ end[c2] <= end[hi]
          /\ end[c1] <= end[c2] /\ first[c1] <= first[c2]
      <3>1. /\ first[lo] \in 1 .. n /\ end[hi] \in 1 .. n /\ first[lo] <= end[hi]
            /\ first[lo] <= first[c1] /\ end[c2] <= end[hi]
            /\ end[c1] <= end[c2] /\ first[c1] <= first[c2]
        BY <1>1, <1>2, <1>3, <2>3, <2>8
      <3> QED
        BY <1>1, <3>1
    <2>10. /\ first[c1] \in Nat /\ end[c1] \in Nat /\ first[c2] \in Nat /\ end[c2] \in Nat
           /\ first[lo] \in Nat /\ end[hi] \in Nat
      BY <1>1, <1>3, <2>3, <2>8
    <2>11. a \in first[lo] .. end[hi] /\ b \in first[lo] .. end[hi]
      BY <2>6, <2>9, <2>10
    <2>12. first[lo] = 1 \/ first[lo] < a
      <3>1. CASE c1 = 1
        BY <1>3, <2>7, <3>1
      <3>2. CASE c1 # 1
        <4>1. c1 - 1 \in 1 .. m - 1 /\ c1 - 1 \in 1 .. m /\ (c1 - 1) + 1 = c1 /\ lo = c1 - 1
          BY <1>1, <2>3, <2>7, <3>2
        <4>2. first[lo] <= end[lo] /\ first[c1] = end[lo] + 1 /\ end[lo] \in Nat
          BY <1>1, <1>3, <4>1
        <4> QED
          BY <2>6, <2>10, <4>2
      <3> QED
        BY <3>1, <3>2
    <2>13. end[hi] = n \/ b < end[hi]
      <3>1. CASE c2 = m
        BY <1>3, <2>7, <3>1
      <3>2. CASE c2 # m
        <4>1. c2 \in 1 .. m - 1 /\ hi = c2 + 1 /\ hi \in 1 .. m
          BY <1>1, <2>3, <2>7, <3>2
        <4>2. first[hi] <= end[hi] /\ first[hi] = end[c2] + 1 /\ first[hi] \in Nat
          BY <1>1, <1>3, <4>1
        <4> QED
          BY <2>6, <2>10, <4>2
      <3> QED
        BY <3>1, <3>2
    <2>14. Concat(store, lo, hi) = SubSeq(line, first[lo], end[hi])
      BY <2>8, ConcatIs DEF m
    <2>15. Window(SubSeq(line, first[lo], end[hi]), lim) = Window(line, lim)
      <3> DEFINE p == first[lo]
                 q == end[hi]
      <3>1. /\ p \in 1 .. Len(line) /\ q \in p .. Len(line) /\ a \in p .. q /\ b \in p .. q
            /\ (p = 1 \/ p < a) /\ (q = Len(line) \/ b < q)
        BY <2>9, <2>11, <2>12, <2>13 DEF n
      <3> HIDE DEF p, q
      <3>2. Window(SubSeq(line, p, q), lim) = Window(line, lim)
        BY <3>1, WindowOfPart DEF a, b
      <3> QED
        BY <3>2 DEF p, q
    <2>16. GetRange(store, lim) = Window(Concat(store, lo, hi), lim)
      <3>1. DOMAIN store = 1 .. m
        BY DEF Cuts, m
      <3>2. ~(lim[1] > lim[2])
        BY <1>1
      <3> QED
        BY <1>5, <3>1, <3>2 DEF GetRange, lo, hi, c1, c2, Ids, m
    <2> QED
      BY <2>14, <2>15, <2>16
  <1> QED
    BY <1>4, <1>5

LEMMA NumPointsIs ==
  ASSUME NEW store, NEW line, IsLine(line), NEW first, NEW end, Cuts(store, line, first, end)
  PROVE  /\ NumPoints(store) = Len(line)
         /\ \A c \in 1 .. Len(store) :
              store[c].offset = first[c] /\ store[c].offset + Len(store[c].points) - 1 = end[c]
  <1>1. /\ Len(store) \in 1 .. Len(store) /\ end[Len(store)] = Len(line)
    BY DEF Cuts
  <1>2. ASSUME NEW c \in 1 .. Len(store)
        PROVE  store[c].offset = first[c] /\ store[c].offset + Len(store[c].points) - 1 = end[c]
    <2> DEFINE p == first[c]
               q == end[c]
    <2>1. /\ p \in 1 .. Len(line) /\ q \in 1 .. Len(line) /\ p <= q
          /\ store[c].offset = p /\ store[c].points = SubSeq(line, p, q)
      BY DEF Cuts
    <2>2. Len(line) \in Nat
      BY DEF IsLine
    <2> HIDE DEF p, q
    <2>3. q \in p .. Len(line)
      BY <2>1, <2>2
    <2>4. Len(store[c].points) = q - p + 1
      BY <2>1, <2>3, PartIsLine
    <2> QED
      BY <2>1, <2>4 DEF p, q
  <1> QED
    BY <1>1, <1>2 DEF NumPoints, Last

(* findIndex finds what a search in the line finds. *)
LEMMA FindIndexAnswers ==
  ASSUME NEW store, NEW line, IsLine(line), NEW first, NEW end, Cuts(store, line, first, end),
         NEW val \in Int
  PROVE  /\ FindIndexLeft(store, val) = SearchLeft(Xs(line), val)
         /\ FindIndexRight(store, val) = SearchRight(Xs(line), val)
  <1> DEFINE n == Len(line)
             m == Len(store)
             a == SearchLeft(Xs(line), val)
             b == SearchRight(Xs(line), val)
             Ids1 == {c \in DOMAIN store : store[c].xmax >= val}
             Ids2 == {c \in DOMAIN store : store[c].xmin <= val}
  <1>1. /\ m \in Nat \ {0} /\ DOMAIN store = 1 .. m /\ n \in Nat
        /\ first[1] = 1 /\ end[m] = n
        /\ \A c \in 1 .. m : /\ first[c] \in 1 .. n /\ end[c] \in 1 .. n /\ first[c] <= end[c]
                             /\ store[c].xmin = line[first[c]][1] /\ store[c].xmax = line[end[c]][1]
                             /\ store[c].points = SubSeq(line, first[c], end[c])
                             /\ store[c].xmin \in Int /\ store[c].xmax \in Int
    BY ChunksInOrder DEF Cuts, IsLine
  <1>2. /\ NumPoints(store) = n
        /\ \A c \in 1 .. m : store[c].offset = first[c]
    BY NumPointsIs
  <1>3. Leftmost(line, val, a) /\ Rightmost(line, val, b)
    BY SearchedLeft, SearchedRight
  <1>4. \A i \in 1 .. n : line[i][1] \in Int
    BY DEF IsLine
  <1> HIDE DEF n, m
  <1>5. FindIndexLeft(store, val) = a
    <2>1. CASE Ids1 = {}
      <3>1. m \in 1 .. m /\ n \in 1 .. n
        BY <1>1
      <3>2. ~(line[n][1] >= val) /\ line[n][1] \in Int
        BY <1>1, <1>4, <2>1, <3>1
      <3>3. a \in 1 .. n /\ (\A i \in 1 .. n : i <= n => line[i][1] <= line[n][1])
        BY <1>3, <3>1 DEF Leftmost, IsLine, n
      <3>4. line[a][1] <= line[n][1] /\ line[a][1] \in Int
        BY <1>1, <1>4, <3>3
      <3>5. ~(line[a][1] >= val)
        BY <3>2, <3>4
      <3>6. a = n
        BY <1>3, <3>5 DEF Leftmost, n
      <3>7. FindIndexLeft(store, val) = n
        BY <1>2, <2>1 DEF FindIndexLeft
      <3> QED
        BY <3>6, <3>7
    <2>2. CASE Ids1 # {}
      <3> DEFINE c == Min(Ids1)
      <3>1. c \in Ids1 /\ \A d \in Ids1 : c <= d
        <4>1. Ids1 \in SUBSET (1 .. m)
          BY <1>1
        <4> HIDE DEF Ids1
        <4> QED
          BY <1>1, <2>2, <4>1, MinExists
      <3>2. FindIndexLeft(store, val) = store[c].offset + SearchLeft(Xs(store[c].points), val) - 1
        BY <2>2 DEF FindIndexLeft
      <3> HIDE DEF c
      <3>3. c \in 1 .. m /\ store[c].xmax >= val
        BY <1>1, <3>1
      <3>4. c = 1 \/ store[c - 1].xmax < val
        <4> SUFFICES ASSUME c # 1 PROVE store[c - 1].xmax < val
          OBVIOUS
        <4>1. c - 1 \in 1 .. m /\ ~(c <= c - 1)
          BY <1>1, <3>3
        <4>2. c - 1 \notin Ids1
          <5> HIDE DEF Ids1
          <5> QED
            BY <3>1, <4>1
        <4> QED
          BY <1>1, <4>1, <4>2
      <3> DEFINE p == first[c]
                 q == end[c]
      <3>5. a \in p .. q
        BY <3>3, <3>4, ChunkOfSearch DEF m
      <3>6. /\ p \in 1 .. n /\ q \in p .. n /\ store[c].points = SubSeq(line, p, q)
            /\ store[c].offset = p
        <4>1. first[c] \in 1 .. n /\ end[c] \in 1 .. n /\ first[c] <= end[c]
          BY <1>1, <3>3
        <4>2. store[c].points = SubSeq(line, first[c], end[c]) /\ store[c].offset = first[c]
          BY <1>1, <1>2, <3>3
        <4> QED
          BY <4>1, <4>2
      <3> HIDE DEF p, q
      <3>7. SearchLeft(Xs(store[c].points), val) = a - p + 1
        BY <3>5, <3>6, SearchedInPart, SMTT(30) DEF n
      <3> HIDE DEF a
      <3>8. a \in Int /\ p \in Int
        BY <3>5, <3>6
      <3> QED
        BY <3>2, <3>6, <3>7, <3>8
    <2> QED
      BY <2>1, <2>2
  <1>6. FindIndexRight(store, val) = b
    <2>1. CASE Ids2 = {}
      <3>1. 1 \in 1 .. m /\ 1 \in 1 .. n
        BY <1>1
      <3>2. ~(line[1][1] <= val) /\ line[1][1] \in Int
        BY <1>1, <1>4, <2>1, <3>1
      <3>3. b \in 1 .. n /\ (\A i \in 1 .. n : 1 <= i => line[1][1] <= line[i][1])
        BY <1>3, <3>1 DEF Rightmost, IsLine, n
      <3>4. line[1][1] <= line[b][1] /\ line[b][1] \in Int
        BY <1>1, <1>4, <3>3
      <3>5. ~(line[b][1] <= val)
        BY <3>2, <3>4
      <3>6. b = 1
        BY <1>3, <3>5 DEF Rightmost
      <3>7. FindIndexRight(store, val) = 1
        BY <2>1 DEF FindIndexRight
      <3> QED
        BY <3>6, <3>7
    <2>2. CASE Ids2 # {}
      <3> DEFINE c == Max(Ids2)
      <3>1. c \in Ids2 /\ \A d \in Ids2 : c >= d
        <4>1. Ids2 \in SUBSET (1 .. m)
          BY <1>1
        <4> HIDE DEF Ids2
        <4> QED
          BY <1>1, <2>2, <4>1, MaxExists
      <3>2. FindIndexRight(store, val) = store[c].offset + SearchRight(Xs(store[c].points), val) - 1
        BY <2>2 DEF FindIndexRight
      <3> HIDE DEF c
      <3>3. c \in 1 .. m /\ store[c].xmin <= val
        BY <1>1, <3>1
      <3>4. c = m \/ store[c + 1].xmin > val
        <4> SUFFICES ASSUME c # m PROVE store[c + 1].xmin > val
          OBVIOUS
        <4>1. c + 1 \in 1 .. m /\ ~(c >= c + 1)
          BY <1>1, <3>3
        <4>2. c + 1 \notin Ids2
          <5> HIDE DEF Ids2
          <5> QED
            BY <3>1, <4>1
        <4> QED
          BY <1>1, <4>1, <4>2
      <3> DEFINE p == first[c]
                 q == end[c]
      <3>5. b \in p .. q
        BY <3>3, <3>4, ChunkOfSearch DEF m
      <3>6. /\ p \in 1 .. n /\ q \in p .. n /\ store[c].points = SubSeq(line, p, q)
            /\ store[c].offset = p
        <4>1. first[c] \in 1 .. n /\ end[c] \in 1 .. n /\ first[c] <= end[c]
          BY <1>1, <3>3
        <4>2. store[c].points = SubSeq(line, first[c], end[c]) /\ store[c].offset = first[c]
          BY <1>1, <1>2, <3>3
        <4> QED
          BY <4>1, <4>2
      <3> HIDE DEF p, q
      <3>7. SearchRight(Xs(store[c].points), val) = b - p + 1
        BY <3>5, <3>6, SearchedInPart, SMTT(30) DEF n
      <3> HIDE DEF b
      <3>8. b \in Int /\ p \in Int
        BY <3>5, <3>6
      <3> QED
        BY <3>2, <3>6, <3>7, <3>8
    <2> QED
      BY <2>1, <2>2
  <1> QED
    BY <1>5, <1>6

(* readSlice gives the slice of the line. *)
LEMMA SliceAnswers ==
  ASSUME NEW store, NEW line, IsLine(line), NEW first, NEW end, Cuts(store, line, first, end),
         NEW a \in 1 .. Len(line), NEW b \in a .. Len(line)
  PROVE  ReadSlice(store, a, b) = SubSeq(line, a, b)
  <1> DEFINE n == Len(line)
             m == Len(store)
             from == Max({1, a})
             to == Min({NumPoints(store), b})
             Ids == {c \in DOMAIN store : /\ store[c].offset + Len(store[c].points) - 1 >= from
                                          /\ store[c].offset <= to}
             c1 == Min(Ids)
             c2 == Max(Ids)
  <1>1. /\ m \in Nat \ {0} /\ DOMAIN store = 1 .. m /\ n \in Nat
        /\ first[1] = 1 /\ end[m] = n
        /\ \A c \in 1 .. m : first[c] \in 1 .. n /\ end[c] \in 1 .. n /\ first[c] <= end[c]
        /\ \A c \in 1 .. m - 1 : first[c + 1] = end[c] + 1
    BY DEF Cuts, IsLine
  <1>2. /\ NumPoints(store) = n
        /\ \A c \in 1 .. m : /\ store[c].offset = first[c]
                             /\ store[c].offset + Len(store[c].points) - 1 = end[c]
    BY NumPointsIs
  <1>3. \A c, d \in 1 .. m : c <= d => first[c] <= first[d] /\ end[c] <= end[d] /\ first[c] <= end[d]
    BY ChunksInOrder
  <1> HIDE DEF n, m
  <1>4. a \in Nat /\ b \in Nat /\ 1 <= a /\ a <= b /\ b <= n
    BY <1>1 DEF n
  <1>5. from = a /\ to = b
    BY <1>1, <1>2, <1>4, Max2, Min2
  <1>6. ReadSlice(store, a, b) =
          SubSeq(Concat(store, c1, c2), from - (store[c1].offset - 1), to - (store[c1].offset - 1))
    <2>1. ~(to < from)
      BY <1>4, <1>5
    <2> QED
      BY <2>1 DEF ReadSlice
  <1> HIDE DEF from, to
  <1>7. \A c : c \in Ids <=> c \in 1 .. m /\ end[c] >= a /\ first[c] <= b
    BY <1>1, <1>2, <1>5
  <1>8. Ids # {}
    <2> DEFINE T == {c \in 1 .. m : end[c] >= a}
               c == Min(T)
    <2>1. m \in T
      BY <1>1, <1>4
    <2>2. c \in T /\ \A d \in T : c <= d
      <3>1. T \in SUBSET (1 .. m) /\ T # {}
        BY <2>1
      <3> HIDE DEF T
      <3> QED
        BY <1>1, <3>1, MinExists
    <2> HIDE DEF c
    <2>3. c \in 1 .. m /\ end[c] >= a /\ first[c] \in Nat
      BY <1>1, <2>2
    <2>4. first[c] <= b
      <3>1. CASE c = 1
        BY <1>1, <1>4, <3>1
      <3>2. CASE c # 1
        <4>1. c - 1 \in 1 .. m - 1 /\ c - 1 \in 1 .. m /\ (c - 1) + 1 = c /\ ~(c <= c - 1)
          BY <1>1, <2>3, <3>2
        <4>2. c - 1 \notin T
          <5> HIDE DEF T
          <5> QED
            BY <2>2, <4>1
        <4>3. first[(c - 1) + 1] = end[c - 1] + 1 /\ end[c - 1] \in Nat
          <5>1. first[(c - 1) + 1] = end[c - 1] + 1
            BY <1>1, <4>1
          <5>2. end[c - 1] \in 1 .. n
            BY <1>1, <4>1
          <5> QED
            BY <5>1, <5>2
        <4>4. ~(end[c - 1] >= a)
          BY <4>1, <4>2
        <4> QED
          BY <1>4, <4>1, <4>3, <4>4
      <3> QED
        BY <3>1, <3>2
    <2> QED
      BY <1>7, <2>3, <2>4
  <1>9. /\ c1 \in Ids /\ \A c \in Ids : c1 <= c
        /\ c2 \in Ids /\ \A c \in Ids : c2 >= c
    <2>1. Ids \in SUBSET (1 .. m)
      BY <1>7
    <2> HIDE DEF Ids
    <2> QED
      BY <1>1, <1>8, <2>1, MinExists, MaxExists
  <1> HIDE DEF c1, c2, Ids
  <1>10. /\ c1 \in 1 .. m /\ c2 \in 1 .. m /\ c1 <= c2
         /\ end[c1] >= a /\ first[c1] <= b /\ end[c2] >= a /\ first[c2] <= b
    BY <1>7, <1>9
  <1> DEFINE p == first[c1]
             q == end[c2]
  <1>11. p \in 1 .. n /\ q \in 1 .. n /\ p <= q
    BY <1>1, <1>3, <1>10
  <1>12. p <= a
    <2>1. CASE c1 = 1
      BY <1>1, <1>4, <2>1
    <2>2. CASE c1 # 1
      <3>1. c1 - 1 \in 1 .. m - 1 /\ c1 - 1 \in 1 .. m /\ (c1 - 1) + 1 = c1 /\ ~(c1 <= c1 - 1)
            /\ c1 - 1 <= c1
        BY <1>1, <1>10, <2>2
      <3>2. /\ first[c1] = end[c1 - 1] + 1 /\ end[c1 - 1] \in Nat /\ first[c1 - 1] \in Nat
            /\ first[c1 - 1] <= first[c1] /\ first[c1] \in Nat
        <4>1. first[(c1 - 1) + 1] = end[c1 - 1] + 1
          BY <1>1, <3>1
        <4>2. end[c1 - 1] \in 1 .. n /\ first[c1 - 1] \in 1 .. n /\ first[c1] \in 1 .. n
          BY <1>1, <1>10, <3>1
        <4>3. first[c1 - 1] <= first[c1]
          BY <1>3, <1>10, <3>1
        <4> QED
          BY <3>1, <4>1, <4>2, <4>3
      <3>3. first[c1 - 1] <= b
        BY <1>4, <1>10, <3>2
      <3>4. ~(end[c1 - 1] >= a)
        BY <1>7, <1>9, <3>1, <3>3
      <3> QED
        BY <1>4, <3>2, <3>4
    <2> QED
      BY <2>1, <2>2
  <1>13. b <= q
    <2>1. CASE c2 = m
      BY <1>1, <1>4, <2>1
    <2>2. CASE c2 # m
      <3>1. c2 \in 1 .. m - 1 /\ c2 + 1 \in 1 .. m /\ ~(c2 >= c2 + 1) /\ c2 <= c2 + 1
        BY <1>1, <1>10, <2>2
      <3>2. /\ first[c2 + 1] = end[c2] + 1 /\ end[c2] \in Nat /\ end[c2 + 1] \in Nat
            /\ end[c2] <= end[c2 + 1] /\ first[c2 + 1] \in Nat
        <4>1. first[c2 + 1] = end[c2] + 1
          BY <1>1, <3>1
        <4>2. end[c2] \in 1 .. n /\ end[c2 + 1] \in 1 .. n /\ first[c2 + 1] \in 1 .. n
          BY <1>1, <1>10, <3>1
        <4>3. end[c2] <= end[c2 + 1]
          BY <1>3, <1>10, <3>1
        <4> QED
          BY <4>1, <4>2, <4>3
      <3>3. end[c2 + 1] >= a
        BY <1>4, <1>10, <3>2
      <3>4. ~(first[c2 + 1] <= b)
        BY <1>7, <1>9, <3>1, <3>3
      <3> QED
        BY <1>4, <3>2, <3>4
    <2> QED
      BY <2>1, <2>2
  <1>14. store[c1].offset = p
    BY <1>2, <1>10
  <1>15. Concat(store, c1, c2) = SubSeq(line, p, q)
    <2>1. c1 \in 1 .. m /\ c2 \in c1 .. m
      BY <1>1, <1>10
    <2> QED
      BY <2>1, ConcatIs DEF m
  <1> HIDE DEF p, q
  <1>16. SubSeq(SubSeq(line, p, q), a - (p - 1), b - (p - 1)) = SubSeq(line, a, b)
    <2> DEFINE i == a - (p - 1)
               j == b - (p - 1)
    <2>1. p \in Nat /\ q \in Nat /\ p \in 1 .. Len(line) /\ q \in 1 .. Len(line)
      BY <1>1, <1>11 DEF n
    <2>2. i \in 1 .. q - p + 1 /\ j \in 1 .. q - p + 1 /\ p + i - 1 = a /\ p + j - 1 = b
      BY <1>4, <1>12, <1>13, <2>1
    <2> HIDE DEF i, j
    <2>3. line \in Seq(Sample)
      BY DEF IsLine
    <2>4. SubSeq(SubSeq(line, p, q), i, j) = SubSeq(line, p + i - 1, p + j - 1)
      BY <2>1, <2>2, <2>3, SubSeqOfSubSeq
    <2> QED
      BY <2>2, <2>4 DEF i, j
  <1> QED
    BY <1>5, <1>6, <1>14, <1>15, <1>16

-----------------------------------------------------------------------------
(* The inductive invariant. *)

View == {lim \in Int \X Int : lim[1] <= lim[2]}

Types ==
  /\ data \in Datasets /\ axes \in Widths /\ pw \in Widths /\ method \in {"minmax", "lttb"}
  /\ mode \in {"preserve", "follow", "reset"}
  /\ xlim \in View /\ fullXLim \in View /\ cachedXLim \in View
  /\ drawn.by \in {"render", "update", "refine"}
  /\ drawn.lim \in View /\ drawn.pw \in Widths
  /\ drawn.by = "refine" => ~IsStatic(data)

(* CachedXLim follows the limits, unless a timer will see to it or it was  *)
(* left behind.                                                            *)
CachedLimits == xlim = cachedXLim \/ deferred \/ behind # "no"

(* The line is drawn for PixelWidth and the cached limits, or refined. *)
DrawnLimits ==
  \/ drawn.by = "refine"
  \/ /\ drawn.pw = pw
     /\ drawn.lim = cachedXLim \/ IsStatic(data) \/ behind # "no"

(* levels is a pyramid over line as far as it goes. *)
Rung(line, levels, k) ==
  IF k > 1 THEN Reduced(levels[k - 1])
  ELSE IF OnDisk(line) THEN StorePyramid(line) ELSE Reduced(line)
IsPyramid(line, levels) ==
  /\ Len(levels) \in Nat /\ DOMAIN levels = 1 .. Len(levels)
  /\ \A k \in 1 .. Len(levels) : levels[k] = Rung(line, levels, k)

(* What render shows. *)
Preview(line) ==
  IF IsStatic(line) THEN line
  ELSE IF OnDisk(line) THEN Downsample(BuildPyramid(line, <<>>, 1)[1], HasGap(line), method, pw)
  ELSE StridePreview(line, pw)

(* The line on screen is the one the view it is drawn for calls for. *)
DrawnLine ==
  /\ drawn.by = "update" => /\ shown = Lines(data, method, drawn.lim, pw, pyramid).points
                            /\ drawn.level = Lines(data, method, drawn.lim, pw, pyramid).level
  /\ drawn.by = "refine" => /\ shown = Refined(data, BuildPyramid(data, pyramid, 1), drawn.pw)
                            /\ drawn.level = IF OnDisk(data) THEN 1 ELSE 0
  /\ drawn.by = "render" => shown = Preview(data)

(* The markers are the ones the cached view calls for. *)
MarkedView ==
  visible /\ marked.by \in {"update", "refine"} =>
    \E lim \in View :
      /\ cachedView = <<lim, pw>>
      /\ lim = cachedXLim \/ behind # "no"
      /\ marked.by = "refine" => ~IsStatic(data)
      /\ markers = Markers(data, IF marked.by = "refine"
                                 THEN Refined(data, BuildPyramid(data, pyramid, 1), marked.pw)
                                 ELSE Lines(data, method, lim, pw, pyramid).points, lim, pw)

Inv ==
  /\ Types
  /\ CachedLimits
  /\ DrawnLimits
  /\ IsPyramid(data, pyramid)
  /\ DrawnLine
  /\ MarkedView

-----------------------------------------------------------------------------
(* Pyramids. *)

(* Building on a pyramid gives a pyramid, of the height asked for at least. *)
LEMMA BuildIsPyramid ==
  ASSUME NEW line, NEW levels, IsPyramid(line, levels), NEW top \in Nat
  PROVE  /\ IsPyramid(line, BuildPyramid(line, levels, top))
         /\ top <= Len(BuildPyramid(line, levels, top))
  <1> DEFINE n == Len(levels)
             base == IF OnDisk(line) THEN StorePyramid(line) ELSE Reduced(line)
             Level(g, k) == IF k <= n THEN levels[k] ELSE IF k > 1 THEN Reduced(g[k - 1]) ELSE base
             Loop(t, g) == g = [k \in 1 .. t |-> Level(g, k)]
             level == CHOOSE g : Loop(top, g)
             built == BuildPyramid(line, levels, top)
             height == Max({top, n})
  <1>1. /\ n \in Nat /\ DOMAIN levels = 1 .. n
        /\ \A k \in 1 .. n : levels[k] = IF k > 1 THEN Reduced(levels[k - 1]) ELSE base
    BY DEF IsPyramid, Rung
  <1>2. built = [k \in 1 .. height |-> IF k <= top THEN level[k] ELSE levels[k]]
    BY DEF BuildPyramid
  <1> HIDE DEF n, base, level, built
  <1>3. \E g : Loop(top, g)
    <2> DEFINE U == {t \in 0 .. top : \E g : Loop(t, g)}
    <2>1. 0 \in U
      <3> DEFINE g == [k \in 1 .. 0 |-> base]
      <3>1. Loop(0, g)
        OBVIOUS
      <3> HIDE DEF g, Loop
      <3> QED
        BY <3>1
    <2>2. ASSUME NEW t \in 1 .. top, t - 1 \in U PROVE t \in U
      <3>1. PICK g : Loop(t - 1, g)
        BY <2>2
      <3> DEFINE h == [k \in 1 .. t |-> IF k = t THEN Level(g, t) ELSE g[k]]
      <3>2. \A k \in 1 .. t : k = t \/ k \in 1 .. t - 1
        OBVIOUS
      <3>3. \A k \in 1 .. t - 1 : g[k] = Level(g, k)
        BY <3>1
      <3>4. \A k \in 1 .. t : k > 1 => k - 1 \in 1 .. t - 1 /\ k - 1 # t
        OBVIOUS
      <3>5. \A k \in 1 .. t - 1 : h[k] = g[k]
        OBVIOUS
      <3>6. h[t] = Level(g, t)
        OBVIOUS
      <3>7. \A k \in 1 .. t : Level(h, k) = Level(g, k)
        <4> HIDE DEF h
        <4> QED
          BY <3>4, <3>5
      <3>8. \A k \in 1 .. t : h[k] = Level(h, k)
        <4> HIDE DEF h, Level
        <4> QED
          BY <3>2, <3>3, <3>5, <3>6, <3>7
      <3>9. h = [k \in 1 .. t |-> h[k]]
        OBVIOUS
      <3>10. Loop(t, h)
        <4> HIDE DEF h, Level
        <4> QED
          BY <3>8, <3>9
      <3> HIDE DEF h, Loop
      <3> QED
        BY <3>10
    <2>3. 0 .. top \subseteq U
      <3> HIDE DEF U
      <3> QED
        BY <2>1, <2>2, UpToInduction
    <2> QED
      BY <2>3
  <1>4. \A k \in 1 .. top : level[k] = Level(level, k)
    <2>1. Loop(top, level)
      <3> HIDE DEF Loop
      <3> QED
        BY <1>3 DEF level
    <2> QED
      BY <2>1
  <1>5. height \in Nat /\ top <= height /\ n <= height /\ (height = top \/ height = n)
    <2>1. top \in Int /\ n \in Int
      BY <1>1
    <2> QED
      BY <1>1, <2>1, Max2
  <1> HIDE DEF height
  <1>6. Len(built) = height /\ DOMAIN built = 1 .. height
    BY <1>2, <1>5
  <1>7. \A k \in 1 .. n : built[k] = levels[k]
    <2> SUFFICES ASSUME NEW k \in 1 .. n PROVE built[k] = levels[k]
      OBVIOUS
    <2>1. k \in 1 .. height /\ k <= n /\ (k <= top => k \in 1 .. top)
      BY <1>1, <1>5
    <2>2. k <= top => level[k] = levels[k]
      BY <1>4, <2>1
    <2> QED
      BY <1>2, <2>1, <2>2
  <1>8. ASSUME NEW k \in 1 .. height
        PROVE  built[k] = IF k > 1 THEN Reduced(built[k - 1]) ELSE base
    <2>1. CASE k <= n
      <3>1. k \in 1 .. n /\ (k > 1 => k - 1 \in 1 .. n)
        BY <1>1, <2>1
      <3> QED
        BY <1>1, <1>7, <3>1
    <2>2. CASE ~(k <= n)
      <3>1. k \in 1 .. top /\ k <= top /\ (k > 1 => k - 1 \in 1 .. top /\ k - 1 <= top /\ k - 1 \in 1 .. height)
        BY <1>1, <1>5, <2>2
      <3>2. built[k] = level[k] /\ (k > 1 => built[k - 1] = level[k - 1])
        BY <1>2, <3>1
      <3>3. level[k] = IF k > 1 THEN Reduced(level[k - 1]) ELSE base
        BY <1>4, <2>2, <3>1
      <3> QED
        BY <3>2, <3>3
    <2> QED
      BY <2>1, <2>2
  <1>9. IsPyramid(line, built)
    BY <1>5, <1>6, <1>8 DEF IsPyramid, Rung, base
  <1> QED
    BY <1>5, <1>6, <1>9 DEF built

(* Two pyramids over a line have the same levels, as far as both go. *)
LEMMA PyramidsAgree ==
  ASSUME NEW line, NEW p, NEW q, IsPyramid(line, p), IsPyramid(line, q),
         NEW k \in 1 .. Len(p), k <= Len(q)
  PROVE  p[k] = q[k]
  <1> DEFINE U == {i \in 0 .. k : i = 0 \/ p[i] = q[i]}
  <1>1. Len(p) \in Nat /\ Len(q) \in Nat /\ k \in Nat
    BY DEF IsPyramid
  <1>2. /\ \A i \in 1 .. Len(p) : p[i] = Rung(line, p, i)
        /\ \A i \in 1 .. Len(q) : q[i] = Rung(line, q, i)
    BY DEF IsPyramid
  <1>3. 0 \in U
    BY <1>1
  <1>4. ASSUME NEW i \in 1 .. k, i - 1 \in U PROVE i \in U
    <2>1. i \in 1 .. Len(p) /\ i \in 1 .. Len(q) /\ i \in 0 .. k /\ (i > 1 => i - 1 # 0)
      BY <1>1
    <2>2. i > 1 => p[i - 1] = q[i - 1]
      BY <1>4, <2>1
    <2>3. Rung(line, p, i) = Rung(line, q, i)
      BY <2>2 DEF Rung
    <2> QED
      BY <1>2, <2>1, <2>3
  <1>5. k \in 0 .. k /\ k # 0
    BY <1>1
  <1>6. 0 .. k \subseteq U
    <2> HIDE DEF U
    <2> QED
      BY <1>1, <1>3, <1>4, UpToInduction
  <1> QED
    BY <1>5, <1>6

LEMMA NoPyramid ==
  ASSUME NEW line PROVE IsPyramid(line, <<>>)
  BY DEF IsPyramid

(* The level a pyramid is asked for is a number. *)
LEMMA PyramidLevelType ==
  ASSUME NEW nVis \in Nat, NEW nTotal, NEW need \in Nat \ {0}
  PROVE  PyramidLevel(nVis, nTotal, need) \in Nat
  <1> DEFINE q == nVis \div need
             S == {0} \union {k \in 1 .. q : /\ need * PyramidReduction^(k - 1) <= nVis
                                             /\ need * PyramidReduction^(k - 1) < nTotal}
  <1>1. q \in Nat
    OBVIOUS
  <1> HIDE DEF q
  <1>2. S \in SUBSET (0 .. q) /\ S # {}
    BY <1>1
  <1>3. PyramidLevel(nVis, nTotal, need) = Max(S)
    BY DEF PyramidLevel, q
  <1> HIDE DEF S
  <1>4. Max(S) \in S
    BY <1>1, <1>2, MaxExists
  <1>5. 0 .. q \subseteq Nat
    BY <1>1
  <1>6. S \subseteq Nat
    BY <1>2, <1>5
  <1>7. Max(S) \in Nat
    BY <1>4, <1>6
  <1> QED
    BY <1>3, <1>7

-----------------------------------------------------------------------------
(* What updateLines and refineLines show. *)

LEMMA VisibleType ==
  ASSUME NEW line, IsLine(line), NEW lim \in View
  PROVE  Len(Visible(line, lim)) \in Nat
  <1>1. lim \in Int \X Int /\ lim[1] <= lim[2]
    BY DEF View
  <1>2. Len(Window(line, lim)) \in Nat
    BY <1>1, WindowType
  <1>3. PICK first, end : Cuts(Store(line), line, first, end)
    BY StoreCuts
  <1>4. GetRange(Store(line), lim) = <<>> \/ GetRange(Store(line), lim) = Window(line, lim)
    BY <1>1, <1>3, RangeAnswers
  <1>5. Len(<<>>) = 0
    OBVIOUS
  <1> QED
    BY <1>2, <1>4, <1>5 DEF Visible

(* The level a view is drawn from. *)
LevelFor(line, lim, width) ==
  IF Len(Visible(line, lim)) <= MinPoints THEN 0
  ELSE PyramidLevel(Len(Visible(line, lim)), Len(line), 2 * width * PyramidReduction)

LEMMA LevelForType ==
  ASSUME NEW line, IsLine(line), NEW lim \in View, NEW width \in Nat \ {0}
  PROVE  LevelFor(line, lim, width) \in Nat
  <1>1. Len(Visible(line, lim)) \in Nat
    BY VisibleType
  <1>2. 2 * width * PyramidReduction \in Nat \ {0}
    <2>1. PyramidReduction \in Nat \ {0}
      BY DataStoreAssumption
    <2>2. \A a, b \in Nat \ {0} : a * b \in Nat \ {0}
      <3> SUFFICES ASSUME NEW a \in Nat \ {0}, NEW b \in Nat \ {0} PROVE a * b \in Nat \ {0}
        OBVIOUS
      <3>1. a * b >= b
        <4>1. a - 1 \in Nat /\ a * b = (a - 1) * b + b /\ (a - 1) * b \in Nat
          OBVIOUS
        <4> QED
          BY <4>1
      <3>2. a * b \in Int
        OBVIOUS
      <3> QED
        BY <3>1, <3>2
    <2>3. 2 * width \in Nat \ {0}
      OBVIOUS
    <2> QED
      BY <2>1, <2>2, <2>3
  <1> QED
    BY <1>1, <1>2, PyramidLevelType DEF LevelFor

(* updateLines shows the same, whatever part of the pyramid exists already, *)
(* and leaves a pyramid.                                                    *)
LEMMA LinesOfPyramid ==
  ASSUME NEW line, IsLine(line), NEW meth, NEW lim \in View, NEW width \in Nat \ {0},
         NEW p, NEW q, IsPyramid(line, p), IsPyramid(line, q)
  PROVE  /\ Lines(line, meth, lim, width, p).points = Lines(line, meth, lim, width, q).points
         /\ Lines(line, meth, lim, width, p).level = Lines(line, meth, lim, width, q).level
         /\ IsPyramid(line, Lines(line, meth, lim, width, p).pyramid)
  <1> DEFINE vis == Visible(line, lim)
             level == LevelFor(line, lim, width)
             Built(r) == IF level = 0 THEN r ELSE BuildPyramid(line, r, level)
             Fit(source) == IF Len(source) <= MinPoints THEN source
                            ELSE Downsample(source, HasGap(line), meth, width)
  <1>1. CASE IsStatic(line)
    BY <1>1 DEF Lines
  <1>2. CASE ~IsStatic(line)
    <2>1. ASSUME NEW r
          PROVE  Lines(line, meth, lim, width, r) =
                   [points |-> Fit(IF level = 0 THEN vis ELSE Window(Built(r)[level], lim)),
                    level |-> level, pyramid |-> Built(r)]
      BY <1>2 DEF Lines, LevelFor
    <2>2. level \in Nat
      BY LevelForType
    <2> HIDE DEF vis, level, Fit
    <2>3. IsPyramid(line, Built(p)) /\ IsPyramid(line, Built(q))
      BY <2>2, BuildIsPyramid
    <2>4. level # 0 => Built(p)[level] = Built(q)[level]
      <3> SUFFICES ASSUME level # 0 PROVE Built(p)[level] = Built(q)[level]
        OBVIOUS
      <3>1. level <= Len(Built(p)) /\ level <= Len(Built(q))
        BY <2>2, BuildIsPyramid
      <3> HIDE DEF Built
      <3>2. Len(Built(p)) \in Nat /\ level \in 1 .. Len(Built(p))
        BY <2>2, <2>3, <3>1 DEF IsPyramid
      <3> QED
        BY <2>3, <3>1, <3>2, PyramidsAgree
    <2> HIDE DEF Built
    <2> QED
      BY <2>1, <2>3, <2>4
  <1> QED
    BY <1>1, <1>2

(* A line of few samples is shown as it is. *)
LEMMA StaticLines ==
  ASSUME NEW line, IsStatic(line), NEW meth, NEW lim, NEW width, NEW p
  PROVE  Lines(line, meth, lim, width, p).points = line
  BY DEF Lines

(* refineLines shows the same from every pyramid that has a level. *)
LEMMA RefinedOfPyramid ==
  ASSUME NEW line, NEW p, NEW q, IsPyramid(line, p), IsPyramid(line, q), NEW width
  PROVE  Refined(line, BuildPyramid(line, p, 1), width) = Refined(line, BuildPyramid(line, q, 1), width)
  <1> DEFINE p1 == BuildPyramid(line, p, 1)
             q1 == BuildPyramid(line, q, 1)
  <1>1. IsPyramid(line, p1) /\ IsPyramid(line, q1) /\ 1 <= Len(p1) /\ 1 <= Len(q1)
    BY BuildIsPyramid
  <1> HIDE DEF p1, q1
  <1>2. 1 \in 1 .. Len(p1)
    BY <1>1 DEF IsPyramid
  <1>3. p1[1] = q1[1]
    BY <1>1, <1>2, PyramidsAgree
  <1>4. Refined(line, p1, width) = Refined(line, q1, width)
    BY <1>3 DEF Refined
  <1> QED
    BY <1>4 DEF p1, q1

LEMMA RefinedOnDisk ==
  ASSUME NEW line, NEW p, IsPyramid(line, p), NEW width
  PROVE  LET r == IF OnDisk(line) THEN BuildPyramid(line, p, 1) ELSE p
         IN  /\ IsPyramid(line, r)
             /\ Refined(line, r, width) = Refined(line, BuildPyramid(line, r, 1), width)
  <1>1. CASE OnDisk(line)
    <2>1. IsPyramid(line, BuildPyramid(line, p, 1))
      BY BuildIsPyramid
    <2>2. Refined(line, BuildPyramid(line, p, 1), width)
            = Refined(line, BuildPyramid(line, BuildPyramid(line, p, 1), 1), width)
      BY <2>1, RefinedOfPyramid
    <2> QED
      BY <1>1, <2>1, <2>2
  <1>2. CASE ~OnDisk(line)
    BY <1>2 DEF Refined
  <1> QED
    BY <1>1, <1>2

-----------------------------------------------------------------------------
(* The steps the callbacks share. *)

LEMMA ExtentIsView ==
  ASSUME NEW line \in Datasets PROVE Extent(line) \in View
  <1>1. IsLine(line)
    BY DatasetsAreLines
  <1>2. 1 \in 1 .. Len(line) /\ Len(line) \in 1 .. Len(line) /\ 1 <= Len(line)
    BY <1>1 DEF IsLine
  <1>3. line[1][1] \in Int /\ line[Len(line)][1] \in Int /\ line[1][1] <= line[Len(line)][1]
    BY <1>1, <1>2 DEF IsLine
  <1> QED
    BY <1>3 DEF Extent, Last, View

LEMMA LimitsAreViews ==
  Limits \subseteq View /\ Widths \subseteq Nat \ {0}
  BY PlotAssumption DEF View

LEMMA FollowIsView ==
  ASSUME NEW line \in Datasets, xlim \in View PROVE FollowLimits(line) \in View
  <1> DEFINE width == xlim[2] - xlim[1]
             pad == (2 * width) \div 100
             last == Last(line)[1]
  <1>1. width \in Nat
    BY DEF View
  <1>2. pad \in Int
    <2> HIDE DEF width
    <2> QED
      BY <1>1
  <1>3. last \in Int
    <2>1. IsLine(line)
      BY DatasetsAreLines
    <2>2. Len(line) \in 1 .. Len(line)
      BY <2>1 DEF IsLine
    <2> QED
      BY <2>1, <2>2 DEF IsLine, Last
  <1>4. FollowLimits(line) = <<last - width + pad, last + pad>>
    BY DEF FollowLimits
  <1> HIDE DEF width, pad, last
  <1>5. /\ last - width + pad \in Int /\ last + pad \in Int /\ last - width + pad <= last + pad
    BY <1>1, <1>2, <1>3
  <1> QED
    BY <1>4, <1>5 DEF View

(* A callback that ends in updateViolations leaves the markers of the view *)
(* or keeps those that the cache says are.                                 *)
LEMMA MarkingStep ==
  ASSUME Inv, Types', IsPyramid(data, pyramid)', DrawnLine', thr' = thr, method' = method,
         xlim' = cachedXLim' \/ behind' # "no",
         NEW cache, UpdateViolations(cache),
         cache = <<>> \/ (cache = cachedView /\ data' = data /\ visible' = visible)
  PROVE  MarkedView'
  <1> SUFFICES ASSUME visible', marked'.by \in {"update", "refine"}
               PROVE  \E lim \in View :
                        /\ cachedView' = <<lim, pw'>>
                        /\ lim = cachedXLim' \/ behind' # "no"
                        /\ marked'.by = "refine" => ~IsStatic(data')
                        /\ markers' = Markers(data, IF marked.by = "refine"
                                         THEN Refined(data, BuildPyramid(data, pyramid, 1), marked.pw)
                                         ELSE Lines(data, method, lim, pw, pyramid).points,
                                         lim, pw)'
    BY DEF MarkedView
  <1>1. xlim' \in View /\ pw' \in Widths /\ data' \in Datasets
    BY DEF Types
  <1>2. \A points, lim : Markers(data, points, lim, pw)'
                           = Markers(data', points, lim, pw')
    BY DEF Markers, Threshold
  <1>3. CASE cache # <<xlim', pw'>>
    <2>1. Recompute
      BY <1>3 DEF UpdateViolations
    <2>2. /\ markers' = Markers(data', shown', xlim', pw')
          /\ cachedView' = <<xlim', pw'>>
          /\ marked'.by = IF drawn'.by = "update" /\ drawn'.lim # xlim' /\ ~IsStatic(data')
                          THEN "other" ELSE drawn'.by
          /\ marked'.pw = drawn'.pw
      BY <2>1 DEF Recompute
    <2>3. drawn'.by = marked'.by /\ ~(drawn'.by = "update" /\ drawn'.lim # xlim' /\ ~IsStatic(data'))
      BY <2>2
    <2>4. CASE marked'.by = "refine"
      <3>1. shown' = Refined(data, BuildPyramid(data, pyramid, 1), marked.pw)' /\ ~IsStatic(data')
        BY <2>2, <2>3, <2>4 DEF DrawnLine, Types
      <3> QED
        BY <1>1, <2>2, <2>4, <3>1 DEF Markers, Threshold
    <2>5. CASE marked'.by = "update"
      <3>1. shown' = Lines(data, method, drawn.lim, pw, pyramid)'.points
        BY <2>3, <2>5 DEF DrawnLine
      <3>2. CASE drawn'.lim = xlim'
        <4>1. shown' = Lines(data', method', xlim', pw', pyramid').points
          BY <3>1, <3>2
        <4> QED
          BY <1>1, <2>2, <2>5, <4>1 DEF Markers, Threshold
      <3>3. CASE IsStatic(data')
        <4>1. shown' = data'
          BY <3>1, <3>3, StaticLines
        <4>2. Lines(data', method', xlim', pw', pyramid').points = data'
          BY <3>3, StaticLines
        <4> QED
          BY <1>1, <2>2, <2>5, <4>1, <4>2 DEF Markers, Threshold
      <3> QED
        BY <2>3, <2>5, <3>2, <3>3
    <2> QED
      BY <2>4, <2>5
  <1>4. CASE cache = <<xlim', pw'>>
    <2>1. cachedView' = cache /\ markers' = markers /\ marked' = marked
      BY <1>4 DEF UpdateViolations
    <2>2. cache = cachedView /\ data' = data /\ visible
      BY <1>4
    <2>3. PICK lim \in View :
            /\ cachedView = <<lim, pw>>
            /\ marked.by = "refine" => ~IsStatic(data)
            /\ markers = Markers(data, IF marked.by = "refine"
                                       THEN Refined(data, BuildPyramid(data, pyramid, 1), marked.pw)
                                       ELSE Lines(data, method, lim, pw, pyramid).points, lim, pw)
      BY <2>1, <2>2 DEF Inv, MarkedView
    <2>4. lim = xlim' /\ pw = pw'
      BY <1>4, <2>2, <2>3
    <2>5. /\ IsLine(data) /\ pw \in Nat \ {0} /\ IsPyramid(data, pyramid) /\ IsPyramid(data, pyramid')
      BY <1>1, <2>2, <2>4, DatasetsAreLines, LimitsAreViews DEF Inv
    <2>6. Lines(data, method, lim, pw, pyramid).points = Lines(data, method, lim, pw, pyramid').points
      BY <2>5, LinesOfPyramid
    <2>7. Refined(data, BuildPyramid(data, pyramid, 1), marked.pw)
            = Refined(data, BuildPyramid(data, pyramid', 1), marked.pw)
      BY <2>5, RefinedOfPyramid
    <2>8. Refined(data, BuildPyramid(data, pyramid', 1), marked.pw)
            = Refined(data, BuildPyramid(data, pyramid, 1), marked.pw)'
      BY <2>1, <2>2, <2>4 DEF Refined
    <2> DEFINE points == IF marked.by = "refine" THEN Refined(data, BuildPyramid(data, pyramid, 1), marked.pw)
                         ELSE Lines(data, method, lim, pw, pyramid).points
    <2>9. points = (IF marked.by = "refine"
                    THEN Refined(data, BuildPyramid(data, pyramid, 1), marked.pw)
                    ELSE Lines(data, method, lim, pw, pyramid).points)'
      BY <2>1, <2>2, <2>4, <2>6, <2>7, <2>8
    <2>10. markers = Markers(data, points, lim, pw)
      BY <2>3
    <2> HIDE DEF points
    <2>11. Markers(data, points, lim, pw) = Markers(data', points, lim, pw')
      BY <2>2, <2>4
    <2> QED
      BY <2>1, <2>2, <2>3, <2>4, <2>9, <2>10, <2>11 DEF Markers, Threshold
  <1> QED
    BY <1>3, <1>4

(* A callback that draws the line for the limits in force and then the     *)
(* markers.                                                                *)
LEMMA DrawingStep ==
  ASSUME Inv, thr' = thr, method' = method, mode' \in {"preserve", "follow", "reset"},
         data' \in Datasets, axes' \in Widths, pw' \in Widths, xlim' \in View, fullXLim' \in View, cachedXLim' \in View,
         xlim' = cachedXLim' \/ behind' # "no",
         NEW levels, IsPyramid(data', levels), UpdateLines(levels),
         NEW cache, UpdateViolations(cache),
         cache = <<>> \/ (cache = cachedView /\ data' = data /\ visible' = visible)
  PROVE  Inv'
  <1>1. PICK new : /\ new = Lines(data', method, xlim', pw', levels)
                   /\ shown' = new.points
                   /\ pyramid' = new.pyramid
                   /\ drawn' = [by |-> "update", lim |-> xlim', pw |-> pw', level |-> new.level]
    BY DEF UpdateLines
  <1>2. Types'
    BY <1>1 DEF Inv, Types
  <1>3. CachedLimits'
    BY DEF CachedLimits
  <1>4. DrawnLimits'
    BY <1>1 DEF DrawnLimits
  <1>5. IsLine(data') /\ pw' \in Nat \ {0}
    BY DatasetsAreLines, LimitsAreViews
  <1>6. IsPyramid(data', pyramid')
    BY <1>1, <1>5, LinesOfPyramid
  <1>7. IsPyramid(data, pyramid)'
    BY <1>6 DEF IsPyramid, Rung
  <1>8. DrawnLine'
    <2>1. /\ Lines(data', method, xlim', pw', levels).points
               = Lines(data', method, xlim', pw', pyramid').points
          /\ Lines(data', method, xlim', pw', levels).level
               = Lines(data', method, xlim', pw', pyramid').level
      BY <1>5, <1>6, LinesOfPyramid
    <2>2. drawn'.by = "update" /\ drawn'.lim = xlim'
      BY <1>1
    <2>3. /\ shown' = Lines(data', method', drawn'.lim, pw', pyramid').points
          /\ drawn'.level = Lines(data', method', drawn'.lim, pw', pyramid').level
      BY <1>1, <2>1, <2>2
    <2> QED
      BY <2>2, <2>3 DEF DrawnLine
  <1>9. MarkedView'
    BY <1>2, <1>7, <1>8, MarkingStep
  <1> QED
    BY <1>2, <1>3, <1>4, <1>7, <1>8, <1>9 DEF Inv

LEMMA KeptLine ==
  ASSUME Inv, UNCHANGED <<data, method, pw, pyramid, shown, drawn>>
  PROVE  IsPyramid(data, pyramid)' /\ DrawnLine'
  <1>1. IsPyramid(data, pyramid)'
    BY DEF Inv, IsPyramid, Rung
  <1>2. DrawnLine'
    <2>1. Refined(data, BuildPyramid(data, pyramid, 1), drawn.pw)'
            = Refined(data, BuildPyramid(data, pyramid, 1), drawn.pw)
      BY DEF Refined
    <2>2. Lines(data, method, drawn.lim, pw, pyramid)' = Lines(data, method, drawn.lim, pw, pyramid)
      OBVIOUS
    <2>3. Preview(data)' = Preview(data)
      BY DEF Preview
    <2> QED
      BY <2>1, <2>2, <2>3 DEF Inv, DrawnLine
  <1> QED
    BY <1>1, <1>2

(* A callback that leaves line and markers alone. *)
LEMMA IdleStep ==
  ASSUME Inv,
         UNCHANGED <<data, method, thr, fullXLim, pw, cachedXLim, pyramid, shown, visible,
                     markers, cachedView, drawn, marked>>,
         mode' \in {"preserve", "follow", "reset"}, axes' \in Widths,
         xlim' \in View, CachedLimits', behind # "no" => behind' # "no"
  PROVE  Inv'
  <1>1. Types'
    BY DEF Inv, Types
  <1>2. DrawnLimits'
    BY DEF Inv, DrawnLimits
  <1>3. IsPyramid(data, pyramid)' /\ DrawnLine'
    BY KeptLine
  <1>4. MarkedView'
    <2> SUFFICES ASSUME visible', marked'.by \in {"update", "refine"}
                 PROVE  \E lim \in View :
                          /\ cachedView' = <<lim, pw'>>
                          /\ lim = cachedXLim' \/ behind' # "no"
                          /\ marked'.by = "refine" => ~IsStatic(data')
                          /\ markers' = Markers(data, IF marked.by = "refine"
                                           THEN Refined(data, BuildPyramid(data, pyramid, 1), marked.pw)
                                           ELSE Lines(data, method, lim, pw, pyramid).points,
                                           lim, pw)'
      BY DEF MarkedView
    <2>1. PICK lim \in View :
            /\ cachedView = <<lim, pw>>
            /\ lim = cachedXLim \/ behind # "no"
            /\ marked.by = "refine" => ~IsStatic(data)
            /\ markers = Markers(data, IF marked.by = "refine"
                                       THEN Refined(data, BuildPyramid(data, pyramid, 1), marked.pw)
                                       ELSE Lines(data, method, lim, pw, pyramid).points, lim, pw)
      BY DEF Inv, MarkedView
    <2>2. Refined(data, BuildPyramid(data, pyramid, 1), marked.pw)'
            = Refined(data, BuildPyramid(data, pyramid, 1), marked.pw)
      BY DEF Refined
    <2>3. (IF marked.by = "refine"
           THEN Refined(data, BuildPyramid(data, pyramid, 1), marked.pw)
           ELSE Lines(data, method, lim, pw, pyramid).points)'
            = IF marked.by = "refine"
              THEN Refined(data, BuildPyramid(data, pyramid, 1), marked.pw)
              ELSE Lines(data, method, lim, pw, pyramid).points
      BY <2>2
    <2> QED
      BY <2>1, <2>3 DEF Markers, Threshold
  <1> QED
    BY <1>1, <1>2, <1>3, <1>4 DEF Inv

-----------------------------------------------------------------------------
(* Every step keeps the invariant. *)

LEMMA InitInv ==
  Init => Inv
  <1> SUFFICES ASSUME Init PROVE Inv
    OBVIOUS
  <1>1. /\ data \in Datasets /\ axes \in Widths /\ pw \in Widths
        /\ method \in {"minmax", "lttb"} /\ mode = "preserve"
        /\ fullXLim = Extent(data) /\ xlim = fullXLim /\ cachedXLim = fullXLim
        /\ pyramid = IF OnDisk(data) THEN BuildPyramid(data, <<>>, 1) ELSE <<>>
        /\ drawn = [by |-> "render", lim |-> xlim, pw |-> pw, level |-> 0]
        /\ marked.by = "render" /\ shown = Preview(data)
    BY DEF Init, Preview
  <1>2. Types
    BY <1>1, ExtentIsView DEF Types
  <1>3. IsPyramid(data, pyramid)
    <2>1. IsPyramid(data, <<>>)
      BY NoPyramid
    <2>2. IsPyramid(data, BuildPyramid(data, <<>>, 1))
      BY <2>1, BuildIsPyramid
    <2> QED
      BY <1>1, <2>1, <2>2
  <1>4. CachedLimits /\ DrawnLimits /\ DrawnLine /\ MarkedView
    BY <1>1 DEF CachedLimits, DrawnLimits, DrawnLine, MarkedView
  <1> QED
    BY <1>2, <1>3, <1>4 DEF Inv

(* An action that has nothing to do but to set what IdleStep leaves open, or *)
(* that draws and marks.                                                     *)
LEMMA ZoomInv ==
  ASSUME Inv, NEW lim \in Limits, Zoom(lim) PROVE Inv'
  <1>0. mode' \in {"preserve", "follow", "reset"} /\ axes' \in Widths
    BY DEF Inv, Types, Zoom
  <1>1. lim \in View /\ xlim' = lim
    BY LimitsAreViews DEF Zoom
  <1>2. CASE lim = cachedXLim
    <2>1. UNCHANGED <<data, method, thr, fullXLim, pw, cachedXLim, pyramid, shown, visible,
                      markers, cachedView, drawn, marked, behind>>
      BY <1>2 DEF Zoom, Step
    <2>2. CachedLimits'
      BY <1>1, <1>2, <2>1 DEF CachedLimits
    <2> QED
      BY <1>0, <1>1, <2>1, <2>2, IdleStep
  <1>3. CASE lim # cachedXLim
    <2>1. /\ cachedXLim' = lim /\ UpdateLines(pyramid) /\ UpdateViolations(cachedView)
          /\ UNCHANGED <<data, pw, visible, method, thr, fullXLim>>
      BY <1>3 DEF Zoom, Step
    <2>2. /\ data' \in Datasets /\ pw' \in Widths /\ fullXLim' \in View
          /\ IsPyramid(data', pyramid)
      BY <2>1 DEF Inv, Types
    <2> QED
      BY <1>0, <1>1, <2>1, <2>2, DrawingStep
  <1> QED
    BY <1>2, <1>3

LEMMA QuietInv ==
  ASSUME Inv, NEW lim \in Limits, SetXLimQuiet(lim) PROVE Inv'
  <1>0. mode' \in {"preserve", "follow", "reset"} /\ axes' \in Widths
    BY DEF Inv, Types, SetXLimQuiet
  <1>1. /\ UNCHANGED <<data, method, thr, fullXLim, pw, cachedXLim, pyramid, shown, visible,
                       markers, cachedView, drawn, marked>>
        /\ xlim' = lim /\ behind' = "quiet"
    BY DEF SetXLimQuiet, Step
  <1>2. xlim' \in View /\ CachedLimits' /\ behind' # "no"
    BY <1>1, LimitsAreViews DEF CachedLimits
  <1> QED
    BY <1>0, <1>1, <1>2, IdleStep

LEMMA HomeInv ==
  ASSUME Inv, Home PROVE Inv'
  <1>0. mode' \in {"preserve", "follow", "reset"} /\ axes' \in Widths
    BY DEF Inv, Types, Home
  <1>1. /\ UNCHANGED <<data, method, thr, fullXLim, pw, cachedXLim, pyramid, shown, visible,
                       markers, cachedView, drawn, marked, behind>>
        /\ xlim' = fullXLim /\ deferred'
    BY DEF Home, Step
  <1>2. xlim' \in View /\ CachedLimits'
    BY <1>1 DEF CachedLimits, Inv, Types
  <1> QED
    BY <1>0, <1>1, <1>2, IdleStep

LEMMA DeferredCheckInv ==
  ASSUME Inv, DeferredCheck PROVE Inv'
  <1>0. mode' \in {"preserve", "follow", "reset"} /\ axes' \in Widths
    BY DEF Inv, Types, DeferredCheck
  <1>1. UNCHANGED <<data, method, thr, xlim, fullXLim, pw, visible>>
    BY DEF DeferredCheck
  <1>2. xlim \in View /\ fullXLim \in View /\ cachedXLim \in View
    BY DEF Inv, Types
  <1>3. CASE xlim = cachedXLim
    <2>1. UNCHANGED <<cachedXLim, pyramid, shown, markers, cachedView, drawn, marked, behind>>
      BY <1>3 DEF DeferredCheck
    <2>2. CachedLimits'
      BY <1>1, <1>3, <2>1 DEF CachedLimits
    <2> QED
      BY <1>0, <1>1, <1>2, <2>1, <2>2, IdleStep
  <1>4. CASE xlim # cachedXLim
    <2>1. cachedXLim' = xlim /\ UpdateLines(pyramid) /\ UpdateViolations(cachedView)
      BY <1>4 DEF DeferredCheck
    <2>2. /\ data' \in Datasets /\ pw' \in Widths /\ IsPyramid(data', pyramid)
          /\ xlim' \in View /\ fullXLim' \in View /\ cachedXLim' \in View /\ xlim' = cachedXLim'
      BY <1>1, <1>2, <2>1 DEF Inv, Types
    <2> QED
      BY <1>0, <1>1, <2>1, <2>2, DrawingStep
  <1> QED
    BY <1>3, <1>4

LEMMA AutoLimitsInv ==
  ASSUME Inv, AutoLimits PROVE Inv'
  <1>0. mode' \in {"preserve", "follow", "reset"} /\ axes' \in Widths
    BY DEF Inv, Types, AutoLimits
  <1>1. /\ UNCHANGED <<data, method, thr, fullXLim, pw, visible>>
        /\ xlim' = fullXLim /\ cachedXLim' = fullXLim
        /\ UpdateLines(pyramid) /\ UpdateViolations(cachedView)
    BY DEF AutoLimits, Step
  <1>2. /\ data' \in Datasets /\ pw' \in Widths /\ IsPyramid(data', pyramid)
        /\ xlim' \in View /\ fullXLim' \in View /\ cachedXLim' \in View /\ xlim' = cachedXLim'
    BY <1>1 DEF Inv, Types
  <1> QED
    BY <1>0, <1>1, <1>2, DrawingStep

LEMMA ResizeInv ==
  ASSUME Inv, Resize PROVE Inv'
  <1>0. mode' \in {"preserve", "follow", "reset"} /\ axes' \in Widths
    BY DEF Inv, Types, Resize
  <1>1. /\ UNCHANGED <<data, method, thr, xlim, fullXLim, cachedXLim, visible>>
        /\ pw' = axes /\ UpdateLines(pyramid) /\ UpdateViolations(cachedView)
        /\ behind' = IF behind = "no" /\ xlim # cachedXLim THEN "overtaken" ELSE behind
    BY DEF Resize, Overtakes
  <1>2. /\ data' \in Datasets /\ pw' \in Widths /\ IsPyramid(data', pyramid)
        /\ xlim' \in View /\ fullXLim' \in View /\ cachedXLim' \in View
    BY <1>1 DEF Inv, Types
  <1>3. xlim' = cachedXLim' \/ behind' # "no"
    BY <1>1
  <1> QED
    BY <1>0, <1>1, <1>2, <1>3, DrawingStep

LEMMA SizeAxesInv ==
  ASSUME Inv, NEW width \in Widths, SizeAxes(width) PROVE Inv'
  <1>0. mode' \in {"preserve", "follow", "reset"} /\ axes' \in Widths
    BY DEF Inv, Types, SizeAxes
  <1>1. UNCHANGED <<data, method, thr, xlim, fullXLim, pw, cachedXLim, pyramid, shown, deferred,
                    visible, markers, cachedView, drawn, marked, behind>>
    BY DEF SizeAxes, Step
  <1>2. xlim' \in View /\ CachedLimits'
    BY <1>1 DEF CachedLimits, Inv, Types
  <1> QED
    BY <1>0, <1>1, <1>2, IdleStep

(* Live mode deletes the timer of the Home button's check: CachedXLim is   *)
(* left behind, or was up to date.                                         *)
LEMMA CancelCheckLimits ==
  ASSUME CachedLimits, CancelCheck, UNCHANGED <<xlim, cachedXLim>>
  PROVE  CachedLimits' /\ (behind # "no" => behind' # "no")
  BY DEF CachedLimits, CancelCheck

LEMMA StopLiveInv ==
  ASSUME Inv, StopLive PROVE Inv'
  <1>0. mode' \in {"preserve", "follow", "reset"} /\ axes' \in Widths
    BY DEF Inv, Types, StopLive
  <1>1. UNCHANGED <<data, method, thr, xlim, fullXLim, pw, cachedXLim, pyramid, shown, visible,
                    markers, cachedView, drawn, marked>>
    BY DEF StopLive, Step
  <1>2. xlim' \in View
    BY <1>1 DEF Inv, Types
  <1>3. CachedLimits' /\ (behind # "no" => behind' # "no")
    BY <1>1, CancelCheckLimits DEF StopLive, Inv
  <1> QED
    BY <1>0, <1>1, <1>2, <1>3, IdleStep

LEMMA StartLiveInv ==
  ASSUME Inv, NEW m \in {"preserve", "follow", "reset"}, StartLive(m) PROVE Inv'
  <1>0. mode' \in {"preserve", "follow", "reset"} /\ axes' \in Widths
    BY DEF Inv, Types, StartLive
  <1>1. UNCHANGED <<data, method, thr, xlim, fullXLim, pw, cachedXLim, pyramid, shown, visible,
                    markers, cachedView, drawn, marked>>
    BY DEF StartLive, Step
  <1>2. xlim' \in View
    BY <1>1 DEF Inv, Types
  <1>3. CachedLimits' /\ (behind # "no" => behind' # "no")
    <2>1. CASE live
      BY <1>1, <2>1, CancelCheckLimits DEF StartLive, Inv
    <2>2. CASE ~live
      BY <1>1, <2>2 DEF StartLive, Inv, CachedLimits
    <2> QED
      BY <2>1, <2>2
  <1> QED
    BY <1>0, <1>1, <1>2, <1>3, IdleStep

LEMMA RefineLinesInv ==
  ASSUME Inv, RefineLines PROVE Inv'
  <1>1. /\ UNCHANGED <<data, method, thr, mode, xlim, fullXLim, axes, pw, cachedXLim, deferred,
                       visible>>
        /\ UpdateViolations(cachedView)
        /\ behind' = IF behind = "no" /\ xlim # cachedXLim THEN "overtaken" ELSE behind
    BY DEF RefineLines, Overtakes
  <1>2. xlim' = cachedXLim' \/ behind' # "no"
    BY <1>1
  <1>3. CachedLimits'
    BY <1>2 DEF CachedLimits
  <1>4. CASE IsStatic(data)
    <2>1. UNCHANGED <<pyramid, shown, drawn>>
      BY <1>4 DEF RefineLines
    <2>2. Types' /\ DrawnLimits'
      BY <1>1, <2>1 DEF Inv, Types, DrawnLimits
    <2>3. IsPyramid(data, pyramid)' /\ DrawnLine'
      BY <1>1, <2>1, KeptLine
    <2>4. MarkedView'
      BY <1>1, <1>2, <2>2, <2>3, MarkingStep
    <2> QED
      BY <1>3, <2>2, <2>3, <2>4 DEF Inv
  <1>5. CASE ~IsStatic(data)
    <2>1. /\ pyramid' = IF OnDisk(data) THEN BuildPyramid(data, pyramid, 1) ELSE pyramid
          /\ shown' = Refined(data, pyramid', axes)
          /\ drawn' = [by |-> "refine", lim |-> Extent(data), pw |-> axes,
                       level |-> IF OnDisk(data) THEN 1 ELSE 0]
      BY <1>5 DEF RefineLines
    <2>2. Types' /\ DrawnLimits'
      <3>1. Extent(data) \in View
        BY ExtentIsView DEF Inv, Types
      <3> QED
        BY <1>1, <1>5, <2>1, <3>1 DEF Inv, Types, DrawnLimits
    <2>3. /\ IsPyramid(data, pyramid')
          /\ Refined(data, pyramid', axes) = Refined(data, BuildPyramid(data, pyramid', 1), axes)
      <3>1. IsPyramid(data, pyramid)
        BY DEF Inv
      <3> QED
        BY <2>1, <3>1, RefinedOnDisk
    <2>4. IsPyramid(data, pyramid)'
      BY <1>1, <2>3 DEF IsPyramid, Rung
    <2>5. DrawnLine'
      <3>1. Refined(data, BuildPyramid(data, pyramid, 1), drawn.pw)'
              = Refined(data, BuildPyramid(data, pyramid', 1), axes)
        BY <1>1, <2>1 DEF Refined
      <3> QED
        BY <1>1, <2>1, <2>3, <3>1 DEF DrawnLine
    <2>6. MarkedView'
      BY <1>1, <1>2, <2>2, <2>4, <2>5, MarkingStep
    <2> QED
      BY <1>3, <2>2, <2>4, <2>5, <2>6 DEF Inv
  <1> QED
    BY <1>4, <1>5

LEMMA UpdateDataInv ==
  ASSUME Inv, NEW line \in Datasets, UpdateData(line) PROVE Inv'
  <1>0. mode' \in {"preserve", "follow", "reset"} /\ axes' \in Widths
    BY DEF Inv, Types, UpdateData
  <1>1. /\ UNCHANGED <<method, thr, fullXLim, pw, visible>>
        /\ data' = line /\ UpdateLines(<<>>) /\ UpdateViolations(<<>>)
    BY DEF UpdateData, Step
  <1>2. /\ xlim \in View /\ fullXLim \in View /\ cachedXLim \in View /\ pw \in Widths
    BY DEF Inv, Types
  <1>3. xlim' \in View
    <2>1. xlim' \in {xlim, FollowLimits(line), Extent(line)}
      BY DEF UpdateData, Inv, Types
    <2> QED
      BY <1>2, <2>1, FollowIsView, ExtentIsView
  <1>4. cachedXLim' \in View /\ (xlim' = cachedXLim' \/ behind' # "no")
    <2>1. CASE mode = "preserve"
      BY <1>2, <2>1 DEF UpdateData, Overtakes
    <2>2. CASE mode # "preserve"
      BY <1>3, <2>2 DEF UpdateData
    <2> QED
      BY <2>1, <2>2
  <1>5. IsPyramid(data', <<>>)
    BY NoPyramid
  <1> QED
    BY <1>0, <1>1, <1>2, <1>3, <1>4, <1>5, DrawingStep

LEMMA SetViewModeInv ==
  ASSUME Inv, NEW m \in {"preserve", "follow", "reset"}, SetViewMode(m) PROVE Inv'
  <1>0. mode' \in {"preserve", "follow", "reset"} /\ axes' \in Widths
    BY DEF Inv, Types, SetViewMode
  <1>1. UNCHANGED <<data, method, thr, xlim, fullXLim, pw, cachedXLim, pyramid, shown, deferred,
                    visible, markers, cachedView, drawn, marked, behind>>
    BY DEF SetViewMode, Step
  <1>2. xlim' \in View /\ CachedLimits'
    BY <1>1 DEF CachedLimits, Inv, Types
  <1> QED
    BY <1>0, <1>1, <1>2, IdleStep

LEMMA SetViolationsVisibleInv ==
  ASSUME Inv, NEW on \in BOOLEAN, SetViolationsVisible(on) PROVE Inv'
  <1>1. /\ UNCHANGED <<data, method, thr, mode, xlim, fullXLim, axes, pw, cachedXLim, pyramid,
                       shown, deferred, drawn>>
        /\ visible' = on
    BY DEF SetViolationsVisible, Step
  <1>2. Types'
    BY <1>1 DEF Inv, Types
  <1>3. IsPyramid(data, pyramid)' /\ DrawnLine'
    BY <1>1, KeptLine
  <1>4. CASE on
    <2>1. /\ UpdateViolations(<<>>)
          /\ behind' = IF behind = "no" /\ xlim # cachedXLim THEN "overtaken" ELSE behind
      BY <1>4 DEF SetViolationsVisible, Overtakes
    <2>2. xlim' = cachedXLim' \/ behind' # "no"
      BY <1>1, <2>1
    <2>3. CachedLimits' /\ DrawnLimits'
      BY <1>1, <2>1, <2>2 DEF Inv, CachedLimits, DrawnLimits
    <2>4. MarkedView'
      BY <1>1, <1>2, <1>3, <2>1, <2>2, MarkingStep
    <2> QED
      BY <1>2, <1>3, <2>3, <2>4 DEF Inv
  <1>5. CASE ~on
    <2>1. behind' = behind
      BY <1>5 DEF SetViolationsVisible
    <2>2. CachedLimits' /\ DrawnLimits'
      BY <1>1, <2>1 DEF Inv, CachedLimits, DrawnLimits
    <2>3. MarkedView'
      BY <1>1, <1>5 DEF MarkedView
    <2> QED
      BY <1>2, <1>3, <2>2, <2>3 DEF Inv
  <1> QED
    BY <1>4, <1>5

LEMMA StutterInv ==
  ASSUME Inv, UNCHANGED vars PROVE Inv'
  <1>0. mode' \in {"preserve", "follow", "reset"} /\ axes' \in Widths
    BY DEF Inv, Types, vars
  <1>1. UNCHANGED <<data, method, thr, xlim, fullXLim, pw, cachedXLim, pyramid, shown, deferred,
                    visible, markers, cachedView, drawn, marked, behind>>
    BY DEF vars
  <1>2. xlim' \in View /\ CachedLimits'
    BY <1>1 DEF CachedLimits, Inv, Types
  <1> QED
    BY <1>0, <1>1, <1>2, IdleStep

(* The inductive invariant: the line and the markers are those that the    *)
(* view they are said to be drawn for calls for, and that view is the one  *)
(* in force unless a timer is running or CachedXLim was left behind.       *)
THEOREM PlotInvariant ==
  Spec => []Inv
  <1>1. Inv /\ [Next]_vars => Inv'
    <2> SUFFICES ASSUME Inv, [Next]_vars PROVE Inv'
      OBVIOUS
    <2>1. ASSUME NEW lim \in Limits, Zoom(lim) PROVE Inv'
      BY <2>1, ZoomInv
    <2>2. ASSUME NEW lim \in Limits, SetXLimQuiet(lim) PROVE Inv'
      BY <2>2, QuietInv
    <2>3. ASSUME NEW width \in Widths, SizeAxes(width) PROVE Inv'
      BY <2>3, SizeAxesInv
    <2>4. ASSUME NEW line \in Datasets, UpdateData(line) PROVE Inv'
      BY <2>4, UpdateDataInv
    <2>5. ASSUME NEW m \in {"preserve", "follow", "reset"}, SetViewMode(m) \/ StartLive(m)
          PROVE  Inv'
      BY <2>5, SetViewModeInv, StartLiveInv
    <2>6. ASSUME NEW on \in BOOLEAN, SetViolationsVisible(on) PROVE Inv'
      BY <2>6, SetViolationsVisibleInv
    <2>7. Home \/ DeferredCheck \/ AutoLimits \/ RefineLines \/ Resize \/ StopLive => Inv'
      BY HomeInv, DeferredCheckInv, AutoLimitsInv, RefineLinesInv, ResizeInv, StopLiveInv
    <2>8. UNCHANGED vars => Inv'
      BY StutterInv
    <2> QED
      BY <2>1, <2>2, <2>3, <2>4, <2>5, <2>6, <2>7, <2>8 DEF Next
  <1> QED
    BY InitInv, <1>1, PTL DEF Spec

-----------------------------------------------------------------------------
(* Loops, the best of a range, and sequences laid one after the other. *)

(* f[a] is base, and g makes f[i] of f[i - 1]. *)
IteratesFrom(f, a, b, base, g) ==
  f = [i \in a .. b |-> IF i > a THEN g[<<f[i - 1], i>>] ELSE base]

LEMMA LoopExists ==
  ASSUME NEW V, NEW a \in Nat, NEW b \in Nat, a <= b, NEW base \in V,
         NEW g \in [V \X (a + 1 .. b) -> V]
  PROVE  \E f \in [a .. b -> V] : IteratesFrom(f, a, b, base, g)
  <1> DEFINE n == b - a
             h == [p \in V \X (1 .. n) |-> g[<<p[1], a + p[2]>>]]
  <1>1. n \in Nat /\ b = a + n
    OBVIOUS
  <1> HIDE DEF n
  <1>2. \A i \in 1 .. n : a + i \in a + 1 .. b
    BY <1>1
  <1>3. h \in [V \X (1 .. n) -> V]
    <2>1. ASSUME NEW p \in V \X (1 .. n) PROVE g[<<p[1], a + p[2]>>] \in V
      <3>1. p[1] \in V /\ p[2] \in 1 .. n
        OBVIOUS
      <3>2. <<p[1], a + p[2]>> \in V \X (a + 1 .. b)
        BY <1>2, <3>1
      <3> QED
        BY <3>2
    <2> QED
      BY <2>1
  <1>4. \A v \in V : \A i \in 1 .. n : h[<<v, i>>] = g[<<v, a + i>>]
    OBVIOUS
  <1> HIDE DEF h
  <1>5. PICK u \in [0 .. n -> V] : Iterates(u, n, base, h)
    BY <1>1, <1>3, IterationExists
  <1>6. \A i \in 0 .. n : u[i] = IF i = 0 THEN base ELSE h[<<u[i - 1], i>>]
    BY <1>5 DEF Iterates
  <1> DEFINE f == [i \in a .. b |-> u[i - a]]
  <1>7. \A i \in a .. b : i - a \in 0 .. n
    BY <1>1
  <1>8. f \in [a .. b -> V]
    BY <1>7
  <1>9. ASSUME NEW i \in a .. b PROVE f[i] = IF i > a THEN g[<<f[i - 1], i>>] ELSE base
    <2>1. CASE i > a
      <3>1. i - 1 \in a .. b /\ i - a \in 1 .. n /\ i - a # 0 /\ (i - a) - 1 = (i - 1) - a
            /\ a + (i - a) = i
        BY <1>1, <2>1
      <3>2. f[i] = u[i - a] /\ f[i - 1] = u[(i - 1) - a]
        BY <3>1
      <3>3. u[(i - 1) - a] \in V
        BY <1>7, <3>1
      <3> HIDE DEF f
      <3>4. u[i - a] = h[<<u[(i - 1) - a], i - a>>]
        BY <1>6, <1>7, <3>1
      <3>5. h[<<u[(i - 1) - a], i - a>>] = g[<<u[(i - 1) - a], i>>]
        BY <1>4, <3>1, <3>3
      <3> QED
        BY <2>1, <3>2, <3>4, <3>5
    <2>2. CASE ~(i > a)
      <3>1. i - a = 0 /\ 0 \in 0 .. n
        BY <1>1, <2>2
      <3>2. f[i] = u[0]
        BY <3>1
      <3> HIDE DEF f
      <3> QED
        BY <1>6, <2>2, <3>1, <3>2
    <2> QED
      BY <2>1, <2>2
  <1>10. IteratesFrom(f, a, b, base, g)
    <2>1. f = [i \in a .. b |-> f[i]]
      OBVIOUS
    <2> HIDE DEF f
    <2> QED
      BY <1>9, <2>1 DEF IteratesFrom
  <1> HIDE DEF f
  <1> QED
    BY <1>8, <1>10

(* Of the places with the greatest value there is a first. *)
LEMMA ArgMax ==
  ASSUME NEW n \in Nat, NEW S \in SUBSET (1 .. n), S # {}, NEW f \in [S -> Int]
  PROVE  \E c \in S : \A d \in S : f[d] <= f[c] /\ (d < c => f[d] < f[c])
  <1> DEFINE T(m) == {i \in S : i <= m}
             Best(m, c) == \A d \in T(m) : f[d] <= f[c] /\ (d < c => f[d] < f[c])
             U == {m \in 0 .. n : T(m) = {} \/ \E c \in T(m) : Best(m, c)}
  <1>1. 0 \in U
    <2>1. \A i \in S : i \in 1 .. n
      OBVIOUS
    <2>2. \A i \in S : ~(i <= 0)
      BY <2>1
    <2>3. T(0) = {}
      BY <2>2
    <2> QED
      BY <2>3
  <1>2. ASSUME NEW m \in 1 .. n, m - 1 \in U PROVE m \in U
    <2>1. \A d \in T(m) : d = m \/ d \in T(m - 1)
      OBVIOUS
    <2>2. \A d \in T(m - 1) : d \in T(m) /\ d \in Int /\ d < m
      OBVIOUS
    <2>3. m \in 0 .. n
      OBVIOUS
    <2>4. CASE m \notin S
      <3>1. T(m) = T(m - 1)
        BY <2>1, <2>2, <2>4
      <3> HIDE DEF T
      <3> QED
        BY <1>2, <2>3, <3>1
    <2>5. CASE m \in S /\ T(m - 1) = {}
      <3>1. m \in T(m) /\ \A d \in T(m) : d = m
        BY <2>1, <2>5
      <3>2. f[m] \in Int
        BY <2>5
      <3> HIDE DEF T
      <3>3. Best(m, m)
        BY <3>1, <3>2
      <3> QED
        BY <2>3, <3>1, <3>3
    <2>6. CASE m \in S /\ T(m - 1) # {}
      <3>1. PICK c \in T(m - 1) : Best(m - 1, c)
        BY <1>2, <2>6
      <3>2. m \in T(m) /\ c \in T(m) /\ c \in S /\ c < m /\ c \in Int /\ m \in Int
        BY <2>2, <2>6
      <3>3. f[m] \in Int /\ f[c] \in Int /\ \A d \in T(m - 1) : f[d] \in Int
        BY <2>6, <3>2
      <3> HIDE DEF T
      <3>4. CASE f[m] > f[c]
        <4>1. Best(m, m)
          BY <2>1, <2>2, <3>1, <3>2, <3>3, <3>4
        <4> QED
          BY <2>3, <3>2, <4>1
      <3>5. CASE f[m] <= f[c]
        <4>1. Best(m, c)
          BY <2>1, <2>2, <3>1, <3>2, <3>3, <3>5
        <4> QED
          BY <2>3, <3>2, <4>1
      <3> QED
        BY <3>3, <3>4, <3>5
    <2> QED
      BY <2>4, <2>5, <2>6
  <1>3. n \in U
    <2>1. n \in 0 .. n
      OBVIOUS
    <2> HIDE DEF U
    <2> QED
      BY <1>1, <1>2, <2>1, UpToInduction
  <1>4. T(n) = S
    <2>1. \A i \in S : i \in 1 .. n
      OBVIOUS
    <2>2. \A i \in S : i <= n
      BY <2>1
    <2> QED
      BY <2>2
  <1> HIDE DEF T
  <1> QED
    BY <1>3, <1>4

(* r is the sequences one after the other: the i-th ends at len[i]. *)
Laid(r, seqs, len) ==
  /\ len \in [0 .. Len(seqs) -> Nat] /\ len[0] = 0 /\ len[Len(seqs)] = Len(r)
  /\ \A i \in 1 .. Len(seqs) :
        /\ len[i] = len[i - 1] + Len(seqs[i])
        /\ \A j \in 1 .. Len(seqs[i]) : r[len[i - 1] + j] = seqs[i][j]
  /\ \A i, k \in 0 .. Len(seqs) : i <= k => len[i] <= len[k]

LEMMA Grows ==
  ASSUME NEW a, NEW b \in Nat, NEW c, c \in Nat, a = c + b PROVE c <= a
  OBVIOUS

LEMMA Shifted ==
  ASSUME NEW a, NEW c, a = c, c \in Nat, NEW b \in Nat, NEW j \in 1 .. b
  PROVE  a + j \in c + 1 .. c + b /\ (a + j) - c = j
  OBVIOUS

LEMMA Inside ==
  ASSUME NEW a \in Nat, NEW b \in Nat, NEW c \in Nat, a + b <= c, NEW j \in 1 .. b
  PROVE  a + j \in 1 .. c
  OBVIOUS

LEMMA ShiftedBack ==
  ASSUME NEW a \in Int, NEW b \in Int, NEW k \in a .. b
  PROVE  k - a + 1 \in 1 .. b - a + 1 /\ a + (k - a + 1) - 1 = k
  OBVIOUS

(* A wider interval. *)
LEMMA Wider ==
  ASSUME NEW a \in Int, NEW b \in Int, NEW c \in Int, NEW d \in Int, c <= a, b <= d,
         NEW i \in a .. b
  PROVE  i \in c .. d
  OBVIOUS

LEMMA Within1 ==
  ASSUME NEW x \in Nat, NEW s \in Nat, NEW a \in Nat, NEW b \in Nat, a = x + 1, x + s <= b,
         NEW v \in 1 .. s
  PROVE  x + v \in a .. b
  OBVIOUS

LEMMA Apart ==
  ASSUME NEW a \in Int, NEW b \in Int, NEW c \in Int, NEW d \in Int, b < c,
         NEW u \in a .. b, NEW v \in c .. d
  PROVE  u <= v
  OBVIOUS

LEMMA FirstOfTwo ==
  ASSUME NEW S, NEW s \in Seq(S), NEW t \in Seq(S), NEW k \in 1 .. Len(s)
  PROVE  (s \o t)[k] = s[k]
  OBVIOUS

LEMMA FlattenLaid ==
  ASSUME NEW S, NEW seqs, Len(seqs) \in Nat \ {0},
         \A i \in 1 .. Len(seqs) : seqs[i] \in Seq(S)
  PROVE  FlattenSeq(seqs) \in Seq(S) /\ \E len : Laid(FlattenSeq(seqs), seqs, len)
  <1> DEFINE n == Len(seqs)
             g == [p \in Seq(S) \X (1 .. n) |-> p[1] \o seqs[p[2]]]
  <1>1. n \in Nat \ {0} /\ \A i \in 1 .. n : seqs[i] \in Seq(S)
    OBVIOUS
  <1> HIDE DEF n
  <1>2. g \in [Seq(S) \X (1 .. n) -> Seq(S)]
    BY <1>1
  <1>3. \A v \in Seq(S) : \A i \in 1 .. n : g[<<v, i>>] = v \o seqs[i]
    OBVIOUS
  <1>4. <<>> \in Seq(S)
    OBVIOUS
  <1> HIDE DEF g
  <1>5. PICK u \in [0 .. n -> Seq(S)] : Iterates(u, n, <<>>, g)
    BY <1>1, <1>2, <1>4, IterationExists
  <1>6. u[0] = <<>> /\ \A i \in 1 .. n : u[i] = u[i - 1] \o seqs[i]
    <2>1. \A i \in 0 .. n : u[i] = IF i = 0 THEN <<>> ELSE g[<<u[i - 1], i>>]
      BY <1>5 DEF Iterates
    <2>2. 0 \in 0 .. n
      BY <1>1
    <2>3. ASSUME NEW i \in 1 .. n PROVE u[i] = u[i - 1] \o seqs[i]
      <3>1. i \in 0 .. n /\ i # 0 /\ i - 1 \in 0 .. n
        BY <1>1
      <3> QED
        BY <1>3, <2>1, <3>1
    <2> QED
      BY <2>1, <2>2, <2>3
  <1> DEFINE f == [i \in 1 .. n |-> u[i]]
             len == [i \in 0 .. n |-> Len(u[i])]
  <1>7. f = [i \in 1 .. n |-> IF i = 1 THEN seqs[i] ELSE f[i - 1] \o seqs[i]]
    <2>1. ASSUME NEW i \in 1 .. n PROVE f[i] = IF i = 1 THEN seqs[i] ELSE f[i - 1] \o seqs[i]
      <3>1. CASE i = 1
        <4>1. u[1] = <<>> \o seqs[1]
          <5>1. 1 \in 1 .. n /\ 1 - 1 = 0
            BY <1>1
          <5>2. u[1] = u[1 - 1] \o seqs[1]
            BY <1>6, <5>1
          <5> QED
            BY <1>6, <5>1, <5>2
        <4>2. <<>> \o seqs[1] = seqs[1]
          BY <1>1, <3>1
        <4> QED
          BY <3>1, <4>1, <4>2
      <3>2. CASE i # 1
        <4>1. i - 1 \in 1 .. n
          BY <1>1, <3>2
        <4> QED
          BY <1>6, <3>2, <4>1
      <3> QED
        BY <3>1, <3>2
    <2>2. f = [i \in 1 .. n |-> f[i]]
      OBVIOUS
    <2> HIDE DEF f
    <2> QED
      BY <2>1, <2>2
  <1>8. FlattenSeq(seqs) = u[n]
    <2>1. f[n] = u[n]
      BY <1>1
    <2> HIDE DEF f
    <2> QED
      BY <1>1, <1>7, <2>1, FlattenIs DEF n
  <1>9. len \in [0 .. n -> Nat] /\ len[0] = 0 /\ \A i \in 0 .. n : len[i] = Len(u[i])
    <2>1. \A i \in 0 .. n : Len(u[i]) \in Nat
      OBVIOUS
    <2>2. 0 \in 0 .. n /\ Len(u[0]) = 0
      BY <1>1, <1>6
    <2> QED
      BY <2>1, <2>2
  <1> HIDE DEF f, len
  <1>10. \A i \in 1 .. n : len[i] = len[i - 1] + Len(seqs[i]) /\ Len(seqs[i]) \in Nat
    <2> SUFFICES ASSUME NEW i \in 1 .. n PROVE len[i] = len[i - 1] + Len(seqs[i]) /\ Len(seqs[i]) \in Nat
      OBVIOUS
    <2>1. i \in 0 .. n /\ i - 1 \in 0 .. n
      BY <1>1
    <2>2. u[i - 1] \in Seq(S) /\ seqs[i] \in Seq(S) /\ u[i] = u[i - 1] \o seqs[i]
      BY <1>1, <1>6, <2>1
    <2>3. Len(u[i]) = Len(u[i - 1]) + Len(seqs[i]) /\ Len(seqs[i]) \in Nat
      BY <2>2
    <2> QED
      BY <1>9, <2>1, <2>3
  <1> DEFINE Fits(m) == /\ \A i \in 0 .. m : len[i] <= len[m]
                        /\ \A i \in 1 .. m : \A j \in 1 .. Len(seqs[i]) :
                              u[m][len[i - 1] + j] = seqs[i][j]
             U == {m \in 0 .. n : Fits(m)}
  <1>11. 0 .. n \subseteq U
    <2>1. 0 \in U
      <3>1. Fits(0)
        BY <1>9
      <3> HIDE DEF Fits
      <3> QED
        BY <1>1, <3>1
    <2>2. ASSUME NEW m \in 1 .. n, m - 1 \in U PROVE m \in U
      <3>1. m \in 0 .. n /\ m - 1 \in 0 .. n /\ Fits(m - 1)
        <4>1. m \in 0 .. n /\ m - 1 \in 0 .. n
          BY <1>1
        <4> HIDE DEF Fits
        <4> QED
          BY <2>2, <4>1
      <3>2. u[m] = u[m - 1] \o seqs[m] /\ u[m - 1] \in Seq(S) /\ seqs[m] \in Seq(S)
        BY <1>1, <1>6, <3>1
      <3>3. len[m] = len[m - 1] + Len(seqs[m]) /\ Len(seqs[m]) \in Nat
            /\ len[m - 1] = Len(u[m - 1]) /\ len[m - 1] \in Nat /\ len[m] \in Nat
        BY <1>9, <1>10, <3>1
      <3>4. ASSUME NEW i \in 0 .. m PROVE len[i] <= len[m]
        <4>1. i = m \/ i \in 0 .. m - 1
          BY <3>1
        <4>2. len[i] \in Nat
          <5>1. i \in 0 .. n
            BY <1>1, <3>1
          <5> QED
            BY <1>9, <5>1
        <4>3. i \in 0 .. m - 1 => len[i] <= len[m - 1]
          BY <3>1
        <4> HIDE DEF Fits
        <4>0. len[m] \in Nat /\ len[m - 1] \in Nat /\ len[m - 1] <= len[m]
          BY <3>3, Grows
        <4>4. CASE i = m
          BY ONLY <4>0, <4>4
        <4>5. CASE i \in 0 .. m - 1
          BY ONLY <4>0, <4>2, <4>3, <4>5
        <4> QED
          BY <4>1, <4>4, <4>5
      <3>5. ASSUME NEW i \in 1 .. m, NEW j \in 1 .. Len(seqs[i])
            PROVE  u[m][len[i - 1] + j] = seqs[i][j]
        <4>1. i \in 1 .. n /\ i - 1 \in 0 .. n
          BY <1>1
        <4>2. len[i - 1] \in Nat /\ len[i] \in Nat /\ len[i] = len[i - 1] + Len(seqs[i])
              /\ Len(seqs[i]) \in Nat
          BY <1>9, <1>10, <4>1
        <4>3. CASE i = m
          <5>1. len[i - 1] + j \in Len(u[m - 1]) + 1 .. Len(u[m - 1]) + Len(seqs[m])
                /\ (len[i - 1] + j) - Len(u[m - 1]) = j
            <6>1. len[i - 1] = Len(u[m - 1]) /\ Len(u[m - 1]) \in Nat
                  /\ j \in 1 .. Len(seqs[m]) /\ Len(seqs[m]) \in Nat
              BY <3>3, <4>3
            <6> HIDE DEF Fits
            <6> DEFINE a == len[i - 1]
                       b == Len(seqs[m])
                       c == Len(u[m - 1])
            <6>2. a = c /\ c \in Nat /\ b \in Nat /\ j \in 1 .. b
              BY <6>1
            <6> HIDE DEF a, b, c
            <6>3. a + j \in c + 1 .. c + b /\ (a + j) - c = j
              BY <6>2, Shifted
            <6> QED
              BY <6>3 DEF a, b, c
          <5>2. (u[m - 1] \o seqs[m])[len[i - 1] + j] = seqs[m][(len[i - 1] + j) - Len(u[m - 1])]
            BY <3>2, <5>1
          <5> QED
            BY <3>2, <4>3, <5>1, <5>2
        <4>4. CASE i # m
          <5>1. i \in 1 .. m - 1 /\ i \in 0 .. m - 1
            BY <3>1, <4>4
          <5>2. u[m - 1][len[i - 1] + j] = seqs[i][j] /\ len[i] <= len[m - 1]
            BY <3>1, <5>1
          <5>3. len[i - 1] + j \in 1 .. Len(u[m - 1])
            <6>1. /\ len[i - 1] + Len(seqs[i]) <= Len(u[m - 1]) /\ Len(u[m - 1]) \in Nat
                  /\ len[i - 1] \in Nat /\ j \in 1 .. Len(seqs[i]) /\ Len(seqs[i]) \in Nat
              BY <3>3, <4>2, <5>2
            <6> HIDE DEF Fits
            <6> QED
              BY <6>1, Inside
          <5>4. (u[m - 1] \o seqs[m])[len[i - 1] + j] = u[m - 1][len[i - 1] + j]
            BY <3>2, <5>3, FirstOfTwo
          <5> QED
            BY <3>2, <5>2, <5>4
        <4> QED
          BY <4>3, <4>4
      <3>6. Fits(m)
        BY <3>4, <3>5
      <3> HIDE DEF Fits
      <3> QED
        BY <3>1, <3>6
    <2> HIDE DEF U
    <2> QED
      BY <1>1, <2>1, <2>2, UpToInduction
  <1>12. \A m \in 0 .. n : Fits(m)
    BY <1>11
  <1>13. n \in 0 .. n /\ u[n] \in Seq(S)
    BY <1>1
  <1>14. \A i, k \in 0 .. n : i <= k => len[i] <= len[k]
    <2> SUFFICES ASSUME NEW i \in 0 .. n, NEW k \in 0 .. n, i <= k PROVE len[i] <= len[k]
      OBVIOUS
    <2>1. i \in 0 .. k
      OBVIOUS
    <2> QED
      BY <1>12, <2>1
  <1>15. \A i \in 1 .. n : \A j \in 1 .. Len(seqs[i]) : u[n][len[i - 1] + j] = seqs[i][j]
    BY <1>12, <1>13
  <1> HIDE DEF Fits
  <1>16. Laid(u[n], seqs, len)
    BY <1>9, <1>10, <1>13, <1>14, <1>15 DEF Laid, n
  <1> QED
    BY <1>8, <1>13, <1>16

-----------------------------------------------------------------------------
(* What follows parts of a line. *)

(* k is the j-th place of the i-th sequence. *)
At(seqs, len, k, i, j) ==
  i \in 1 .. Len(seqs) /\ j \in 1 .. Len(seqs[i]) /\ k = len[i - 1] + j

LEMMA PieceOf ==
  ASSUME NEW r, NEW seqs, Len(seqs) \in Nat \ {0}, \A i \in 1 .. Len(seqs) : Len(seqs[i]) \in Nat,
         NEW len, Laid(r, seqs, len), NEW k \in 1 .. Len(r)
  PROVE  \E i, j : At(seqs, len, k, i, j)
  <1> DEFINE n == Len(seqs)
             S == {i \in 0 .. n : k <= len[i]}
             i == Min(S)
  <1>1. n \in Nat \ {0} /\ len \in [0 .. n -> Nat] /\ len[0] = 0 /\ len[n] = Len(r)
        /\ \A h \in 1 .. n : len[h] = len[h - 1] + Len(seqs[h])
    BY DEF Laid
  <1> HIDE DEF n
  <1>2. n \in 0 .. n /\ k <= len[n] /\ k \in Nat /\ k >= 1
    <2>1. len[n] \in Nat
      BY <1>1
    <2> QED
      BY <1>1, <2>1
  <1>3. S \in SUBSET (0 .. n) /\ S # {}
    BY <1>2
  <1>4. i \in S /\ \A h \in S : i <= h
    <2> HIDE DEF S
    <2> QED
      BY <1>1, <1>3, MinExists
  <1> HIDE DEF i
  <1>5. i \in 0 .. n /\ k <= len[i] /\ i # 0
    BY <1>1, <1>2, <1>4
  <1>6. i \in 1 .. n /\ i - 1 \in 0 .. n /\ ~(i <= i - 1)
    BY <1>1, <1>5
  <1>7. i - 1 \notin S
    <2> HIDE DEF S
    <2> QED
      BY <1>4, <1>6
  <1>8. len[i - 1] < k
    <2>1. len[i - 1] \in Nat /\ ~(k <= len[i - 1])
      BY <1>1, <1>6, <1>7
    <2> QED
      BY <1>2, <2>1
  <1>9. len[i - 1] \in Nat /\ len[i] = len[i - 1] + Len(seqs[i]) /\ Len(seqs[i]) \in Nat
    BY <1>1, <1>6 DEF n
  <1> DEFINE j == k - len[i - 1]
  <1>10. j \in 1 .. Len(seqs[i]) /\ k = len[i - 1] + j
    <2> DEFINE a == len[i - 1]
               b == Len(seqs[i])
    <2>1. a \in Nat /\ b \in Nat /\ k \in Nat /\ a < k /\ k <= a + b
      BY <1>2, <1>5, <1>8, <1>9
    <2> HIDE DEF a, b
    <2>2. k - a \in 1 .. b /\ k = a + (k - a)
      BY <2>1
    <2> QED
      BY <2>2 DEF a, b
  <1> HIDE DEF j
  <1>11. At(seqs, len, k, i, j)
    BY <1>6, <1>10 DEF At, n
  <1> QED
    BY <1>11

LEMMA PieceOrder ==
  ASSUME NEW r, NEW seqs, Len(seqs) \in Nat \ {0}, \A i \in 1 .. Len(seqs) : Len(seqs[i]) \in Nat,
         NEW len, Laid(r, seqs, len), NEW k, NEW i, NEW j, At(seqs, len, k, i, j),
         NEW l, NEW h, NEW m, At(seqs, len, l, h, m)
  PROVE  /\ k \in 1 .. Len(r)
         /\ k <= l => i < h \/ (i = h /\ j <= m)
  <1> DEFINE n == Len(seqs)
  <1>1. n \in Nat \ {0} /\ len \in [0 .. n -> Nat] /\ len[n] = Len(r)
        /\ (\A e \in 1 .. n : len[e] = len[e - 1] + Len(seqs[e]) /\ Len(seqs[e]) \in Nat)
        /\ \A e, f \in 0 .. n : e <= f => len[e] <= len[f]
    BY DEF Laid
  <1>2. i \in 1 .. n /\ j \in 1 .. Len(seqs[i]) /\ k = len[i - 1] + j
        /\ h \in 1 .. n /\ m \in 1 .. Len(seqs[h]) /\ l = len[h - 1] + m
    BY DEF At
  <1> HIDE DEF n
  <1>3. \A e \in 1 .. n : e \in 0 .. n /\ e - 1 \in 0 .. n
    BY <1>1
  <1>4. /\ len[i] \in Nat /\ len[i - 1] \in Nat /\ len[i] = len[i - 1] + Len(seqs[i]) /\ Len(seqs[i]) \in Nat
        /\ len[h] \in Nat /\ len[h - 1] \in Nat /\ len[h] = len[h - 1] + Len(seqs[h]) /\ Len(seqs[h]) \in Nat
    BY <1>1, <1>2, <1>3
  <1>5. i < h => len[i] <= len[h - 1]
    <2>1. i < h => i <= h - 1
      BY <1>1, <1>2
    <2> QED
      BY <1>1, <1>2, <1>3, <2>1
  <1>6. h < i => len[h] <= len[i - 1]
    <2>1. h < i => h <= i - 1
      BY <1>1, <1>2
    <2> QED
      BY <1>1, <1>2, <1>3, <2>1
  <1>7. i \in Nat /\ h \in Nat /\ n \in Nat /\ i <= n
    BY <1>1, <1>2
  <1>8. len[i] <= len[n] /\ len[n] \in Nat
    <2>1. n \in 0 .. n
      BY <1>1
    <2> QED
      BY <1>1, <1>2, <1>3, <1>7, <2>1
  <1> DEFINE a == len[i - 1]
             b == Len(seqs[i])
             c == len[h - 1]
             d == Len(seqs[h])
  <1>9. /\ a \in Nat /\ b \in Nat /\ c \in Nat /\ d \in Nat /\ j \in 1 .. b /\ m \in 1 .. d
        /\ k = a + j /\ l = c + m
        /\ (i < h => a + b <= c) /\ (h < i => c + d <= a) /\ (i = h => a = c)
        /\ a + b <= Len(r) /\ Len(r) \in Nat
    BY <1>1, <1>2, <1>4, <1>5, <1>6, <1>8
  <1> HIDE DEF a, b, c, d
  <1>10. k \in 1 .. Len(r)
    <2> DEFINE e == Len(r)
    <2>1. a \in Nat /\ b \in Nat /\ j \in 1 .. b /\ k = a + j /\ a + b <= e /\ e \in Nat
      BY <1>9
    <2> HIDE DEF e
    <2>2. k \in 1 .. e
      BY <2>1
    <2> QED
      BY <2>2 DEF e
  <1>11. k <= l => i < h \/ (i = h /\ j <= m)
    BY <1>7, <1>9
  <1> QED
    BY <1>10, <1>11

LEMMA PieceUnique ==
  ASSUME NEW r, NEW seqs, Len(seqs) \in Nat \ {0}, \A i \in 1 .. Len(seqs) : Len(seqs[i]) \in Nat,
         NEW len, Laid(r, seqs, len), NEW k, NEW i, NEW j, At(seqs, len, k, i, j),
         NEW h, NEW m, At(seqs, len, k, h, m)
  PROVE  i = h /\ j = m
  <1>1. k \in 1 .. Len(r)
    BY PieceOrder
  <1>2. k <= k
    BY <1>1
  <1>3. i < h \/ (i = h /\ j <= m)
    BY <1>2, PieceOrder
  <1>4. h < i \/ (h = i /\ m <= j)
    BY <1>2, PieceOrder
  <1>5. i \in Int /\ h \in Int /\ j \in Int /\ m \in Int
    BY DEF At
  <1> QED
    BY <1>3, <1>4, <1>5

(* pts follows line: a point is a gap or the sample it stands for, and the *)
(* samples come in the order of line.                                      *)
Point == Sample \cup {Gap}
Traces(pts, at, line) ==
  /\ pts \in Seq(Point) /\ Len(pts) \in Nat /\ DOMAIN pts = 1 .. Len(pts)
  /\ at \in [1 .. Len(pts) -> 0 .. Len(line)]
  /\ \A k \in 1 .. Len(pts) : pts[k] = IF at[k] = 0 THEN Gap ELSE line[at[k]]
  /\ \A k, l \in 1 .. Len(pts) : k <= l /\ at[k] # 0 /\ at[l] # 0 => at[k] <= at[l]

(* at says of r what ats says of the sequences it consists of. *)
Joins(r, seqs, ats, line, at, len) ==
  /\ Laid(r, seqs, len) /\ Traces(r, at, line)
  /\ \A k, i, j : At(seqs, len, k, i, j) => at[k] = ats[i][j]

(* What follows parts of a line that come one after the other follows it.  *)
LEMMA FlattenTraces ==
  ASSUME NEW line, Len(line) \in Nat, NEW seqs, Len(seqs) \in Nat \ {0}, NEW ats, NEW lo, NEW hi,
         \A i \in 1 .. Len(seqs) :
            /\ Traces(seqs[i], ats[i], line) /\ lo[i] \in Int /\ hi[i] \in Int
            /\ \A j \in 1 .. Len(seqs[i]) : ats[i][j] = 0 \/ ats[i][j] \in lo[i] .. hi[i],
         \A i, h \in 1 .. Len(seqs) : i < h => hi[i] < lo[h]
  PROVE  \E at, len : Joins(FlattenSeq(seqs), seqs, ats, line, at, len)
  <1> DEFINE n == Len(seqs)
             r == FlattenSeq(seqs)
  <1>1. n \in Nat \ {0} /\ \A i \in 1 .. n : seqs[i] \in Seq(Point) /\ Len(seqs[i]) \in Nat
    BY DEF Traces
  <1>2. r \in Seq(Point) /\ \E len : Laid(r, seqs, len)
    BY <1>1, FlattenLaid
  <1>3. PICK len : Laid(r, seqs, len)
    BY <1>2
  <1> HIDE DEF r, n
  <1>4. \A k \in 1 .. Len(r) : \E i, j : At(seqs, len, k, i, j)
    BY <1>1, <1>3, PieceOf DEF n
  <1> DEFINE pi == [k \in 1 .. Len(r) |-> CHOOSE i : \E j : At(seqs, len, k, i, j)]
             pj == [k \in 1 .. Len(r) |-> CHOOSE j : At(seqs, len, k, pi[k], j)]
             at == [k \in 1 .. Len(r) |-> ats[pi[k]][pj[k]]]
  <1>5. \A k \in 1 .. Len(r) : At(seqs, len, k, pi[k], pj[k])
    <2> SUFFICES ASSUME NEW k \in 1 .. Len(r) PROVE At(seqs, len, k, pi[k], pj[k])
      OBVIOUS
    <2>1. \E j : At(seqs, len, k, pi[k], j)
      BY <1>4
    <2> HIDE DEF pi
    <2> QED
      BY <2>1
  <1>6. \A k \in 1 .. Len(r) : at[k] = ats[pi[k]][pj[k]]
    OBVIOUS
  <1>7. at = [k \in 1 .. Len(r) |-> at[k]]
    OBVIOUS
  <1> HIDE DEF pi, pj, at
  <1>8. ASSUME NEW k, NEW i, NEW j, At(seqs, len, k, i, j) PROVE k \in 1 .. Len(r) /\ at[k] = ats[i][j]
    <2>1. k \in 1 .. Len(r)
      BY <1>1, <1>3, <1>8, PieceOrder DEF n
    <2>2. At(seqs, len, k, pi[k], pj[k])
      BY <1>5, <2>1
    <2>3. pi[k] = i /\ pj[k] = j
      <3> DEFINE h == pi[k]
                 m == pj[k]
      <3>1. At(seqs, len, k, h, m) /\ At(seqs, len, k, i, j)
        BY <1>8, <2>2
      <3>2. Len(seqs) \in Nat \ {0} /\ \A e \in 1 .. Len(seqs) : Len(seqs[e]) \in Nat
        BY <1>1 DEF n
      <3> HIDE DEF h, m
      <3>3. h = i /\ m = j
        BY <1>3, <3>1, <3>2, PieceUnique
      <3> QED
        BY <3>3 DEF h, m
    <2> QED
      BY <1>6, <2>1, <2>3
  <1>9. ASSUME NEW k \in 1 .. Len(r)
        PROVE  /\ pi[k] \in 1 .. n /\ pj[k] \in 1 .. Len(seqs[pi[k]])
               /\ at[k] \in 0 .. Len(line) /\ r[k] = IF at[k] = 0 THEN Gap ELSE line[at[k]]
               /\ at[k] # 0 => at[k] \in lo[pi[k]] .. hi[pi[k]]
    <2> DEFINE i == pi[k]
               j == pj[k]
    <2>1. i \in 1 .. n /\ j \in 1 .. Len(seqs[i]) /\ k = len[i - 1] + j
      BY <1>5 DEF At, n
    <2> HIDE DEF i, j
    <2>2. at[k] = ats[i][j]
      BY <1>6 DEF i, j
    <2>3. r[k] = seqs[i][j]
      BY <1>3, <2>1 DEF Laid, n
    <2>4. Traces(seqs[i], ats[i], line) /\ (ats[i][j] = 0 \/ ats[i][j] \in lo[i] .. hi[i])
      BY <2>1 DEF n
    <2>5. ats[i][j] \in 0 .. Len(line) /\ seqs[i][j] = IF ats[i][j] = 0 THEN Gap ELSE line[ats[i][j]]
      BY <2>1, <2>4 DEF Traces
    <2>6. /\ i \in 1 .. n /\ j \in 1 .. Len(seqs[i])
          /\ at[k] \in 0 .. Len(line) /\ r[k] = IF at[k] = 0 THEN Gap ELSE line[at[k]]
          /\ at[k] # 0 => at[k] \in lo[i] .. hi[i]
      BY <2>1, <2>2, <2>3, <2>4, <2>5
    <2> QED
      BY <2>6 DEF i, j
  <1>10. ASSUME NEW k \in 1 .. Len(r), NEW l \in 1 .. Len(r), k <= l, at[k] # 0, at[l] # 0
         PROVE  at[k] <= at[l]
    <2> DEFINE i == pi[k]
               j == pj[k]
               h == pi[l]
               m == pj[l]
    <2>1. At(seqs, len, k, i, j) /\ At(seqs, len, l, h, m)
      BY <1>5
    <2>2. i \in 1 .. n /\ h \in 1 .. n /\ j \in 1 .. Len(seqs[i]) /\ m \in 1 .. Len(seqs[h])
          /\ at[k] \in lo[i] .. hi[i] /\ at[l] \in lo[h] .. hi[h]
      BY <1>9, <1>10
    <2>3. at[k] = ats[i][j] /\ at[l] = ats[h][m]
      BY <1>6
    <2> HIDE DEF i, j, h, m
    <2>4. i < h \/ (i = h /\ j <= m)
      BY <1>1, <1>3, <1>10, <2>1, PieceOrder DEF n
    <2>5. CASE i < h
      <3>1. hi[i] < lo[h] /\ lo[i] \in Int /\ hi[i] \in Int /\ lo[h] \in Int /\ hi[h] \in Int
        BY <2>2, <2>5 DEF n
      <3> QED
        BY <2>2, <3>1, Apart
    <2>6. CASE i = h /\ j <= m
      <3>1. Traces(seqs[i], ats[i], line)
        BY <2>2 DEF n
      <3> QED
        BY <1>10, <2>2, <2>3, <2>6, <3>1 DEF Traces
    <2> QED
      BY <2>4, <2>5, <2>6
  <1>11. Len(r) \in Nat /\ DOMAIN r = 1 .. Len(r)
    BY <1>2
  <1>12. at \in [1 .. Len(r) -> 0 .. Len(line)]
    BY <1>7, <1>9
  <1>13. Traces(r, at, line)
    BY <1>2, <1>9, <1>10, <1>11, <1>12 DEF Traces
  <1> QED
    BY <1>3, <1>8, <1>13 DEF r, Joins

-----------------------------------------------------------------------------
(* The kernels that reduce a line. *)

LEMMA NotAbove ==
  ASSUME NEW a \in Int, NEW b \in Int, NEW c \in Int, a <= b, b <= c PROVE a <= c
  OBVIOUS
LEMMA NotBelow ==
  ASSUME NEW a \in Int, NEW b \in Int, NEW c \in Int, a >= b, b >= c PROVE a >= c
  OBVIOUS

(* The vector block and the lane of a place. *)
LEMMA InBlock ==
  ASSUME NEW W \in {1, 2, 4}, NEW blocks \in Nat, NEW i \in 1 .. blocks * W
  PROVE  \E c \in 1 .. blocks, j \in 1 .. W : i = (c - 1) * W + j
  <1>1. CASE W = 1
    <2>1. i \in 1 .. blocks /\ 1 \in 1 .. W /\ i = (i - 1) * W + 1
      BY <1>1
    <2> QED
      BY <2>1
  <1>2. CASE W = 2
    <2> DEFINE c == ((i - 1) \div 2) + 1
               j == i - (c - 1) * 2
    <2>1. i \in Nat /\ 1 <= i /\ i <= blocks * 2
      BY <1>2
    <2>2. c \in 1 .. blocks /\ j \in 1 .. 2 /\ i = (c - 1) * 2 + j
      BY <2>1
    <2> HIDE DEF c, j
    <2> QED
      BY <1>2, <2>2
  <1>3. CASE W = 4
    <2> DEFINE c == ((i - 1) \div 4) + 1
               j == i - (c - 1) * 4
    <2>1. i \in Nat /\ 1 <= i /\ i <= blocks * 4
      BY <1>3
    <2>2. c \in 1 .. blocks /\ j \in 1 .. 4 /\ i = (c - 1) * 4 + j
      BY <2>1
    <2> HIDE DEF c, j
    <2> QED
      BY <1>3, <2>2
  <1> QED
    BY <1>1, <1>2, <1>3

(* What the minimum of numbers returns is one of them, and the least. *)
LEMMA ReducedMin ==
  ASSUME NEW ys, Len(ys) \in Nat \ {0}
  PROVE  /\ \E i \in 1 .. Len(ys) : Reduce(MinPd, ys) = ys[i]
         /\ (\A i \in 1 .. Len(ys) : ys[i] \in Int) =>
               \A i \in 1 .. Len(ys) : Reduce(MinPd, ys) <= ys[i]
  <1> DEFINE n == Len(ys)
             W == SimdWidth
             V == {ys[i] : i \in 1 .. n}
             blocks == IF W = 1 THEN 0 ELSE n \div W
             whole == blocks * W
             first == [j \in 1 .. W |-> ys[1]]
             Lanes(f) == f = [b \in 0 .. blocks |->
                                IF b = 0 THEN [j \in 1 .. W |-> ys[1]]
                                ELSE [j \in 1 .. W |-> MinPd(f[b - 1][j], ys[(b - 1) * W + j])]]
             lanes == CHOOSE f : Lanes(f)
             Scalar(f) == f = [i \in whole .. n |->
                                IF i > whole THEN MinPd(ys[i], f[i - 1])
                                ELSE IF i = 0 THEN ys[1] ELSE Horizontal(MinPd, lanes[blocks])]
             scalar == CHOOSE f : Scalar(f)
  <1>1. Reduce(MinPd, ys) = scalar[n]
    BY DEF Reduce
  <1>2. n \in Nat \ {0} /\ W \in {1, 2, 4} /\ \A i \in 1 .. n : ys[i] \in V
    BY SimdWidthAssumption
  <1>3. \A u, v \in V : MinPd(u, v) \in V
    BY DEF MinPd
  <1>4. blocks \in Nat /\ whole \in Nat /\ whole <= n
        /\ \A b \in 1 .. blocks : \A j \in 1 .. W : (b - 1) * W + j \in 1 .. n
    BY <1>2
  <1> HIDE DEF n, W, V, blocks, whole
  <1>5. /\ lanes \in [0 .. blocks -> [1 .. W -> V]]
        /\ \A b \in 1 .. blocks : \A j \in 1 .. W :
             lanes[b][j] = MinPd(lanes[b - 1][j], ys[(b - 1) * W + j])
    <2> DEFINE g == [p \in [1 .. W -> V] \X (1 .. blocks) |->
                       [j \in 1 .. W |-> MinPd(p[1][j], ys[(p[2] - 1) * W + j])]]
    <2>1. first \in [1 .. W -> V]
      BY <1>2
    <2>2. g \in [[1 .. W -> V] \X (1 .. blocks) -> [1 .. W -> V]]
      <3>1. ASSUME NEW p \in [1 .. W -> V] \X (1 .. blocks), NEW j \in 1 .. W
            PROVE  MinPd(p[1][j], ys[(p[2] - 1) * W + j]) \in V
        <4>1. p[1] \in [1 .. W -> V] /\ p[2] \in 1 .. blocks
          OBVIOUS
        <4>2. p[1][j] \in V /\ ys[(p[2] - 1) * W + j] \in V
          BY <1>2, <1>4, <4>1
        <4> QED
          BY <1>3, <4>2
      <3> QED
        BY <3>1
    <2>3. \A v \in [1 .. W -> V] : \A b \in 1 .. blocks :
             g[<<v, b>>] = [j \in 1 .. W |-> MinPd(v[j], ys[(b - 1) * W + j])]
      OBVIOUS
    <2> HIDE DEF g
    <2>4. PICK f \in [0 .. blocks -> [1 .. W -> V]] : Iterates(f, blocks, first, g)
      BY <1>4, <2>1, <2>2, IterationExists
    <2>5. f = [b \in 0 .. blocks |-> IF b = 0 THEN first ELSE g[<<f[b - 1], b>>]]
      BY <2>4 DEF Iterates
    <2>6. \A b \in 0 .. blocks : b # 0 =>
             g[<<f[b - 1], b>>] = [j \in 1 .. W |-> MinPd(f[b - 1][j], ys[(b - 1) * W + j])]
      <3> SUFFICES ASSUME NEW b \in 0 .. blocks, b # 0
                   PROVE  g[<<f[b - 1], b>>] = [j \in 1 .. W |-> MinPd(f[b - 1][j], ys[(b - 1) * W + j])]
        OBVIOUS
      <3>1. b \in 1 .. blocks /\ b - 1 \in 0 .. blocks
        BY <1>4
      <3>2. f[b - 1] \in [1 .. W -> V]
        BY <3>1
      <3> QED
        BY <2>3, <3>1, <3>2
    <2>7. Lanes(f)
      BY <2>5, <2>6
    <2>8. ASSUME NEW h, Lanes(h) PROVE h \in [0 .. blocks -> [1 .. W -> V]]
      <3> DEFINE U == {b \in 0 .. blocks : h[b] \in [1 .. W -> V]}
      <3>1. 0 \in U
        <4>1. 0 \in 0 .. blocks
          BY <1>4
        <4> QED
          BY <2>1, <2>8, <4>1
      <3>2. ASSUME NEW b \in 1 .. blocks, b - 1 \in U PROVE b \in U
        <4>1. b \in 0 .. blocks /\ b # 0 /\ h[b - 1] \in [1 .. W -> V]
          BY <1>4, <3>2
        <4>2. h[b] = [j \in 1 .. W |-> MinPd(h[b - 1][j], ys[(b - 1) * W + j])]
          BY <2>8, <4>1
        <4>3. \A j \in 1 .. W : MinPd(h[b - 1][j], ys[(b - 1) * W + j]) \in V
          BY <1>2, <1>3, <1>4, <4>1
        <4> QED
          BY <4>1, <4>2, <4>3
      <3>3. 0 .. blocks \subseteq U
        <4> HIDE DEF U
        <4> QED
          BY <1>4, <3>1, <3>2, UpToInduction
      <3>4. h = [b \in 0 .. blocks |-> h[b]]
        BY <2>8
      <3> QED
        BY <3>3, <3>4
    <2>9. Lanes(lanes)
      <3> HIDE DEF Lanes
      <3> QED
        BY <2>7
    <2> HIDE DEF lanes
    <2>10. \A b \in 1 .. blocks : lanes[b] = [j \in 1 .. W |-> MinPd(lanes[b - 1][j], ys[(b - 1) * W + j])]
      <3>1. \A b \in 1 .. blocks : b \in 0 .. blocks /\ b # 0
        BY <1>4
      <3> QED
        BY <2>9, <3>1
    <2> HIDE DEF Lanes
    <2> QED
      BY <2>8, <2>9, <2>10
  <1> HIDE DEF lanes
  <1> DEFINE base == IF whole = 0 THEN ys[1] ELSE Horizontal(MinPd, lanes[blocks])
  <1>6. base \in V
    <2>1. lanes[blocks] \in [1 .. W -> V] /\ 1 \in 1 .. n
      BY <1>2, <1>4, <1>5
    <2> DEFINE v == lanes[blocks]
    <2>2. v \in [1 .. W -> V]
      BY <2>1
    <2> HIDE DEF v
    <2>3. Len(v) = W
      BY <1>2, <2>2
    <2>4. \A j \in 1 .. W : v[j] \in V
      BY <2>2
    <2>5. Horizontal(MinPd, v) \in V
      <3>1. CASE W = 1
        <4>1. Horizontal(MinPd, v) = v[1]
          BY <2>3, <3>1 DEF Horizontal
        <4> QED
          BY <2>4, <3>1, <4>1
      <3>2. CASE W = 2
        <4>1. Horizontal(MinPd, v) = MinPd(v[1], v[2])
          BY <2>3, <3>2 DEF Horizontal
        <4>2. v[1] \in V /\ v[2] \in V
          BY <2>4, <3>2
        <4> QED
          BY <1>3, <4>1, <4>2
      <3>3. CASE W = 4
        <4>1. Horizontal(MinPd, v) = MinPd(MinPd(v[1], v[3]), MinPd(v[2], v[4]))
          BY <2>3, <3>3 DEF Horizontal
        <4>2. v[1] \in V /\ v[2] \in V /\ v[3] \in V /\ v[4] \in V
          BY <2>4, <3>3
        <4>3. MinPd(v[1], v[3]) \in V /\ MinPd(v[2], v[4]) \in V
          BY <1>3, <4>2
        <4> QED
          BY <1>3, <4>1, <4>3
      <3> QED
        BY <1>2, <3>1, <3>2, <3>3
    <2> QED
      BY <1>2, <2>1, <2>5 DEF v
  <1>7. \A f : Scalar(f) <=> f = [i \in whole .. n |-> IF i > whole THEN MinPd(ys[i], f[i - 1]) ELSE base]
    <2>1. \A i \in whole .. n : ~(i > whole) =>
             (IF i = 0 THEN ys[1] ELSE Horizontal(MinPd, lanes[blocks])) = base
      <3> SUFFICES ASSUME NEW i \in whole .. n, ~(i > whole)
                   PROVE  (IF i = 0 THEN ys[1] ELSE Horizontal(MinPd, lanes[blocks])) = base
        OBVIOUS
      <3>1. i = whole
        BY <1>2, <1>4
      <3> QED
        BY <3>1
    <2> DEFINE h == Horizontal(MinPd, lanes[blocks])
    <2>2. \A i \in whole .. n : ~(i > whole) => (IF i = 0 THEN ys[1] ELSE h) = base
      BY <2>1
    <2>3. ASSUME NEW f
          PROVE  [i \in whole .. n |-> IF i > whole THEN MinPd(ys[i], f[i - 1])
                                       ELSE IF i = 0 THEN ys[1] ELSE h]
                   = [i \in whole .. n |-> IF i > whole THEN MinPd(ys[i], f[i - 1]) ELSE base]
      <3> HIDE DEF h, base
      <3> QED
        BY <2>2
    <2> QED
      BY <2>3
  <1> HIDE DEF base
  <1>8. \E f : Scalar(f)
    <2> DEFINE g == [p \in V \X (whole + 1 .. n) |-> MinPd(ys[p[2]], p[1])]
    <2>1. \A i \in whole + 1 .. n : i \in 1 .. n
      BY <1>4
    <2>2. g \in [V \X (whole + 1 .. n) -> V]
      <3>1. ASSUME NEW p \in V \X (whole + 1 .. n) PROVE MinPd(ys[p[2]], p[1]) \in V
        <4>1. p[1] \in V /\ ys[p[2]] \in V
          BY <1>2, <2>1
        <4> QED
          BY <1>3, <4>1
      <3> QED
        BY <3>1
    <2>3. \A v \in V : \A i \in whole + 1 .. n : g[<<v, i>>] = MinPd(ys[i], v)
      OBVIOUS
    <2> HIDE DEF g
    <2>4. PICK f \in [whole .. n -> V] :
             IteratesFrom(f, whole, n, base, g)
      <3>1. whole \in Nat /\ n \in Nat /\ whole <= n
        BY <1>2, <1>4
      <3> QED
        BY <1>6, <2>2, <3>1, LoopExists
    <2>5. \A i \in whole .. n : i > whole => g[<<f[i - 1], i>>] = MinPd(ys[i], f[i - 1])
      <3> SUFFICES ASSUME NEW i \in whole .. n, i > whole
                   PROVE  g[<<f[i - 1], i>>] = MinPd(ys[i], f[i - 1])
        OBVIOUS
      <3>1. i \in whole + 1 .. n /\ i - 1 \in whole .. n
        BY <1>2, <1>4
      <3>2. f[i - 1] \in V
        BY <3>1
      <3> QED
        BY <2>3, <3>1, <3>2
    <2>6. f = [i \in whole .. n |-> IF i > whole THEN MinPd(ys[i], f[i - 1]) ELSE base]
      BY <2>4, <2>5 DEF IteratesFrom
    <2> HIDE DEF Scalar
    <2> QED
      BY <1>7, <2>6
  <1>9. scalar = [i \in whole .. n |-> IF i > whole THEN MinPd(ys[i], scalar[i - 1]) ELSE base]
    <2>1. Scalar(scalar)
      <3> HIDE DEF Scalar
      <3> QED
        BY <1>8
    <2> HIDE DEF Scalar, scalar
    <2> QED
      BY <1>7, <2>1
  <1> HIDE DEF scalar, Scalar
  <1> DEFINE U == {d \in 0 .. n - whole : scalar[whole + d] \in V}
  <1>10. n - whole \in Nat
    BY <1>2, <1>4
  <1>11. 0 .. n - whole \subseteq U
    <2>1. 0 \in U
      <3>1. 0 \in 0 .. n - whole /\ whole + 0 = whole /\ whole \in whole .. n /\ ~(whole > whole)
        BY <1>2, <1>4
      <3> QED
        BY <1>6, <1>9, <3>1
    <2>2. ASSUME NEW d \in 1 .. n - whole, d - 1 \in U PROVE d \in U
      <3>1. d \in 0 .. n - whole /\ whole + d \in whole .. n /\ whole + d > whole
            /\ (whole + d) - 1 = whole + (d - 1) /\ whole + d \in 1 .. n
        BY <1>2, <1>4
      <3>2. scalar[whole + (d - 1)] \in V /\ ys[whole + d] \in V
        BY <1>2, <2>2, <3>1
      <3>3. scalar[whole + d] = MinPd(ys[whole + d], scalar[whole + (d - 1)])
        BY <1>9, <3>1
      <3> QED
        BY <1>3, <3>1, <3>2, <3>3
    <2> HIDE DEF U
    <2> QED
      BY <1>10, <2>1, <2>2, UpToInduction
  <1>12. scalar[n] \in V
    <2>1. n - whole \in U /\ whole + (n - whole) = n
      BY <1>2, <1>4, <1>10, <1>11
    <2> QED
      BY <2>1
  <1>13. ASSUME \A i \in 1 .. n : ys[i] \in Int
         PROVE  \A i \in 1 .. n : scalar[n] <= ys[i]
    <2>1. V \subseteq Int /\ \A u, v \in V : MinPd(u, v) <= u /\ MinPd(u, v) <= v
      <3>1. V \subseteq Int
        BY <1>13 DEF V
      <3> QED
        BY <3>1, NaNAssumption DEF MinPd, Less
    <2> DEFINE B == {b \in 0 .. blocks : \A c \in 1 .. b : \A j \in 1 .. W :
                       lanes[b][j] <= ys[(c - 1) * W + j]}
    <2>2. 0 .. blocks \subseteq B
      <3>1. 0 \in B
        BY <1>4
      <3>2. ASSUME NEW b \in 1 .. blocks, b - 1 \in B PROVE b \in B
        <4>1. b \in 0 .. blocks /\ b - 1 \in 0 .. blocks
          BY <1>4
        <4>2. ASSUME NEW c \in 1 .. b, NEW j \in 1 .. W PROVE lanes[b][j] <= ys[(c - 1) * W + j]
          <5>1. c \in 1 .. blocks /\ (c = b \/ c \in 1 .. b - 1)
            BY <1>4
          <5>2. lanes[b][j] = MinPd(lanes[b - 1][j], ys[(b - 1) * W + j])
            BY <1>5
          <5>3. lanes[b - 1][j] \in V /\ ys[(b - 1) * W + j] \in V /\ ys[(c - 1) * W + j] \in V
                /\ lanes[b][j] \in V
            BY <1>2, <1>4, <1>5, <4>1, <5>1
          <5>4. lanes[b][j] <= lanes[b - 1][j] /\ lanes[b][j] <= ys[(b - 1) * W + j]
            BY <2>1, <5>2, <5>3
          <5>5. c \in 1 .. b - 1 => lanes[b - 1][j] <= ys[(c - 1) * W + j]
            BY <3>2
          <5>6. lanes[b - 1][j] \in Int /\ ys[(c - 1) * W + j] \in Int /\ lanes[b][j] \in Int
            BY <2>1, <5>3
          <5>7. CASE c = b
            BY <5>4, <5>7
          <5>8. CASE c \in 1 .. b - 1
            BY <5>4, <5>5, <5>6, <5>8, NotAbove
          <5> QED
            BY <5>1, <5>7, <5>8
        <4> QED
          BY <4>1, <4>2
      <3> HIDE DEF B
      <3> QED
        BY <1>4, <3>1, <3>2, UpToInduction
    <2>3. ASSUME whole # 0, NEW j \in 1 .. W PROVE base <= lanes[blocks][j]
      <3> DEFINE v == lanes[blocks]
      <3>1. v \in [1 .. W -> V] /\ base = Horizontal(MinPd, v)
        BY <1>4, <1>5, <2>3 DEF base
      <3> HIDE DEF v
      <3>2. Len(v) = W
        BY <1>2, <3>1
      <3>3. \A i \in 1 .. W : v[i] \in V /\ v[i] \in Int
        BY <2>1, <3>1
      <3>4. base <= v[j]
        <4>1. CASE W = 1
          <5>1. base = v[1] /\ j = 1
            BY <3>1, <3>2, <4>1 DEF Horizontal
          <5> QED
            BY <3>3, <4>1, <5>1
        <4>2. CASE W = 2
          <5>1. base = MinPd(v[1], v[2]) /\ (j = 1 \/ j = 2)
            BY <3>1, <3>2, <4>2 DEF Horizontal
          <5>2. v[1] \in V /\ v[2] \in V
            BY <3>3, <4>2
          <5> QED
            BY <2>1, <5>1, <5>2
        <4>3. CASE W = 4
          <5>1. base = MinPd(MinPd(v[1], v[3]), MinPd(v[2], v[4]))
                /\ (j = 1 \/ j = 2 \/ j = 3 \/ j = 4)
            BY <3>1, <3>2, <4>3 DEF Horizontal
          <5>2. v[1] \in V /\ v[2] \in V /\ v[3] \in V /\ v[4] \in V
            BY <3>3, <4>3
          <5> DEFINE p == MinPd(v[1], v[3])
                     q == MinPd(v[2], v[4])
          <5>3. p \in V /\ q \in V /\ p <= v[1] /\ p <= v[3] /\ q <= v[2] /\ q <= v[4]
            BY <1>3, <2>1, <5>2
          <5>4. base = MinPd(p, q)
            BY <5>1
          <5> HIDE DEF p, q
          <5>5. base \in V /\ base <= p /\ base <= q
            BY <1>3, <2>1, <5>3, <5>4
          <5>6. base \in Int /\ p \in Int /\ q \in Int
            BY <2>1, <5>3, <5>5
          <5>7. v[1] \in Int /\ v[2] \in Int /\ v[3] \in Int /\ v[4] \in Int
            BY <2>1, <5>2
          <5>8. base <= v[1] /\ base <= v[2] /\ base <= v[3] /\ base <= v[4]
            BY <5>3, <5>5, <5>6, <5>7, NotAbove
          <5> QED
            BY <5>1, <5>8
        <4> QED
          BY <1>2, <4>1, <4>2, <4>3
      <3> QED
        BY <3>4 DEF v
    <2>4. ASSUME NEW i \in 1 .. whole PROVE base <= ys[i]
      <3>1. \E c \in 1 .. blocks, j \in 1 .. W : i = (c - 1) * W + j
        <4>1. whole = blocks * W
          BY DEF whole
        <4>2. W \in {1, 2, 4} /\ blocks \in Nat /\ i \in 1 .. blocks * W
          BY <1>2, <1>4, <4>1
        <4> QED
          BY ONLY <4>2, InBlock, Zenon
      <3>2. PICK c \in 1 .. blocks, j \in 1 .. W : i = (c - 1) * W + j
        BY <3>1
      <3>3. blocks \in B /\ c \in 1 .. blocks
        BY <1>4, <2>2
      <3>4. lanes[blocks][j] <= ys[i]
        BY <3>2, <3>3
      <3>5. whole # 0
        BY <1>4
      <3>6. base <= lanes[blocks][j]
        BY <2>3, <3>5
      <3>7. base \in Int /\ lanes[blocks][j] \in Int /\ ys[i] \in Int
        <4>1. blocks \in 0 .. blocks /\ i \in 1 .. n
          BY <1>2, <1>4
        <4> QED
          BY <1>5, <1>6, <1>13, <2>1, <4>1
      <3> QED
        BY <3>4, <3>6, <3>7
    <2> DEFINE D == {d \in 0 .. n - whole : \A i \in 1 .. whole + d : scalar[whole + d] <= ys[i]}
    <2>5. 0 .. n - whole \subseteq D
      <3>1. 0 \in D
        <4>1. 0 \in 0 .. n - whole /\ whole + 0 = whole /\ whole \in whole .. n /\ ~(whole > whole)
          BY <1>2, <1>4
        <4> QED
          BY <1>9, <2>4, <4>1
      <3>2. ASSUME NEW d \in 1 .. n - whole, d - 1 \in D PROVE d \in D
        <4>1. d \in 0 .. n - whole /\ whole + d \in whole .. n /\ whole + d > whole
              /\ (whole + d) - 1 = whole + (d - 1) /\ whole + d \in 1 .. n /\ d - 1 \in 0 .. n - whole
          BY <1>2, <1>4
        <4>2. scalar[whole + (d - 1)] \in V /\ ys[whole + d] \in V /\ scalar[whole + d] \in V
          BY <1>2, <1>11, <4>1
        <4>3. scalar[whole + d] = MinPd(ys[whole + d], scalar[whole + (d - 1)])
          BY <1>9, <4>1
        <4>4. scalar[whole + d] <= ys[whole + d] /\ scalar[whole + d] <= scalar[whole + (d - 1)]
          BY <2>1, <4>2, <4>3
        <4>5. ASSUME NEW i \in 1 .. whole + d PROVE scalar[whole + d] <= ys[i]
          <5>1. i = whole + d \/ i \in 1 .. whole + (d - 1)
            BY <1>4, <4>1
          <5>2. ys[i] \in Int
            BY <1>2, <1>4, <1>13, <4>1
          <5>3. i \in 1 .. whole + (d - 1) => scalar[whole + (d - 1)] <= ys[i]
            BY <3>2
          <5>4. scalar[whole + d] \in Int /\ scalar[whole + (d - 1)] \in Int
            BY <2>1, <4>2
          <5>5. CASE i = whole + d
            BY <4>4, <5>5
          <5>6. CASE i \in 1 .. whole + (d - 1)
            BY <4>4, <5>2, <5>3, <5>4, <5>6, NotAbove
          <5> QED
            BY <5>1, <5>5, <5>6
        <4> QED
          BY <4>1, <4>5
      <3> HIDE DEF D
      <3> QED
        BY <1>10, <3>1, <3>2, UpToInduction
    <2>6. n - whole \in 0 .. n - whole /\ whole + (n - whole) = n
      BY <1>2, <1>4, <1>10
    <2>7. n - whole \in D
      <3> HIDE DEF D
      <3> QED
        BY <2>5, <2>6
    <2> QED
      BY <2>6, <2>7
  <1> QED
    BY <1>1, <1>12, <1>13 DEF V, n

(* What the maximum of numbers returns is one of them, and the greatest. *)
LEMMA ReducedMax ==
  ASSUME NEW ys, Len(ys) \in Nat \ {0}
  PROVE  /\ \E i \in 1 .. Len(ys) : Reduce(MaxPd, ys) = ys[i]
         /\ (\A i \in 1 .. Len(ys) : ys[i] \in Int) =>
               \A i \in 1 .. Len(ys) : Reduce(MaxPd, ys) >= ys[i]
  <1> DEFINE n == Len(ys)
             W == SimdWidth
             V == {ys[i] : i \in 1 .. n}
             blocks == IF W = 1 THEN 0 ELSE n \div W
             whole == blocks * W
             first == [j \in 1 .. W |-> ys[1]]
             Lanes(f) == f = [b \in 0 .. blocks |->
                                IF b = 0 THEN [j \in 1 .. W |-> ys[1]]
                                ELSE [j \in 1 .. W |-> MaxPd(f[b - 1][j], ys[(b - 1) * W + j])]]
             lanes == CHOOSE f : Lanes(f)
             Scalar(f) == f = [i \in whole .. n |->
                                IF i > whole THEN MaxPd(ys[i], f[i - 1])
                                ELSE IF i = 0 THEN ys[1] ELSE Horizontal(MaxPd, lanes[blocks])]
             scalar == CHOOSE f : Scalar(f)
  <1>1. Reduce(MaxPd, ys) = scalar[n]
    BY DEF Reduce
  <1>2. n \in Nat \ {0} /\ W \in {1, 2, 4} /\ \A i \in 1 .. n : ys[i] \in V
    BY SimdWidthAssumption
  <1>3. \A u, v \in V : MaxPd(u, v) \in V
    BY DEF MaxPd
  <1>4. blocks \in Nat /\ whole \in Nat /\ whole <= n
        /\ \A b \in 1 .. blocks : \A j \in 1 .. W : (b - 1) * W + j \in 1 .. n
    BY <1>2
  <1> HIDE DEF n, W, V, blocks, whole
  <1>5. /\ lanes \in [0 .. blocks -> [1 .. W -> V]]
        /\ \A b \in 1 .. blocks : \A j \in 1 .. W :
             lanes[b][j] = MaxPd(lanes[b - 1][j], ys[(b - 1) * W + j])
    <2> DEFINE g == [p \in [1 .. W -> V] \X (1 .. blocks) |->
                       [j \in 1 .. W |-> MaxPd(p[1][j], ys[(p[2] - 1) * W + j])]]
    <2>1. first \in [1 .. W -> V]
      BY <1>2
    <2>2. g \in [[1 .. W -> V] \X (1 .. blocks) -> [1 .. W -> V]]
      <3>1. ASSUME NEW p \in [1 .. W -> V] \X (1 .. blocks), NEW j \in 1 .. W
            PROVE  MaxPd(p[1][j], ys[(p[2] - 1) * W + j]) \in V
        <4>1. p[1] \in [1 .. W -> V] /\ p[2] \in 1 .. blocks
          OBVIOUS
        <4>2. p[1][j] \in V /\ ys[(p[2] - 1) * W + j] \in V
          BY <1>2, <1>4, <4>1
        <4> QED
          BY <1>3, <4>2
      <3> QED
        BY <3>1
    <2>3. \A v \in [1 .. W -> V] : \A b \in 1 .. blocks :
             g[<<v, b>>] = [j \in 1 .. W |-> MaxPd(v[j], ys[(b - 1) * W + j])]
      OBVIOUS
    <2> HIDE DEF g
    <2>4. PICK f \in [0 .. blocks -> [1 .. W -> V]] : Iterates(f, blocks, first, g)
      BY <1>4, <2>1, <2>2, IterationExists
    <2>5. f = [b \in 0 .. blocks |-> IF b = 0 THEN first ELSE g[<<f[b - 1], b>>]]
      BY <2>4 DEF Iterates
    <2>6. \A b \in 0 .. blocks : b # 0 =>
             g[<<f[b - 1], b>>] = [j \in 1 .. W |-> MaxPd(f[b - 1][j], ys[(b - 1) * W + j])]
      <3> SUFFICES ASSUME NEW b \in 0 .. blocks, b # 0
                   PROVE  g[<<f[b - 1], b>>] = [j \in 1 .. W |-> MaxPd(f[b - 1][j], ys[(b - 1) * W + j])]
        OBVIOUS
      <3>1. b \in 1 .. blocks /\ b - 1 \in 0 .. blocks
        BY <1>4
      <3>2. f[b - 1] \in [1 .. W -> V]
        BY <3>1
      <3> QED
        BY <2>3, <3>1, <3>2
    <2>7. Lanes(f)
      BY <2>5, <2>6
    <2>8. ASSUME NEW h, Lanes(h) PROVE h \in [0 .. blocks -> [1 .. W -> V]]
      <3> DEFINE U == {b \in 0 .. blocks : h[b] \in [1 .. W -> V]}
      <3>1. 0 \in U
        <4>1. 0 \in 0 .. blocks
          BY <1>4
        <4> QED
          BY <2>1, <2>8, <4>1
      <3>2. ASSUME NEW b \in 1 .. blocks, b - 1 \in U PROVE b \in U
        <4>1. b \in 0 .. blocks /\ b # 0 /\ h[b - 1] \in [1 .. W -> V]
          BY <1>4, <3>2
        <4>2. h[b] = [j \in 1 .. W |-> MaxPd(h[b - 1][j], ys[(b - 1) * W + j])]
          BY <2>8, <4>1
        <4>3. \A j \in 1 .. W : MaxPd(h[b - 1][j], ys[(b - 1) * W + j]) \in V
          BY <1>2, <1>3, <1>4, <4>1
        <4> QED
          BY <4>1, <4>2, <4>3
      <3>3. 0 .. blocks \subseteq U
        <4> HIDE DEF U
        <4> QED
          BY <1>4, <3>1, <3>2, UpToInduction
      <3>4. h = [b \in 0 .. blocks |-> h[b]]
        BY <2>8
      <3> QED
        BY <3>3, <3>4
    <2>9. Lanes(lanes)
      <3> HIDE DEF Lanes
      <3> QED
        BY <2>7
    <2> HIDE DEF lanes
    <2>10. \A b \in 1 .. blocks : lanes[b] = [j \in 1 .. W |-> MaxPd(lanes[b - 1][j], ys[(b - 1) * W + j])]
      <3>1. \A b \in 1 .. blocks : b \in 0 .. blocks /\ b # 0
        BY <1>4
      <3> QED
        BY <2>9, <3>1
    <2> HIDE DEF Lanes
    <2> QED
      BY <2>8, <2>9, <2>10
  <1> HIDE DEF lanes
  <1> DEFINE base == IF whole = 0 THEN ys[1] ELSE Horizontal(MaxPd, lanes[blocks])
  <1>6. base \in V
    <2>1. lanes[blocks] \in [1 .. W -> V] /\ 1 \in 1 .. n
      BY <1>2, <1>4, <1>5
    <2> DEFINE v == lanes[blocks]
    <2>2. v \in [1 .. W -> V]
      BY <2>1
    <2> HIDE DEF v
    <2>3. Len(v) = W
      BY <1>2, <2>2
    <2>4. \A j \in 1 .. W : v[j] \in V
      BY <2>2
    <2>5. Horizontal(MaxPd, v) \in V
      <3>1. CASE W = 1
        <4>1. Horizontal(MaxPd, v) = v[1]
          BY <2>3, <3>1 DEF Horizontal
        <4> QED
          BY <2>4, <3>1, <4>1
      <3>2. CASE W = 2
        <4>1. Horizontal(MaxPd, v) = MaxPd(v[1], v[2])
          BY <2>3, <3>2 DEF Horizontal
        <4>2. v[1] \in V /\ v[2] \in V
          BY <2>4, <3>2
        <4> QED
          BY <1>3, <4>1, <4>2
      <3>3. CASE W = 4
        <4>1. Horizontal(MaxPd, v) = MaxPd(MaxPd(v[1], v[3]), MaxPd(v[2], v[4]))
          BY <2>3, <3>3 DEF Horizontal
        <4>2. v[1] \in V /\ v[2] \in V /\ v[3] \in V /\ v[4] \in V
          BY <2>4, <3>3
        <4>3. MaxPd(v[1], v[3]) \in V /\ MaxPd(v[2], v[4]) \in V
          BY <1>3, <4>2
        <4> QED
          BY <1>3, <4>1, <4>3
      <3> QED
        BY <1>2, <3>1, <3>2, <3>3
    <2> QED
      BY <1>2, <2>1, <2>5 DEF v
  <1>7. \A f : Scalar(f) <=> f = [i \in whole .. n |-> IF i > whole THEN MaxPd(ys[i], f[i - 1]) ELSE base]
    <2>1. \A i \in whole .. n : ~(i > whole) =>
             (IF i = 0 THEN ys[1] ELSE Horizontal(MaxPd, lanes[blocks])) = base
      <3> SUFFICES ASSUME NEW i \in whole .. n, ~(i > whole)
                   PROVE  (IF i = 0 THEN ys[1] ELSE Horizontal(MaxPd, lanes[blocks])) = base
        OBVIOUS
      <3>1. i = whole
        BY <1>2, <1>4
      <3> QED
        BY <3>1
    <2> DEFINE h == Horizontal(MaxPd, lanes[blocks])
    <2>2. \A i \in whole .. n : ~(i > whole) => (IF i = 0 THEN ys[1] ELSE h) = base
      BY <2>1
    <2>3. ASSUME NEW f
          PROVE  [i \in whole .. n |-> IF i > whole THEN MaxPd(ys[i], f[i - 1])
                                       ELSE IF i = 0 THEN ys[1] ELSE h]
                   = [i \in whole .. n |-> IF i > whole THEN MaxPd(ys[i], f[i - 1]) ELSE base]
      <3> HIDE DEF h, base
      <3> QED
        BY <2>2
    <2> QED
      BY <2>3
  <1> HIDE DEF base
  <1>8. \E f : Scalar(f)
    <2> DEFINE g == [p \in V \X (whole + 1 .. n) |-> MaxPd(ys[p[2]], p[1])]
    <2>1. \A i \in whole + 1 .. n : i \in 1 .. n
      BY <1>4
    <2>2. g \in [V \X (whole + 1 .. n) -> V]
      <3>1. ASSUME NEW p \in V \X (whole + 1 .. n) PROVE MaxPd(ys[p[2]], p[1]) \in V
        <4>1. p[1] \in V /\ ys[p[2]] \in V
          BY <1>2, <2>1
        <4> QED
          BY <1>3, <4>1
      <3> QED
        BY <3>1
    <2>3. \A v \in V : \A i \in whole + 1 .. n : g[<<v, i>>] = MaxPd(ys[i], v)
      OBVIOUS
    <2> HIDE DEF g
    <2>4. PICK f \in [whole .. n -> V] :
             IteratesFrom(f, whole, n, base, g)
      <3>1. whole \in Nat /\ n \in Nat /\ whole <= n
        BY <1>2, <1>4
      <3> QED
        BY <1>6, <2>2, <3>1, LoopExists
    <2>5. \A i \in whole .. n : i > whole => g[<<f[i - 1], i>>] = MaxPd(ys[i], f[i - 1])
      <3> SUFFICES ASSUME NEW i \in whole .. n, i > whole
                   PROVE  g[<<f[i - 1], i>>] = MaxPd(ys[i], f[i - 1])
        OBVIOUS
      <3>1. i \in whole + 1 .. n /\ i - 1 \in whole .. n
        BY <1>2, <1>4
      <3>2. f[i - 1] \in V
        BY <3>1
      <3> QED
        BY <2>3, <3>1, <3>2
    <2>6. f = [i \in whole .. n |-> IF i > whole THEN MaxPd(ys[i], f[i - 1]) ELSE base]
      BY <2>4, <2>5 DEF IteratesFrom
    <2> HIDE DEF Scalar
    <2> QED
      BY <1>7, <2>6
  <1>9. scalar = [i \in whole .. n |-> IF i > whole THEN MaxPd(ys[i], scalar[i - 1]) ELSE base]
    <2>1. Scalar(scalar)
      <3> HIDE DEF Scalar
      <3> QED
        BY <1>8
    <2> HIDE DEF Scalar, scalar
    <2> QED
      BY <1>7, <2>1
  <1> HIDE DEF scalar, Scalar
  <1> DEFINE U == {d \in 0 .. n - whole : scalar[whole + d] \in V}
  <1>10. n - whole \in Nat
    BY <1>2, <1>4
  <1>11. 0 .. n - whole \subseteq U
    <2>1. 0 \in U
      <3>1. 0 \in 0 .. n - whole /\ whole + 0 = whole /\ whole \in whole .. n /\ ~(whole > whole)
        BY <1>2, <1>4
      <3> QED
        BY <1>6, <1>9, <3>1
    <2>2. ASSUME NEW d \in 1 .. n - whole, d - 1 \in U PROVE d \in U
      <3>1. d \in 0 .. n - whole /\ whole + d \in whole .. n /\ whole + d > whole
            /\ (whole + d) - 1 = whole + (d - 1) /\ whole + d \in 1 .. n
        BY <1>2, <1>4
      <3>2. scalar[whole + (d - 1)] \in V /\ ys[whole + d] \in V
        BY <1>2, <2>2, <3>1
      <3>3. scalar[whole + d] = MaxPd(ys[whole + d], scalar[whole + (d - 1)])
        BY <1>9, <3>1
      <3> QED
        BY <1>3, <3>1, <3>2, <3>3
    <2> HIDE DEF U
    <2> QED
      BY <1>10, <2>1, <2>2, UpToInduction
  <1>12. scalar[n] \in V
    <2>1. n - whole \in U /\ whole + (n - whole) = n
      BY <1>2, <1>4, <1>10, <1>11
    <2> QED
      BY <2>1
  <1>13. ASSUME \A i \in 1 .. n : ys[i] \in Int
         PROVE  \A i \in 1 .. n : scalar[n] >= ys[i]
    <2>1. V \subseteq Int /\ \A u, v \in V : MaxPd(u, v) >= u /\ MaxPd(u, v) >= v
      <3>1. V \subseteq Int
        BY <1>13 DEF V
      <3> QED
        BY <3>1, NaNAssumption DEF MaxPd, Less
    <2> DEFINE B == {b \in 0 .. blocks : \A c \in 1 .. b : \A j \in 1 .. W :
                       lanes[b][j] >= ys[(c - 1) * W + j]}
    <2>2. 0 .. blocks \subseteq B
      <3>1. 0 \in B
        BY <1>4
      <3>2. ASSUME NEW b \in 1 .. blocks, b - 1 \in B PROVE b \in B
        <4>1. b \in 0 .. blocks /\ b - 1 \in 0 .. blocks
          BY <1>4
        <4>2. ASSUME NEW c \in 1 .. b, NEW j \in 1 .. W PROVE lanes[b][j] >= ys[(c - 1) * W + j]
          <5>1. c \in 1 .. blocks /\ (c = b \/ c \in 1 .. b - 1)
            BY <1>4
          <5>2. lanes[b][j] = MaxPd(lanes[b - 1][j], ys[(b - 1) * W + j])
            BY <1>5
          <5>3. lanes[b - 1][j] \in V /\ ys[(b - 1) * W + j] \in V /\ ys[(c - 1) * W + j] \in V
                /\ lanes[b][j] \in V
            BY <1>2, <1>4, <1>5, <4>1, <5>1
          <5>4. lanes[b][j] >= lanes[b - 1][j] /\ lanes[b][j] >= ys[(b - 1) * W + j]
            BY <2>1, <5>2, <5>3
          <5>5. c \in 1 .. b - 1 => lanes[b - 1][j] >= ys[(c - 1) * W + j]
            BY <3>2
          <5>6. lanes[b - 1][j] \in Int /\ ys[(c - 1) * W + j] \in Int /\ lanes[b][j] \in Int
            BY <2>1, <5>3
          <5>7. CASE c = b
            BY <5>4, <5>7
          <5>8. CASE c \in 1 .. b - 1
            BY <5>4, <5>5, <5>6, <5>8, NotBelow
          <5> QED
            BY <5>1, <5>7, <5>8
        <4> QED
          BY <4>1, <4>2
      <3> HIDE DEF B
      <3> QED
        BY <1>4, <3>1, <3>2, UpToInduction
    <2>3. ASSUME whole # 0, NEW j \in 1 .. W PROVE base >= lanes[blocks][j]
      <3> DEFINE v == lanes[blocks]
      <3>1. v \in [1 .. W -> V] /\ base = Horizontal(MaxPd, v)
        BY <1>4, <1>5, <2>3 DEF base
      <3> HIDE DEF v
      <3>2. Len(v) = W
        BY <1>2, <3>1
      <3>3. \A i \in 1 .. W : v[i] \in V /\ v[i] \in Int
        BY <2>1, <3>1
      <3>4. base >= v[j]
        <4>1. CASE W = 1
          <5>1. base = v[1] /\ j = 1
            BY <3>1, <3>2, <4>1 DEF Horizontal
          <5> QED
            BY <3>3, <4>1, <5>1
        <4>2. CASE W = 2
          <5>1. base = MaxPd(v[1], v[2]) /\ (j = 1 \/ j = 2)
            BY <3>1, <3>2, <4>2 DEF Horizontal
          <5>2. v[1] \in V /\ v[2] \in V
            BY <3>3, <4>2
          <5> QED
            BY <2>1, <5>1, <5>2
        <4>3. CASE W = 4
          <5>1. base = MaxPd(MaxPd(v[1], v[3]), MaxPd(v[2], v[4]))
                /\ (j = 1 \/ j = 2 \/ j = 3 \/ j = 4)
            BY <3>1, <3>2, <4>3 DEF Horizontal
          <5>2. v[1] \in V /\ v[2] \in V /\ v[3] \in V /\ v[4] \in V
            BY <3>3, <4>3
          <5> DEFINE p == MaxPd(v[1], v[3])
                     q == MaxPd(v[2], v[4])
          <5>3. p \in V /\ q \in V /\ p >= v[1] /\ p >= v[3] /\ q >= v[2] /\ q >= v[4]
            BY <1>3, <2>1, <5>2
          <5>4. base = MaxPd(p, q)
            BY <5>1
          <5> HIDE DEF p, q
          <5>5. base \in V /\ base >= p /\ base >= q
            BY <1>3, <2>1, <5>3, <5>4
          <5>6. base \in Int /\ p \in Int /\ q \in Int
            BY <2>1, <5>3, <5>5
          <5>7. v[1] \in Int /\ v[2] \in Int /\ v[3] \in Int /\ v[4] \in Int
            BY <2>1, <5>2
          <5>8. base >= v[1] /\ base >= v[2] /\ base >= v[3] /\ base >= v[4]
            <6>1. p >= v[1] /\ p >= v[3] /\ q >= v[2] /\ q >= v[4]
              BY <5>3
            <6> QED
              BY ONLY <5>5, <5>6, <5>7, <6>1, NotBelow
          <5> QED
            BY <5>1, <5>8
        <4> QED
          BY <1>2, <4>1, <4>2, <4>3
      <3> QED
        BY <3>4 DEF v
    <2>4. ASSUME NEW i \in 1 .. whole PROVE base >= ys[i]
      <3>1. \E c \in 1 .. blocks, j \in 1 .. W : i = (c - 1) * W + j
        <4>1. whole = blocks * W
          BY DEF whole
        <4>2. W \in {1, 2, 4} /\ blocks \in Nat /\ i \in 1 .. blocks * W
          BY <1>2, <1>4, <4>1
        <4> QED
          BY ONLY <4>2, InBlock, Zenon
      <3>2. PICK c \in 1 .. blocks, j \in 1 .. W : i = (c - 1) * W + j
        BY <3>1
      <3>3. blocks \in B /\ c \in 1 .. blocks
        BY <1>4, <2>2
      <3>4. lanes[blocks][j] >= ys[i]
        BY <3>2, <3>3
      <3>5. whole # 0
        BY <1>4
      <3>6. base >= lanes[blocks][j]
        BY <2>3, <3>5
      <3>7. base \in Int /\ lanes[blocks][j] \in Int /\ ys[i] \in Int
        <4>1. blocks \in 0 .. blocks /\ i \in 1 .. n
          BY <1>2, <1>4
        <4> QED
          BY <1>5, <1>6, <1>13, <2>1, <4>1
      <3> QED
        BY <3>4, <3>6, <3>7
    <2> DEFINE D == {d \in 0 .. n - whole : \A i \in 1 .. whole + d : scalar[whole + d] >= ys[i]}
    <2>5. 0 .. n - whole \subseteq D
      <3>1. 0 \in D
        <4>1. 0 \in 0 .. n - whole /\ whole + 0 = whole /\ whole \in whole .. n /\ ~(whole > whole)
          BY <1>2, <1>4
        <4> QED
          BY <1>9, <2>4, <4>1
      <3>2. ASSUME NEW d \in 1 .. n - whole, d - 1 \in D PROVE d \in D
        <4>1. d \in 0 .. n - whole /\ whole + d \in whole .. n /\ whole + d > whole
              /\ (whole + d) - 1 = whole + (d - 1) /\ whole + d \in 1 .. n /\ d - 1 \in 0 .. n - whole
          BY <1>2, <1>4
        <4>2. scalar[whole + (d - 1)] \in V /\ ys[whole + d] \in V /\ scalar[whole + d] \in V
          BY <1>2, <1>11, <4>1
        <4>3. scalar[whole + d] = MaxPd(ys[whole + d], scalar[whole + (d - 1)])
          BY <1>9, <4>1
        <4>4. scalar[whole + d] >= ys[whole + d] /\ scalar[whole + d] >= scalar[whole + (d - 1)]
          BY <2>1, <4>2, <4>3
        <4>5. ASSUME NEW i \in 1 .. whole + d PROVE scalar[whole + d] >= ys[i]
          <5>1. i = whole + d \/ i \in 1 .. whole + (d - 1)
            BY <1>4, <4>1
          <5>2. ys[i] \in Int
            BY <1>2, <1>4, <1>13, <4>1
          <5>3. i \in 1 .. whole + (d - 1) => scalar[whole + (d - 1)] >= ys[i]
            BY <3>2
          <5>4. scalar[whole + d] \in Int /\ scalar[whole + (d - 1)] \in Int
            BY <2>1, <4>2
          <5>5. CASE i = whole + d
            BY <4>4, <5>5
          <5>6. CASE i \in 1 .. whole + (d - 1)
            BY <4>4, <5>2, <5>3, <5>4, <5>6, NotBelow
          <5> QED
            BY <5>1, <5>5, <5>6
        <4> QED
          BY <4>1, <4>5
      <3> HIDE DEF D
      <3> QED
        BY <1>10, <3>1, <3>2, UpToInduction
    <2>6. n - whole \in 0 .. n - whole /\ whole + (n - whole) = n
      BY <1>2, <1>4, <1>10
    <2>7. n - whole \in D
      <3> HIDE DEF D
      <3> QED
        BY <2>5, <2>6
    <2> QED
      BY <2>6, <2>7
  <1> QED
    BY <1>1, <1>12, <1>13 DEF V, n

(* pts is picked from line, in its order. *)
Picks(pts, line) ==
  /\ Len(pts) >= 1
  /\ \E at : Traces(pts, at, line) /\ \A k \in 1 .. Len(pts) : at[k] # 0
(* pts goes as far as line does. *)
Reaches(pts, line) == line[Len(line)][1] <= pts[Len(pts)][1]

LEMMA YsOfLine ==
  ASSUME NEW line, IsLine(line)
  PROVE  Len(Ys(line)) = Len(line) /\ DOMAIN Ys(line) = 1 .. Len(line)
         /\ \A i \in 1 .. Len(line) : Ys(line)[i] = line[i][2]
  <1>1. Ys(line) = [i \in 1 .. Len(line) |-> line[i][2]] /\ Len(line) \in Nat
    BY DEF IsLine, Ys
  <1> QED
    BY <1>1

LEMMA FirstAtIs ==
  ASSUME NEW ys, Len(ys) \in Nat, DOMAIN ys = 1 .. Len(ys),
         NEW k \in 1 .. Len(ys), NEW v, v = ys[k], v # NaN
  PROVE  FirstAt(ys, v) \in 1 .. Len(ys) /\ ys[FirstAt(ys, v)] = v
  <1> DEFINE S == {i \in DOMAIN ys : ys[i] = v}
  <1>1. S \in SUBSET (0 .. Len(ys)) /\ S # {}
    OBVIOUS
  <1>2. FirstAt(ys, v) = Min(S)
    BY DEF FirstAt
  <1> HIDE DEF S
  <1>3. Min(S) \in S
    BY <1>1, MinExists
  <1> QED
    BY <1>2, <1>3 DEF S

(* Of p and q one is no higher than s, and one is no lower. *)
Spans(p, q, s) ==
  /\ p[2] <= s[2] \/ q[2] <= s[2]
  /\ p[2] >= s[2] \/ q[2] >= s[2]

LEMMA Levels ==
  ASSUME NEW bucket, IsLine(bucket), ~HasGap(bucket), NEW k \in 1 .. Len(bucket)
  PROVE  bucket[k][2] \in Int
  BY DEF IsLine, HasGap, Sample

(* One bucket gives two of its samples, in their order, and they span it. *)
LEMMA BucketPairIs ==
  ASSUME NEW bucket, IsLine(bucket), ~HasGap(bucket)
  PROVE  \E i, j \in 1 .. Len(bucket) :
            /\ i <= j /\ BucketPair(bucket) = <<bucket[i], bucket[j]>>
            /\ \A k \in 1 .. Len(bucket) : Spans(bucket[i], bucket[j], bucket[k])
  <1> DEFINE ys == Ys(bucket)
             n == Len(bucket)
             low == Reduce(MinPd, ys)
             high == Reduce(MaxPd, ys)
             i == FirstAt(ys, low)
             j == FirstAt(ys, high)
  <1>1. n \in Nat \ {0} /\ Len(ys) = n /\ DOMAIN ys = 1 .. n /\ \A k \in 1 .. n : ys[k] = bucket[k][2]
    BY YsOfLine DEF IsLine
  <1>2. \A k \in 1 .. n : ys[k] # NaN
    BY <1>1 DEF HasGap, IsLine
  <1>3. BucketPair(bucket) = IF i <= j THEN << <<bucket[i][1], low>>, <<bucket[j][1], high>> >>
                             ELSE << <<bucket[j][1], high>>, <<bucket[i][1], low>> >>
    BY DEF BucketPair
  <1> HIDE DEF ys, n
  <1>4. PICK k \in 1 .. n : low = ys[k]
    BY <1>1, ReducedMin
  <1>5. PICK l \in 1 .. n : high = ys[l]
    BY <1>1, ReducedMax
  <1>13. \A l2 \in 1 .. n : low <= ys[l2] /\ high >= ys[l2]
    <2>1. \A l2 \in 1 .. n : ys[l2] \in Int
      BY <1>1, Levels DEF n
    <2> QED
      BY <1>1, <2>1, ReducedMin, ReducedMax
  <1> HIDE DEF low, high
  <1>6. i \in 1 .. n /\ ys[i] = low
    BY <1>1, <1>2, <1>4, FirstAtIs
  <1>7. j \in 1 .. n /\ ys[j] = high
    BY <1>1, <1>2, <1>5, FirstAtIs
  <1> HIDE DEF i, j
  <1>8. \A k2 \in 1 .. n : <<bucket[k2][1], bucket[k2][2]>> = bucket[k2]
    <2>1. \A k2 \in 1 .. n : bucket[k2] \in Sample
      BY DEF IsLine, n
    <2> QED
      BY <2>1 DEF Sample
  <1>9. <<bucket[i][1], low>> = bucket[i] /\ <<bucket[j][1], high>> = bucket[j]
    BY <1>1, <1>6, <1>7, <1>8
  <1>10. i \in Int /\ j \in Int
    BY <1>6, <1>7
  <1>14. \A l2 \in 1 .. n : Spans(bucket[i], bucket[j], bucket[l2]) /\ Spans(bucket[j], bucket[i], bucket[l2])
    BY <1>1, <1>6, <1>7, <1>13 DEF Spans
  <1>11. CASE i <= j
    BY <1>3, <1>6, <1>7, <1>9, <1>11, <1>14 DEF n
  <1>12. CASE ~(i <= j)
    <2>1. j <= i
      BY <1>10, <1>12
    <2> QED
      BY <1>3, <1>6, <1>7, <1>9, <1>12, <1>14, <2>1 DEF n
  <1> QED
    BY <1>11, <1>12

(* Two samples of a part of the line follow the line. *)
LEMMA PairTraces ==
  ASSUME NEW line, IsLine(line), NEW p \in 1 .. Len(line), NEW q \in p .. Len(line)
  PROVE  LET at == <<p, q>> IN Traces(<<line[p], line[q]>>, at, line)
  <1> DEFINE pts == <<line[p], line[q]>>
             at == <<p, q>>
  <1>1. Len(line) \in Nat /\ p \in 1 .. Len(line) /\ q \in 1 .. Len(line) /\ p <= q
        /\ line[p] \in Point /\ line[q] \in Point
    BY DEF IsLine, Point
  <1>2. Len(pts) = 2 /\ pts \in Seq(Point) /\ DOMAIN pts = 1 .. 2 /\ pts[1] = line[p] /\ pts[2] = line[q]
    BY <1>1
  <1>3. at \in [1 .. 2 -> 0 .. Len(line)] /\ at[1] = p /\ at[2] = q
    <2>1. at = [k \in 1 .. 2 |-> IF k = 1 THEN p ELSE q]
      OBVIOUS
    <2> QED
      BY <1>1, <2>1
  <1>4. \A k \in 1 .. 2 : k = 1 \/ k = 2
    OBVIOUS
  <1> HIDE DEF pts, at
  <1>5. \A k \in 1 .. 2 : pts[k] = IF at[k] = 0 THEN Gap ELSE line[at[k]]
    BY <1>1, <1>2, <1>3, <1>4
  <1>6. \A k, l \in 1 .. 2 : k <= l => at[k] <= at[l]
    BY <1>1, <1>3, <1>4
  <1>7. Traces(pts, at, line)
    BY <1>2, <1>3, <1>5, <1>6 DEF Traces
  <1> QED
    BY <1>7 DEF pts, at

(* Pairs picked from parts that come one after the other. *)
LEMMA PairsFlattened ==
  ASSUME NEW line, IsLine(line), NEW nb \in Nat \ {0}, NEW pairs, NEW lo, NEW hi,
         Len(pairs) = nb,
         \A b \in 1 .. nb :
            /\ lo[b] \in 1 .. Len(line) /\ hi[b] \in lo[b] .. Len(line)
            /\ \E p, q \in lo[b] .. hi[b] : p <= q /\ pairs[b] = <<line[p], line[q]>>,
         \A b, c \in 1 .. nb : b < c => hi[b] < lo[c]
  PROVE  Picks(FlattenSeq(pairs), line)
  <1> DEFINE r == FlattenSeq(pairs)
             Good(b, a) == /\ Traces(pairs[b], a, line) /\ Len(pairs[b]) = 2
                           /\ \A j \in 1 .. Len(pairs[b]) : a[j] \in lo[b] .. hi[b]
             ats == [b \in 1 .. nb |-> CHOOSE a : Good(b, a)]
  <1>1. ASSUME NEW b \in 1 .. nb PROVE \E a : Good(b, a)
    <2>1. PICK p \in lo[b] .. hi[b], q \in lo[b] .. hi[b] : p <= q /\ pairs[b] = <<line[p], line[q]>>
      OBVIOUS
    <2>2. Len(line) \in Nat
      BY DEF IsLine
    <2>3. p \in 1 .. Len(line) /\ q \in p .. Len(line)
      <3>1. lo[b] \in 1 .. Len(line) /\ hi[b] \in lo[b] .. Len(line)
        OBVIOUS
      <3> QED
        BY <2>1, <2>2, <3>1
    <2> DEFINE a == <<p, q>>
    <2>4. Traces(pairs[b], a, line)
      BY <2>1, <2>3, PairTraces
    <2>5. Len(pairs[b]) = 2
      BY <2>1
    <2>6. \A j \in 1 .. 2 : a[j] \in lo[b] .. hi[b]
      <3>1. a[1] = p /\ a[2] = q /\ \A j \in 1 .. 2 : j = 1 \/ j = 2
        OBVIOUS
      <3> HIDE DEF a
      <3> QED
        BY <2>1, <3>1
    <2> HIDE DEF a
    <2> QED
      BY <2>4, <2>5, <2>6
  <1>2. \A b \in 1 .. nb : Good(b, ats[b])
    <2> HIDE DEF Good
    <2> QED
      BY <1>1
  <1> HIDE DEF ats
  <1>3. Len(line) \in Nat
    BY DEF IsLine
  <1>4. \A b \in 1 .. Len(pairs) :
            /\ Traces(pairs[b], ats[b], line) /\ lo[b] \in Int /\ hi[b] \in Int
            /\ \A j \in 1 .. Len(pairs[b]) : ats[b][j] = 0 \/ ats[b][j] \in lo[b] .. hi[b]
    <2> SUFFICES ASSUME NEW b \in 1 .. nb
                 PROVE  /\ Traces(pairs[b], ats[b], line) /\ lo[b] \in Int /\ hi[b] \in Int
                        /\ \A j \in 1 .. Len(pairs[b]) : ats[b][j] = 0 \/ ats[b][j] \in lo[b] .. hi[b]
      OBVIOUS
    <2>1. Good(b, ats[b])
      BY <1>2
    <2>2. lo[b] \in 1 .. Len(line) /\ hi[b] \in lo[b] .. Len(line)
      OBVIOUS
    <2> QED
      BY <2>1, <2>2
  <1>50. PICK at, len : Joins(r, pairs, ats, line, at, len)
    <2>1. Len(pairs) \in Nat \ {0} /\ \A b, c \in 1 .. Len(pairs) : b < c => hi[b] < lo[c]
      OBVIOUS
    <2> HIDE DEF Good
    <2> QED
      BY <1>3, <1>4, <2>1, FlattenTraces
  <1>5. /\ Laid(r, pairs, len) /\ Traces(r, at, line)
        /\ \A k, i, j : At(pairs, len, k, i, j) => at[k] = ats[i][j]
    BY <1>50 DEF Joins
  <1>6. \A b \in 1 .. Len(pairs) : Len(pairs[b]) \in Nat
    BY <1>2
  <1> HIDE DEF r
  <1>7. \A k \in 1 .. Len(r) : at[k] # 0
    <2> SUFFICES ASSUME NEW k \in 1 .. Len(r) PROVE at[k] # 0
      OBVIOUS
    <2>1. PICK i, j : At(pairs, len, k, i, j)
      BY <1>5, <1>6, PieceOf
    <2>2. i \in 1 .. nb /\ j \in 1 .. Len(pairs[i])
      BY <2>1 DEF At
    <2>3. ats[i][j] \in lo[i] .. hi[i] /\ lo[i] \in 1 .. Len(line)
      BY <1>2, <2>2
    <2>4. at[k] = ats[i][j]
      BY <1>5, <2>1
    <2> QED
      BY <2>3, <2>4
  <1>8. Len(r) >= 1
    <2>1. 1 \in 1 .. Len(pairs) /\ Len(pairs[1]) = 2
      BY <1>2
    <2>2. At(pairs, len, len[1 - 1] + 1, 1, 1)
      BY <2>1 DEF At
    <2>3. len[1 - 1] + 1 \in 1 .. Len(r)
      BY <1>5, <1>6, <2>2, PieceOrder
    <2>4. Len(r) \in Nat
      BY <1>5 DEF Traces
    <2> QED
      BY <2>3, <2>4
  <1>9. Picks(r, line)
    BY <1>5, <1>7, <1>8 DEF Picks
  <1> QED
    BY <1>9 DEF r

LEMMA PicksIsLine ==
  ASSUME NEW line, IsLine(line), NEW pts, Picks(pts, line)
  PROVE  /\ IsLine(pts) /\ (~HasGap(line) => ~HasGap(pts))
         /\ \A k \in 1 .. Len(pts) : \E i \in 1 .. Len(line) : pts[k] = line[i]
  <1>1. PICK at : Traces(pts, at, line) /\ \A k \in 1 .. Len(pts) : at[k] # 0
    BY DEF Picks
  <1>2. /\ pts \in Seq(Point) /\ Len(pts) \in Nat \ {0} /\ DOMAIN pts = 1 .. Len(pts)
        /\ \A k \in 1 .. Len(pts) : at[k] \in 1 .. Len(line) /\ pts[k] = line[at[k]]
        /\ \A k, l \in 1 .. Len(pts) : k <= l => at[k] <= at[l]
    <2>1. Len(line) \in Nat
      BY DEF IsLine
    <2>2. /\ pts \in Seq(Point) /\ Len(pts) \in Nat /\ DOMAIN pts = 1 .. Len(pts)
          /\ at \in [1 .. Len(pts) -> 0 .. Len(line)]
      BY <1>1 DEF Traces
    <2>3. Len(pts) \in Nat \ {0}
      BY <2>2 DEF Picks
    <2>4. \A k \in 1 .. Len(pts) : at[k] \in 1 .. Len(line)
      <3> SUFFICES ASSUME NEW k \in 1 .. Len(pts) PROVE at[k] \in 1 .. Len(line)
        OBVIOUS
      <3>1. at[k] \in 0 .. Len(line) /\ at[k] # 0
        BY <1>1, <2>2
      <3> QED
        BY <2>1, <3>1
    <2>5. \A k \in 1 .. Len(pts) : pts[k] = line[at[k]]
      BY <1>1 DEF Traces
    <2>6. \A k, l \in 1 .. Len(pts) : k <= l => at[k] <= at[l]
      BY <1>1 DEF Traces
    <2> QED
      BY <2>2, <2>3, <2>4, <2>5, <2>6
  <1>3. \A k \in 1 .. Len(pts) : pts[k] \in Sample /\ pts[k][1] \in Int
    BY <1>2 DEF IsLine
  <1>4. pts \in Seq(Sample)
    <2>1. pts = [k \in 1 .. Len(pts) |-> pts[k]]
      BY <1>2
    <2>2. pts \in [1 .. Len(pts) -> Sample]
      BY <1>3, <2>1
    <2> QED
      BY <1>2, <2>2
  <1>5. \A k, l \in 1 .. Len(pts) : k <= l => pts[k][1] <= pts[l][1]
    BY <1>2 DEF IsLine
  <1>6. IsLine(pts)
    BY <1>2, <1>3, <1>4, <1>5 DEF IsLine
  <1>7. ~HasGap(line) => ~HasGap(pts)
    <2>1. DOMAIN line = 1 .. Len(line)
      BY DEF IsLine
    <2> QED
      BY <1>2, <2>1 DEF HasGap
  <1> QED
    BY <1>2, <1>6, <1>7

LEMMA PicksAgain ==
  ASSUME NEW line, IsLine(line), NEW mid, Picks(mid, line), NEW pts, Picks(pts, mid)
  PROVE  Picks(pts, line)
  <1>1. PICK a : Traces(mid, a, line) /\ \A k \in 1 .. Len(mid) : a[k] # 0
    BY DEF Picks
  <1>2. PICK b : Traces(pts, b, mid) /\ \A k \in 1 .. Len(pts) : b[k] # 0
    BY DEF Picks
  <1> DEFINE at == [k \in 1 .. Len(pts) |-> a[b[k]]]
  <1>3. Len(line) \in Nat /\ Len(mid) \in Nat /\ Len(pts) \in Nat
    BY <1>1, <1>2 DEF IsLine, Traces
  <1>4. /\ \A k \in 1 .. Len(mid) : a[k] \in 1 .. Len(line) /\ mid[k] = line[a[k]]
        /\ \A k, l \in 1 .. Len(mid) : k <= l => a[k] <= a[l]
    BY <1>1, <1>3 DEF Traces
  <1>5. /\ \A k \in 1 .. Len(pts) : b[k] \in 1 .. Len(mid) /\ pts[k] = mid[b[k]]
        /\ \A k, l \in 1 .. Len(pts) : k <= l => b[k] <= b[l]
    BY <1>2, <1>3 DEF Traces
  <1>6. \A k \in 1 .. Len(pts) : at[k] \in 1 .. Len(line) /\ at[k] # 0 /\ pts[k] = line[at[k]]
    BY <1>4, <1>5
  <1>7. \A k, l \in 1 .. Len(pts) : k <= l => at[k] <= at[l]
    BY <1>4, <1>5
  <1>8. at \in [1 .. Len(pts) -> 0 .. Len(line)]
    BY <1>6
  <1> HIDE DEF at
  <1>9. Traces(pts, at, line)
    BY <1>2, <1>6, <1>7, <1>8 DEF Traces
  <1> QED
    BY <1>6, <1>9 DEF Picks

LEMMA WholePicks ==
  ASSUME NEW line, IsLine(line)
  PROVE  Picks(line, line) /\ Reaches(line, line)
  <1> DEFINE at == [k \in 1 .. Len(line) |-> k]
  <1>1. Len(line) \in Nat \ {0} /\ DOMAIN line = 1 .. Len(line) /\ line \in Seq(Point)
    <2>1. line \in Seq(Sample) /\ Sample \subseteq Point
      BY DEF IsLine, Point
    <2>2. \A S, T : S \subseteq T => Seq(S) \subseteq Seq(T)
      OBVIOUS
    <2> QED
      BY <2>1, <2>2 DEF IsLine
  <1>2. Traces(line, at, line)
    <2>1. at \in [1 .. Len(line) -> 0 .. Len(line)] /\ \A k \in 1 .. Len(line) : at[k] = k
      BY <1>1
    <2> HIDE DEF at
    <2> QED
      BY <1>1, <2>1 DEF Traces
  <1>3. \A k \in 1 .. Len(line) : at[k] # 0
    BY <1>1
  <1> HIDE DEF at
  <1>4. Picks(line, line)
    BY <1>1, <1>2, <1>3 DEF Picks
  <1>5. line[Len(line)][1] \in Int
    <2>1. Len(line) \in 1 .. Len(line)
      BY <1>1
    <2> QED
      BY <2>1 DEF IsLine
  <1> QED
    BY <1>4, <1>5 DEF Reaches

LEMMA LastAppended ==
  ASSUME NEW line, IsLine(line), NEW pts, Picks(pts, line)
  PROVE  /\ Picks(Append(pts, line[Len(line)]), line)
         /\ Reaches(Append(pts, line[Len(line)]), line)
  <1> DEFINE m == Len(pts)
             n == Len(line)
             more == Append(pts, line[n])
  <1>1. PICK a : Traces(pts, a, line) /\ \A k \in 1 .. Len(pts) : a[k] # 0
    BY DEF Picks
  <1> DEFINE at == [k \in 1 .. m + 1 |-> IF k = m + 1 THEN n ELSE a[k]]
  <1>2. n \in Nat \ {0} /\ n \in 1 .. n /\ line[n] \in Point /\ line[n][1] \in Int
    <2>1. n \in Nat \ {0}
      BY DEF IsLine
    <2>2. n \in 1 .. n
      BY <2>1
    <2> QED
      BY <2>1, <2>2 DEF IsLine, Point
  <1>3. /\ pts \in Seq(Point) /\ m \in Nat
        /\ \A k \in 1 .. m : a[k] \in 1 .. n /\ pts[k] = line[a[k]]
        /\ \A k, l \in 1 .. m : k <= l => a[k] <= a[l]
    BY <1>1, <1>2 DEF Traces
  <1>4. more \in Seq(Point) /\ Len(more) = m + 1 /\ DOMAIN more = 1 .. m + 1
        /\ more[m + 1] = line[n] /\ \A k \in 1 .. m : more[k] = pts[k]
    BY <1>2, <1>3
  <1> HIDE DEF more, m, n
  <1>5. \A k \in 1 .. m + 1 : k = m + 1 \/ (k \in 1 .. m /\ k # m + 1)
    BY <1>3
  <1>6. \A k \in 1 .. m + 1 : at[k] = IF k = m + 1 THEN n ELSE a[k]
    OBVIOUS
  <1>7. at = [k \in 1 .. m + 1 |-> at[k]]
    OBVIOUS
  <1> HIDE DEF at
  <1>8. \A k \in 1 .. m + 1 : at[k] \in 1 .. n /\ more[k] = line[at[k]]
    BY <1>2, <1>3, <1>4, <1>5, <1>6
  <1>9. ASSUME NEW k \in 1 .. m + 1, NEW l \in 1 .. m + 1, k <= l PROVE at[k] <= at[l]
    <2>1. CASE l = m + 1
      BY <1>2, <1>6, <1>8, <2>1
    <2>2. CASE l # m + 1
      <3>1. l \in 1 .. m /\ k \in 1 .. m /\ k # m + 1
        BY <1>3, <1>5, <1>9, <2>2
      <3> QED
        BY <1>3, <1>6, <1>9, <2>2, <3>1
    <2> QED
      BY <2>1, <2>2
  <1>10. at \in [1 .. m + 1 -> 0 .. n] /\ \A k \in 1 .. m + 1 : at[k] # 0
    BY <1>2, <1>7, <1>8
  <1>11. Traces(more, at, line)
    BY <1>2, <1>3, <1>4, <1>8, <1>9, <1>10 DEF Traces, n
  <1>12. Picks(more, line)
    BY <1>3, <1>4, <1>10, <1>11 DEF Picks
  <1>13. Reaches(more, line)
    BY <1>2, <1>4 DEF Reaches, n
  <1> QED
    BY <1>12, <1>13 DEF more, n

(* Buckets of equal size, the remainder in the last one. *)
LEMMA Buckets ==
  ASSUME NEW n \in Nat \ {0}, NEW size \in Nat \ {0}, NEW count \in Nat \ {0}, count * size <= n
  PROVE  LET lo == [b \in 1 .. count |-> (b - 1) * size + 1]
             hi == [b \in 1 .. count |-> IF b = count THEN n ELSE b * size]
         IN  /\ \A b \in 1 .. count :
                   /\ lo[b] \in 1 .. n /\ hi[b] \in lo[b] .. n
                   /\ lo[b] = (b - 1) * size + 1 /\ (b - 1) * size \in Nat
                   /\ b * size = (b - 1) * size + size /\ b * size <= hi[b]
                   /\ hi[b] = IF b = count THEN n ELSE b * size
             /\ \A b, c \in 1 .. count : b < c => hi[b] < lo[c]
  <1> DEFINE lo == [b \in 1 .. count |-> (b - 1) * size + 1]
             hi == [b \in 1 .. count |-> IF b = count THEN n ELSE b * size]
  <1>1. /\ \A b \in 1 .. count : lo[b] = (b - 1) * size + 1
        /\ \A b \in 1 .. count : hi[b] = IF b = count THEN n ELSE b * size
    OBVIOUS
  <1> HIDE DEF lo, hi
  <1>2. ASSUME NEW b \in 1 .. count
        PROVE  /\ (b - 1) * size \in Nat /\ b * size \in Nat /\ b * size = (b - 1) * size + size
               /\ b * size <= count * size /\ count * size \in Nat
    <2>1. b \in Nat /\ b - 1 \in Nat /\ b <= count
      OBVIOUS
    <2>2. b * size = (b - 1) * size + size /\ (b - 1) * size \in Nat /\ b * size \in Nat
          /\ count * size \in Nat
      BY <2>1
    <2>3. b < count => b * size + size <= count * size
      BY <2>1, Times
    <2>4. CASE b = count
      BY <2>2, <2>4
    <2>5. CASE b < count
      BY <2>2, <2>3, <2>5
    <2> QED
      BY <2>1, <2>2, <2>4, <2>5
  <1>3. ASSUME NEW b \in 1 .. count
        PROVE  lo[b] \in 1 .. n /\ hi[b] \in lo[b] .. n /\ b * size <= hi[b]
    <2> DEFINE x == (b - 1) * size
               y == b * size
               z == count * size
    <2>1. x \in Nat /\ y \in Nat /\ z \in Nat /\ y = x + size /\ y <= z /\ z <= n
      BY <1>2
    <2>2. lo[b] = x + 1 /\ hi[b] = IF b = count THEN n ELSE y
      BY <1>1
    <2> HIDE DEF x, y, z
    <2>3. lo[b] \in 1 .. n /\ hi[b] \in lo[b] .. n /\ y <= hi[b]
      BY <2>1, <2>2
    <2> QED
      BY <2>3 DEF y
  <1>4. ASSUME NEW b \in 1 .. count, NEW c \in 1 .. count, b < c PROVE hi[b] < lo[c]
    <2>1. b \in Nat /\ c - 1 \in Nat /\ (b < c - 1 \/ b = c - 1) /\ b # count
      BY <1>4
    <2>2. b * size <= (c - 1) * size /\ b * size \in Nat /\ (c - 1) * size \in Nat
      <3>1. b < c - 1 => b * size + size <= (c - 1) * size
        BY <2>1, Times
      <3>2. b * size \in Nat /\ (c - 1) * size \in Nat
        BY <1>2
      <3>3. CASE b = c - 1
        BY <3>2, <3>3
      <3>4. CASE b < c - 1
        BY <3>1, <3>2, <3>4
      <3> QED
        BY <2>1, <3>2, <3>3, <3>4
    <2>3. hi[b] = b * size /\ lo[c] = (c - 1) * size + 1
      BY <1>1, <2>1
    <2> QED
      BY <2>2, <2>3
  <1>5. /\ \A b \in 1 .. count :
              /\ lo[b] \in 1 .. n /\ hi[b] \in lo[b] .. n
              /\ lo[b] = (b - 1) * size + 1 /\ (b - 1) * size \in Nat
              /\ b * size = (b - 1) * size + size /\ b * size <= hi[b]
              /\ hi[b] = IF b = count THEN n ELSE b * size
        /\ \A b, c \in 1 .. count : b < c => hi[b] < lo[c]
    BY <1>1, <1>2, <1>3, <1>4
  <1> QED
    BY <1>5 DEF lo, hi

(* n samples in shares of k. *)
LEMMA Share ==
  ASSUME NEW n \in Nat \ {0}, NEW k \in Nat \ {0}, k <= n
  PROVE  n \div k \in Nat \ {0} /\ n \div k <= n /\ (n \div k) * k <= n
  <1> DEFINE d == n \div k
             m == n % k
  <1>1. d \in Int /\ m \in Int /\ n = d * k + m /\ 0 <= m /\ m < k
    OBVIOUS
  <1> HIDE DEF d, m
  <1>2. d > 0
    <2> SUFFICES ASSUME d <= 0 PROVE FALSE
      BY <1>1
    <2>1. d * k <= 0
      BY <1>1
    <2> QED
      BY <1>1, <2>1
  <1>3. d * k >= d
    <2>1. d * k = d * (k - 1) + d /\ d * (k - 1) \in Nat
      <3>1. d \in Nat /\ k - 1 \in Nat
        BY <1>1, <1>2
      <3> QED
        BY <3>1
    <2> QED
      BY <1>1, <2>1
  <1>4. d * k \in Int
    BY <1>1
  <1>5. d <= n /\ d * k <= n
    BY <1>1, <1>3, <1>4
  <1>6. d \in Nat \ {0}
    BY <1>1, <1>2
  <1> QED
    BY <1>5, <1>6 DEF d

(* n samples in count buckets of one size, the remainder in the last. *)
Even(lo, hi, count, size, n) ==
  /\ n \in Nat \ {0} /\ size \in Nat \ {0} /\ count \in Nat \ {0} /\ count * size <= n
  /\ \A b \in 1 .. count : /\ lo[b] = (b - 1) * size + 1
                          /\ hi[b] = IF b = count THEN n ELSE b * size

(* pairs are two samples of each bucket, and they span it if no sample is NaN. *)
Paired(pairs, lo, hi, line) ==
  /\ \A b \in 1 .. Len(pairs) :
        /\ lo[b] \in 1 .. Len(line) /\ hi[b] \in lo[b] .. Len(line)
        /\ \E p, q \in lo[b] .. hi[b] :
              /\ p <= q /\ pairs[b] = <<line[p], line[q]>>
              /\ ~HasGap(line) => \A i \in lo[b] .. hi[b] : Spans(line[p], line[q], line[i])
  /\ \A b, c \in 1 .. Len(pairs) : b < c => hi[b] < lo[c]

LEMMA PairedPicks ==
  ASSUME NEW line, IsLine(line), NEW pairs, Len(pairs) \in Nat \ {0},
         NEW lo, NEW hi, Paired(pairs, lo, hi, line)
  PROVE  Picks(FlattenSeq(pairs), line)
  <1> DEFINE nb == Len(pairs)
  <1>1. /\ \A b \in 1 .. nb :
              /\ lo[b] \in 1 .. Len(line) /\ hi[b] \in lo[b] .. Len(line)
              /\ \E p, q \in lo[b] .. hi[b] : p <= q /\ pairs[b] = <<line[p], line[q]>>
        /\ \A b, c \in 1 .. nb : b < c => hi[b] < lo[c]
    <2>1. ASSUME NEW b \in 1 .. Len(pairs)
          PROVE  \E p, q \in lo[b] .. hi[b] : p <= q /\ pairs[b] = <<line[p], line[q]>>
      <3>1. PICK p \in lo[b] .. hi[b], q \in lo[b] .. hi[b] :
                 /\ p <= q /\ pairs[b] = <<line[p], line[q]>>
                 /\ ~HasGap(line) => \A i \in lo[b] .. hi[b] : Spans(line[p], line[q], line[i])
        BY Zenon DEF Paired
      <3> QED
        BY <3>1
    <2> QED
      BY <2>1 DEF Paired
  <1>2. nb \in Nat \ {0} /\ Len(pairs) = nb
    OBVIOUS
  <1> HIDE DEF nb
  <1> QED
    BY <1>1, <1>2, PairsFlattened

(* minmax_core_mex takes two samples of each of its buckets. *)
LEMMA CorePairs ==
  ASSUME NEW line, IsLine(line), ~HasGap(line), NEW nb \in Nat \ {0}, nb <= Len(line)
  PROVE  \E pairs, lo, hi :
            /\ Len(pairs) \in Nat \ {0} /\ Paired(pairs, lo, hi, line)
            /\ Even(lo, hi, Len(pairs), Len(line) \div nb, Len(line))
            /\ Len(pairs) = Len(line) \div (Len(line) \div nb)
            /\ MinMaxCore(line, nb) =
                  IF Less(Last(FlattenSeq(pairs))[1], line[Len(line)][1])
                  THEN Append(FlattenSeq(pairs), line[Len(line)]) ELSE FlattenSeq(pairs)
  <1> DEFINE n == Len(line)
             size == n \div nb
             count == n \div size
             pairs == [b \in 1 .. count |->
                         BucketPair(SubSeq(line, (b - 1) * size + 1, IF b = count THEN n ELSE b * size))]
             flat == FlattenSeq(pairs)
  <1>1. MinMaxCore(line, nb) = IF Less(Last(flat)[1], line[n][1]) THEN Append(flat, line[n]) ELSE flat
    BY DEF MinMaxCore
  <1>2. n \in Nat \ {0}
    BY DEF IsLine
  <1>3. size \in Nat \ {0} /\ size <= n
    BY <1>2, Share
  <1> HIDE DEF size
  <1>4. count \in Nat \ {0} /\ count * size <= n
    BY <1>2, <1>3, Share
  <1> HIDE DEF count
  <1> DEFINE lo == [b \in 1 .. count |-> (b - 1) * size + 1]
             hi == [b \in 1 .. count |-> IF b = count THEN n ELSE b * size]
  <1>5. /\ \A b \in 1 .. count :
              /\ lo[b] \in 1 .. n /\ hi[b] \in lo[b] .. n
              /\ lo[b] = (b - 1) * size + 1
              /\ hi[b] = IF b = count THEN n ELSE b * size
        /\ \A b, c \in 1 .. count : b < c => hi[b] < lo[c]
    BY <1>2, <1>3, <1>4, Buckets
  <1>6. \A b \in 1 .. count : pairs[b] = BucketPair(SubSeq(line, lo[b], hi[b]))
    BY <1>5
  <1>7. Len(pairs) = count
    BY <1>4
  <1> HIDE DEF pairs, lo, hi
  <1>8. ASSUME NEW b \in 1 .. count
        PROVE  \E p, q \in lo[b] .. hi[b] :
                  /\ p <= q /\ pairs[b] = <<line[p], line[q]>>
                  /\ \A i \in lo[b] .. hi[b] : Spans(line[p], line[q], line[i])
    <2> DEFINE part == SubSeq(line, lo[b], hi[b])
    <2>1. lo[b] \in 1 .. n /\ hi[b] \in lo[b] .. n
      BY <1>5
    <2>2. IsLine(part) /\ Len(part) = hi[b] - lo[b] + 1
          /\ \A i \in 1 .. hi[b] - lo[b] + 1 : part[i] = line[lo[b] + i - 1]
      BY <2>1, PartIsLine
    <2>3. \A i \in 1 .. hi[b] - lo[b] + 1 : lo[b] + i - 1 \in 1 .. n /\ lo[b] + i - 1 \in lo[b] .. hi[b]
      <3>1. n \in Int
        BY <1>2
      <3> HIDE DEF n
      <3> QED
        BY ONLY <2>1, <3>1
    <2>4. ~HasGap(part)
      <3>1. DOMAIN part = 1 .. hi[b] - lo[b] + 1 /\ DOMAIN line = 1 .. n
        BY <2>2 DEF IsLine
      <3> HIDE DEF part
      <3> QED
        BY <2>2, <2>3, <3>1 DEF HasGap
    <2> HIDE DEF part
    <2>5. PICK i \in 1 .. Len(part), j \in 1 .. Len(part) :
             /\ i <= j /\ BucketPair(part) = <<part[i], part[j]>>
             /\ \A k \in 1 .. Len(part) : Spans(part[i], part[j], part[k])
      BY <2>2, <2>4, BucketPairIs
    <2> DEFINE p == lo[b] + i - 1
               q == lo[b] + j - 1
    <2>6. p \in lo[b] .. hi[b] /\ q \in lo[b] .. hi[b] /\ part[i] = line[p] /\ part[j] = line[q]
      BY <2>2, <2>3, <2>5
    <2>7. p <= q
      <3>1. lo[b] \in Int /\ i \in Int /\ j \in Int /\ i <= j
        BY <1>2, <2>1, <2>2, <2>5
      <3> QED
        BY ONLY <3>1
    <2> HIDE DEF p, q
    <2>8. pairs[b] = <<line[p], line[q]>>
      BY <1>6, <2>5, <2>6 DEF part
    <2>9. ASSUME NEW k \in lo[b] .. hi[b] PROVE Spans(line[p], line[q], line[k])
      <3>1. k - lo[b] + 1 \in 1 .. hi[b] - lo[b] + 1 /\ lo[b] + (k - lo[b] + 1) - 1 = k
        <4>1. lo[b] \in Int /\ hi[b] \in Int
          BY <1>2, <2>1
        <4> QED
          BY <4>1, ShiftedBack
      <3>2. part[k - lo[b] + 1] = line[k]
        BY <2>2, <3>1
      <3>3. Spans(part[i], part[j], part[k - lo[b] + 1])
        BY <2>2, <2>5, <3>1
      <3> QED
        BY <2>6, <3>2, <3>3
    <2> QED
      BY <2>6, <2>7, <2>8, <2>9
  <1>9. Paired(pairs, lo, hi, line)
    BY <1>5, <1>7, <1>8 DEF Paired, n
  <1>10. Even(lo, hi, count, size, n)
    BY <1>2, <1>3, <1>4, <1>5 DEF Even
  <1> QED
    BY <1>1, <1>4, <1>7, <1>9, <1>10 DEF size, count, n

(* minmax_core_mex gives samples of the line, as far as the line goes. *)
LEMMA MinMaxCorePicks ==
  ASSUME NEW line, IsLine(line), ~HasGap(line), NEW nb \in Nat \ {0}, nb <= Len(line)
  PROVE  Picks(MinMaxCore(line, nb), line) /\ Reaches(MinMaxCore(line, nb), line)
  <1> DEFINE n == Len(line)
  <1>1. n \in Nat \ {0}
    BY DEF IsLine
  <1>2. PICK pairs, lo, hi :
           /\ Len(pairs) \in Nat \ {0} /\ Paired(pairs, lo, hi, line)
           /\ MinMaxCore(line, nb) =
                 IF Less(Last(FlattenSeq(pairs))[1], line[n][1])
                 THEN Append(FlattenSeq(pairs), line[n]) ELSE FlattenSeq(pairs)
    BY CorePairs
  <1> DEFINE flat == FlattenSeq(pairs)
  <1>3. Picks(flat, line)
    BY <1>2, PairedPicks
  <1> HIDE DEF flat
  <1>4. MinMaxCore(line, nb) = IF Less(Last(flat)[1], line[n][1]) THEN Append(flat, line[n]) ELSE flat
    BY <1>2 DEF flat
  <1>5. Last(flat)[1] = flat[Len(flat)][1] /\ flat[Len(flat)][1] \in Int /\ line[n][1] \in Int
    <2>1. IsLine(flat)
      BY <1>3, PicksIsLine
    <2>2. Len(flat) \in 1 .. Len(flat) /\ n \in 1 .. n
      BY <1>1, <2>1 DEF IsLine
    <2> QED
      BY <2>1, <2>2 DEF IsLine, Last
  <1>6. CASE Less(Last(flat)[1], line[n][1])
    BY <1>3, <1>4, <1>6, LastAppended
  <1>7. CASE ~Less(Last(flat)[1], line[n][1])
    <2>1. Reaches(flat, line)
      BY <1>5, <1>7, NaNAssumption DEF Less, Reaches, n
    <2> QED
      BY <1>3, <1>4, <1>7, <2>1
  <1> QED
    BY <1>6, <1>7

(* The first of the least values that are numbers. *)
LEMMA SkipLeast ==
  ASSUME NEW line, IsLine(line)
  PROVE  /\ SkipNaN(line, Less) \in 1 .. Len(line)
         /\ ~HasGap(line) => \A i \in 1 .. Len(line) :
               line[SkipNaN(line, Less)][2] <= line[i][2]
  <1> DEFINE n == Len(line)
             valid == {i \in DOMAIN line : line[i][2] # NaN}
             f == [i \in valid |-> -line[i][2]]
             skip == SkipNaN(line, Less)
             First(i) == /\ \A j \in valid : ~Less(line[j][2], line[i][2])
                         /\ \A j \in valid : j < i => Less(line[i][2], line[j][2])
  <1>1. skip = IF valid = {} THEN 1 ELSE CHOOSE i \in valid : First(i)
    BY DEF SkipNaN
  <1> HIDE DEF skip
  <1>2. n \in Nat \ {0} /\ DOMAIN line = 1 .. n /\ valid \in SUBSET (1 .. n)
        /\ \A i \in valid : line[i][2] \in Int /\ line[i][2] # NaN
    <2>1. \A i \in 1 .. n : line[i] \in Sample
      BY DEF IsLine
    <2> QED
      BY <2>1 DEF IsLine, Sample
  <1>3. CASE valid = {}
    <2>1. skip = 1 /\ 1 \in 1 .. n
      BY <1>1, <1>2, <1>3
    <2>2. HasGap(line)
      <3>1. 1 \in DOMAIN line /\ 1 \notin valid
        BY <1>2, <1>3
      <3>2. line[1][2] = NaN
        BY <3>1
      <3> QED
        BY <3>1, <3>2 DEF HasGap
    <2> QED
      BY <2>1, <2>2 DEF skip
  <1>4. CASE valid # {}
    <2>1. f \in [valid -> Int] /\ \A i \in valid : f[i] = -line[i][2]
      BY <1>2
    <2> HIDE DEF f, valid, n
    <2>2. PICK c \in valid : \A d \in valid : f[d] <= f[c] /\ (d < c => f[d] < f[c])
      BY <1>2, <1>4, <2>1, ArgMax
    <2>3. First(c)
      BY <1>2, <2>1, <2>2 DEF Less
    <2> HIDE DEF First
    <2>4. skip \in valid /\ First(skip)
      BY <1>1, <1>4, <2>3
    <2>5. ~HasGap(line) => valid = 1 .. n
      BY <1>2 DEF HasGap, valid
    <2>6. \A i \in valid : line[skip][2] <= line[i][2]
      <3>1. ASSUME NEW u \in Int, NEW v \in Int, u # NaN, v # NaN, ~Less(v, u)
            PROVE  u <= v
        BY <3>1 DEF Less
      <3>2. ASSUME NEW i \in valid PROVE line[skip][2] <= line[i][2]
        <4>1. ~Less(line[i][2], line[skip][2])
          BY <2>4 DEF First
        <4>2. /\ line[skip][2] \in Int /\ line[skip][2] # NaN
              /\ line[i][2] \in Int /\ line[i][2] # NaN
          BY <1>2, <2>4
        <4> QED
          BY <3>1, <4>1, <4>2
      <3> QED
        BY <3>2
    <2> QED
      BY <1>2, <2>4, <2>5, <2>6 DEF n, skip
  <1> QED
    BY <1>3, <1>4

(* The first of the greatest values that are numbers. *)
LEMMA SkipGreatest ==
  ASSUME NEW line, IsLine(line)
  PROVE  /\ SkipNaN(line, LAMBDA u, v : Less(v, u)) \in 1 .. Len(line)
         /\ ~HasGap(line) => \A i \in 1 .. Len(line) :
               line[SkipNaN(line, LAMBDA u, v : Less(v, u))][2] >= line[i][2]
  <1> DEFINE n == Len(line)
             valid == {i \in DOMAIN line : line[i][2] # NaN}
             f == [i \in valid |-> line[i][2]]
             skip == SkipNaN(line, LAMBDA u, v : Less(v, u))
             First(i) == /\ \A j \in valid : ~Less(line[i][2], line[j][2])
                         /\ \A j \in valid : j < i => Less(line[j][2], line[i][2])
  <1>1. skip = IF valid = {} THEN 1 ELSE CHOOSE i \in valid : First(i)
    BY DEF SkipNaN
  <1> HIDE DEF skip
  <1>2. n \in Nat \ {0} /\ DOMAIN line = 1 .. n /\ valid \in SUBSET (1 .. n)
        /\ \A i \in valid : line[i][2] \in Int /\ line[i][2] # NaN
    <2>1. \A i \in 1 .. n : line[i] \in Sample
      BY DEF IsLine
    <2> QED
      BY <2>1 DEF IsLine, Sample
  <1>3. CASE valid = {}
    <2>1. skip = 1 /\ 1 \in 1 .. n
      BY <1>1, <1>2, <1>3
    <2>2. HasGap(line)
      <3>1. 1 \in DOMAIN line /\ 1 \notin valid
        BY <1>2, <1>3
      <3>2. line[1][2] = NaN
        BY <3>1
      <3> QED
        BY <3>1, <3>2 DEF HasGap
    <2> QED
      BY <2>1, <2>2 DEF skip
  <1>4. CASE valid # {}
    <2>1. f \in [valid -> Int] /\ \A i \in valid : f[i] = line[i][2]
      BY <1>2
    <2> HIDE DEF f, valid, n
    <2>2. PICK c \in valid : \A d \in valid : f[d] <= f[c] /\ (d < c => f[d] < f[c])
      BY <1>2, <1>4, <2>1, ArgMax
    <2>3. First(c)
      BY <1>2, <2>1, <2>2 DEF Less
    <2> HIDE DEF First
    <2>4. skip \in valid /\ First(skip)
      BY <1>1, <1>4, <2>3
    <2>5. ~HasGap(line) => valid = 1 .. n
      BY <1>2 DEF HasGap, valid
    <2>6. \A i \in valid : line[skip][2] >= line[i][2]
      <3>1. ASSUME NEW u \in Int, NEW v \in Int, u # NaN, v # NaN, ~Less(u, v)
            PROVE  u >= v
        BY <3>1 DEF Less
      <3>2. ASSUME NEW i \in valid PROVE line[skip][2] >= line[i][2]
        <4>1. ~Less(line[skip][2], line[i][2])
          BY <2>4 DEF First
        <4>2. /\ line[skip][2] \in Int /\ line[skip][2] # NaN
              /\ line[i][2] \in Int /\ line[i][2] # NaN
          BY <1>2, <2>4
        <4> QED
          BY <3>1, <4>1, <4>2
      <3> QED
        BY <3>2
    <2> QED
      BY <1>2, <2>4, <2>5, <2>6 DEF n, skip
  <1> QED
    BY <1>3, <1>4

LEMMA RoundDivType ==
  ASSUME NEW a \in Nat, NEW b \in Nat \ {0}
  PROVE  RoundDiv(a, b) \in Nat /\ Max({1, RoundDiv(a, b)}) \in Nat \ {0}
  <1> DEFINE x == 2 * a + b
             y == 2 * b
             q == x \div y
  <1>1. x \in Nat /\ y \in Nat \ {0}
    OBVIOUS
  <1> HIDE DEF x, y
  <1>2. q \in Nat
    <2> DEFINE m == x % y
    <2>1. q \in Int /\ m \in Int /\ x = q * y + m /\ 0 <= m /\ m < y
      BY <1>1
    <2> HIDE DEF q, m
    <2>2. q >= 0
      <3> SUFFICES ASSUME q <= -1 PROVE FALSE
        BY <2>1
      <3>1. q * y <= -y
        <4>1. (q + 1) * y = q * y + y /\ (q + 1) * y <= 0
          BY <1>1, <2>1
        <4>2. q * y \in Int
          BY <1>1, <2>1
        <4> QED
          BY <1>1, <4>1, <4>2
      <3>2. q * y \in Int
        BY <1>1, <2>1
      <3> QED
        BY <1>1, <2>1, <3>1, <3>2
    <2> QED
      BY <2>1, <2>2
  <1>3. RoundDiv(a, b) = q
    BY DEF RoundDiv, x, y
  <1> HIDE DEF q
  <1>4. Max({1, q}) = IF 1 >= q THEN 1 ELSE q
    BY <1>2, Max2
  <1> QED
    BY <1>2, <1>3, <1>4

(* Where MATLAB's min and max find the extremes of the samples after x. *)
LEMMA PartExtremes ==
  ASSUME NEW line, IsLine(line), NEW x \in Nat, NEW q \in x + 1 .. Len(line)
  PROVE  LET low == x + SkipNaN(SubSeq(line, x + 1, q), Less)
             high == x + SkipNaN(SubSeq(line, x + 1, q), LAMBDA u, v : Less(v, u))
         IN  /\ low \in x + 1 .. q /\ high \in x + 1 .. q
             /\ ~HasGap(line) => \A i \in x + 1 .. q :
                   line[low][2] <= line[i][2] /\ line[high][2] >= line[i][2]
  <1> DEFINE part == SubSeq(line, x + 1, q)
             least == SkipNaN(part, Less)
             greatest == SkipNaN(part, LAMBDA u, v : Less(v, u))
             low == x + least
             high == x + greatest
  <1>1. Len(line) \in Nat /\ q \in Nat /\ x + 1 \in 1 .. Len(line) /\ q - (x + 1) + 1 = q - x
        /\ q \in x + 1 .. Len(line)
    <2>1. Len(line) \in Nat
      BY DEF IsLine
    <2> QED
      BY <2>1
  <1>2. /\ IsLine(part) /\ Len(part) = q - x
        /\ \A i \in 1 .. q - x : part[i] = line[x + 1 + i - 1]
    BY <1>1, PartIsLine
  <1>3. \A i \in 1 .. q - x : part[i] = line[x + i] /\ x + i \in 1 .. Len(line)
    <2>1. \A i \in 1 .. q - x : x + 1 + i - 1 = x + i /\ x + i \in 1 .. Len(line)
      BY <1>1
    <2> HIDE DEF part
    <2> QED
      BY <1>2, <2>1
  <1>4. ~HasGap(line) => ~HasGap(part)
    <2>1. DOMAIN part = 1 .. q - x /\ DOMAIN line = 1 .. Len(line)
      BY <1>2 DEF IsLine
    <2> HIDE DEF part
    <2> QED
      BY <1>3, <2>1 DEF HasGap
  <1>5. low = x + least /\ high = x + greatest
    OBVIOUS
  <1> HIDE DEF part, low, high
  <1>6. /\ least \in 1 .. q - x
        /\ ~HasGap(part) => \A i \in 1 .. q - x : part[least][2] <= part[i][2]
    BY <1>2, SkipLeast
  <1>7. /\ greatest \in 1 .. q - x
        /\ ~HasGap(part) => \A i \in 1 .. q - x : part[greatest][2] >= part[i][2]
    BY <1>2, SkipGreatest
  <1>10. least \in 1 .. q - x /\ greatest \in 1 .. q - x
    BY <1>6, <1>7
  <1> HIDE DEF least, greatest
  <1>8. low \in x + 1 .. q /\ high \in x + 1 .. q
    BY <1>1, <1>5, <1>10
  <1>9. ASSUME ~HasGap(line), NEW i \in x + 1 .. q
        PROVE  line[low][2] <= line[i][2] /\ line[high][2] >= line[i][2]
    <2>1. i - x \in 1 .. q - x /\ x + (i - x) = i
      BY <1>1
    <2>2. part[i - x] = line[i] /\ part[least] = line[low] /\ part[greatest] = line[high]
      BY <1>3, <1>5, <1>6, <1>7, <2>1
    <2>3. part[least][2] <= part[i - x][2] /\ part[greatest][2] >= part[i - x][2]
      BY <1>4, <1>6, <1>7, <1>9, <2>1
    <2> QED
      BY <2>2, <2>3
  <1> QED
    BY <1>8, <1>9 DEF low, high, least, greatest, part

(* A store takes two samples of each of its buckets. *)
LEMMA StorePairs ==
  ASSUME NEW line, IsLine(line),
         NEW nb \in Nat \ {0}, nb = Max({1, RoundDiv(Len(line), PyramidReduction)}),
         ~(Len(line) <= 2 * nb)
  PROVE  \E pairs, lo, hi :
            /\ Len(pairs) = nb /\ Paired(pairs, lo, hi, line)
            /\ Even(lo, hi, nb, Len(line) \div nb, Len(line))
            /\ StorePyramid(line) = FlattenSeq(pairs)
  <1> DEFINE n == Len(line)
             size == n \div nb
             low1(b) == (b - 1) * size + SkipNaN(SubSeq(line, (b - 1) * size + 1, b * size), Less)
             low2 == nb * size + SkipNaN(SubSeq(line, nb * size + 1, n), Less)
             high1(b) == (b - 1) * size + SkipNaN(SubSeq(line, (b - 1) * size + 1, b * size),
                                                  LAMBDA u, v : Less(v, u))
             high2 == nb * size + SkipNaN(SubSeq(line, nb * size + 1, n), LAMBDA u, v : Less(v, u))
             Low(b) == IF b = nb /\ nb * size < n /\ Less(line[low2][2], line[low1(b)][2])
                       THEN low2 ELSE low1(b)
             High(b) == IF b = nb /\ nb * size < n /\ Less(line[high1(b)][2], line[high2][2])
                        THEN high2 ELSE high1(b)
             pair(b) == <<line[Min({Low(b), High(b)})], line[Max({Low(b), High(b)})]>>
             pairs == [b \in 1 .. nb |-> pair(b)]
  <1>1. StorePyramid(line) = FlattenSeq(pairs)
    BY DEF StorePyramid
  <1>2. n \in Nat \ {0} /\ nb \in Nat \ {0} /\ nb <= n
    BY DEF IsLine
  <1> HIDE DEF n
  <1>3. size \in Nat \ {0} /\ nb * size <= n
    <2>1. size \in Nat \ {0} /\ size * nb <= n
      BY <1>2, Share
    <2> HIDE DEF size
    <2>2. size * nb = nb * size
      BY <2>1
    <2> QED
      BY <2>1, <2>2
  <1> HIDE DEF size
  <1> DEFINE lo == [b \in 1 .. nb |-> (b - 1) * size + 1]
             hi == [b \in 1 .. nb |-> IF b = nb THEN n ELSE b * size]
  <1>4. /\ \A b \in 1 .. nb :
              /\ lo[b] \in 1 .. n /\ hi[b] \in lo[b] .. n
              /\ lo[b] = (b - 1) * size + 1 /\ (b - 1) * size \in Nat
              /\ b * size = (b - 1) * size + size /\ b * size <= hi[b]
              /\ hi[b] = IF b = nb THEN n ELSE b * size
        /\ \A b, c \in 1 .. nb : b < c => hi[b] < lo[c]
    BY ONLY <1>2, <1>3, Buckets
  <1> HIDE DEF lo, hi
  <1>5. ASSUME NEW b \in 1 .. nb
        PROVE  /\ Low(b) \in lo[b] .. hi[b] /\ High(b) \in lo[b] .. hi[b]
               /\ ~HasGap(line) => \A i \in lo[b] .. hi[b] :
                     line[Low(b)][2] <= line[i][2] /\ line[High(b)][2] >= line[i][2]
    <2> DEFINE x == (b - 1) * size
               y == nb * size
    <2>1. /\ x \in Nat /\ b * size = x + size /\ lo[b] = x + 1 /\ y \in Nat /\ y <= n
          /\ hi[b] = (IF b = nb THEN n ELSE x + size) /\ hi[b] <= n /\ (b = nb => y = x + size)
          /\ x + size <= n
      <3>1. /\ x \in Nat /\ b * size = x + size /\ lo[b] = x + 1 /\ b * size <= hi[b]
            /\ hi[b] \in lo[b] .. n /\ hi[b] = IF b = nb THEN n ELSE b * size
        BY <1>4
      <3>2. y \in Nat /\ y <= n /\ (b = nb => y = b * size)
        BY <1>2, <1>3
      <3> HIDE DEF x, y
      <3> QED
        BY <1>2, <1>3, <3>1, <3>2
    <2>2. low1(b) = x + SkipNaN(SubSeq(line, x + 1, x + size), Less)
          /\ high1(b) = x + SkipNaN(SubSeq(line, x + 1, x + size), LAMBDA u, v : Less(v, u))
      BY <2>1
    <2>3. low2 = y + SkipNaN(SubSeq(line, y + 1, n), Less)
          /\ high2 = y + SkipNaN(SubSeq(line, y + 1, n), LAMBDA u, v : Less(v, u))
      OBVIOUS
    <2>4. Low(b) = (IF b = nb /\ y < n /\ Less(line[low2][2], line[low1(b)][2]) THEN low2 ELSE low1(b))
          /\ High(b) = IF b = nb /\ y < n /\ Less(line[high1(b)][2], line[high2][2]) THEN high2 ELSE high1(b)
      OBVIOUS
    <2> HIDE DEF x, y, low1, low2, high1, high2, Low, High, pair, pairs
    <2>5. /\ low1(b) \in x + 1 .. x + size /\ high1(b) \in x + 1 .. x + size
          /\ ~HasGap(line) => \A i \in x + 1 .. x + size :
                line[low1(b)][2] <= line[i][2] /\ line[high1(b)][2] >= line[i][2]
      <3>1. x + size \in x + 1 .. Len(line)
        BY <1>3, <2>1 DEF n
      <3> QED
        BY <2>1, <2>2, <3>1, PartExtremes
    <2>6. y < n => /\ low2 \in y + 1 .. n /\ high2 \in y + 1 .. n
                   /\ ~HasGap(line) => \A i \in y + 1 .. n :
                         line[low2][2] <= line[i][2] /\ line[high2][2] >= line[i][2]
      <3> SUFFICES ASSUME y < n
                   PROVE  /\ low2 \in y + 1 .. n /\ high2 \in y + 1 .. n
                          /\ ~HasGap(line) => \A i \in y + 1 .. n :
                                line[low2][2] <= line[i][2] /\ line[high2][2] >= line[i][2]
        OBVIOUS
      <3>1. n \in y + 1 .. n /\ n = Len(line)
        BY <1>2, <2>1 DEF n
      <3> QED
        BY <2>1, <2>3, <3>1, PartExtremes
    <2>7. CASE b = nb /\ y < n
      <3>1. /\ low1(b) \in lo[b] .. hi[b] /\ high1(b) \in lo[b] .. hi[b]
            /\ low2 \in lo[b] .. hi[b] /\ high2 \in lo[b] .. hi[b]
        <4>1. /\ x \in Int /\ size \in Int /\ y \in Int /\ n \in Int /\ y = x + size
              /\ lo[b] = x + 1 /\ hi[b] = n /\ y < n /\ 0 <= size
          BY <1>2, <1>3, <2>1, <2>7
        <4>2. /\ low1(b) \in x + 1 .. x + size /\ high1(b) \in x + 1 .. x + size
              /\ low2 \in y + 1 .. n /\ high2 \in y + 1 .. n
          BY <2>5, <2>6, <2>7
        <4>3. /\ x + 1 \in Int /\ x + size \in Int /\ y + 1 \in Int /\ x + 1 <= x + 1
              /\ x + size <= n /\ x + 1 <= y + 1 /\ n <= n
          BY ONLY <4>1
        <4>4. low1(b) \in x + 1 .. n /\ high1(b) \in x + 1 .. n
          BY ONLY <4>1, <4>2, <4>3, Wider
        <4>5. low2 \in x + 1 .. n /\ high2 \in x + 1 .. n
          BY ONLY <4>1, <4>2, <4>3, Wider
        <4> QED
          BY <4>1, <4>4, <4>5
      <3>2. ASSUME ~HasGap(line), NEW i \in lo[b] .. hi[b]
            PROVE  line[Low(b)][2] <= line[i][2] /\ line[High(b)][2] >= line[i][2]
        <4>1. \A k \in lo[b] .. hi[b] : line[k][2] \in Int
          <5>1. x \in Nat /\ lo[b] = x + 1 /\ hi[b] <= n /\ n \in Nat /\ hi[b] \in Int
            BY <1>2, <1>3, <2>1
          <5>2. \A k \in lo[b] .. hi[b] : k \in 1 .. n
            BY <5>1
          <5>3. \A k \in lo[b] .. hi[b] : k \in 1 .. Len(line)
            BY <5>2 DEF n
          <5> QED
            BY <3>2, <5>3, Levels
        <4>2. i \in x + 1 .. x + size \/ i \in y + 1 .. n
          BY <1>2, <1>3, <2>1, <2>7
        <4>3. /\ i \in x + 1 .. x + size =>
                   line[low1(b)][2] <= line[i][2] /\ line[high1(b)][2] >= line[i][2]
              /\ i \in y + 1 .. n => line[low2][2] <= line[i][2] /\ line[high2][2] >= line[i][2]
          BY <2>5, <2>6, <2>7, <3>2
        <4> DEFINE a == line[low1(b)][2]
                   c == line[low2][2]
                   d == line[high1(b)][2]
                   e == line[high2][2]
                   v == line[i][2]
        <4>4. /\ a \in Int /\ c \in Int /\ d \in Int /\ e \in Int /\ v \in Int
              /\ ((a <= v /\ d >= v) \/ (c <= v /\ e >= v))
          BY <3>1, <4>1, <4>2, <4>3
        <4>5. line[Low(b)][2] = (IF Less(c, a) THEN c ELSE a)
              /\ line[High(b)][2] = (IF Less(d, e) THEN e ELSE d)
          BY <2>4, <2>7
        <4> HIDE DEF a, c, d, e, v
        <4>6. (Less(c, a) <=> c < a) /\ (Less(d, e) <=> d < e)
          BY <4>4, NaNAssumption DEF Less
        <4>7. /\ (IF c < a THEN c ELSE a) <= v
              /\ (IF d < e THEN e ELSE d) >= v
          BY ONLY <4>4
        <4>8. line[Low(b)][2] <= v /\ line[High(b)][2] >= v
          BY <4>5, <4>6, <4>7
        <4> QED
          BY <4>8 DEF v
      <3> QED
        BY <2>4, <3>1, <3>2
    <2>8. CASE ~(b = nb /\ y < n)
      <3>1. lo[b] = x + 1 /\ hi[b] = x + size /\ Low(b) = low1(b) /\ High(b) = high1(b)
        BY <1>2, <2>1, <2>4, <2>8
      <3> QED
        BY <2>5, <3>1
    <2> QED
      BY <2>7, <2>8
  <1>6. Len(pairs) = nb /\ \A b \in 1 .. nb : pairs[b] = pair(b)
    <2> HIDE DEF pair
    <2> QED
      OBVIOUS
  <1> HIDE DEF pairs, Low, High
  <1>7. ASSUME NEW b \in 1 .. nb
        PROVE  \E p, q \in lo[b] .. hi[b] :
                  /\ p <= q /\ pairs[b] = <<line[p], line[q]>>
                  /\ ~HasGap(line) => \A i \in lo[b] .. hi[b] : Spans(line[p], line[q], line[i])
    <2> DEFINE i == Low(b)
               j == High(b)
               p == Min({i, j})
               q == Max({i, j})
    <2>1. i \in lo[b] .. hi[b] /\ j \in lo[b] .. hi[b] /\ i \in Int /\ j \in Int
      <3>1. i \in lo[b] .. hi[b] /\ j \in lo[b] .. hi[b]
        BY <1>5
      <3> HIDE DEF i, j
      <3> QED
        BY <3>1
    <2>2. pairs[b] = <<line[p], line[q]>>
      BY <1>6
    <2>3. ~HasGap(line) => \A k \in lo[b] .. hi[b] : line[i][2] <= line[k][2] /\ line[j][2] >= line[k][2]
      BY <1>5
    <2> HIDE DEF i, j
    <2>4. p = (IF i <= j THEN i ELSE j) /\ q = (IF i >= j THEN i ELSE j)
      BY <2>1, Min2, Max2
    <2> HIDE DEF p, q
    <2>5. p \in lo[b] .. hi[b] /\ q \in lo[b] .. hi[b] /\ p <= q
          /\ ((p = i /\ q = j) \/ (p = j /\ q = i))
      BY <2>1, <2>4
    <2>6. ~HasGap(line) => \A k \in lo[b] .. hi[b] : Spans(line[p], line[q], line[k])
      BY <2>3, <2>5 DEF Spans
    <2> QED
      BY <2>2, <2>5, <2>6
  <1>8. Paired(pairs, lo, hi, line)
    BY <1>4, <1>6, <1>7 DEF Paired, n
  <1>9. Even(lo, hi, nb, size, n)
    BY <1>2, <1>3, <1>4 DEF Even
  <1> QED
    BY <1>1, <1>6, <1>8, <1>9 DEF size, n

(* The pyramid level of a store consists of samples of the line. *)
LEMMA StorePyramidPicks ==
  ASSUME NEW line, IsLine(line)
  PROVE  Picks(StorePyramid(line), line)
  <1> DEFINE nb == Max({1, RoundDiv(Len(line), PyramidReduction)})
  <1>1. nb \in Nat \ {0}
    <2>1. Len(line) \in Nat /\ PyramidReduction \in Nat \ {0}
      BY DataStoreAssumption DEF IsLine
    <2> QED
      BY <2>1, RoundDivType
  <1>2. Len(line) <= 2 * nb => StorePyramid(line) = line
    BY DEF StorePyramid
  <1>3. CASE Len(line) <= 2 * nb
    BY <1>2, <1>3, WholePicks
  <1>4. CASE ~(Len(line) <= 2 * nb)
    <2>1. PICK pairs, lo, hi :
             Len(pairs) = nb /\ Paired(pairs, lo, hi, line) /\ StorePyramid(line) = FlattenSeq(pairs)
      <3>1. nb = Max({1, RoundDiv(Len(line), PyramidReduction)})
        OBVIOUS
      <3> HIDE DEF nb
      <3> QED
        BY <1>1, <1>4, <3>1, StorePairs
    <2> QED
      BY <1>1, <2>1, PairedPicks
  <1> QED
    BY <1>3, <1>4

(* The preview of render is picked from the line. *)
LEMMA StridePreviewPicks ==
  ASSUME NEW line, IsLine(line), NEW width \in Nat \ {0}
  PROVE  Picks(StridePreview(line, width), line)
  <1> DEFINE n == Len(line)
             K == Max({1, n \div (2 * width)})
             m == ((n - 1) \div K) + 1
             pts == [i \in 1 .. m |-> line[(i - 1) * K + 1]]
             at == [i \in 1 .. m |-> (i - 1) * K + 1]
  <1>1. n \in Nat \ {0} /\ 2 * width \in Nat \ {0}
    BY DEF IsLine
  <1>2. StridePreview(line, width) = pts
    BY DEF StridePreview
  <1>3. K \in Nat \ {0}
    <2> DEFINE w == 2 * width
    <2>1. w \in Nat \ {0} /\ n \in Nat
      BY <1>1
    <2> HIDE DEF w, n
    <2>2. n \div w \in Int
      BY <2>1
    <2>3. Max({1, n \div w}) = IF 1 >= n \div w THEN 1 ELSE n \div w
      BY <2>2, Max2
    <2>4. Max({1, n \div w}) \in Nat \ {0}
      BY <2>2, <2>3
    <2> QED
      BY <2>4 DEF w
  <1> HIDE DEF K
  <1>4. m \in Nat \ {0} /\ (m - 1) * K <= n - 1 /\ (m - 1) * K \in Nat
    <2> DEFINE q == (n - 1) \div K
               e == (n - 1) % K
    <2>0. n - 1 \in Nat
      BY <1>1
    <2>1. q \in Int /\ e \in Int /\ n - 1 = q * K + e /\ 0 <= e /\ e < K
      BY <1>3, <2>0
    <2>2. m = q + 1
      OBVIOUS
    <2> HIDE DEF q, e, m
    <2>3. q >= 0
      <3> SUFFICES ASSUME q <= -1 PROVE FALSE
        BY <2>1
      <3>1. (q + 1) * K = q * K + K /\ (q + 1) * K <= 0 /\ q * K \in Int
        BY <1>3, <2>1
      <3> QED
        BY <1>1, <1>3, <2>1, <3>1
    <2>4. q * K \in Nat
      BY <1>3, <2>1, <2>3
    <2>5. q * K <= n - 1
      BY <1>1, <2>1, <2>4
    <2>6. (q + 1) - 1 = q
      BY <2>1
    <2> QED
      BY <2>1, <2>2, <2>3, <2>4, <2>5, <2>6
  <1> HIDE DEF m
  <1>5. ASSUME NEW i \in 1 .. m PROVE (i - 1) * K \in Nat /\ (i - 1) * K + 1 \in 1 .. n
    <2>1. i - 1 \in Nat /\ m - 1 \in Nat /\ (i - 1 < m - 1 \/ i = m)
      BY <1>4
    <2>2. (i - 1) * K \in Nat /\ (i - 1) * K <= (m - 1) * K
      <3>1. i - 1 < m - 1 => (i - 1) * K + K <= (m - 1) * K
        BY <1>3, <2>1, Times
      <3>2. (i - 1) * K \in Nat
        BY <1>3, <2>1
      <3>3. CASE i = m
        BY <1>4, <3>3
      <3>4. CASE i - 1 < m - 1
        BY <1>3, <1>4, <3>1, <3>2, <3>4
      <3> QED
        BY <2>1, <3>2, <3>3, <3>4
    <2> QED
      BY <1>1, <1>4, <2>2
  <1>6. ASSUME NEW i \in 1 .. m, NEW j \in 1 .. m, i <= j PROVE (i - 1) * K <= (j - 1) * K
    <2>1. i - 1 \in Nat /\ j - 1 \in Nat /\ (i - 1 < j - 1 \/ i = j)
      BY <1>4, <1>6
    <2>2. i - 1 < j - 1 => (i - 1) * K + K <= (j - 1) * K
      BY <1>3, <2>1, Times
    <2>3. (i - 1) * K \in Nat /\ (j - 1) * K \in Nat
      BY <1>5
    <2>4. CASE i = j
      BY <2>3, <2>4
    <2>5. CASE i - 1 < j - 1
      BY <1>3, <2>2, <2>3, <2>5
    <2> QED
      BY <2>1, <2>4, <2>5
  <1>7. \A i \in 1 .. m : at[i] = (i - 1) * K + 1 /\ pts[i] = line[(i - 1) * K + 1]
    OBVIOUS
  <1>8. at \in [1 .. m -> 0 .. n]
    BY <1>1, <1>5
  <1>9. Len(pts) = m /\ DOMAIN pts = 1 .. m /\ pts \in Seq(Point)
    <2>1. \A i \in 1 .. m : line[(i - 1) * K + 1] \in Point
      BY <1>5 DEF IsLine, Point
    <2> QED
      BY <1>4, <2>1
  <1> HIDE DEF at, pts
  <1>10. \A i \in 1 .. m : at[i] # 0 /\ pts[i] = line[at[i]]
    BY <1>1, <1>5, <1>7
  <1>11. \A i, j \in 1 .. m : i <= j => at[i] <= at[j]
    BY <1>5, <1>6, <1>7
  <1>12. Traces(pts, at, line)
    BY <1>4, <1>8, <1>9, <1>10, <1>11 DEF Traces, n
  <1>13. Picks(pts, line)
    BY <1>4, <1>9, <1>10, <1>12 DEF Picks
  <1> QED
    BY <1>2, <1>13

(* The coordinates of a line without gaps are numbers. *)
LEMMA Numbers ==
  ASSUME NEW line, IsLine(line), ~HasGap(line)
  PROVE  \A i \in 1 .. Len(line) : line[i][1] \in Int /\ line[i][2] \in Int
  <1>1. \A i \in 1 .. Len(line) : line[i] \in Sample /\ line[i][2] # NaN
    BY DEF IsLine, HasGap
  <1> QED
    BY <1>1 DEF Sample

LEMMA TotalType ==
  ASSUME NEW line, IsLine(line), ~HasGap(line), NEW coord \in {1, 2},
         NEW first \in 1 .. Len(line), NEW last \in first .. Len(line)
  PROVE  Total(line, coord, first, last) \in Int
  <1> DEFINE m == last - first + 1
             Loop(f) == f = [k \in 0 .. m |-> IF k = 0 THEN 0 ELSE f[k - 1] + line[first + k - 1][coord]]
             sum == CHOOSE f : Loop(f)
             g == [p \in Int \X (1 .. m) |-> p[1] + line[first + p[2] - 1][coord]]
  <1>1. Total(line, coord, first, last) = sum[m]
    BY DEF Total
  <1>2. m \in Nat /\ \A k \in 1 .. m : first + k - 1 \in 1 .. Len(line)
    BY DEF IsLine
  <1> HIDE DEF m
  <1>3. \A k \in 1 .. m : line[first + k - 1][coord] \in Int
    <2>1. \A i \in 1 .. Len(line) : line[i][coord] \in Int
      BY Numbers
    <2> QED
      BY <1>2, <2>1
  <1>4. g \in [Int \X (1 .. m) -> Int] /\ \A v \in Int : \A k \in 1 .. m :
           g[<<v, k>>] = v + line[first + k - 1][coord]
    <2>1. \A p \in Int \X (1 .. m) : p[1] + line[first + p[2] - 1][coord] \in Int
      BY <1>3
    <2> QED
      BY <2>1
  <1> HIDE DEF g
  <1>5. PICK f \in [0 .. m -> Int] : Iterates(f, m, 0, g)
    <2>1. 0 \in Int /\ m \in Nat
      BY <1>2
    <2>2. g \in [Int \X (1 .. m) -> Int]
      BY <1>4
    <2> QED
      BY <2>1, <2>2, IterationExists
  <1>6. Loop(f)
    <2>1. \A k \in 0 .. m : k # 0 => g[<<f[k - 1], k>>] = f[k - 1] + line[first + k - 1][coord]
      <3> SUFFICES ASSUME NEW k \in 0 .. m, k # 0
                   PROVE  g[<<f[k - 1], k>>] = f[k - 1] + line[first + k - 1][coord]
        OBVIOUS
      <3>1. k \in 1 .. m /\ k - 1 \in 0 .. m
        BY <1>2
      <3>2. f[k - 1] \in Int
        BY <3>1
      <3> QED
        BY <1>4, <3>1, <3>2
    <2>2. f = [k \in 0 .. m |-> IF k = 0 THEN 0 ELSE g[<<f[k - 1], k>>]]
      BY <1>5 DEF Iterates
    <2> QED
      BY <2>1, <2>2
  <1>7. Loop(sum)
    <2> HIDE DEF Loop
    <2> QED
      BY <1>6
  <1> HIDE DEF sum
  <1> DEFINE U == {k \in 0 .. m : sum[k] \in Int}
  <1>8. 0 \in U
    BY <1>2, <1>7
  <1>9. ASSUME NEW k \in 1 .. m, k - 1 \in U PROVE k \in U
    <2>1. k \in 0 .. m /\ k # 0 /\ sum[k - 1] \in Int
      BY <1>2, <1>9
    <2>2. sum[k] = sum[k - 1] + line[first + k - 1][coord]
      BY <1>7, <2>1
    <2> QED
      BY <1>3, <2>1, <2>2
  <1>10. m \in U
    <2>1. m \in 0 .. m
      BY <1>2
    <2> HIDE DEF U
    <2> QED
      BY <1>2, <1>8, <1>9, <2>1, UpToInduction
  <1> QED
    BY <1>1, <1>10

LEMMA Quotient ==
  ASSUME NEW a \in Nat, NEW d \in Nat \ {0}
  PROVE  a \div d \in Nat /\ (a \div d) * d <= a /\ a < (a \div d) * d + d
         /\ (a \div d) * d \in Nat
  <1> DEFINE q == a \div d
             m == a % d
  <1>1. q \in Int /\ m \in Int /\ a = q * d + m /\ 0 <= m /\ m < d
    OBVIOUS
  <1> HIDE DEF q, m
  <1>2. q * d \in Int
    BY <1>1
  <1>3. q >= 0
    <2> SUFFICES ASSUME q <= -1 PROVE FALSE
      BY <1>1
    <2>1. (q + 1) * d = q * d + d /\ (q + 1) * d <= 0
      BY <1>1
    <2> QED
      BY <1>1, <1>2, <2>1
  <1>4. q * d \in Nat
    BY <1>1, <1>3
  <1> QED
    BY <1>1, <1>2, <1>3, <1>4 DEF q

(* The borders of lttb's buckets: at least one sample lies between two. *)
LEMMA Borders ==
  ASSUME NEW N \in Nat, NEW d \in Nat \ {0}, d <= N
  PROVE  /\ (0 * N) \div d = 0
         /\ \A i \in Nat : (i * N) \div d \in Nat
         /\ \A i \in Nat : (i * N) \div d + 1 <= ((i + 1) * N) \div d
         /\ \A i, j \in Nat : i <= j => (i * N) \div d <= (j * N) \div d
         /\ \A i \in 0 .. d : (i * N) \div d <= N
  <1>1. ASSUME NEW i \in Nat
        PROVE  i * N \in Nat /\ (i * N) \div d \in Nat
    <2>1. i * N \in Nat
      OBVIOUS
    <2> DEFINE a == i * N
    <2>2. a \in Nat
      BY <2>1
    <2> HIDE DEF a
    <2>3. a \div d \in Nat
      BY <2>2, Quotient
    <2> QED
      BY <2>1, <2>3 DEF a
  <1>2. ASSUME NEW a \in Nat, NEW b \in Nat, NEW c \in Nat, a + c * d <= b
        PROVE  a \div d + c <= b \div d
    <2> DEFINE p == a \div d
               q == b \div d
    <2>1. p \in Nat /\ q \in Nat /\ p * d <= a /\ b < q * d + d /\ p * d \in Nat /\ q * d \in Nat
      BY Quotient
    <2> HIDE DEF p, q
    <2>2. SUFFICES ASSUME q + 1 <= p + c PROVE FALSE
      <3>1. q < p + c \/ p + c <= q
        BY <2>1
      <3>2. q < p + c => q + 1 <= p + c
        BY <2>1
      <3> QED
        BY <2>1, <2>2, <3>1, <3>2 DEF p, q
    <2>3. (q + 1) * d <= (p + c) * d
      <3>1. CASE q + 1 = p + c
        BY <2>1, <3>1
      <3>2. CASE q + 1 < p + c
        <4>1. q + 1 \in Nat /\ p + c \in Nat
          BY <2>1
        <4>2. (q + 1) * d + d <= (p + c) * d /\ (q + 1) * d \in Nat /\ (p + c) * d \in Nat
          BY <3>2, <4>1, Times
        <4> QED
          BY <4>2
      <3> QED
        BY <2>1, <2>2, <3>1, <3>2
    <2>4. (q + 1) * d = q * d + d /\ (p + c) * d = p * d + c * d /\ c * d \in Nat
      BY <2>1
    <2> QED
      BY <1>2, <2>1, <2>3, <2>4
  <1>3. (0 * N) \div d = 0
    <2>1. 0 * N = 0
      OBVIOUS
    <2>2. 0 \div d = 0
      <3> DEFINE q == 0 \div d
      <3>1. q \in Nat /\ q * d <= 0
        BY Quotient
      <3> HIDE DEF q
      <3>2. q = 0
        <4> SUFFICES ASSUME q >= 1 PROVE FALSE
          BY <3>1
        <4>1. q * d = (q - 1) * d + d /\ (q - 1) * d \in Nat
          BY <3>1
        <4> QED
          BY <3>1, <4>1
      <3> QED
        BY <3>2 DEF q
    <2> QED
      BY <2>1, <2>2
  <1>4. ASSUME NEW i \in Nat PROVE (i * N) \div d + 1 <= ((i + 1) * N) \div d
    <2>1. i * N \in Nat /\ (i + 1) * N \in Nat /\ (i + 1) * N = i * N + N /\ 1 * d = d
      OBVIOUS
    <2>2. i * N + 1 * d <= (i + 1) * N
      BY <2>1
    <2> DEFINE a == i * N
               b == (i + 1) * N
    <2>3. a \in Nat /\ b \in Nat /\ a + 1 * d <= b
      BY <2>1, <2>2
    <2> HIDE DEF a, b
    <2>4. a \div d + 1 <= b \div d
      BY <1>2, <2>3
    <2> QED
      BY <2>4 DEF a, b
  <1>5. ASSUME NEW i \in Nat, NEW j \in Nat, i <= j PROVE (i * N) \div d <= (j * N) \div d
    <2>1. j - i \in Nat /\ i * N \in Nat /\ j * N \in Nat /\ j * N = i * N + (j - i) * N /\ (j - i) * N \in Nat
          /\ 0 * d = 0
      BY <1>5
    <2> DEFINE a == i * N
               b == j * N
    <2>2. a \in Nat /\ b \in Nat /\ a + 0 * d <= b
      BY <2>1
    <2> HIDE DEF a, b
    <2>3. a \div d + 0 <= b \div d
      BY <1>2, <2>2
    <2>4. a \div d \in Nat /\ b \div d \in Nat
      BY <2>2, Quotient
    <2>5. a \div d <= b \div d
      BY <2>3, <2>4
    <2> QED
      BY <2>5 DEF a, b
  <1>6. (d * N) \div d <= N
    <2> DEFINE a == d * N
               q == a \div d
    <2>1. a \in Nat /\ a = N * d
      OBVIOUS
    <2> HIDE DEF a
    <2>2. q \in Nat /\ q * d <= a /\ q * d \in Nat
      BY <2>1, Quotient
    <2> HIDE DEF q
    <2>3. q <= N
      <3> SUFFICES ASSUME N < q PROVE FALSE
        BY <2>2
      <3>1. N * d + d <= q * d
        BY <2>2, Times
      <3> QED
        BY <2>1, <2>2, <3>1
    <2> QED
      BY <2>3 DEF q, a
  <1>7. ASSUME NEW i \in 0 .. d PROVE (i * N) \div d <= N
    <2>1. i \in Nat /\ d \in Nat /\ i <= d
      OBVIOUS
    <2>2. (i * N) \div d <= (d * N) \div d
      BY <1>5, <2>1
    <2>3. (i * N) \div d \in Nat /\ (d * N) \div d \in Nat
      BY <1>1, <2>1
    <2> QED
      BY <1>6, <2>2, <2>3
  <1> QED
    BY <1>1, <1>3, <1>4, <1>5, <1>7

(* The bucket of lttb's i-th point, and the one that follows it. *)
LEMMA Bucket ==
  ASSUME NEW n \in Nat, NEW d \in Nat \ {0}, d <= n - 2, NEW i \in 1 .. d
  PROVE  LET B(h) == (h * (n - 2)) \div d
             first == B(i - 1) + 2
             last == Min({B(i), n - 2}) + 1
             nextFirst == B(i) + 2
             nextLast == Max({nextFirst, Min({B(i + 1), n - 2}) + 1})
         IN  /\ first \in 2 .. n - 1 /\ last \in first .. n - 1 /\ last = B(i) + 1
             /\ nextFirst \in 1 .. n /\ nextLast \in nextFirst .. n
  <1> DEFINE N == n - 2
             B(h) == (h * N) \div d
             a == B(i - 1)
             b == B(i)
             c == B(i + 1)
  <1>1. N \in Nat /\ d <= N
    OBVIOUS
  <1>2. i - 1 \in Nat /\ i \in Nat /\ i + 1 \in Nat /\ i \in 0 .. d /\ (i - 1) + 1 = i
    OBVIOUS
  <1> HIDE DEF N
  <1>3. /\ \A h \in Nat : B(h) \in Nat
        /\ \A h \in Nat : B(h) + 1 <= B(h + 1)
        /\ \A h \in 0 .. d : B(h) <= N
    BY <1>1, Borders
  <1> HIDE DEF B
  <1>4. a \in Nat /\ b \in Nat /\ c \in Nat /\ b <= N
    BY <1>2, <1>3
  <1>5. a + 1 <= b
    BY <1>2, <1>3
  <1> HIDE DEF a, b, c
  <1>6. Min({b, N}) = b
    BY <1>1, <1>4, Min2
  <1>7. Min({c, N}) \in Nat /\ Min({c, N}) <= N
    BY <1>1, <1>4, Min2
  <1> DEFINE m == Min({c, N})
  <1> HIDE DEF m
  <1>8. Max({b + 2, m + 1}) \in b + 2 .. N + 2
    <2>1. m \in Nat /\ m <= N
      BY <1>7 DEF m
    <2>2. Max({b + 2, m + 1}) = IF b + 2 >= m + 1 THEN b + 2 ELSE m + 1
      BY <1>4, <2>1, Max2
    <2> QED
      BY <1>1, <1>4, <2>1, <2>2
  <1>9. n = N + 2
    BY DEF N
  <1>10. a + 2 \in 2 .. n - 1 /\ b + 1 \in a + 2 .. n - 1 /\ b + 2 \in 1 .. n
    BY <1>1, <1>4, <1>5, <1>9
  <1> QED
    BY <1>6, <1>8, <1>9, <1>10 DEF a, b, c, m, B, N

(* lttb_core_mex gives samples of the line, as far as the line goes. *)
LEMMA LttbCorePicks ==
  ASSUME NEW line, IsLine(line), ~HasGap(line), NEW numOut \in Nat, 2 <= numOut, numOut < Len(line)
  PROVE  Picks(LttbCore(line, numOut), line) /\ Reaches(LttbCore(line, numOut), line)
  <1> DEFINE n == Len(line)
             Border(i) == (i * (n - 2)) \div (numOut - 2)
             First(i) == Border(i - 1) + 2
             End(i) == Min({Border(i), n - 2}) + 1
             NextFirst(i) == Border(i) + 2
             NextLast(i) == Max({NextFirst(i), Min({Border(i + 1), n - 2}) + 1})
             Signed(p, i, c) ==
               (line[p][1] * (NextLast(i) - NextFirst(i) + 1) - Total(line, 1, NextFirst(i), NextLast(i)))
                 * (line[c][2] - line[p][2])
               - (line[p][1] - line[c][1])
                 * (Total(line, 2, NextFirst(i), NextLast(i)) - line[p][2] * (NextLast(i) - NextFirst(i) + 1))
             Area(p, i, c) == IF Signed(p, i, c) < 0 THEN -Signed(p, i, c) ELSE Signed(p, i, c)
             Best(p, i, c) == /\ \A d \in First(i) .. End(i) : Area(p, i, d) <= Area(p, i, c)
                              /\ \A d \in First(i) .. (c - 1) : Area(p, i, d) < Area(p, i, c)
             Choice(p, i) == CHOOSE c \in First(i) .. End(i) : Best(p, i, c)
             Loop(f) == f = [i \in 0 .. (numOut - 1) |->
                               IF i = 0 THEN 1 ELSE IF i = numOut - 1 THEN n ELSE Choice(f[i - 1], i)]
             pick == CHOOSE f : Loop(f)
             pts == [i \in 1 .. numOut |-> line[pick[i - 1]]]
  <1>1. LttbCore(line, numOut) = pts
    BY DEF LttbCore
  <1>2. n \in Nat \ {0} /\ numOut - 2 \in Nat /\ numOut - 2 <= n - 2
    BY DEF IsLine
  <1>3. ASSUME NEW i \in 1 .. numOut - 2
        PROVE  /\ First(i) \in 2 .. n - 1 /\ End(i) \in First(i) .. n - 1 /\ End(i) = Border(i) + 1
               /\ NextFirst(i) \in 1 .. n /\ NextLast(i) \in NextFirst(i) .. n
    <2>1. numOut - 2 \in Nat \ {0}
      BY <1>2
    <2> HIDE DEF n
    <2> QED
      BY <1>2, <2>1, Bucket
  <1>4. \A i \in 1 .. n : line[i][1] \in Int /\ line[i][2] \in Int
    BY Numbers
  <1>5. ASSUME NEW p \in 1 .. n, NEW i \in 1 .. numOut - 2
        PROVE  Choice(p, i) \in First(i) .. End(i)
    <2> DEFINE count == NextLast(i) - NextFirst(i) + 1
               sumX == Total(line, 1, NextFirst(i), NextLast(i))
               sumY == Total(line, 2, NextFirst(i), NextLast(i))
    <2>1. count \in Int /\ sumX \in Int /\ sumY \in Int
      <3> HIDE DEF First, End, NextFirst, NextLast
      <3>1. NextFirst(i) \in 1 .. Len(line) /\ NextLast(i) \in NextFirst(i) .. Len(line)
        BY <1>3
      <3>2. sumX \in Int /\ sumY \in Int
        BY <3>1, TotalType
      <3> QED
        BY <3>1, <3>2
    <2>2. First(i) .. End(i) \in SUBSET (1 .. n) /\ First(i) .. End(i) # {}
          /\ First(i) \in Int /\ End(i) \in Int
      <3> DEFINE a == First(i)
                 b == End(i)
      <3> HIDE DEF First, End, NextFirst, NextLast, n
      <3>1. a \in 2 .. n - 1 /\ b \in a .. n - 1 /\ n \in Nat
        BY <1>2, <1>3
      <3> HIDE DEF a, b
      <3>2. a .. b \in SUBSET (1 .. n) /\ a \in a .. b /\ a \in Int /\ b \in Int
        BY ONLY <3>1
      <3> QED
        BY <3>2 DEF a, b
    <2>3. \A c \in First(i) .. End(i) : Area(p, i, c) \in Int
      <3> SUFFICES ASSUME NEW c \in First(i) .. End(i) PROVE Area(p, i, c) \in Int
        OBVIOUS
      <3> HIDE DEF First, End, NextFirst, NextLast
      <3>1. /\ line[p][1] \in Int /\ line[p][2] \in Int /\ line[c][1] \in Int /\ line[c][2] \in Int
        BY <1>4, <2>2
      <3> DEFINE px == line[p][1]
                 py == line[p][2]
                 cx == line[c][1]
                 cy == line[c][2]
                 s == (px * count - sumX) * (cy - py) - (px - cx) * (sumY - py * count)
      <3>2. Signed(p, i, c) = s
        OBVIOUS
      <3> HIDE DEF count, sumX, sumY, px, py, cx, cy, Signed
      <3>3. px \in Int /\ py \in Int /\ cx \in Int /\ cy \in Int
        BY <3>1 DEF px, py, cx, cy
      <3>4. s \in Int
        BY ONLY <2>1, <3>3
      <3> HIDE DEF s
      <3> QED
        BY <3>2, <3>4
    <2> HIDE DEF Area, First, End
    <2> DEFINE S == First(i) .. End(i)
               f == [c \in S |-> Area(p, i, c)]
    <2>4. f \in [S -> Int] /\ S \in SUBSET (1 .. n) /\ S # {}
      BY <2>2, <2>3
    <2>5. PICK c \in S : \A d \in S : f[d] <= f[c] /\ (d < c => f[d] < f[c])
      <3> HIDE DEF f, S, n
      <3>1. n \in Nat
        BY <1>2
      <3> QED
        BY <2>4, <3>1, ArgMax
    <2>6. Best(p, i, c)
      <3>1. \A d \in First(i) .. (c - 1) : d \in S /\ d < c
        BY <2>2
      <3> QED
        BY <2>5, <3>1
    <2> HIDE DEF Best
    <2> QED
      BY <2>6
  <1> HIDE DEF Choice
  <1> DEFINE m == numOut - 1
             V == 1 .. n
             g == [q \in V \X (1 .. m) |-> IF q[2] = m THEN n ELSE Choice(q[1], q[2])]
  <1>6. m \in Nat \ {0}
    BY <1>2
  <1>7. \A p \in V : \A i \in 1 .. m : i # m => Choice(p, i) \in V
    <2> SUFFICES ASSUME NEW p \in V, NEW i \in 1 .. m, i # m PROVE Choice(p, i) \in V
      OBVIOUS
    <2>1. i \in 1 .. numOut - 2
      BY <1>2
    <2> HIDE DEF First, End, NextFirst, NextLast
    <2>2. Choice(p, i) \in First(i) .. End(i) /\ First(i) \in 2 .. n - 1 /\ End(i) \in First(i) .. n - 1
      BY <1>3, <1>5, <2>1
    <2> QED
      BY <1>2, <2>2
  <1>8. g \in [V \X (1 .. m) -> V]
    <2>1. n \in V
      BY <1>2
    <2> HIDE DEF V, n
    <2> QED
      BY <1>7, <2>1
  <1>9. \A p \in V : \A i \in 1 .. m : g[<<p, i>>] = IF i = m THEN n ELSE Choice(p, i)
    OBVIOUS
  <1> HIDE DEF g
  <1>10. PICK f \in [0 .. m -> V] : Iterates(f, m, 1, g)
    <2>1. 1 \in V
      BY <1>2
    <2> HIDE DEF V, m
    <2> QED
      BY <1>6, <1>8, <2>1, IterationExists
  <1>11. Loop(f)
    <2>1. f = [i \in 0 .. m |-> IF i = 0 THEN 1 ELSE g[<<f[i - 1], i>>]]
      BY <1>10 DEF Iterates
    <2>2. \A i \in 0 .. m : i # 0 => g[<<f[i - 1], i>>] = IF i = m THEN n ELSE Choice(f[i - 1], i)
      <3> SUFFICES ASSUME NEW i \in 0 .. m, i # 0
                   PROVE  g[<<f[i - 1], i>>] = IF i = m THEN n ELSE Choice(f[i - 1], i)
        OBVIOUS
      <3>1. i \in 1 .. m /\ i - 1 \in 0 .. m
        BY <1>6
      <3>2. f[i - 1] \in V
        BY <3>1
      <3> HIDE DEF V, m
      <3> QED
        BY <1>9, <3>1, <3>2
    <2> HIDE DEF V
    <2> QED
      BY <2>1, <2>2
  <1>12. Loop(pick)
    <2> HIDE DEF Loop
    <2> QED
      BY <1>11
  <1> HIDE DEF pick
  <1>13. \A i \in 0 .. m : pick[i] = IF i = 0 THEN 1 ELSE IF i = m THEN n ELSE Choice(pick[i - 1], i)
    BY <1>12
  <1> HIDE DEF Loop
  <1>14. \A i \in 0 .. m : pick[i] \in V
    <2> DEFINE U == {i \in 0 .. m : pick[i] \in V}
    <2>0. 1 \in V /\ n \in V
      BY <1>2
    <2>1. 0 \in U
      BY <1>6, <1>13, <2>0
    <2>2. ASSUME NEW i \in 1 .. m, i - 1 \in U PROVE i \in U
      <3>1. i \in 0 .. m /\ pick[i - 1] \in V /\ i # 0
        BY <2>2
      <3> HIDE DEF V, n
      <3> QED
        BY <1>7, <1>13, <2>0, <3>1
    <2>3. 0 .. m \subseteq U
      <3> HIDE DEF U, m
      <3> QED
        BY <1>6, <2>1, <2>2, UpToInduction
    <2> QED
      BY <2>3
  <1>15. pick[0] = 1 /\ pick[m] = n
    BY <1>6, <1>13
  <1>16. \A i \in 1 .. m - 1 : pick[i] \in First(i) .. Border(i) + 1
    <2> SUFFICES ASSUME NEW i \in 1 .. m - 1 PROVE pick[i] \in First(i) .. Border(i) + 1
      OBVIOUS
    <2>1. i \in 0 .. m /\ i # 0 /\ i # m /\ i - 1 \in 0 .. m /\ i \in 1 .. numOut - 2
      BY <1>6
    <2>2. pick[i] = Choice(pick[i - 1], i) /\ pick[i - 1] \in 1 .. n
      BY <1>13, <1>14, <2>1
    <2> HIDE DEF First, End, Border, V, n, m
    <2> QED
      BY <1>3, <1>5, <2>1, <2>2
  <1>17. ASSUME NEW k \in 1 .. m - 1, NEW l \in 1 .. m - 1, k < l PROVE pick[k] <= pick[l]
    <2> DEFINE d == numOut - 2
               N == n - 2
    <2>1. N \in Nat /\ d \in Nat \ {0} /\ d <= N /\ k \in Nat /\ l - 1 \in Nat /\ k <= l - 1
      BY <1>2, <1>6, <1>17
    <2>2. Border(k) \in Nat /\ Border(l - 1) \in Nat /\ Border(k) <= Border(l - 1)
      <3> HIDE DEF d, N
      <3>1. /\ (k * N) \div d \in Nat /\ ((l - 1) * N) \div d \in Nat
            /\ (k * N) \div d <= ((l - 1) * N) \div d
        BY <2>1, Borders
      <3> QED
        BY <3>1 DEF d, N
    <2>3. pick[k] \in First(k) .. Border(k) + 1 /\ pick[l] \in First(l) .. Border(l) + 1
      BY <1>16
    <2>4. First(l) = Border(l - 1) + 2 /\ pick[k] \in Int /\ pick[l] \in Int
      <3>1. k \in 0 .. m /\ l \in 0 .. m
        BY <1>6
      <3> QED
        BY <1>14, <3>1
    <2>5. pick[k] <= Border(k) + 1 /\ First(l) <= pick[l]
      <3> HIDE DEF First, Border
      <3> QED
        BY <2>3
    <2> DEFINE a == Border(k)
               b == Border(l - 1)
               u == pick[k]
               v == pick[l]
    <2>6. a \in Nat /\ b \in Nat /\ a <= b /\ u \in Int /\ v \in Int /\ u <= a + 1 /\ b + 2 <= v
      <3> HIDE DEF First, Border
      <3> QED
        BY <2>2, <2>4, <2>5
    <2> HIDE DEF a, b, u, v
    <2>7. u <= v
      BY ONLY <2>6
    <2> QED
      BY <2>7 DEF u, v
  <1> DEFINE at == [k \in 1 .. numOut |-> pick[k - 1]]
  <1>18. \A k \in 1 .. numOut : k - 1 \in 0 .. m
    BY <1>6
  <1>19. at \in [1 .. numOut -> 1 .. n]
    BY <1>14, <1>18
  <1>20. ASSUME NEW k \in 1 .. numOut, NEW l \in 1 .. numOut, k <= l PROVE at[k] <= at[l]
    <2>1. at[k] = pick[k - 1] /\ at[l] = pick[l - 1] /\ at[k] \in 1 .. n /\ at[l] \in 1 .. n
      BY <1>14, <1>18
    <2> HIDE DEF at, Border, First, End, V
    <2>2. CASE k = l
      BY <2>1, <2>2
    <2>3. CASE k - 1 = 0
      BY <1>15, <2>1, <2>3
    <2>4. CASE l - 1 = m
      BY <1>15, <2>1, <2>4
    <2>5. CASE k # l /\ k - 1 # 0 /\ l - 1 # m
      <3>1. k - 1 \in 1 .. m - 1 /\ l - 1 \in 1 .. m - 1 /\ k - 1 < l - 1
        BY <1>6, <1>20, <2>5
      <3> HIDE DEF m
      <3> QED
        BY <1>17, <2>1, <3>1
    <2> QED
      BY <2>2, <2>3, <2>4, <2>5
  <1>21. pts \in Seq(Point) /\ Len(pts) = numOut /\ DOMAIN pts = 1 .. numOut
    <2>1. \A k \in 1 .. numOut : line[pick[k - 1]] \in Point
      <3>1. \A i \in 1 .. n : line[i] \in Point
        BY DEF IsLine, Point
      <3> QED
        BY <1>14, <1>18, <3>1
    <2> HIDE DEF n, m
    <2> QED
      BY <2>1
  <1>22. \A k \in 1 .. numOut : pts[k] = line[at[k]]
    OBVIOUS
  <1> HIDE DEF pts, at
  <1>23. Traces(pts, at, line)
    <2>1. at \in [1 .. numOut -> 0 .. n] /\ \A k \in 1 .. numOut : at[k] # 0
      <3>1. n \in Nat
        BY DEF IsLine
      <3> HIDE DEF n
      <3>2. \A j \in 1 .. n : j \in 0 .. n /\ j # 0
        BY <3>1
      <3> QED
        BY ONLY <1>19, <3>2
    <2> QED
      BY <1>20, <1>21, <1>22, <2>1 DEF Traces
  <1>24. Picks(pts, line)
    <2>1. \A k \in 1 .. numOut : at[k] # 0
      BY <1>19
    <2> QED
      BY <1>21, <1>23, <2>1 DEF Picks
  <1>25. Reaches(pts, line)
    <2>1. numOut \in 1 .. numOut
      BY <1>6
    <2>2. at[numOut] = n
      BY <1>15, <2>1 DEF at
    <2>3. pts[Len(pts)] = line[n] /\ line[n][1] \in Int
      BY <1>2, <1>4, <1>21, <1>22, <2>1, <2>2
    <2> QED
      BY <2>3 DEF Reaches
  <1> QED
    BY <1>1, <1>24, <1>25

-----------------------------------------------------------------------------
(* Lines with gaps. *)

(* segs are runs of samples of line that are not NaN, one behind the       *)
(* other, and no such sample is left out.                                  *)
Runs(line, segs, first, end) ==
  /\ Len(segs) \in Nat /\ DOMAIN segs = 1 .. Len(segs)
  /\ \A k \in 1 .. Len(segs) :
        /\ first[k] \in 1 .. Len(line) /\ end[k] \in first[k] .. Len(line)
        /\ segs[k] = SubSeq(line, first[k], end[k])
        /\ \A i \in first[k] .. end[k] : line[i][2] # NaN
  /\ \A k, l \in 1 .. Len(segs) : k < l => end[k] < first[l]
  /\ \A i \in 1 .. Len(line) : line[i][2] # NaN =>
        \E k \in 1 .. Len(segs) : i \in first[k] .. end[k]

LEMMA SegmentsAre ==
  ASSUME NEW line, IsLine(line)
  PROVE  \E first, end : Runs(line, Segments(line), first, end)
  <1> DEFINE n == Len(line)
             idx == [i \in DOMAIN line |-> i]
             Valids == {i \in 1 .. n : line[i][2] # NaN}
             mask == {i \in DOMAIN line : line[i][2] # NaN /\ (i = 1 \/ line[i - 1][2] = NaN)}
             starts == Masked(idx, mask)
             Run(s) == {e \in s .. n : \A i \in s .. e : line[i][2] # NaN}
             EndOf(s) == Max(Run(s))
             segs == [k \in DOMAIN starts |-> SubSeq(line, starts[k], EndOf(starts[k]))]
  <1>1. n \in Nat \ {0} /\ DOMAIN line = 1 .. n
    BY DEF IsLine
  <1>2. Segments(line) = segs
    BY DEF Segments
  <1>3. idx \in Seq(Nat) /\ Len(idx) = n /\ \A i \in 1 .. n : idx[i] = i
    BY <1>1
  <1>4. mask \in SUBSET (1 .. n)
        /\ \A i : i \in mask <=> i \in 1 .. n /\ line[i][2] # NaN /\ (i = 1 \/ line[i - 1][2] = NaN)
    BY <1>1
  <1> HIDE DEF idx, mask, n
  <1>5. /\ starts \in Seq(Nat)
        /\ \E pos : /\ Lists(pos, Len(starts), mask)
                    /\ \A k \in 1 .. Len(starts) : starts[k] = idx[pos[k]]
    <2>1. mask \in SUBSET (1 .. Len(idx))
      BY <1>3, <1>4
    <2> QED
      BY <1>3, <2>1, MaskedSelects
  <1> HIDE DEF starts
  <1>6. /\ \A k \in 1 .. Len(starts) : starts[k] \in mask
        /\ \A k, l \in 1 .. Len(starts) : k < l => starts[k] < starts[l]
        /\ \A i \in mask : \E k \in 1 .. Len(starts) : starts[k] = i
    <2>1. PICK pos : /\ Lists(pos, Len(starts), mask)
                     /\ \A k \in 1 .. Len(starts) : starts[k] = idx[pos[k]]
      BY <1>5
    <2>2. \A k \in 1 .. Len(starts) : pos[k] \in mask /\ pos[k] \in 1 .. n /\ starts[k] = pos[k]
      <3>1. \A k \in 1 .. Len(starts) : pos[k] \in mask
        BY <2>1 DEF Lists
      <3>2. \A k \in 1 .. Len(starts) : pos[k] \in 1 .. n
        BY <1>4, <3>1
      <3> QED
        BY <1>3, <2>1, <3>1, <3>2
    <2> QED
      BY <2>1, <2>2 DEF Lists
  <1>7. Len(starts) \in Nat /\ DOMAIN starts = 1 .. Len(starts)
    BY <1>5
  <1>8. Len(segs) = Len(starts) /\ DOMAIN segs = 1 .. Len(segs)
        /\ \A k \in 1 .. Len(segs) : segs[k] = SubSeq(line, starts[k], EndOf(starts[k]))
    <2> HIDE DEF EndOf
    <2>1. segs = [k \in 1 .. Len(starts) |-> SubSeq(line, starts[k], EndOf(starts[k]))]
      BY <1>7
    <2>2. DOMAIN segs = 1 .. Len(starts) /\ Len(segs) = Len(starts)
      BY <1>7, <2>1
    <2> HIDE DEF segs
    <2> QED
      BY <2>1, <2>2
  <1> HIDE DEF segs
  <1>9. ASSUME NEW s \in mask
        PROVE  /\ s \in 1 .. n /\ EndOf(s) \in s .. n
               /\ \A i \in s .. EndOf(s) : line[i][2] # NaN
               /\ \A e \in Run(s) : e <= EndOf(s)
    <2>1. s \in 1 .. n /\ line[s][2] # NaN
      BY <1>4
    <2>2. s \in s .. n /\ \A i \in s .. s : i = s
      BY <1>1, <2>1
    <2>3. s \in Run(s)
      BY <2>1, <2>2
    <2>4. Run(s) \in SUBSET (s .. n) /\ s \in Nat /\ n \in Nat
      BY <1>1, <2>1
    <2>5. EndOf(s) \in Run(s) /\ \A e \in Run(s) : EndOf(s) >= e
      <3> HIDE DEF Run
      <3> QED
        BY <2>3, <2>4, MaxExists
    <2>6. \A e \in Run(s) : e \in Int
      BY <2>4
    <2>7. EndOf(s) \in s .. n /\ \A i \in s .. EndOf(s) : line[i][2] # NaN
      <3> HIDE DEF EndOf
      <3> QED
        BY <2>5
    <2>8. \A e \in Run(s) : e <= EndOf(s)
      <3>1. EndOf(s) \in Int
        BY <2>5, <2>6
      <3> HIDE DEF EndOf, Run
      <3> QED
        BY <2>5, <2>6, <3>1
    <2> QED
      BY <2>1, <2>7, <2>8
  <1> DEFINE end == [k \in 1 .. Len(starts) |-> EndOf(starts[k])]
  <1>10. ASSUME NEW k \in 1 .. Len(segs)
         PROVE  /\ starts[k] \in 1 .. n /\ end[k] \in starts[k] .. n
                /\ segs[k] = SubSeq(line, starts[k], end[k])
                /\ \A i \in starts[k] .. end[k] : line[i][2] # NaN
    <2>1. starts[k] \in mask /\ end[k] = EndOf(starts[k])
      BY <1>6, <1>8
    <2> HIDE DEF EndOf, end
    <2> QED
      BY <1>8, <1>9, <2>1
  <1>11. ASSUME NEW k \in 1 .. Len(segs), NEW l \in 1 .. Len(segs), k < l
         PROVE  end[k] < starts[l]
    <2>1. starts[k] < starts[l] /\ starts[k] \in 1 .. n /\ starts[l] \in mask /\ starts[l] \in 1 .. n
      BY <1>4, <1>6, <1>8, <1>11
    <2>2. line[starts[l] - 1][2] = NaN
      <3>1. starts[l] # 1
        BY <2>1
      <3> QED
        BY <1>4, <2>1, <3>1
    <2> HIDE DEF end
    <2>3. end[k] \in starts[k] .. n /\ \A i \in starts[k] .. end[k] : line[i][2] # NaN
      BY <1>10
    <2>4. ~(starts[l] - 1 \in starts[k] .. end[k]) /\ end[k] \in Int
      <3>1. end[k] \in Int
        BY <2>1, <2>3
      <3> QED
        BY <2>2, <2>3, <3>1
    <2> QED
      BY <2>1, <2>4
  <1>12. ASSUME NEW i \in 1 .. n, line[i][2] # NaN
         PROVE  \E k \in 1 .. Len(segs) : i \in starts[k] .. end[k]
    <2> DEFINE Back == {s \in 1 .. i : \A j \in s .. i : line[j][2] # NaN}
               s == Min(Back)
    <2>1. i \in Back
      <3>1. i \in 1 .. i /\ \A j \in i .. i : j = i
        BY <1>1
      <3> QED
        BY <1>12, <3>1
    <2>2. Back \in SUBSET (1 .. i) /\ 1 \in Nat /\ i \in Nat
      BY <1>1
    <2>3. s \in Back /\ \A t \in Back : s <= t
      <3> HIDE DEF Back
      <3> QED
        BY <2>1, <2>2, MinExists
    <2> HIDE DEF s
    <2>4. s \in 1 .. i /\ s \in 1 .. n /\ \A j \in s .. i : line[j][2] # NaN
      <3>1. s \in 1 .. i /\ \A j \in s .. i : line[j][2] # NaN
        BY <2>3
      <3> QED
        BY <1>1, <3>1
    <2>5. s = 1 \/ line[s - 1][2] = NaN
      <3> SUFFICES ASSUME s # 1, line[s - 1][2] # NaN PROVE FALSE
        OBVIOUS
      <3>1. s - 1 \in 1 .. i
        BY <2>4
      <3>2. \A j \in s - 1 .. i : j = s - 1 \/ j \in s .. i
        BY <2>4
      <3>3. s - 1 \in Back
        BY <2>4, <3>1, <3>2
      <3> HIDE DEF Back
      <3>4. s <= s - 1
        BY <2>3, <3>3
      <3> QED
        BY <2>4, <3>4
    <2>6. s \in mask
      <3>1. s \in s .. i
        BY <2>4
      <3> QED
        BY <1>4, <2>4, <2>5, <3>1
    <2>7. PICK k \in 1 .. Len(starts) : starts[k] = s
      BY <1>6, <2>6
    <2>8. i \in Run(s)
      BY <2>4
    <2>9. end[k] = EndOf(s) /\ i <= EndOf(s) /\ EndOf(s) \in s .. n
      <3>1. end[k] = EndOf(s)
        BY <2>7
      <3> HIDE DEF end, EndOf, Run
      <3> QED
        BY <1>9, <2>6, <2>8, <3>1
    <2>10. i \in starts[k] .. end[k]
      <3> HIDE DEF end, EndOf, Run
      <3> QED
        BY <2>4, <2>7, <2>9
    <2> HIDE DEF end
    <2> QED
      BY <1>8, <2>10
  <1> HIDE DEF end
  <1>13. Runs(line, segs, starts, end)
    BY <1>7, <1>8, <1>10, <1>11, <1>12 DEF Runs, n
  <1> QED
    BY <1>2, <1>13

(* pts draws line: it follows it, no stroke runs across a sample that is   *)
(* NaN, and it goes as far as the samples that are not.                    *)
Strokes(pts, at, line) ==
  \A k \in 1 .. Len(pts) - 1 : pts[k][2] # NaN /\ pts[k + 1][2] # NaN =>
    \A i \in at[k] .. at[k + 1] : line[i][2] # NaN
ReachesValid(pts, line) ==
  \A i \in 1 .. Len(line) : line[i][2] # NaN =>
    \E k \in 1 .. Len(pts) : /\ pts[k][2] # NaN
                             /\ \A j \in 1 .. Len(line) : line[j][2] # NaN => line[j][1] <= pts[k][1]
Draws(pts, line) ==
  /\ \E at : Traces(pts, at, line) /\ Strokes(pts, at, line)
  /\ ReachesValid(pts, line)

(* What is picked from a line without gaps draws it. *)
LEMMA PicksDraws ==
  ASSUME NEW line, IsLine(line), ~HasGap(line), NEW pts, Picks(pts, line), Reaches(pts, line)
  PROVE  Draws(pts, line)
  <1>1. PICK at : Traces(pts, at, line) /\ \A k \in 1 .. Len(pts) : at[k] # 0
    BY DEF Picks
  <1>2. \A i \in 1 .. Len(line) : line[i][2] # NaN /\ line[i][1] \in Int
    BY DEF IsLine, HasGap
  <1>3. Len(pts) \in Nat \ {0} /\ IsLine(pts) /\ ~HasGap(pts)
    <2>1. IsLine(pts) /\ ~HasGap(pts)
      BY PicksIsLine
    <2> QED
      BY <2>1 DEF IsLine
  <1>4. \A k \in 1 .. Len(pts) : at[k] \in 1 .. Len(line)
    BY <1>1 DEF Traces
  <1>5. Strokes(pts, at, line)
    <2> SUFFICES ASSUME NEW k \in 1 .. Len(pts) - 1, NEW i \in at[k] .. at[k + 1]
                 PROVE  line[i][2] # NaN
      BY DEF Strokes
    <2>1. k \in 1 .. Len(pts) /\ k + 1 \in 1 .. Len(pts)
      BY <1>3
    <2>2. at[k] \in 1 .. Len(line) /\ at[k + 1] \in 1 .. Len(line)
      BY <1>4, <2>1
    <2>3. i \in 1 .. Len(line)
      BY <2>2 DEF IsLine
    <2> QED
      BY <1>2, <2>3
  <1>6. ReachesValid(pts, line)
    <2>1. Len(pts) \in 1 .. Len(pts)
      BY <1>3
    <2>2. pts[Len(pts)][2] # NaN /\ pts[Len(pts)][1] \in Int
      BY <1>3, <2>1 DEF IsLine, HasGap
    <2>3. Len(line) \in 1 .. Len(line)
      BY DEF IsLine
    <2>4. \A j \in 1 .. Len(line) : line[j][1] <= line[Len(line)][1] /\ line[j][1] \in Int
                                    /\ line[Len(line)][1] \in Int
      BY <2>3 DEF IsLine
    <2>5. line[Len(line)][1] <= pts[Len(pts)][1]
      BY DEF Reaches
    <2>6. \A j \in 1 .. Len(line) : line[j][1] <= pts[Len(pts)][1]
      BY <2>2, <2>4, <2>5
    <2> QED
      BY <2>1, <2>2, <2>6 DEF ReachesValid
  <1> QED
    BY <1>1, <1>5, <1>6 DEF Draws

(* A line draws itself. *)
LEMMA WholeDraws ==
  ASSUME NEW line, IsLine(line)
  PROVE  Draws(line, line)
  <1> DEFINE n == Len(line)
             at == [k \in 1 .. n |-> k]
             Valids == {i \in 1 .. n : line[i][2] # NaN}
  <1>1. n \in Nat \ {0} /\ DOMAIN line = 1 .. n /\ line \in Seq(Point)
    <2>1. line \in Seq(Sample) /\ n \in Nat \ {0} /\ DOMAIN line = 1 .. n
      BY DEF IsLine
    <2>2. \A i \in 1 .. n : line[i] \in Point
      BY DEF IsLine, Point
    <2> QED
      BY <2>1, <2>2
  <1>2. at \in [1 .. n -> 0 .. n] /\ \A k \in 1 .. n : at[k] = k /\ k # 0
    OBVIOUS
  <1> HIDE DEF at
  <1>3. Traces(line, at, line)
    BY <1>1, <1>2 DEF Traces
  <1>4. Strokes(line, at, line)
    <2> SUFFICES ASSUME NEW k \in 1 .. n - 1, line[k][2] # NaN, line[k + 1][2] # NaN,
                        NEW i \in at[k] .. at[k + 1]
                 PROVE  line[i][2] # NaN
      BY DEF Strokes
    <2>1. k \in 1 .. n /\ k + 1 \in 1 .. n
      BY <1>1
    <2>2. at[k] = k /\ at[k + 1] = k + 1
      BY <1>2, <2>1
    <2>3. i = k \/ i = k + 1
      BY <2>1, <2>2
    <2> QED
      BY <2>3
  <1>5. ReachesValid(line, line)
    <2> SUFFICES ASSUME NEW i \in 1 .. n, line[i][2] # NaN
                 PROVE  \E k \in 1 .. n : /\ line[k][2] # NaN
                                          /\ \A j \in 1 .. n : line[j][2] # NaN => line[j][1] <= line[k][1]
      BY DEF ReachesValid
    <2> DEFINE k == Max(Valids)
    <2>1. k \in Valids /\ \A j \in Valids : k >= j
      <3>1. Valids \in SUBSET (1 .. n) /\ Valids # {} /\ 1 \in Nat /\ n \in Nat
        BY <1>1
      <3> HIDE DEF Valids, n
      <3> QED
        BY <3>1, MaxExists
    <2> HIDE DEF k
    <2>2. k \in 1 .. n /\ line[k][2] # NaN
      BY <2>1
    <2>3. \A j \in 1 .. n : line[j][2] # NaN => line[j][1] <= line[k][1]
      <3> SUFFICES ASSUME NEW j \in 1 .. n, line[j][2] # NaN PROVE line[j][1] <= line[k][1]
        OBVIOUS
      <3>1. j <= k
        BY <2>1, <2>2
      <3> QED
        BY <2>2, <3>1 DEF IsLine
    <2> QED
      BY <2>2, <2>3
  <1> QED
    BY <1>3, <1>4, <1>5 DEF Draws

(* What is picked from a part of a line, with or without a gap after it,   *)
(* follows the line within the part.                                       *)
WithGap(part, more) == part \o (IF more THEN <<Gap>> ELSE <<>>)
Within(pts, at, line, p, q, part) ==
  /\ Traces(pts, at, line)
  /\ \A j \in 1 .. Len(pts) : at[j] = 0 \/ at[j] \in p .. q
  /\ \A j \in 1 .. Len(part) : at[j] \in p .. q
  /\ Len(part) \in Nat \ {0} /\ Len(pts) \in Len(part) .. Len(part) + 1
  /\ \A j \in 1 .. Len(part) : pts[j] = part[j]

LEMMA PartFollows ==
  ASSUME NEW line, IsLine(line), NEW p \in 1 .. Len(line), NEW q \in p .. Len(line),
         NEW part, Picks(part, SubSeq(line, p, q)), NEW more \in BOOLEAN
  PROVE  \E at : /\ Within(WithGap(part, more), at, line, p, q, part)
                 /\ more => /\ Len(WithGap(part, more)) = Len(part) + 1
                            /\ WithGap(part, more)[Len(part) + 1] = Gap
                 /\ ~more => WithGap(part, more) = part
  <1> DEFINE n == Len(line)
             src == SubSeq(line, p, q)
             m == Len(part)
  <1>1. PICK pat : Traces(part, pat, src) /\ \A k \in 1 .. m : pat[k] # 0
    BY DEF Picks
  <1>2. /\ IsLine(src) /\ Len(src) = q - p + 1
        /\ \A i \in 1 .. q - p + 1 : src[i] = line[p + i - 1]
    BY PartIsLine
  <1>3. n \in Nat \ {0} /\ p \in Nat /\ q \in Nat /\ p <= q /\ q <= n /\ p >= 1
    BY DEF IsLine
  <1> HIDE DEF src
  <1>4. /\ part \in Seq(Point) /\ m \in Nat \ {0} /\ DOMAIN part = 1 .. m
        /\ \A k \in 1 .. m : pat[k] \in 1 .. q - p + 1 /\ part[k] = src[pat[k]]
        /\ \A k, l \in 1 .. m : k <= l => pat[k] <= pat[l]
    <2>1. m \in Nat /\ m >= 1
      BY <1>1 DEF Traces, Picks
    <2>2. \A k \in 1 .. m : pat[k] \in 0 .. q - p + 1 /\ pat[k] # 0
      BY <1>1, <1>2 DEF Traces
    <2>3. \A k \in 1 .. m : pat[k] \in 1 .. q - p + 1
      <3> HIDE DEF m
      <3> QED
        BY <1>3, <2>2
    <2>4. /\ part \in Seq(Point) /\ DOMAIN part = 1 .. m
          /\ \A k \in 1 .. m : part[k] = src[pat[k]]
          /\ \A k, l \in 1 .. m : k <= l => pat[k] <= pat[l]
      BY <1>1 DEF Traces
    <2> QED
      BY <2>1, <2>3, <2>4
  <1> DEFINE pts == WithGap(part, more)
             len == IF more THEN m + 1 ELSE m
             at == [j \in 1 .. len |-> IF j <= m THEN p + pat[j] - 1 ELSE 0]
  <1>5. /\ pts \in Seq(Point) /\ Len(pts) = len /\ DOMAIN pts = 1 .. len
        /\ \A j \in 1 .. m : pts[j] = part[j]
        /\ more => pts[m + 1] = Gap
    <2>1. <<Gap>> \in Seq(Point) /\ <<>> \in Seq(Point)
      BY DEF Point
    <2>2. CASE more
      <3>1. pts = part \o <<Gap>>
        BY <2>2 DEF WithGap
      <3> HIDE DEF pts
      <3> QED
        BY <1>4, <2>1, <2>2, <3>1
    <2>3. CASE ~more
      <3>1. pts = part
        BY <1>4, <2>3 DEF WithGap
      <3> HIDE DEF pts
      <3> QED
        BY <1>4, <2>3, <3>1
    <2> QED
      BY <2>2, <2>3
  <1> HIDE DEF pts
  <1>6. len \in m .. m + 1 /\ \A j \in 1 .. len : j <= m \/ (more /\ j = m + 1)
    BY <1>4
  <1> HIDE DEF len
  <1>7. \A j \in 1 .. m : /\ j \in 1 .. len /\ at[j] = p + pat[j] - 1 /\ at[j] \in p .. q
                          /\ pts[j] = line[at[j]]
    <2> SUFFICES ASSUME NEW j \in 1 .. m
                 PROVE  /\ j \in 1 .. len /\ at[j] = p + pat[j] - 1 /\ at[j] \in p .. q
                        /\ pts[j] = line[at[j]]
      OBVIOUS
    <2>1. j \in 1 .. len /\ j <= m
      BY <1>4, <1>6
    <2>2. at[j] = p + pat[j] - 1
      BY <2>1
    <2>3. pat[j] \in 1 .. q - p + 1 /\ part[j] = src[pat[j]]
      BY <1>4
    <2> HIDE DEF at
    <2>4. p + pat[j] - 1 \in p .. q
      BY <1>3, <2>3
    <2> QED
      BY <1>2, <1>5, <2>1, <2>2, <2>3, <2>4
  <1>8. \A j \in 1 .. len : ~(j <= m) => at[j] = 0 /\ pts[j] = Gap
    BY <1>5, <1>6
  <1>9. at \in [1 .. len -> 0 .. n]
    <2>1. \A j \in 1 .. len : at[j] \in 0 .. n
      <3> SUFFICES ASSUME NEW j \in 1 .. len PROVE at[j] \in 0 .. n
        OBVIOUS
      <3>1. j <= m => j \in 1 .. m
        BY <1>4, <1>6
      <3> HIDE DEF at
      <3>2. at[j] \in p .. q \/ at[j] = 0
        BY <1>7, <1>8, <3>1
      <3> QED
        BY <1>3, <3>2
    <2> QED
      BY <2>1
  <1> HIDE DEF at, n
  <1>10. \A j \in 1 .. len : pts[j] = IF at[j] = 0 THEN Gap ELSE line[at[j]]
    <2> SUFFICES ASSUME NEW j \in 1 .. len PROVE pts[j] = IF at[j] = 0 THEN Gap ELSE line[at[j]]
      OBVIOUS
    <2>1. CASE j <= m
      <3>1. j \in 1 .. m
        BY <1>4, <1>6, <2>1
      <3>2. at[j] \in p .. q /\ pts[j] = line[at[j]]
        BY <1>7, <3>1
      <3> QED
        BY <1>3, <3>2
    <2>2. CASE ~(j <= m)
      BY <1>8, <2>2
    <2> QED
      BY <2>1, <2>2
  <1>11. ASSUME NEW k \in 1 .. len, NEW l \in 1 .. len, k <= l, at[k] # 0, at[l] # 0
         PROVE  at[k] <= at[l]
    <2>1. k \in 1 .. m /\ l \in 1 .. m
      BY <1>4, <1>6, <1>8, <1>11
    <2>2. at[k] = p + pat[k] - 1 /\ at[l] = p + pat[l] - 1 /\ pat[k] <= pat[l]
          /\ pat[k] \in Int /\ pat[l] \in Int
      BY <1>4, <1>7, <1>11, <2>1
    <2> QED
      BY <1>3, <2>2
  <1>12. Traces(pts, at, line)
    <2>1. len \in Nat
      BY <1>4, <1>6
    <2> QED
      BY <1>5, <1>9, <1>10, <1>11, <2>1 DEF Traces, n
  <1>13. Within(pts, at, line, p, q, part)
    <2>1. \A j \in 1 .. Len(pts) : at[j] = 0 \/ at[j] \in p .. q
      <3> SUFFICES ASSUME NEW j \in 1 .. len PROVE at[j] = 0 \/ at[j] \in p .. q
        BY <1>5
      <3>1. j <= m => j \in 1 .. m
        BY <1>4, <1>6
      <3> QED
        BY <1>7, <1>8, <3>1
    <2>2. Len(pts) \in m .. m + 1
      BY <1>5, <1>6
    <2>3. \A j \in 1 .. m : pts[j] = part[j] /\ at[j] \in p .. q
      BY <1>5, <1>7
    <2> QED
      BY <1>4, <1>12, <2>1, <2>2, <2>3 DEF Within
  <1>14. /\ more => Len(pts) = m + 1 /\ pts[m + 1] = Gap
         /\ ~more => pts = part
    <2>1. ~more => pts = part
      BY <1>4 DEF WithGap, pts
    <2> QED
      BY <1>5, <2>1 DEF len
  <1> QED
    BY <1>13, <1>14 DEF pts

(* Parts picked from the segments, one gap between two of them, draw the   *)
(* line.                                                                   *)
LEMMA SegmentsDrawn ==
  ASSUME NEW line, IsLine(line), NEW segs, NEW first, NEW end, Runs(line, segs, first, end),
         NEW parts, Len(segs) # 0,
         \A k \in 1 .. Len(segs) : Picks(parts[k], segs[k]) /\ Reaches(parts[k], segs[k])
  PROVE  Draws(FlattenSeq([k \in 1 .. Len(segs) |-> WithGap(parts[k], k < Len(segs))]), line)
  <1> DEFINE m == Len(segs)
             n == Len(line)
             seqs == [k \in 1 .. m |-> WithGap(parts[k], k < m)]
             Follows(k, at) ==
               /\ Within(seqs[k], at, line, first[k], end[k], parts[k])
               /\ k < m => Len(seqs[k]) = Len(parts[k]) + 1 /\ seqs[k][Len(parts[k]) + 1] = Gap
               /\ ~(k < m) => seqs[k] = parts[k]
             ats == [k \in 1 .. m |-> CHOOSE at : Follows(k, at)]
             r == FlattenSeq(seqs)
  <1>1. /\ m \in Nat \ {0} /\ n \in Nat \ {0}
        /\ \A k \in 1 .. m : /\ first[k] \in 1 .. n /\ end[k] \in first[k] .. n
                             /\ segs[k] = SubSeq(line, first[k], end[k])
                             /\ \A i \in first[k] .. end[k] : line[i][2] # NaN
        /\ \A k, l \in 1 .. m : k < l => end[k] < first[l]
        /\ \A i \in 1 .. n : line[i][2] # NaN => \E k \in 1 .. m : i \in first[k] .. end[k]
    BY DEF Runs, IsLine
  <1>2. \A k \in 1 .. m : seqs[k] = WithGap(parts[k], k < m)
    OBVIOUS
  <1>3. Len(seqs) = m
    BY <1>1
  <1> HIDE DEF seqs
  <1>4. ASSUME NEW k \in 1 .. m PROVE \E at : Follows(k, at)
    <2> DEFINE p == first[k]
               q == end[k]
               part == parts[k]
               more == k < m
    <2>1. p \in 1 .. Len(line) /\ q \in p .. Len(line) /\ Picks(part, SubSeq(line, p, q))
      BY <1>1
    <2>2. more \in BOOLEAN
      OBVIOUS
    <2>3. seqs[k] = WithGap(part, more)
      BY <1>2
    <2> HIDE DEF p, q, part, more
    <2>4. \E at : /\ Within(WithGap(part, more), at, line, p, q, part)
                  /\ more => /\ Len(WithGap(part, more)) = Len(part) + 1
                             /\ WithGap(part, more)[Len(part) + 1] = Gap
                  /\ ~more => WithGap(part, more) = part
      BY <2>1, <2>2, PartFollows
    <2> QED
      BY <2>3, <2>4 DEF p, q, part, more
  <1>5. \A k \in 1 .. m : Follows(k, ats[k])
    <2> HIDE DEF Follows
    <2> QED
      BY <1>4
  <1> HIDE DEF ats
  <1>6. \A k \in 1 .. m : /\ Traces(seqs[k], ats[k], line)
                          /\ Len(seqs[k]) \in Nat
                          /\ first[k] \in Int /\ end[k] \in Int
                          /\ \A j \in 1 .. Len(seqs[k]) : ats[k][j] = 0 \/ ats[k][j] \in first[k] .. end[k]
    <2> SUFFICES ASSUME NEW k \in 1 .. m
                 PROVE  /\ Traces(seqs[k], ats[k], line)
                        /\ Len(seqs[k]) \in Nat
                        /\ first[k] \in Int /\ end[k] \in Int
                        /\ \A j \in 1 .. Len(seqs[k]) : ats[k][j] = 0 \/ ats[k][j] \in first[k] .. end[k]
      OBVIOUS
    <2>1. Within(seqs[k], ats[k], line, first[k], end[k], parts[k])
      BY <1>5
    <2>2. Traces(seqs[k], ats[k], line)
          /\ \A j \in 1 .. Len(seqs[k]) : ats[k][j] = 0 \/ ats[k][j] \in first[k] .. end[k]
      BY <2>1 DEF Within
    <2>3. Len(seqs[k]) \in Nat
      BY <2>2 DEF Traces
    <2>4. first[k] \in Int /\ end[k] \in Int
      BY <1>1
    <2> QED
      BY <2>2, <2>3, <2>4
  <1>7. PICK at, len : Joins(r, seqs, ats, line, at, len)
    <2>1. \A i \in 1 .. Len(seqs) :
            /\ Traces(seqs[i], ats[i], line) /\ first[i] \in Int /\ end[i] \in Int
            /\ \A j \in 1 .. Len(seqs[i]) : ats[i][j] = 0 \/ ats[i][j] \in first[i] .. end[i]
      BY <1>3, <1>6
    <2>2. \A i, h \in 1 .. Len(seqs) : i < h => end[i] < first[h]
      BY <1>1, <1>3
    <2>3. Len(line) \in Nat /\ Len(seqs) \in Nat \ {0}
      BY <1>1, <1>3
    <2> HIDE DEF m, n, Follows, r
    <2>4. \E at, len : Joins(FlattenSeq(seqs), seqs, ats, line, at, len)
      BY <2>1, <2>2, <2>3, FlattenTraces
    <2> QED
      BY <2>4 DEF r
  <1> HIDE DEF r, m, n
  <1>8. /\ Laid(r, seqs, len) /\ Traces(r, at, line)
        /\ \A k, i, j : At(seqs, len, k, i, j) => at[k] = ats[i][j]
    BY <1>7 DEF Joins
  <1>9. /\ len \in [0 .. m -> Nat] /\ len[0] = 0 /\ len[m] = Len(r)
        /\ \A i \in 1 .. m : /\ len[i] = len[i - 1] + Len(seqs[i])
                             /\ \A j \in 1 .. Len(seqs[i]) : r[len[i - 1] + j] = seqs[i][j]
    BY <1>3, <1>8 DEF Laid
  <1>10. Len(r) \in Nat
    BY <1>8 DEF Traces
  <1>11. ASSUME NEW k \in 1 .. Len(r) - 1, r[k][2] # NaN, r[k + 1][2] # NaN,
                NEW v \in at[k] .. at[k + 1]
         PROVE  line[v][2] # NaN
    <2>1. k \in 1 .. Len(r) /\ k + 1 \in 1 .. Len(r) /\ k \in Nat
      BY <1>10
    <2>2. PICK i, j : At(seqs, len, k, i, j)
      <3>1. \A h \in 1 .. Len(seqs) : Len(seqs[h]) \in Nat
        BY <1>3, <1>6
      <3>2. Len(seqs) \in Nat \ {0}
        BY <1>1, <1>3
      <3> QED
        BY <1>8, <2>1, <3>1, <3>2, PieceOf
    <2>3. i \in 1 .. m /\ j \in 1 .. Len(seqs[i]) /\ k = len[i - 1] + j
      BY <1>3, <2>2 DEF At
    <2>4. Len(seqs[i]) \in Nat /\ Follows(i, ats[i]) /\ len[i] \in Nat /\ len[i - 1] \in Nat
          /\ len[i] = len[i - 1] + Len(seqs[i])
      <3>1. i \in 0 .. m /\ i - 1 \in 0 .. m
        BY <1>1, <2>3
      <3> QED
        BY <1>5, <1>6, <1>9, <2>3, <3>1
    <2>5. Within(seqs[i], ats[i], line, first[i], end[i], parts[i])
      BY <2>4
    <2>6. Len(parts[i]) \in Nat \ {0} /\ Len(seqs[i]) \in Len(parts[i]) .. Len(parts[i]) + 1
      BY <2>5 DEF Within
    <2>7. r[k] = seqs[i][j]
      BY <1>9, <2>3
    <2>8. j <= Len(parts[i])
      <3> SUFFICES ASSUME ~(j <= Len(parts[i])) PROVE FALSE
        OBVIOUS
      <3>1. j = Len(parts[i]) + 1 /\ Len(seqs[i]) = Len(parts[i]) + 1
        <4> DEFINE s == Len(seqs[i])
                   w == Len(parts[i])
        <4>1. j \in 1 .. s /\ w \in Nat \ {0} /\ s \in w .. w + 1 /\ ~(j <= w)
          BY <2>3, <2>6
        <4> HIDE DEF s, w
        <4>2. j = w + 1 /\ s = w + 1
          BY ONLY <4>1
        <4> QED
          BY <4>2 DEF s, w
      <3>2. i < m
        <4> SUFFICES ASSUME ~(i < m) PROVE FALSE
          OBVIOUS
        <4>1. seqs[i] = parts[i]
          BY <2>4
        <4> QED
          BY <2>6, <3>1, <4>1
      <3>3. seqs[i][j] = Gap
        BY <2>4, <3>1, <3>2
      <3> QED
        BY <1>11, <2>7, <3>3 DEF Gap
    <2>9. j # Len(seqs[i])
      <3> SUFFICES ASSUME j = Len(seqs[i]) PROVE FALSE
        OBVIOUS
      <3>1. ~(i < m)
        <4> SUFFICES ASSUME i < m PROVE FALSE
          OBVIOUS
        <4>1. Len(seqs[i]) = Len(parts[i]) + 1
          BY <2>4
        <4> QED
          BY <2>6, <2>8, <4>1
      <3>2. i = m
        BY <1>1, <2>3, <3>1
      <3>3. k = Len(r)
        BY <1>9, <2>3, <2>4, <3>2
      <3> QED
        BY <1>10, <3>3
    <2>10. j + 1 \in 1 .. Len(seqs[i]) /\ k + 1 = len[i - 1] + (j + 1)
      <3> DEFINE s == Len(seqs[i])
                 b == len[i - 1]
      <3>1. j \in 1 .. s /\ k = b + j /\ s \in Nat /\ b \in Nat /\ j # s
        BY <2>3, <2>4, <2>9
      <3> HIDE DEF s, b
      <3>2. j + 1 \in 1 .. s /\ k + 1 = b + (j + 1)
        BY ONLY <3>1
      <3> QED
        BY <3>2 DEF s, b
    <2>11. At(seqs, len, k + 1, i, j + 1)
      BY <1>3, <2>3, <2>10 DEF At
    <2>12. at[k] = ats[i][j] /\ at[k + 1] = ats[i][j + 1]
      BY <1>8, <2>2, <2>11
    <2>13. r[k + 1] = seqs[i][j + 1]
      BY <1>9, <2>3, <2>10
    <2>14. j + 1 <= Len(parts[i])
      <3> SUFFICES ASSUME ~(j + 1 <= Len(parts[i])) PROVE FALSE
        OBVIOUS
      <3>1. j + 1 = Len(parts[i]) + 1 /\ Len(seqs[i]) = Len(parts[i]) + 1
        <4> DEFINE s == Len(seqs[i])
                   w == Len(parts[i])
        <4>1. /\ j \in 1 .. s /\ j + 1 \in 1 .. s /\ ~(j + 1 <= w)
              /\ w \in Nat \ {0} /\ s \in w .. w + 1
          BY <2>3, <2>6, <2>10
        <4> HIDE DEF s, w
        <4>2. j + 1 = w + 1 /\ s = w + 1
          BY ONLY <4>1
        <4> QED
          BY <4>2 DEF s, w
      <3>2. i < m
        <4> SUFFICES ASSUME ~(i < m) PROVE FALSE
          OBVIOUS
        <4>1. seqs[i] = parts[i]
          BY <2>4
        <4> QED
          BY <2>6, <3>1, <4>1
      <3>3. seqs[i][j + 1] = Gap
        BY <2>4, <3>1, <3>2
      <3> QED
        BY <1>11, <2>13, <3>3 DEF Gap
    <2>15. at[k] \in first[i] .. end[i] /\ at[k + 1] \in first[i] .. end[i]
      <3>1. j \in 1 .. Len(parts[i]) /\ j + 1 \in 1 .. Len(parts[i])
        BY <2>3, <2>6, <2>8, <2>14
      <3> QED
        BY <2>5, <2>12, <3>1 DEF Within
    <2>16. v \in first[i] .. end[i]
      <3>1. first[i] \in Int /\ end[i] \in Int
        BY <1>1, <2>3
      <3> QED
        BY <2>15, <3>1
    <2> QED
      BY <1>1, <2>3, <2>16
  <1>12. Strokes(r, at, line)
    BY <1>11 DEF Strokes
  <1>13. ReachesValid(r, line)
    <2> DEFINE w == Len(parts[m])
               k == len[m - 1] + w
    <2>1. m \in 1 .. m /\ m - 1 \in 0 .. m /\ ~(m < m)
      BY <1>1
    <2>2. seqs[m] = parts[m] /\ Within(seqs[m], ats[m], line, first[m], end[m], parts[m])
      BY <1>5, <2>1
    <2>3. w \in Nat \ {0} /\ w \in 1 .. w
      BY <2>2 DEF Within
    <2>4. len[m - 1] \in Nat /\ len[m] = len[m - 1] + w /\ r[k] = parts[m][w]
      BY <1>9, <2>1, <2>2, <2>3
    <2>5. k \in 1 .. Len(r)
      BY <1>9, <2>3, <2>4
    <2> HIDE DEF k
    <2>6. /\ first[m] \in 1 .. n /\ end[m] \in first[m] .. n
          /\ segs[m] = SubSeq(line, first[m], end[m])
          /\ \A i \in first[m] .. end[m] : line[i][2] # NaN
      BY <1>1, <2>1
    <2>7. /\ IsLine(segs[m]) /\ Len(segs[m]) = end[m] - first[m] + 1
          /\ \A i \in 1 .. end[m] - first[m] + 1 : segs[m][i] = line[first[m] + i - 1]
      BY <2>6, PartIsLine DEF n
    <2>8. ~HasGap(segs[m])
      <3>1. \A i \in 1 .. end[m] - first[m] + 1 : first[m] + i - 1 \in first[m] .. end[m]
        BY <1>1, <2>6
      <3>2. DOMAIN segs[m] = 1 .. end[m] - first[m] + 1
        BY <2>7 DEF IsLine
      <3> QED
        BY <2>6, <2>7, <3>1, <3>2 DEF HasGap
    <2>9. Picks(parts[m], segs[m]) /\ Reaches(parts[m], segs[m])
      BY <2>1 DEF m
    <2>10. r[k][2] # NaN /\ r[k][1] \in Int
      <3>1. IsLine(parts[m]) /\ ~HasGap(parts[m])
        BY <2>7, <2>8, <2>9, PicksIsLine
      <3> QED
        BY <2>3, <2>4, <3>1 DEF IsLine, HasGap
    <2>11. line[end[m]][1] <= r[k][1]
      <3>1. segs[m][Len(segs[m])] = line[end[m]]
        <4> DEFINE e == end[m] - first[m] + 1
        <4>1. e \in 1 .. e /\ first[m] + e - 1 = end[m]
          BY <1>1, <2>6
        <4> QED
          BY <2>7, <4>1
      <3> QED
        BY <2>4, <2>9, <3>1 DEF Reaches
    <2>12. ASSUME NEW i \in 1 .. n, line[i][2] # NaN PROVE line[i][1] <= r[k][1]
      <3>1. PICK h \in 1 .. m : i \in first[h] .. end[h]
        BY <1>1, <2>12
      <3>2. h = m \/ h < m
        BY <1>1
      <3>3. first[h] \in Int /\ end[h] \in Int /\ end[m] \in 1 .. n /\ first[m] \in Int
        BY <1>1, <2>1, <2>6
      <3>4. i <= end[m]
        <4>1. h < m => end[h] < first[m]
          BY <1>1, <2>1
        <4> QED
          BY <1>1, <2>6, <3>1, <3>2, <3>3, <4>1
      <3>5. line[i][1] <= line[end[m]][1] /\ line[i][1] \in Int /\ line[end[m]][1] \in Int
        BY <3>3, <3>4 DEF IsLine, n
      <3> QED
        BY <2>10, <2>11, <3>5
    <2> QED
      BY <2>5, <2>10, <2>12 DEF ReachesValid, n
  <1>14. Draws(r, line)
    BY <1>8, <1>12, <1>13 DEF Draws
  <1> QED
    BY <1>14 DEF r, seqs, m

(* How many samples are not NaN. *)
LEMMA ValidCount ==
  ASSUME NEW line, IsLine(line)
  PROVE  /\ Valid(line) \in Nat
         /\ Valid(line) # 0 => \E i \in 1 .. Len(line) : line[i][2] # NaN
  <1> DEFINE S == {i \in DOMAIN line : line[i][2] # NaN}
  <1>1. DOMAIN line = 1 .. Len(line) /\ Len(line) \in Nat
    BY DEF IsLine
  <1>2. IsFiniteSet(1 .. Len(line))
    BY <1>1, FS_Interval
  <1>3. IsFiniteSet(S)
    <2>1. S \subseteq 1 .. Len(line)
      BY <1>1
    <2> QED
      BY <1>2, <2>1, FS_Subset
  <1>4. Cardinality(S) \in Nat /\ (Cardinality(S) # 0 => S # {})
    <2>1. Cardinality(S) \in Nat
      BY <1>3, FS_CardinalityType
    <2>2. Cardinality(S) # 0 => S # {}
      BY FS_EmptySet
    <2> QED
      BY <2>1, <2>2
  <1> QED
    BY <1>1, <1>4 DEF Valid

(* A segment is a line without gaps. *)
LEMMA SegmentIsLine ==
  ASSUME NEW line, IsLine(line), NEW segs, NEW first, NEW end, Runs(line, segs, first, end),
         NEW k \in 1 .. Len(segs)
  PROVE  IsLine(segs[k]) /\ ~HasGap(segs[k])
  <1> DEFINE p == first[k]
             q == end[k]
  <1>1. /\ p \in 1 .. Len(line) /\ q \in p .. Len(line)
        /\ segs[k] = SubSeq(line, p, q) /\ \A i \in p .. q : line[i][2] # NaN
    BY DEF Runs
  <1> HIDE DEF p, q
  <1>2. /\ IsLine(segs[k]) /\ Len(segs[k]) = q - p + 1
        /\ \A i \in 1 .. q - p + 1 : segs[k][i] = line[p + i - 1]
    BY <1>1, PartIsLine
  <1>3. \A i \in 1 .. q - p + 1 : p + i - 1 \in p .. q
    BY <1>1 DEF IsLine
  <1>4. DOMAIN segs[k] = 1 .. q - p + 1
    BY <1>2 DEF IsLine
  <1> QED
    BY <1>1, <1>2, <1>3, <1>4 DEF HasGap

(* A line with a sample that is not NaN, drawn segment by segment. *)
LEMMA BySegmentDraws ==
  ASSUME NEW line, IsLine(line), Valid(line) # 0, NEW parts,
         \A seg : IsLine(seg) /\ ~HasGap(seg) => Picks(parts[seg], seg) /\ Reaches(parts[seg], seg),
         NEW pts,
         pts = FlattenSeq([k \in DOMAIN Segments(line) |->
                  parts[Segments(line)[k]] \o (IF k < Len(Segments(line)) THEN <<Gap>> ELSE <<>>)])
  PROVE  Draws(pts, line)
  <1> DEFINE segs == Segments(line)
             some == [k \in 1 .. Len(segs) |-> parts[segs[k]]]
             seqs == [k \in 1 .. Len(segs) |-> WithGap(some[k], k < Len(segs))]
  <1> HIDE DEF segs
  <1>1. PICK first, end : Runs(line, segs, first, end)
    BY SegmentsAre DEF segs
  <1>2. DOMAIN segs = 1 .. Len(segs) /\ Len(segs) # 0
    <2>1. DOMAIN segs = 1 .. Len(segs) /\ Len(segs) \in Nat
      BY <1>1 DEF Runs
    <2>2. PICK i \in 1 .. Len(line) : line[i][2] # NaN
      BY ValidCount
    <2>3. \E k \in 1 .. Len(segs) : TRUE
      BY <1>1, <2>2 DEF Runs
    <2> QED
      BY <2>1, <2>3
  <1>3. \A k \in 1 .. Len(segs) : Picks(some[k], segs[k]) /\ Reaches(some[k], segs[k])
    <2>1. \A k \in 1 .. Len(segs) : some[k] = parts[segs[k]]
      OBVIOUS
    <2> HIDE DEF some
    <2> SUFFICES ASSUME NEW k \in 1 .. Len(segs)
                 PROVE  Picks(some[k], segs[k]) /\ Reaches(some[k], segs[k])
      OBVIOUS
    <2>2. IsLine(segs[k]) /\ ~HasGap(segs[k])
      BY <1>1, SegmentIsLine
    <2> QED
      BY <2>1, <2>2
  <1>4. seqs = [k \in DOMAIN segs |-> parts[segs[k]] \o (IF k < Len(segs) THEN <<Gap>> ELSE <<>>)]
    BY <1>2 DEF WithGap
  <1>5. Draws(FlattenSeq(seqs), line)
    <2> HIDE DEF some
    <2> QED
      BY <1>1, <1>2, <1>3, SegmentsDrawn
  <1> HIDE DEF seqs
  <1>6. pts = FlattenSeq(seqs)
    BY <1>4 DEF segs
  <1> QED
    BY <1>5, <1>6

LEMMA SegmentsType ==
  ASSUME NEW line, IsLine(line)
  PROVE  \A k \in DOMAIN Segments(line) : Segments(line)[k] \in Seq(Sample)
  <1> DEFINE segs == Segments(line)
  <1>1. PICK first, end : Runs(line, segs, first, end)
    BY SegmentsAre
  <1> HIDE DEF segs
  <1>2. \A k \in 1 .. Len(segs) : IsLine(segs[k])
    BY <1>1, SegmentIsLine
  <1>3. DOMAIN segs = 1 .. Len(segs)
    BY <1>1 DEF Runs
  <1> QED
    BY <1>2, <1>3 DEF IsLine, segs

(* minmax_downsample draws the line, if the caller tells of its gaps. *)
LEMMA MinMaxDraws ==
  ASSUME NEW line, IsLine(line), NEW nb \in Nat \ {0}, NEW hasNaN, hasNaN \/ ~HasGap(line)
  PROVE  Draws(MinMaxDownsample(line, nb, hasNaN), line)
  <1> DEFINE Fit(seg, share) == IF Len(seg) <= 2 * share THEN seg ELSE MinMaxCore(seg, share)
             Part(seg) == Fit(seg, Max({1, RoundDiv(nb * Len(seg), Valid(line))}))
             parts == [seg \in Seq(Sample) |-> Part(seg)]
             segs == Segments(line)
             pts == FlattenSeq([k \in DOMAIN segs |->
                       Part(segs[k]) \o (IF k < Len(segs) THEN <<Gap>> ELSE <<>>)])
  <1>1. MinMaxDownsample(line, nb, hasNaN) =
          IF ~hasNaN THEN Fit(line, nb) ELSE IF Valid(line) <= 2 * nb THEN line ELSE pts
    BY DEF MinMaxDownsample, BySegment
  <1>2. ASSUME NEW seg, IsLine(seg), ~HasGap(seg), NEW share \in Nat \ {0}
        PROVE  Picks(Fit(seg, share), seg) /\ Reaches(Fit(seg, share), seg)
    <2>1. CASE Len(seg) <= 2 * share
      BY <1>2, <2>1, WholePicks
    <2>2. CASE ~(Len(seg) <= 2 * share)
      <3>1. share <= Len(seg)
        BY <1>2, <2>2 DEF IsLine
      <3> QED
        BY <1>2, <2>2, <3>1, MinMaxCorePicks
    <2> QED
      BY <2>1, <2>2
  <1> HIDE DEF Fit
  <1>3. CASE ~hasNaN
    BY <1>1, <1>2, <1>3, PicksDraws
  <1>4. CASE hasNaN /\ Valid(line) <= 2 * nb
    BY <1>1, <1>4, WholeDraws
  <1>5. CASE hasNaN /\ ~(Valid(line) <= 2 * nb)
    <2>1. Valid(line) \in Nat \ {0}
      <3>1. Valid(line) \in Nat
        BY ValidCount
      <3> QED
        BY <1>5, <3>1
    <2>2. \A seg : IsLine(seg) /\ ~HasGap(seg) => Picks(parts[seg], seg) /\ Reaches(parts[seg], seg)
      <3> SUFFICES ASSUME NEW seg, IsLine(seg), ~HasGap(seg)
                   PROVE  Picks(parts[seg], seg) /\ Reaches(parts[seg], seg)
        OBVIOUS
      <3> DEFINE share == Max({1, RoundDiv(nb * Len(seg), Valid(line))})
      <3>1. share \in Nat \ {0}
        <4>1. nb * Len(seg) \in Nat
          BY DEF IsLine
        <4> QED
          BY <2>1, <4>1, RoundDivType
      <3>2. parts[seg] = Fit(seg, share)
        BY DEF IsLine
      <3> HIDE DEF share, parts
      <3> QED
        BY <1>2, <3>1, <3>2
    <2>3. pts = FlattenSeq([k \in DOMAIN segs |->
                   parts[segs[k]] \o (IF k < Len(segs) THEN <<Gap>> ELSE <<>>)])
      <3>1. \A k \in DOMAIN segs : parts[segs[k]] = Part(segs[k])
        <4>1. \A k \in DOMAIN segs : segs[k] \in Seq(Sample)
          BY SegmentsType
        <4> HIDE DEF Part, segs
        <4> QED
          BY <4>1
      <3> HIDE DEF parts, Part, segs
      <3>2. [k \in DOMAIN segs |-> parts[segs[k]] \o (IF k < Len(segs) THEN <<Gap>> ELSE <<>>)]
              = [k \in DOMAIN segs |-> Part(segs[k]) \o (IF k < Len(segs) THEN <<Gap>> ELSE <<>>)]
        BY <3>1
      <3> QED
        BY <3>2
    <2>4. Draws(pts, line)
      <3> HIDE DEF parts, pts
      <3>1. Valid(line) # 0
        BY <2>1
      <3> QED
        BY <2>2, <2>3, <3>1, BySegmentDraws DEF segs
    <2> QED
      BY <1>1, <1>5, <2>4
  <1> QED
    BY <1>3, <1>4, <1>5

(* lttb_downsample draws the line. *)
LEMMA LttbDraws ==
  ASSUME NEW line, IsLine(line), NEW numOut \in Nat
  PROVE  Draws(LttbDownsample(line, numOut), line)
  <1> DEFINE Quota(seg) == Max({2, RoundDiv(numOut * Len(seg), Valid(line))})
             Part(seg) == IF Len(seg) <= Quota(seg) THEN seg ELSE LttbCore(seg, Quota(seg))
             parts == [seg \in Seq(Sample) |-> Part(seg)]
             segs == Segments(line)
             pts == FlattenSeq([k \in DOMAIN segs |->
                       Part(segs[k]) \o (IF k < Len(segs) THEN <<Gap>> ELSE <<>>)])
  <1>1. LttbDownsample(line, numOut) =
          IF Valid(line) = 0 \/ Len(line) <= numOut THEN line ELSE pts
    BY DEF LttbDownsample, BySegment
  <1>2. CASE Valid(line) = 0 \/ Len(line) <= numOut
    BY <1>1, <1>2, WholeDraws
  <1>3. CASE ~(Valid(line) = 0 \/ Len(line) <= numOut)
    <2>1. Valid(line) \in Nat \ {0}
      BY <1>3, ValidCount
    <2>2. \A seg : IsLine(seg) /\ ~HasGap(seg) => Picks(parts[seg], seg) /\ Reaches(parts[seg], seg)
      <3> SUFFICES ASSUME NEW seg, IsLine(seg), ~HasGap(seg)
                   PROVE  Picks(parts[seg], seg) /\ Reaches(parts[seg], seg)
        OBVIOUS
      <3> DEFINE share == Quota(seg)
                 rounded == RoundDiv(numOut * Len(seg), Valid(line))
      <3>1. share \in Nat /\ 2 <= share
        <4>1. numOut * Len(seg) \in Nat
          BY DEF IsLine
        <4>2. rounded \in Nat
          BY <2>1, <4>1, RoundDivType
        <4> HIDE DEF rounded
        <4>3. Max({2, rounded}) = IF 2 >= rounded THEN 2 ELSE rounded
          BY <4>2, Max2
        <4>4. Max({2, rounded}) \in Nat /\ 2 <= Max({2, rounded})
          BY <4>2, <4>3
        <4> QED
          BY <4>4 DEF rounded
      <3>2. parts[seg] = IF Len(seg) <= share THEN seg ELSE LttbCore(seg, share)
        BY DEF IsLine
      <3> HIDE DEF share, parts
      <3>3. CASE Len(seg) <= share
        BY <3>2, <3>3, WholePicks
      <3>4. CASE ~(Len(seg) <= share)
        <4>1. share < Len(seg)
          BY <3>1, <3>4 DEF IsLine
        <4> QED
          BY <3>1, <3>2, <3>4, <4>1, LttbCorePicks
      <3> QED
        BY <3>3, <3>4
    <2>3. pts = FlattenSeq([k \in DOMAIN segs |->
                   parts[segs[k]] \o (IF k < Len(segs) THEN <<Gap>> ELSE <<>>)])
      <3>1. \A k \in DOMAIN segs : parts[segs[k]] = Part(segs[k])
        <4>1. \A k \in DOMAIN segs : segs[k] \in Seq(Sample)
          BY SegmentsType
        <4> HIDE DEF Part, segs
        <4> QED
          BY <4>1
      <3> HIDE DEF parts, Part, segs
      <3>2. [k \in DOMAIN segs |-> parts[segs[k]] \o (IF k < Len(segs) THEN <<Gap>> ELSE <<>>)]
              = [k \in DOMAIN segs |-> Part(segs[k]) \o (IF k < Len(segs) THEN <<Gap>> ELSE <<>>)]
        BY <3>1
      <3> QED
        BY <3>2
    <2>4. Draws(pts, line)
      <3> HIDE DEF parts, pts
      <3>1. Valid(line) # 0
        BY <2>1
      <3> QED
        BY <2>2, <2>3, <3>1, BySegmentDraws DEF segs
    <2> QED
      BY <1>1, <1>3, <2>4
  <1> QED
    BY <1>2, <1>3

LEMMA DownsampleDraws ==
  ASSUME NEW line, IsLine(line), NEW gaps, gaps \/ ~HasGap(line), NEW meth, NEW width \in Nat \ {0}
  PROVE  Draws(Downsample(line, gaps, meth, width), line)
  <1>1. Draws(LttbDownsample(line, width), line)
    BY LttbDraws
  <1>2. Draws(MinMaxDownsample(line, width, gaps), line)
    BY MinMaxDraws
  <1> QED
    BY <1>1, <1>2 DEF Downsample

-----------------------------------------------------------------------------
(* Pyramids and windows. *)

(* A pyramid level over a line without gaps is picked from it. *)
LEMMA ReducedPicks ==
  ASSUME NEW line, IsLine(line), ~HasGap(line)
  PROVE  Picks(Reduced(line), line)
  <1> DEFINE nb == Max({1, RoundDiv(Len(line), PyramidReduction)})
  <1>1. nb \in Nat \ {0}
    <2>1. Len(line) \in Nat /\ PyramidReduction \in Nat \ {0}
      BY DataStoreAssumption DEF IsLine
    <2> QED
      BY <2>1, RoundDivType
  <1>2. Reduced(line) = IF Len(line) <= 2 * nb THEN line ELSE MinMaxCore(line, nb)
    BY DEF Reduced, MinMaxDownsample
  <1> HIDE DEF nb
  <1>3. CASE Len(line) <= 2 * nb
    BY <1>2, <1>3, WholePicks
  <1>4. CASE ~(Len(line) <= 2 * nb)
    <2>1. nb <= Len(line)
      BY <1>1, <1>4 DEF IsLine
    <2> QED
      BY <1>1, <1>2, <1>4, <2>1, MinMaxCorePicks
  <1> QED
    BY <1>3, <1>4

LEMMA PyramidPicks ==
  ASSUME NEW line, IsLine(line), ~HasGap(line), NEW levels, IsPyramid(line, levels)
  PROVE  \A k \in 1 .. Len(levels) : Picks(levels[k], line)
  <1> DEFINE U == {k \in 0 .. Len(levels) : k = 0 \/ Picks(levels[k], line)}
  <1>1. Len(levels) \in Nat /\ \A k \in 1 .. Len(levels) : levels[k] = Rung(line, levels, k)
    BY DEF IsPyramid
  <1>2. 0 \in U
    BY <1>1
  <1>3. ASSUME NEW k \in 1 .. Len(levels), k - 1 \in U PROVE k \in U
    <2>1. k \in 0 .. Len(levels)
      BY <1>1
    <2>2. CASE k > 1
      <3>1. Picks(levels[k - 1], line)
        BY <1>3, <2>2
      <3>2. IsLine(levels[k - 1]) /\ ~HasGap(levels[k - 1])
        BY <3>1, PicksIsLine
      <3>3. Picks(Reduced(levels[k - 1]), levels[k - 1])
        BY <3>2, ReducedPicks
      <3>4. Picks(Reduced(levels[k - 1]), line)
        BY <3>1, <3>3, PicksAgain
      <3>5. levels[k] = Reduced(levels[k - 1])
        BY <1>1, <2>2 DEF Rung
      <3> QED
        BY <2>1, <3>4, <3>5
    <2>3. CASE ~(k > 1)
      <3>1. levels[k] = IF OnDisk(line) THEN StorePyramid(line) ELSE Reduced(line)
        BY <1>1, <2>3 DEF Rung
      <3>2. Picks(StorePyramid(line), line) /\ Picks(Reduced(line), line)
        BY StorePyramidPicks, ReducedPicks
      <3> QED
        BY <2>1, <3>1, <3>2
    <2> QED
      BY <2>2, <2>3
  <1>4. 0 .. Len(levels) \subseteq U
    <2> HIDE DEF U
    <2> QED
      BY <1>1, <1>2, <1>3, UpToInduction
  <1> SUFFICES ASSUME NEW k \in 1 .. Len(levels) PROVE Picks(levels[k], line)
    OBVIOUS
  <1>5. k \in 0 .. Len(levels) /\ k # 0
    BY <1>1
  <1> QED
    BY <1>4, <1>5

(* A window of a line is a part of it. *)
PartOf(part, line) ==
  \E p \in 1 .. Len(line) : \E q \in p .. Len(line) : part = SubSeq(line, p, q)

LEMMA WindowIsPart ==
  ASSUME NEW line, IsLine(line), NEW lim \in View
  PROVE  PartOf(Window(line, lim), line)
  <1> DEFINE n == Len(line)
             a == SearchLeft(Xs(line), lim[1])
             b == SearchRight(Xs(line), lim[2])
             from == Max({1, a - 1})
             to == Min({n, b + 1})
  <1>1. lim[1] \in Int /\ lim[2] \in Int /\ lim[1] <= lim[2]
    BY DEF View
  <1>2. Leftmost(line, lim[1], a) /\ Rightmost(line, lim[2], b)
    <2>1. Leftmost(line, lim[1], a)
      BY <1>1, SearchedLeft, Zenon
    <2>2. Rightmost(line, lim[2], b)
      BY <1>1, SearchedRight, Zenon
    <2> QED
      BY <2>1, <2>2
  <1> HIDE DEF a, b
  <1>3. /\ a \in 1 .. n /\ b \in 1 .. n /\ n \in Nat
        /\ \A j \in 1 .. a - 1 : line[j][1] < lim[1]
        /\ \A j \in b + 1 .. n : line[j][1] > lim[2]
    BY <1>2 DEF Leftmost, Rightmost, IsLine
  <1>4. Window(line, lim) = SubSeq(line, from, to)
    BY DEF Window, a, b
  <1>5. /\ from = (IF 1 >= a - 1 THEN 1 ELSE a - 1)
        /\ to = (IF n <= b + 1 THEN n ELSE b + 1)
    <2>1. 1 \in Int /\ a - 1 \in Int /\ n \in Int /\ b + 1 \in Int
      BY <1>3
    <2> HIDE DEF n
    <2> QED
      BY <2>1, Max2, Min2
  <1> HIDE DEF from, to
  <1>6. from \in 1 .. n /\ to \in 1 .. n
    BY <1>3, <1>5
  <1>7. from <= to
    <2> SUFFICES ASSUME ~(from <= to) PROVE FALSE
      OBVIOUS
    <2>1. b + 1 \in 1 .. a - 1 /\ b + 1 \in b + 1 .. n
      <3> HIDE DEF n
      <3> QED
        BY <1>3, <1>5
    <2>2. line[b + 1][1] < lim[1] /\ line[b + 1][1] > lim[2] /\ line[b + 1][1] \in Int
      <3>1. b + 1 \in 1 .. n
        BY <1>3, <2>1
      <3> QED
        BY <1>3, <2>1, <3>1 DEF IsLine
    <2> QED
      BY <1>1, <2>2
  <1>8. to \in from .. n
    BY <1>6, <1>7
  <1> QED
    BY <1>4, <1>6, <1>8 DEF PartOf

LEMMA VisibleIsPart ==
  ASSUME NEW line, IsLine(line), NEW lim \in View
  PROVE  Visible(line, lim) = <<>> \/ PartOf(Visible(line, lim), line)
  <1>1. PartOf(Window(line, lim), line)
    BY WindowIsPart
  <1>2. lim \in Int \X Int /\ lim[1] <= lim[2]
    BY DEF View
  <1>3. PICK first, end : Cuts(Store(line), line, first, end)
    BY StoreCuts
  <1>4. GetRange(Store(line), lim) = <<>> \/ GetRange(Store(line), lim) = Window(line, lim)
    BY <1>2, <1>3, RangeAnswers
  <1> QED
    BY <1>1, <1>4 DEF Visible

LEMMA PartSamples ==
  ASSUME NEW line, IsLine(line), NEW part, PartOf(part, line)
  PROVE  /\ IsLine(part) /\ (~HasGap(line) => ~HasGap(part))
         /\ \A i \in 1 .. Len(part) : part[i] \in ToSet(line)
  <1>1. PICK p \in 1 .. Len(line) : \E q \in p .. Len(line) : part = SubSeq(line, p, q)
    BY DEF PartOf
  <1>2. PICK q \in p .. Len(line) : part = SubSeq(line, p, q)
    BY <1>1
  <1>3. /\ IsLine(part) /\ Len(part) = q - p + 1
        /\ \A i \in 1 .. q - p + 1 : part[i] = line[p + i - 1]
    BY <1>2, PartIsLine
  <1>4. \A i \in 1 .. q - p + 1 : p + i - 1 \in 1 .. Len(line)
    BY DEF IsLine
  <1>5. DOMAIN part = 1 .. Len(part) /\ DOMAIN line = 1 .. Len(line)
    BY <1>3 DEF IsLine
  <1> QED
    BY <1>3, <1>4, <1>5 DEF HasGap, ToSet

-----------------------------------------------------------------------------
(* What is on screen is honest. *)

(* The points that are not gaps are samples of line in the order of x, and *)
(* no stroke from one to the next runs across a sample that is NaN.        *)
Real(pts) == {k \in DOMAIN pts : pts[k][2] # NaN}
Honest(pts, line) ==
  /\ \A k \in Real(pts) : pts[k] \in ToSet(line)
  /\ \A k \in Real(pts) : k + 1 \in Real(pts) => pts[k][1] <= pts[k + 1][1]
Unbroken(pts, line) ==
  \A k \in Real(pts) : k + 1 \in Real(pts) =>
    ~\E p \in ToSet(line) : p[2] = NaN /\ pts[k][1] < p[1] /\ p[1] < pts[k + 1][1]

LEMMA GaplessUnbroken ==
  ASSUME NEW line, ~HasGap(line), NEW pts PROVE Unbroken(pts, line)
  BY DEF Unbroken, HasGap, ToSet

(* Two consecutive points that are samples of src. *)
LEMMA ConsecutivePoints ==
  ASSUME NEW src, IsLine(src), NEW pts, NEW at, Traces(pts, at, src),
         NEW k \in Real(pts), k + 1 \in Real(pts)
  PROVE  /\ k \in 1 .. Len(pts) - 1
         /\ at[k] \in 1 .. Len(src) /\ at[k + 1] \in at[k] .. Len(src)
         /\ pts[k] = src[at[k]] /\ pts[k + 1] = src[at[k + 1]]
  <1>1. Len(pts) \in Nat /\ DOMAIN pts = 1 .. Len(pts) /\ at \in [1 .. Len(pts) -> 0 .. Len(src)]
        /\ Len(src) \in Nat
    BY DEF Traces, IsLine
  <1>2. k \in 1 .. Len(pts) /\ k + 1 \in 1 .. Len(pts)
    BY <1>1 DEF Real
  <1>3. at[k] # 0 /\ at[k + 1] # 0 /\ pts[k] = src[at[k]] /\ pts[k + 1] = src[at[k + 1]]
    <2>1. pts[k][2] # NaN /\ pts[k + 1][2] # NaN
      BY DEF Real
    <2>2. Gap[2] = NaN
      BY DEF Gap
    <2> QED
      BY <1>2, <2>1, <2>2 DEF Traces
  <1>4. at[k] <= at[k + 1]
    <2>1. k <= k + 1
      BY <1>2
    <2> QED
      BY <1>2, <1>3, <2>1 DEF Traces
  <1>5. at[k] \in 0 .. Len(src) /\ at[k + 1] \in 0 .. Len(src)
    BY <1>1, <1>2
  <1> QED
    BY <1>1, <1>2, <1>3, <1>4, <1>5

(* What draws samples of a line is honest. *)
LEMMA DrawsHonest ==
  ASSUME NEW line, NEW src, IsLine(src), \A i \in 1 .. Len(src) : src[i] \in ToSet(line),
         NEW pts, Draws(pts, src)
  PROVE  Honest(pts, line)
  <1>1. PICK at : Traces(pts, at, src)
    BY DEF Draws
  <1>2. ASSUME NEW k \in Real(pts) PROVE pts[k] \in ToSet(line)
    <2>1. k \in 1 .. Len(pts) /\ pts[k][2] # NaN
      BY <1>1 DEF Real, Traces
    <2>2. at[k] \in 0 .. Len(src) /\ pts[k] = IF at[k] = 0 THEN Gap ELSE src[at[k]]
      BY <1>1, <2>1 DEF Traces
    <2>3. at[k] # 0
      BY <2>1, <2>2 DEF Gap
    <2>4. at[k] \in 1 .. Len(src)
      BY <2>2, <2>3 DEF IsLine
    <2> QED
      BY <2>2, <2>3, <2>4
  <1>3. ASSUME NEW k \in Real(pts), k + 1 \in Real(pts) PROVE pts[k][1] <= pts[k + 1][1]
    <2>1. /\ at[k] \in 1 .. Len(src) /\ at[k + 1] \in at[k] .. Len(src)
          /\ pts[k] = src[at[k]] /\ pts[k + 1] = src[at[k + 1]]
      BY <1>1, <1>3, ConsecutivePoints
    <2>2. at[k + 1] \in 1 .. Len(src) /\ at[k] <= at[k + 1]
      BY <2>1 DEF IsLine
    <2> QED
      BY <2>1, <2>2 DEF IsLine
  <1> QED
    BY <1>2, <1>3 DEF Honest

(* What draws a part of a line is unbroken. *)
LEMMA DrawsUnbroken ==
  ASSUME NEW line, IsLine(line), NEW src, PartOf(src, line), NEW pts, Draws(pts, src)
  PROVE  Unbroken(pts, line)
  <1>1. PICK p \in 1 .. Len(line) : \E q \in p .. Len(line) : src = SubSeq(line, p, q)
    BY DEF PartOf
  <1>2. PICK q \in p .. Len(line) : src = SubSeq(line, p, q)
    BY <1>1
  <1>3. /\ IsLine(src) /\ Len(src) = q - p + 1
        /\ \A i \in 1 .. q - p + 1 : src[i] = line[p + i - 1]
    BY <1>2, PartIsLine
  <1>4. PICK at : Traces(pts, at, src) /\ Strokes(pts, at, src)
    BY DEF Draws
  <1>5. Len(line) \in Nat /\ DOMAIN line = 1 .. Len(line) /\ p \in Nat /\ q \in Nat
    BY DEF IsLine
  <1> SUFFICES ASSUME NEW k \in Real(pts), k + 1 \in Real(pts),
                      NEW s \in ToSet(line), s[2] = NaN, pts[k][1] < s[1], s[1] < pts[k + 1][1]
               PROVE  FALSE
    BY DEF Unbroken
  <1>6. /\ k \in 1 .. Len(pts) - 1
        /\ at[k] \in 1 .. q - p + 1 /\ at[k + 1] \in at[k] .. q - p + 1
        /\ pts[k] = src[at[k]] /\ pts[k + 1] = src[at[k + 1]]
    BY <1>3, <1>4, ConsecutivePoints
  <1>7. PICK j \in 1 .. Len(line) : s = line[j]
    BY <1>5 DEF ToSet
  <1> DEFINE a == at[k]
             b == at[k + 1]
             u == p + a - 1
             v == p + b - 1
  <1>8. a \in 1 .. q - p + 1 /\ b \in 1 .. q - p + 1
    BY <1>5, <1>6
  <1>9. pts[k] = line[u] /\ pts[k + 1] = line[v]
    BY <1>3, <1>6, <1>8
  <1> HIDE DEF a, b
  <1>10. u \in 1 .. Len(line) /\ v \in 1 .. Len(line)
    BY <1>5, <1>8
  <1>11. u < j /\ j < v
    <2>1. line[u][1] \in Int /\ line[v][1] \in Int /\ line[j][1] \in Int
      BY <1>10 DEF IsLine
    <2>2. ~(j <= u)
      <3>1. j <= u => line[j][1] <= line[u][1]
        BY <1>10 DEF IsLine
      <3> QED
        BY <1>7, <1>9, <2>1, <3>1
    <2>3. ~(v <= j)
      <3>1. v <= j => line[v][1] <= line[j][1]
        BY <1>10 DEF IsLine
      <3> QED
        BY <1>7, <1>9, <2>1, <3>1
    <2> QED
      BY <1>10, <2>2, <2>3
  <1> DEFINE i == j - p + 1
  <1>12. i \in a .. b /\ i \in 1 .. q - p + 1 /\ p + i - 1 = j
    <2>1. a \in Int /\ b \in Int /\ j \in Int /\ p \in Int /\ q \in Int
      BY <1>5, <1>8
    <2>2. 1 <= a /\ b <= q - p + 1
      BY <1>8
    <2>3. p + a - 1 < j /\ j < p + b - 1
      BY <1>11
    <2> QED
      BY ONLY <2>1, <2>2, <2>3
  <1>13. src[i] = line[j]
    BY <1>3, <1>12
  <1>14. src[i][2] # NaN
    <2>1. pts[k][2] # NaN /\ pts[k + 1][2] # NaN
      BY DEF Real
    <2> HIDE DEF i
    <2> QED
      BY <1>4, <1>6, <1>12, <2>1 DEF Strokes, a, b
  <1> QED
    BY <1>7, <1>13, <1>14

(* What is picked from a line is honest. *)
LEMMA PicksHonest ==
  ASSUME NEW line, IsLine(line), NEW pts, Picks(pts, line)
  PROVE  Honest(pts, line)
  <1>1. IsLine(pts) /\ \A k \in 1 .. Len(pts) : \E i \in 1 .. Len(line) : pts[k] = line[i]
    BY PicksIsLine
  <1>2. DOMAIN pts = 1 .. Len(pts) /\ DOMAIN line = 1 .. Len(line) /\ Len(pts) \in Nat
    BY <1>1 DEF IsLine
  <1>3. \A k \in 1 .. Len(pts) : pts[k] \in ToSet(line)
    BY <1>1, <1>2 DEF ToSet
  <1>4. ASSUME NEW k \in 1 .. Len(pts), k + 1 \in 1 .. Len(pts) PROVE pts[k][1] <= pts[k + 1][1]
    <2>1. k <= k + 1
      OBVIOUS
    <2> QED
      BY <1>1, <1>4, <2>1 DEF IsLine
  <1> QED
    BY <1>2, <1>3, <1>4 DEF Honest, Real

(* The samples of a level are samples of the line. *)
LEMMA PicksSamples ==
  ASSUME NEW line, IsLine(line), NEW pts, Picks(pts, line)
  PROVE  IsLine(pts) /\ \A k \in 1 .. Len(pts) : pts[k] \in ToSet(line)
  <1>1. IsLine(pts) /\ \A k \in 1 .. Len(pts) : \E i \in 1 .. Len(line) : pts[k] = line[i]
    BY PicksIsLine
  <1>2. DOMAIN line = 1 .. Len(line)
    BY DEF IsLine
  <1> QED
    BY <1>1, <1>2 DEF ToSet

(* pts goes as far as the samples of vis that are not NaN. *)
EndsWithLast(pts, vis) ==
  LET valid == {p \in ToSet(vis) : p[2] # NaN}
  IN  valid # {} => \E k \in Real(pts) : \A p \in valid : p[1] <= pts[k][1]

LEMMA DrawsEnd ==
  ASSUME NEW src, IsLine(src), NEW pts, Draws(pts, src),
         NEW vis, \A p \in ToSet(vis) : p \in ToSet(src)
  PROVE  EndsWithLast(pts, vis)
  <1>1. DOMAIN src = 1 .. Len(src)
    BY DEF IsLine
  <1>2. DOMAIN pts = 1 .. Len(pts)
    BY DEF Draws, Traces
  <1> SUFFICES ASSUME NEW s \in ToSet(vis), s[2] # NaN
               PROVE  \E k \in Real(pts) : \A p \in ToSet(vis) : p[2] # NaN => p[1] <= pts[k][1]
    BY DEF EndsWithLast
  <1>3. PICK i \in 1 .. Len(src) : s = src[i]
    BY <1>1 DEF ToSet
  <1>4. PICK k \in 1 .. Len(pts) :
          /\ pts[k][2] # NaN
          /\ \A j \in 1 .. Len(src) : src[j][2] # NaN => src[j][1] <= pts[k][1]
    BY <1>3 DEF Draws, ReachesValid
  <1>5. ASSUME NEW p \in ToSet(vis), p[2] # NaN PROVE p[1] <= pts[k][1]
    <2>1. PICK j \in 1 .. Len(src) : p = src[j]
      BY <1>1 DEF ToSet
    <2> QED
      BY <1>4, <1>5, <2>1
  <1>6. k \in Real(pts)
    BY <1>2, <1>4 DEF Real
  <1> QED
    BY <1>5, <1>6

LEMMA WholeIsPart ==
  ASSUME NEW line, IsLine(line) PROVE PartOf(line, line)
  <1>1. line \in Seq(Sample) /\ Len(line) \in Nat \ {0}
    BY DEF IsLine
  <1>2. SubSeq(line, 1, Len(line)) = line
    BY <1>1
  <1>3. 1 \in 1 .. Len(line) /\ Len(line) \in 1 .. Len(line)
    BY <1>1
  <1> QED
    BY <1>2, <1>3 DEF PartOf

LEMMA EmptyHonest ==
  ASSUME NEW line
  PROVE  Honest(<<>>, line) /\ Unbroken(<<>>, line) /\ EndsWithLast(<<>>, <<>>)
  <1>1. Real(<<>>) = {} /\ ToSet(<<>>) = {}
    BY DEF Real, ToSet
  <1> QED
    BY <1>1 DEF Honest, Unbroken, EndsWithLast

(* A part of the line shown as it is or reduced. *)
LEMMA PartDrawn ==
  ASSUME NEW line, IsLine(line), NEW part, PartOf(part, line), NEW gaps, gaps \/ ~HasGap(part),
         NEW meth, NEW width \in Nat \ {0},
         NEW pts, pts = part \/ pts = Downsample(part, gaps, meth, width)
  PROVE  Honest(pts, line) /\ Unbroken(pts, line) /\ EndsWithLast(pts, part)
  <1>1. IsLine(part) /\ \A i \in 1 .. Len(part) : part[i] \in ToSet(line)
    BY PartSamples
  <1>2. Draws(pts, part)
    BY <1>1, WholeDraws, DownsampleDraws
  <1> QED
    BY <1>1, <1>2, DrawsHonest, DrawsUnbroken, DrawsEnd

(* What updateLines shows. *)
LEMMA LinesHonest ==
  ASSUME NEW line, IsLine(line), NEW meth, NEW lim \in View, NEW width \in Nat \ {0},
         NEW p, IsPyramid(line, p),
         NEW new, new = Lines(line, meth, lim, width, p), new.level = 0 \/ ~HasGap(line)
  PROVE  /\ Honest(new.points, line) /\ Unbroken(new.points, line)
         /\ new.level = 0 => EndsWithLast(new.points, Visible(line, lim))
  <1> DEFINE vis == Visible(line, lim)
             level == LevelFor(line, lim, width)
             built == IF level = 0 THEN p ELSE BuildPyramid(line, p, level)
             Fit(source) == IF Len(source) <= MinPoints THEN source
                            ELSE Downsample(source, HasGap(line), meth, width)
  <1>1. vis = <<>> \/ PartOf(vis, line)
    BY VisibleIsPart
  <1>2. CASE IsStatic(line)
    <2>1. new.points = line
      BY <1>2 DEF Lines
    <2>2. PartOf(line, line) /\ Draws(line, line)
      BY WholeIsPart, WholeDraws
    <2>3. \A i \in 1 .. Len(line) : line[i] \in ToSet(line)
      BY <2>2, PartSamples
    <2>4. Honest(line, line) /\ Unbroken(line, line)
      BY <2>2, <2>3, DrawsHonest, DrawsUnbroken
    <2>5. \A s \in ToSet(vis) : s \in ToSet(line)
      <3>1. CASE vis = <<>>
        <4>1. ToSet(<<>>) = {}
          BY DEF ToSet
        <4> HIDE DEF vis
        <4> QED
          BY <3>1, <4>1
      <3>2. CASE PartOf(vis, line)
        <4> HIDE DEF vis
        <4>1. IsLine(vis) /\ \A i \in 1 .. Len(vis) : vis[i] \in ToSet(line)
          BY <3>2, PartSamples
        <4>2. DOMAIN vis = 1 .. Len(vis)
          BY <4>1 DEF IsLine
        <4>3. ToSet(vis) = {vis[i] : i \in DOMAIN vis}
          BY DEF ToSet
        <4> QED
          BY <4>1, <4>2, <4>3
      <3> QED
        BY <1>1, <3>1, <3>2
    <2>6. EndsWithLast(line, vis)
      <3> HIDE DEF vis
      <3> QED
        BY <2>2, <2>5, DrawsEnd
    <2> QED
      BY <2>1, <2>4, <2>6
  <1>3. CASE ~IsStatic(line)
    <2>1. new = [points |-> Fit(IF level = 0 THEN vis ELSE Window(built[level], lim)),
                 level |-> level, pyramid |-> built]
      BY <1>3 DEF Lines, LevelFor
    <2>2. new.level = level /\ new.points = Fit(IF level = 0 THEN vis ELSE Window(built[level], lim))
      <3> HIDE DEF level, built, vis, Fit
      <3> QED
        BY <2>1
    <2>3. level \in Nat
      BY LevelForType
    <2> HIDE DEF vis, level
    <2>4. \A source : Fit(source) = source \/ Fit(source) = Downsample(source, HasGap(line), meth, width)
      OBVIOUS
    <2>5. CASE level = 0
      <3>1. CASE vis = <<>>
        <4>1. Len(<<>>) = 0 /\ MinPoints \in Nat
          BY PlotAssumption
        <4>2. new.points = <<>>
          BY <2>2, <2>5, <3>1, <4>1
        <4> QED
          BY <3>1, <4>2, EmptyHonest DEF vis
      <3>2. CASE PartOf(vis, line)
        <4>1. HasGap(line) \/ ~HasGap(vis)
          BY <3>2, PartSamples
        <4>2. new.points = vis \/ new.points = Downsample(vis, HasGap(line), meth, width)
          BY <2>2, <2>4, <2>5
        <4> HIDE DEF Fit, built
        <4>3. Honest(new.points, line) /\ Unbroken(new.points, line) /\ EndsWithLast(new.points, vis)
          BY <3>2, <4>1, <4>2, PartDrawn
        <4> QED
          BY <4>3 DEF vis
      <3> QED
        BY <1>1, <3>1, <3>2
    <2>6. CASE level # 0
      <3> DEFINE source == built[level]
                 part == Window(source, lim)
      <3>1. ~HasGap(line)
        BY <2>2, <2>6
      <3>2. IsPyramid(line, built) /\ level \in 1 .. Len(built)
        <4>1. built = BuildPyramid(line, p, level)
          BY <2>6
        <4> HIDE DEF built
        <4>2. IsPyramid(line, built) /\ level <= Len(built)
          BY <2>3, <4>1, BuildIsPyramid
        <4> QED
          BY <2>3, <2>6, <4>2 DEF IsPyramid
      <3>3. new.points = Fit(part)
        BY <2>2, <2>6
      <3> HIDE DEF built
      <3>4. Picks(source, line)
        BY <3>1, <3>2, PyramidPicks
      <3>5. IsLine(source) /\ ~HasGap(source) /\ \A i \in 1 .. Len(source) : source[i] \in ToSet(line)
        BY <3>1, <3>4, PicksIsLine, PicksSamples
      <3>6. PartOf(part, source)
        <4> HIDE DEF source
        <4> QED
          BY <3>5, WindowIsPart
      <3> HIDE DEF source, part
      <3>7. new.points = part \/ new.points = Downsample(part, HasGap(line), meth, width)
        BY <2>4, <3>3
      <3>8. ~HasGap(part)
        BY <3>5, <3>6, PartSamples
      <3>9. Honest(new.points, source)
        BY <3>5, <3>6, <3>7, <3>8, PartDrawn
      <3>10. Honest(new.points, line)
        <4>1. DOMAIN source = 1 .. Len(source)
          BY <3>5 DEF IsLine
        <4>2. \A s \in ToSet(source) : s \in ToSet(line)
          <5>1. ToSet(source) = {source[i] : i \in DOMAIN source}
            BY DEF ToSet
          <5> QED
            BY <3>5, <4>1, <5>1
        <4> QED
          BY <3>9, <4>2 DEF Honest
      <3> QED
        BY <2>2, <2>6, <3>1, <3>10, GaplessUnbroken
    <2> QED
      BY <2>5, <2>6
  <1> QED
    BY <1>2, <1>3

(* What refineLines shows. *)
LEMMA RefinedHonest ==
  ASSUME NEW line, IsLine(line), NEW width \in Nat \ {0}, NEW p, IsPyramid(line, p),
         OnDisk(line) => ~HasGap(line)
  PROVE  /\ Honest(Refined(line, BuildPyramid(line, p, 1), width), line)
         /\ Unbroken(Refined(line, BuildPyramid(line, p, 1), width), line)
  <1> DEFINE built == BuildPyramid(line, p, 1)
             pts == Refined(line, built, width)
  <1>1. IsPyramid(line, built) /\ 1 <= Len(built)
    BY BuildIsPyramid
  <1> HIDE DEF built
  <1>2. CASE OnDisk(line)
    <2>1. 1 \in 1 .. Len(built)
      BY <1>1 DEF IsPyramid
    <2>2. Picks(built[1], line)
      BY <1>1, <1>2, <2>1, PyramidPicks
    <2>3. IsLine(built[1]) /\ ~HasGap(built[1]) /\ \A k \in 1 .. Len(built[1]) : built[1][k] \in ToSet(line)
      BY <1>2, <2>2, PicksIsLine, PicksSamples
    <2>4. pts = Downsample(built[1], HasGap(line), method, width)
      BY <1>2 DEF Refined
    <2>5. Draws(pts, built[1])
      BY <2>3, <2>4, DownsampleDraws
    <2>6. Honest(pts, line)
      BY <2>3, <2>5, DrawsHonest
    <2>7. Unbroken(pts, line)
      BY <1>2, GaplessUnbroken
    <2> QED
      BY <2>6, <2>7 DEF built
  <1>3. CASE ~OnDisk(line)
    <2>1. pts = Downsample(line, HasGap(line), method, width)
      BY <1>3 DEF Refined
    <2>2. PartOf(line, line) /\ (HasGap(line) \/ ~HasGap(line))
      BY WholeIsPart
    <2> HIDE DEF pts
    <2>3. Honest(pts, line) /\ Unbroken(pts, line)
      BY <2>1, <2>2, PartDrawn
    <2> QED
      BY <2>3 DEF pts, built
  <1> QED
    BY <1>2, <1>3

(* What render shows. *)
LEMMA PreviewHonest ==
  ASSUME NEW line, IsLine(line), pw \in Nat \ {0}
  PROVE  Honest(Preview(line), line)
  <1>1. CASE IsStatic(line)
    BY <1>1, WholePicks, PicksHonest DEF Preview
  <1>2. CASE ~IsStatic(line) /\ OnDisk(line)
    <2> DEFINE built == BuildPyramid(line, <<>>, 1)
    <2>1. IsPyramid(line, built) /\ 1 <= Len(built)
      <3>1. IsPyramid(line, <<>>)
        BY NoPyramid
      <3> QED
        BY <3>1, BuildIsPyramid
    <2>2. Preview(line) = Downsample(built[1], HasGap(line), method, pw)
      BY <1>2 DEF Preview
    <2> HIDE DEF built
    <2>3. built[1] = StorePyramid(line)
      <3>1. 1 \in 1 .. Len(built)
        BY <2>1 DEF IsPyramid
      <3>2. built[1] = Rung(line, built, 1)
        BY <2>1, <3>1 DEF IsPyramid
      <3> QED
        BY <1>2, <3>2 DEF Rung
    <2>4. Picks(built[1], line)
      BY <2>3, StorePyramidPicks
    <2>5. /\ IsLine(built[1]) /\ (~HasGap(line) => ~HasGap(built[1]))
          /\ \A k \in 1 .. Len(built[1]) : built[1][k] \in ToSet(line)
      BY <2>4, PicksIsLine, PicksSamples
    <2>6. HasGap(line) \/ ~HasGap(built[1])
      BY <2>5
    <2>7. Draws(Preview(line), built[1])
      BY <2>2, <2>5, <2>6, DownsampleDraws
    <2> QED
      BY <2>5, <2>7, DrawsHonest
  <1>3. CASE ~IsStatic(line) /\ ~OnDisk(line)
    <2>1. Picks(StridePreview(line, pw), line)
      BY StridePreviewPicks
    <2> QED
      BY <1>3, <2>1, PicksHonest DEF Preview
  <1> QED
    BY <1>1, <1>2, <1>3

-----------------------------------------------------------------------------
(* No extreme is lost: the points of a level summarize the line, those of the *)
(* level above summarize them, and a window of a summary covers the samples   *)
(* in view but for those a bucket merged with samples outside it.             *)

(* Every sample lies in one of the buckets. *)
LEMMA BucketsCover ==
  ASSUME NEW lo, NEW hi, NEW count, NEW size, NEW n, Even(lo, hi, count, size, n),
         NEW i \in 1 .. n
  PROVE  \E b \in 1 .. count : i \in lo[b] .. hi[b]
  <1>1. n \in Nat \ {0} /\ size \in Nat \ {0} /\ count \in Nat \ {0} /\ i \in Int
    BY DEF Even
  <1> DEFINE d == (i - 1) \div size
             m == (i - 1) % size
  <1>2. d \in Int /\ m \in Int /\ i - 1 = d * size + m /\ 0 <= m /\ m < size
    BY <1>1
  <1> HIDE DEF d, m
  <1>3. d >= 0
    <2> SUFFICES ASSUME d + 1 <= 0 PROVE FALSE
      BY <1>2
    <2>1. (d + 1) * size <= 0
      BY <1>1, <1>2
    <2>2. (d + 1) * size = d * size + size /\ d * size \in Int
      BY <1>1, <1>2
    <2> QED
      BY <1>1, <1>2, <2>1, <2>2
  <1>4. CASE d + 1 < count
    <2>1. d + 1 \in 1 .. count /\ d + 1 # count /\ (d + 1) - 1 = d
      BY <1>1, <1>2, <1>3, <1>4
    <2>2. lo[d + 1] = d * size + 1 /\ hi[d + 1] = (d + 1) * size
      BY <2>1 DEF Even
    <2>3. (d + 1) * size = d * size + size /\ d * size \in Int
      BY <1>1, <1>2
    <2>4. i \in lo[d + 1] .. hi[d + 1]
      BY <1>1, <1>2, <2>2, <2>3
    <2> QED
      BY <2>1, <2>4
  <1>5. CASE ~(d + 1 < count)
    <2>1. lo[count] = (count - 1) * size + 1 /\ hi[count] = n
      BY <1>1 DEF Even
    <2>2. (count - 1) * size <= d * size
      <3>1. d - (count - 1) \in Nat
        BY <1>1, <1>2, <1>5
      <3>2. (d - (count - 1)) * size >= 0
        BY <1>1, <3>1
      <3>3. (d - (count - 1)) * size = d * size - (count - 1) * size
        BY <1>1, <1>2
      <3>4. d * size \in Int /\ (count - 1) * size \in Int
        BY <1>1, <1>2
      <3> QED
        BY <3>2, <3>3, <3>4
    <2>3. d * size \in Int /\ (count - 1) * size \in Int
      BY <1>1, <1>2
    <2>4. i \in lo[count] .. hi[count]
      BY <1>1, <1>2, <2>1, <2>2, <2>3
    <2> QED
      BY <1>1, <2>4
  <1> QED
    BY <1>4, <1>5

(* How far apart the ends of two buckets are. *)
LEMMA EvenWidth ==
  ASSUME NEW lo, NEW hi, NEW count, NEW size, NEW n, Even(lo, hi, count, size, n),
         NEW W \in Nat, NEW E \in Nat, size <= W, n - (count - 1) * size <= W + E,
         NEW b \in 1 .. count, NEW c \in 1 .. count, NEW t \in Nat, b <= c, c - b <= t
  PROVE  hi[c] - lo[b] + 1 <= (t + 1) * W + E
  <1>1. n \in Nat \ {0} /\ size \in Nat \ {0} /\ count \in Nat \ {0}
    BY DEF Even
  <1>2. lo[b] = (b - 1) * size + 1 /\ hi[c] = IF c = count THEN n ELSE c * size
    BY DEF Even
  <1> DEFINE d == c - b
             y == (b - 1) * size
             e == d * size
             w == d * W
  <1>3. d \in Nat /\ t - d \in Nat /\ c = b + d /\ y \in Int /\ e \in Int /\ w \in Nat
    BY <1>1
  <1>4. e <= w
    <2>1. w = d * (W - size) + e /\ d * (W - size) >= 0
      <3>1. W - size \in Nat /\ d \in Nat
        BY <1>1
      <3>2. W = (W - size) + size
        BY <1>1
      <3>3. \A u \in Nat : d * (u + size) = d * u + e /\ d * u >= 0
        BY <1>1, <1>3
      <3> HIDE DEF d, e
      <3> QED
        BY <3>1, <3>2, <3>3
    <2>2. d * (W - size) \in Int
      BY <1>1, <1>3
    <2> HIDE DEF d, e, w
    <2> QED
      BY <1>3, <2>1, <2>2
  <1>5. w + W <= (t + 1) * W
    <2>1. (t + 1) * W = w + W + (t - d) * W /\ (t - d) * W >= 0
      <3>1. t = d + (t - d)
        BY <1>3
      <3>2. \A u \in Nat : (d + u + 1) * W = d * W + W + u * W /\ u * W >= 0
        BY <1>3
      <3> HIDE DEF d
      <3> QED
        BY <1>3, <3>1, <3>2
    <2>2. (t - d) * W \in Int /\ (t + 1) * W \in Int
      BY <1>3
    <2> HIDE DEF d, w
    <2> QED
      BY <1>3, <2>1, <2>2
  <1>6. (t + 1) * W \in Int /\ (c - 1) * size = y + e /\ c * size = y + e + size
    <2>1. \A u \in Nat : (b + u - 1) * size = (b - 1) * size + u * size
                         /\ (b + u) * size = (b - 1) * size + u * size + size
      BY <1>1
    <2> HIDE DEF d
    <2> QED
      BY <1>3, <2>1
  <1>7. CASE c = count
    <2>1. n - (y + e) <= W + E
      BY <1>6, <1>7
    <2> HIDE DEF d, e, w, y
    <2> QED
      BY <1>1, <1>2, <1>3, <1>4, <1>5, <1>6, <1>7, <2>1 DEF y
  <1>8. CASE c # count
    <2>1. hi[c] = y + e + size /\ lo[b] = y + 1
      BY <1>2, <1>6, <1>8
    <2> HIDE DEF d, e, w, y
    <2> QED
      BY <1>1, <1>3, <1>4, <1>5, <1>6, <2>1
  <1> QED
    BY <1>7, <1>8

(* The number of samples of a line that is reduced to nb buckets. *)
LEMMA Rounded ==
  ASSUME NEW n \in Nat, NEW R \in Nat \ {0}, NEW nb, nb = Max({1, RoundDiv(n, R)})
  PROVE  nb \in Nat \ {0} /\ 2 * n < 2 * (nb * R) + R
  <1> DEFINE x == 2 * n + R
             y == 2 * R
             q == x \div y
             m == x % y
  <1>1. x \in Nat /\ y \in Nat \ {0}
    OBVIOUS
  <1>2. q \in Int /\ m \in Int /\ x = q * y + m /\ 0 <= m /\ m < y
    <2> HIDE DEF x, y
    <2> QED
      BY <1>1
  <1>3. RoundDiv(n, R) = q /\ q \in Nat /\ nb \in Nat \ {0}
    BY RoundDivType DEF RoundDiv
  <1> HIDE DEF q, m
  <1>4. nb = IF 1 >= q THEN 1 ELSE q
    BY <1>3, Max2
  <1>5. q * y = 2 * (q * R) /\ q * R \in Nat
    BY <1>3
  <1>6. q * R <= nb * R
    <2>1. nb - q \in Nat
      BY <1>3, <1>4
    <2>2. \A u \in Nat : (q + u) * R = q * R + u * R /\ u * R >= 0 /\ u * R \in Int
      BY <1>3
    <2>3. nb = q + (nb - q)
      BY <1>3
    <2> QED
      BY <1>5, <2>1, <2>2, <2>3
  <1>7. nb * R \in Nat
    BY <1>3
  <1> QED
    BY <1>2, <1>3, <1>5, <1>6, <1>7

(* Buckets of a line that is reduced by R. *)
LEMMA BucketSize ==
  ASSUME NEW n \in Nat, NEW R \in Nat \ {0, 1}, NEW nb, nb = Max({1, RoundDiv(n, R)}),
         nb <= n
  PROVE  n \div nb <= 2 * R - 2
  <1>1. nb \in Nat \ {0} /\ 2 * n < 2 * (nb * R) + R
    BY Rounded
  <1>2. n \in Nat \ {0}
    BY <1>1
  <1> DEFINE size == n \div nb
  <1>3. size \in Nat \ {0} /\ size * nb <= n
    BY <1>1, <1>2, Share
  <1> HIDE DEF size
  <1> SUFFICES ASSUME size >= 2 * R - 1 PROVE FALSE
    BY <1>3 DEF size
  <1> DEFINE p == nb * R
             u == size - (2 * R - 1)
  <1>4. p \in Nat /\ u \in Nat /\ p >= R
    <2>1. nb - 1 \in Nat /\ nb = 1 + (nb - 1)
      BY <1>1
    <2>2. \A v \in Nat : (1 + v) * R = R + v * R /\ v * R \in Nat
      OBVIOUS
    <2> QED
      BY <1>1, <1>3, <2>1, <2>2
  <1>5. size * nb >= 2 * p - nb
    <2>1. size = u + (2 * R - 1)
      BY <1>3
    <2>2. \A v \in Nat : (v + (2 * R - 1)) * nb = v * nb + 2 * p - nb /\ v * nb \in Nat
      BY <1>1
    <2> HIDE DEF u, p
    <2>3. (u + (2 * R - 1)) * nb = u * nb + 2 * p - nb /\ u * nb \in Nat
      BY <1>4, <2>2
    <2>4. size * nb = u * nb + 2 * p - nb
      BY <2>1, <2>3
    <2> QED
      BY <1>1, <1>4, <2>3, <2>4
  <1>6. 2 * nb <= p
    <2>1. R - 2 \in Nat /\ R = 2 + (R - 2)
      OBVIOUS
    <2>2. \A v \in Nat : nb * (2 + v) = 2 * nb + nb * v /\ nb * v \in Nat
      BY <1>1
    <2>3. p = 2 * nb + nb * (R - 2) /\ nb * (R - 2) \in Nat
      BY <2>1, <2>2
    <2> HIDE DEF p
    <2> QED
      BY <1>1, <1>4, <2>3
  <1>7. size * nb \in Int
    BY <1>1, <1>3
  <1> HIDE DEF p, u
  <1>8. 2 * n < 2 * p + R
    BY <1>1 DEF p
  <1>9. 2 * p - nb <= n
    BY <1>1, <1>3, <1>4, <1>5, <1>7
  <1> QED
    BY <1>1, <1>4, <1>6, <1>8, <1>9

LEMMA LastBucket ==
  ASSUME NEW n \in Nat, NEW R \in Nat \ {0, 1}, NEW nb, nb = Max({1, RoundDiv(n, R)}),
         ~(n <= 2 * nb), NEW size, size = n \div nb, NEW count, count = n \div size
  PROVE  n - (count - 1) * size <= 2 * R - 2
  <1>1. nb \in Nat \ {0} /\ 2 * n < 2 * (nb * R) + R
    BY Rounded
  <1>2. n \in Nat \ {0} /\ nb <= n
    BY <1>1
  <1>3. size \in Nat \ {0} /\ size <= n /\ size * nb <= n
    BY <1>1, <1>2, Share
  <1>4. count \in Nat \ {0} /\ count * size <= n
    BY <1>2, <1>3, Share
  <1> DEFINE m == n % size
  <1>5. n = count * size + m /\ 0 <= m /\ m < size /\ m \in Int
    BY <1>2, <1>3
  <1> HIDE DEF m
  <1>6. (count - 1) * size = count * size - size /\ count * size \in Int
    BY <1>3, <1>4
  <1>7. n - (count - 1) * size = size + m
    <2> DEFINE most == (count - 1) * size
               all == count * size
    <2>1. n = all + m /\ most = all - size /\ all \in Int /\ m \in Int /\ size \in Int
      BY ONLY <1>3, <1>5, <1>6
    <2> HIDE DEF most, all
    <2>2. n - most = size + m
      BY ONLY <2>1
    <2> QED
      BY <2>2 DEF most
  <1>8. CASE size <= R - 1
    <2>1. size + m <= 2 * R - 2
      BY ONLY <1>3, <1>5, <1>8, R \in Nat
    <2> QED
      BY ONLY <1>7, <2>1
  <1>9. CASE size >= R
    <2> DEFINE p == nb * R
               v == size - R
    <2>1. p \in Nat /\ v \in Nat /\ size = R + v
      BY <1>1, <1>3, <1>9
    <2>2. count >= nb
      <3> SUFFICES ASSUME count + 1 <= nb PROVE FALSE
        BY <1>1, <1>4
      <3>1. nb - (count + 1) \in Nat /\ nb = (count + 1) + (nb - (count + 1))
        BY <1>1, <1>4
      <3>2. \A u \in Nat : ((count + 1) + u) * size = count * size + size + u * size /\ u * size \in Nat
        BY <1>3, <1>4
      <3> DEFINE u == nb - (count + 1)
      <3>5. u \in Nat /\ nb = (count + 1) + u
        BY <3>1
      <3> HIDE DEF u
      <3>3. nb * size = count * size + size + u * size /\ u * size \in Nat
        <4>1. ((count + 1) + u) * size = count * size + size + u * size /\ u * size \in Nat
          BY <3>2, <3>5
        <4> QED
          BY <3>5, <4>1
      <3>4. nb * size = size * nb /\ nb * size \in Int
        BY <1>1, <1>3
      <3> DEFINE whole == count * size
                 given == nb * size
                 rest == u * size
      <3>6. /\ given = whole + size + rest /\ rest \in Nat /\ whole \in Int /\ given <= n
            /\ n = whole + m /\ m < size /\ m \in Int /\ size \in Int /\ n \in Int
        <4>1. given <= n
          BY ONLY <1>3, <3>4
        <4> QED
          BY ONLY <1>2, <1>3, <1>5, <1>6, <3>3, <4>1
      <3> HIDE DEF whole, given, rest
      <3> QED
        BY ONLY <3>6
    <2>3. (count - 1) * size >= (nb - 1) * R
      <3>1. count - nb \in Nat /\ count - 1 = (nb - 1) + (count - nb) /\ nb - 1 \in Nat
        BY <1>1, <1>4, <2>2
      <3>2. (count - 1) * size = (nb - 1) * size + (count - nb) * size
            /\ (nb - 1) * size \in Int /\ (count - nb) * size \in Nat
        <4>1. \A u \in Nat : ((nb - 1) + u) * size = (nb - 1) * size + u * size /\ u * size \in Nat
          BY <1>1, <1>3
        <4> QED
          BY <1>3, <3>1, <4>1
      <3>3. (nb - 1) * size = (nb - 1) * R + (nb - 1) * v /\ (nb - 1) * v \in Nat
            /\ (nb - 1) * R \in Int
        <4>1. \A u \in Nat : \A w \in Nat : w * (R + u) = w * R + w * u /\ w * u \in Nat /\ w * R \in Int
          OBVIOUS
        <4> HIDE DEF v
        <4> QED
          BY <2>1, <3>1, <4>1
      <3> HIDE DEF v, p
      <3> QED
        BY <3>2, <3>3
    <2>4. (nb - 1) * R = p - R
      BY <1>1
    <2> HIDE DEF p, v
    <2>5. 2 * n < 2 * p + R
      BY <1>1 DEF p
    <2>6. (count - 1) * size \in Int
      BY <1>3, <1>4
    <2>7. CASE R >= 3
      BY <1>2, <2>1, <2>3, <2>4, <2>5, <2>6, <2>7
    <2>8. CASE R = 2
      <3>1. p = 2 * nb
        BY <1>1, <2>8 DEF p
      <3> QED
        BY <1>1, <1>2, <2>5, <2>8, <3>1
    <2> QED
      BY <2>7, <2>8
  <1> QED
    BY <1>3, <1>8, <1>9

-----------------------------------------------------------------------------
(* pts[k] is the sample at[k] of the part lo[k] .. hi[k] of line.  The parts *)
(* are in order, those of 2 t + 1 points in a row fit in (t + 1) W + E       *)
(* samples, and every sample lies in a part whose point is no lower and in   *)
(* one whose point is no higher.                                             *)
Placed(at, lo, hi, pts, line) ==
  \A k \in 1 .. Len(pts) : /\ lo[k] \in 1 .. Len(line) /\ hi[k] \in lo[k] .. Len(line)
                           /\ at[k] \in lo[k] .. hi[k] /\ pts[k] = line[at[k]]
Forward(lo, hi, pts) ==
  \A k, l \in 1 .. Len(pts) : k <= l => lo[k] <= lo[l] /\ hi[k] <= hi[l]
Narrow(lo, hi, pts, W, E) ==
  \A k, l \in 1 .. Len(pts) : \A t \in Nat :
    k <= l /\ l - k <= 2 * t => hi[l] - lo[k] + 1 <= (t + 1) * W + E
Spanning(lo, hi, pts, line) ==
  \A i \in 1 .. Len(line) :
    /\ \E k \in 1 .. Len(pts) : i \in lo[k] .. hi[k] /\ pts[k][2] >= line[i][2]
    /\ \E k \in 1 .. Len(pts) : i \in lo[k] .. hi[k] /\ pts[k][2] <= line[i][2]
Summary(at, lo, hi, pts, line, W, E) ==
  /\ Len(pts) \in Nat \ {0} /\ Placed(at, lo, hi, pts, line)
  /\ Forward(lo, hi, pts) /\ Narrow(lo, hi, pts, W, E) /\ Spanning(lo, hi, pts, line)
Summarizes(pts, line, W, E) == \E at, lo, hi : Summary(at, lo, hi, pts, line, W, E)

(* (t + 1) times a number. *)
LEMMA AtLeastTimes ==
  ASSUME NEW t \in Nat, NEW a \in Nat, NEW b \in Nat, a <= b
  PROVE  (t + 1) * a \in Nat /\ (t + 1) * b \in Nat /\ (t + 1) * a <= (t + 1) * b
  <1> DEFINE u == b - a
  <1>1. u \in Nat /\ b = a + u
    OBVIOUS
  <1>2. (t + 1) * (a + u) = (t + 1) * a + (t + 1) * u /\ (t + 1) * u \in Nat
    BY <1>1
  <1>3. (t + 1) * a \in Nat /\ (t + 1) * b \in Nat
    OBVIOUS
  <1> HIDE DEF u
  <1>4. (t + 1) * b = (t + 1) * a + (t + 1) * u
    BY <1>1, <1>2
  <1> QED
    BY <1>2, <1>3, <1>4

(* A line without gaps is a summary of itself. *)
LEMMA WholeSummarizes ==
  ASSUME NEW line, IsLine(line), ~HasGap(line), NEW W \in Nat, W >= 2, NEW E \in Nat
  PROVE  Summarizes(line, line, W, E)
  <1> DEFINE n == Len(line)
             at == [k \in 1 .. n |-> k]
  <1>1. n \in Nat \ {0}
    BY DEF IsLine
  <1>2. \A k \in 1 .. n : at[k] = k /\ k \in 1 .. n /\ k \in k .. n /\ k \in k .. k
    BY <1>1
  <1> HIDE DEF at
  <1>3. Placed(at, at, at, line, line)
    BY <1>2 DEF Placed
  <1>4. Forward(at, at, line)
    BY <1>2 DEF Forward
  <1>5. ASSUME NEW k \in 1 .. n, NEW l \in 1 .. n, NEW t \in Nat, k <= l, l - k <= 2 * t
        PROVE  at[l] - at[k] + 1 <= (t + 1) * W + E
    <2>1. (t + 1) * 2 \in Nat /\ (t + 1) * W \in Nat /\ (t + 1) * 2 <= (t + 1) * W
      BY AtLeastTimes
    <2> HIDE DEF n
    <2> QED
      BY <1>1, <1>2, <1>5, <2>1
  <1>6. Narrow(at, at, line, W, E)
    BY <1>5 DEF Narrow
  <1>7. ASSUME NEW i \in 1 .. n PROVE i \in at[i] .. at[i] /\ line[i][2] >= line[i][2]
                                       /\ line[i][2] <= line[i][2]
    <2>1. line[i][2] \in Int
      BY Levels
    <2> QED
      BY <1>2, <2>1
  <1>8. Spanning(at, at, line, line)
    BY <1>7 DEF Spanning
  <1>9. Summary(at, at, at, line, line, W, E)
    BY <1>1, <1>3, <1>4, <1>6, <1>8 DEF Summary
  <1> QED
    BY <1>9 DEF Summarizes

(* A summary may be said to be wider than it is. *)
LEMMA WiderSummarizes ==
  ASSUME NEW pts, NEW line, IsLine(line), NEW W \in Nat, NEW E \in Nat, Summarizes(pts, line, W, E),
         NEW V \in Nat, W <= V, NEW D \in Nat, E <= D
  PROVE  Summarizes(pts, line, V, D)
  <1>1. PICK at, lo, hi : Summary(at, lo, hi, pts, line, W, E)
    BY DEF Summarizes
  <1>2. Len(line) \in Nat
    BY DEF IsLine
  <1>3. \A k \in 1 .. Len(pts) : lo[k] \in Int /\ hi[k] \in Int
    <2>1. \A k \in 1 .. Len(pts) : lo[k] \in 1 .. Len(line) /\ hi[k] \in lo[k] .. Len(line)
      BY <1>1 DEF Summary, Placed
    <2> QED
      BY <1>2, <2>1
  <1>4. ASSUME NEW k \in 1 .. Len(pts), NEW l \in 1 .. Len(pts), NEW t \in Nat, k <= l, l - k <= 2 * t
        PROVE  hi[l] - lo[k] + 1 <= (t + 1) * V + D
    <2>1. hi[l] - lo[k] + 1 <= (t + 1) * W + E
      BY <1>1, <1>4 DEF Summary, Narrow
    <2>2. (t + 1) * W \in Nat /\ (t + 1) * V \in Nat /\ (t + 1) * W <= (t + 1) * V
      BY AtLeastTimes
    <2> QED
      BY <1>3, <2>1, <2>2
  <1>5. Narrow(lo, hi, pts, V, D)
    BY <1>4 DEF Narrow
  <1>6. Summary(at, lo, hi, pts, line, V, D)
    BY <1>1, <1>5 DEF Summary
  <1> QED
    BY <1>6 DEF Summarizes

(* The last sample may be added to a summary. *)
LEMMA AppendedSummarizes ==
  ASSUME NEW line, IsLine(line), NEW pts \in Seq(Sample), NEW W \in Nat, NEW E \in Nat,
         Summarizes(pts, line, W, E)
  PROVE  Summarizes(Append(pts, line[Len(line)]), line, W, E)
  <1> DEFINE n == Len(line)
             m == Len(pts)
             more == Append(pts, line[n])
  <1>1. PICK at, lo, hi : Summary(at, lo, hi, pts, line, W, E)
    BY DEF Summarizes
  <1>2. n \in Nat \ {0} /\ m \in Nat \ {0}
    BY <1>1 DEF IsLine, Summary
  <1>3. Len(more) = m + 1 /\ more[m + 1] = line[n] /\ \A k \in 1 .. m : more[k] = pts[k]
    BY <1>2
  <1> HIDE DEF more
  <1> DEFINE at1 == [k \in 1 .. m + 1 |-> IF k = m + 1 THEN n ELSE at[k]]
             lo1 == [k \in 1 .. m + 1 |-> IF k = m + 1 THEN lo[m] ELSE lo[k]]
             hi1 == [k \in 1 .. m + 1 |-> IF k = m + 1 THEN n ELSE hi[k]]
  <1>4. /\ \A k \in 1 .. m : at1[k] = at[k] /\ lo1[k] = lo[k] /\ hi1[k] = hi[k]
        /\ at1[m + 1] = n /\ lo1[m + 1] = lo[m] /\ hi1[m + 1] = n
    BY <1>2
  <1> HIDE DEF at1, lo1, hi1
  <1>5. \A k \in 1 .. m : lo[k] \in 1 .. n /\ hi[k] \in lo[k] .. n /\ at[k] \in lo[k] .. hi[k]
                          /\ pts[k] = line[at[k]]
    BY <1>1 DEF Summary, Placed
  <1>6. m \in 1 .. m /\ \A k \in 1 .. m + 1 : k = m + 1 \/ k \in 1 .. m
    BY <1>2
  <1>7. lo[m] \in 1 .. n /\ n \in lo[m] .. n
    BY <1>2, <1>5, <1>6
  <1>8. Placed(at1, lo1, hi1, more, line)
    <2>1. ASSUME NEW k \in 1 .. m + 1
          PROVE  lo1[k] \in 1 .. n /\ hi1[k] \in lo1[k] .. n /\ at1[k] \in lo1[k] .. hi1[k]
                 /\ more[k] = line[at1[k]]
      <3>1. CASE k \in 1 .. m
        BY <1>3, <1>4, <1>5, <3>1
      <3>2. CASE k = m + 1
        <4>1. n \in lo[m] .. n
          BY <1>7
        <4> QED
          BY <1>3, <1>4, <1>7, <3>2, <4>1
      <3> QED
        BY <1>6, <3>1, <3>2
    <2> QED
      BY <1>3, <2>1 DEF Placed
  <1>9. hi[m] = n
    <2>1. PICK k \in 1 .. m : n \in lo[k] .. hi[k]
      <3>1. n \in 1 .. n
        BY <1>2
      <3>2. \E k \in 1 .. m : n \in lo[k] .. hi[k] /\ pts[k][2] >= line[n][2]
        BY <1>1, <3>1 DEF Summary, Spanning
      <3> QED
        BY <3>2
    <2>2. hi[k] <= hi[m] /\ hi[m] \in lo[m] .. n /\ hi[k] \in lo[k] .. n /\ lo[k] \in 1 .. n
      <3>1. k <= m
        BY <1>2
      <3> QED
        BY <1>1, <1>5, <1>6, <3>1 DEF Summary, Forward
    <2> HIDE DEF n
    <2> QED
      BY <1>2, <1>7, <2>1, <2>2
  <1>10. \A k \in 1 .. m : lo[k] \in Int /\ hi[k] \in Int /\ hi[k] <= n /\ lo[k] <= lo[m]
    <2>1. \A k \in 1 .. m : k <= m
      BY <1>2
    <2>2. \A k \in 1 .. m : lo[k] <= lo[m]
      BY <1>1, <1>6, <2>1 DEF Summary, Forward
    <2> HIDE DEF n
    <2> QED
      BY <1>2, <1>5, <2>2
  <1>11. Forward(lo1, hi1, more)
    <2>1. ASSUME NEW k \in 1 .. m + 1, NEW l \in 1 .. m + 1, k <= l
          PROVE  lo1[k] <= lo1[l] /\ hi1[k] <= hi1[l]
      <3>1. CASE k \in 1 .. m /\ l \in 1 .. m
        <4>1. lo[k] <= lo[l] /\ hi[k] <= hi[l]
          BY <1>1, <2>1, <3>1 DEF Summary, Forward
        <4> QED
          BY <1>4, <3>1, <4>1
      <3>2. CASE k \in 1 .. m /\ l = m + 1
        BY <1>4, <1>10, <3>2
      <3>3. CASE k = m + 1 /\ l = m + 1
        BY <1>2, <1>4, <1>7, <3>3
      <3> QED
        BY <1>2, <1>6, <2>1, <3>1, <3>2, <3>3
    <2> QED
      BY <1>3, <2>1 DEF Forward
  <1>12. Narrow(lo1, hi1, more, W, E)
    <2>1. ASSUME NEW k \in 1 .. m + 1, NEW l \in 1 .. m + 1, NEW t \in Nat, k <= l, l - k <= 2 * t
          PROVE  hi1[l] - lo1[k] + 1 <= (t + 1) * W + E
      <3> DEFINE c == IF k = m + 1 THEN m ELSE k
                 d == IF l = m + 1 THEN m ELSE l
      <3>4. k \in Int /\ l \in Int /\ 1 <= k /\ k <= m + 1 /\ 1 <= l /\ l <= m + 1
            /\ m \in Nat /\ 1 <= m
        BY <1>2
      <3>1. c \in 1 .. m /\ d \in 1 .. m /\ c <= d /\ d - c <= 2 * t
        <4> HIDE DEF m
        <4> QED
          BY <2>1, <3>4
      <3>2. lo1[k] = lo[c] /\ hi1[l] = hi[d]
        BY <1>4, <1>6, <1>9
      <3>3. hi[d] - lo[c] + 1 <= (t + 1) * W + E
        <4> HIDE DEF c, d
        <4> QED
          BY <1>1, <3>1 DEF Summary, Narrow
      <3> QED
        BY <3>2, <3>3
    <2> QED
      BY <1>3, <2>1 DEF Narrow
  <1>13. Spanning(lo1, hi1, more, line)
    <2>1. ASSUME NEW i \in 1 .. n
          PROVE  /\ \E k \in 1 .. m + 1 : i \in lo1[k] .. hi1[k] /\ more[k][2] >= line[i][2]
                 /\ \E k \in 1 .. m + 1 : i \in lo1[k] .. hi1[k] /\ more[k][2] <= line[i][2]
      <3>1. /\ \E k \in 1 .. m : i \in lo[k] .. hi[k] /\ pts[k][2] >= line[i][2]
            /\ \E k \in 1 .. m : i \in lo[k] .. hi[k] /\ pts[k][2] <= line[i][2]
        BY <1>1 DEF Summary, Spanning
      <3>2. \A k \in 1 .. m : k \in 1 .. m + 1
        BY <1>2
      <3> QED
        BY <1>3, <1>4, <3>1, <3>2
    <2> QED
      BY <1>3, <2>1 DEF Spanning
  <1>14. Summary(at1, lo1, hi1, more, line, W, E)
    BY <1>2, <1>3, <1>8, <1>11, <1>12, <1>13 DEF Summary
  <1> QED
    BY <1>14 DEF Summarizes, more

LEMMA InBounds ==
  ASSUME NEW n \in Int, NEW a \in 1 .. n, NEW b \in a .. n, NEW p \in a .. b
  PROVE  p \in 1 .. n
  OBVIOUS

(* Two samples of each bucket are a summary. *)
LEMMA PairsSummarize ==
  ASSUME NEW line, IsLine(line), ~HasGap(line),
         NEW pairs, NEW lo, NEW hi, NEW size, Paired(pairs, lo, hi, line),
         Even(lo, hi, Len(pairs), size, Len(line)),
         NEW W \in Nat, NEW E \in Nat, size <= W, Len(line) - (Len(pairs) - 1) * size <= W + E
  PROVE  FlattenSeq(pairs) \in Seq(Sample) /\ Summarizes(FlattenSeq(pairs), line, W, E)
  <1> DEFINE n == Len(line)
             nb == Len(pairs)
             r == FlattenSeq(pairs)
             Good(b, a) == /\ pairs[b] = <<line[a[1]], line[a[2]]>>
                           /\ a[1] \in lo[b] .. hi[b] /\ a[2] \in lo[b] .. hi[b]
                           /\ \A i \in lo[b] .. hi[b] : Spans(line[a[1]], line[a[2]], line[i])
             ats == [b \in 1 .. nb |-> CHOOSE a : Good(b, a)]
  <1>1. n \in Nat \ {0} /\ nb \in Nat \ {0} /\ size \in Nat \ {0}
    BY DEF Even
  <1>2. \A b \in 1 .. nb : lo[b] \in 1 .. n /\ hi[b] \in lo[b] .. n
    BY DEF Paired
  <1>3. ASSUME NEW b \in 1 .. nb PROVE \E a : Good(b, a)
    <2>1. PICK p \in lo[b] .. hi[b], q \in lo[b] .. hi[b] :
               /\ p <= q /\ pairs[b] = <<line[p], line[q]>>
               /\ ~HasGap(line) => \A i \in lo[b] .. hi[b] : Spans(line[p], line[q], line[i])
      BY Zenon DEF Paired
    <2> DEFINE a == <<p, q>>
    <2>2. a[1] = p /\ a[2] = q
      OBVIOUS
    <2> HIDE DEF a
    <2>3. Good(b, a)
      BY <2>1, <2>2
    <2> QED
      BY <2>3
  <1>4. \A b \in 1 .. nb : Good(b, ats[b])
    <2> HIDE DEF Good
    <2> QED
      BY <1>3
  <1> HIDE DEF ats
  <1>5. \A b \in 1 .. nb : /\ Len(pairs[b]) = 2 /\ pairs[b][1] = line[ats[b][1]]
                          /\ pairs[b][2] = line[ats[b][2]] /\ pairs[b] \in Seq(Sample)
    <2> SUFFICES ASSUME NEW b \in 1 .. nb
                 PROVE  /\ Len(pairs[b]) = 2 /\ pairs[b][1] = line[ats[b][1]]
                        /\ pairs[b][2] = line[ats[b][2]] /\ pairs[b] \in Seq(Sample)
      OBVIOUS
    <2> DEFINE p == ats[b][1]
               q == ats[b][2]
    <2>1. pairs[b] = <<line[p], line[q]>> /\ p \in lo[b] .. hi[b] /\ q \in lo[b] .. hi[b]
      BY <1>4
    <2>2. p \in 1 .. n /\ q \in 1 .. n
      <3>1. lo[b] \in 1 .. n /\ hi[b] \in lo[b] .. n
        BY <1>2
      <3>2. n \in Int /\ p \in lo[b] .. hi[b] /\ q \in lo[b] .. hi[b]
        BY <1>1, <2>1
      <3> HIDE DEF n, p, q
      <3> QED
        BY ONLY <3>1, <3>2, InBounds
    <2>3. line[p] \in Sample /\ line[q] \in Sample
      BY <2>2 DEF IsLine
    <2> HIDE DEF p, q
    <2>4. Len(pairs[b]) = 2 /\ pairs[b][1] = line[p] /\ pairs[b][2] = line[q]
          /\ pairs[b] \in Seq(Sample)
      BY <2>1, <2>3
    <2> QED
      BY <2>4 DEF p, q
  <1>6. r \in Seq(Sample) /\ \E len : Laid(r, pairs, len)
    BY <1>1, <1>5, FlattenLaid
  <1>7. PICK len : Laid(r, pairs, len)
    BY <1>6
  <1> HIDE DEF r
  <1>8. /\ len \in [0 .. nb -> Nat] /\ len[0] = 0 /\ len[nb] = Len(r)
        /\ \A i \in 1 .. nb : len[i] = len[i - 1] + 2 /\ r[len[i - 1] + 1] = line[ats[i][1]]
                             /\ r[len[i - 1] + 2] = line[ats[i][2]]
    <2>1. \A i \in 1 .. nb : 1 \in 1 .. Len(pairs[i]) /\ 2 \in 1 .. Len(pairs[i])
      BY <1>5
    <2> QED
      BY <1>5, <1>7, <2>1 DEF Laid
  <1>9. \A b \in 0 .. nb : len[b] = 2 * b
    <2> DEFINE S == {b \in 0 .. nb : len[b] = 2 * b}
    <2>1. 0 \in S
      BY <1>1, <1>8
    <2>2. ASSUME NEW b \in 1 .. nb, b - 1 \in S PROVE b \in S
      BY <1>1, <1>8, <2>2
    <2>3. 0 .. nb \subseteq S
      <3> HIDE DEF S
      <3> QED
        BY <1>1, <2>1, <2>2, UpToInduction
    <2> QED
      BY <2>3
  <1>10. Len(r) = 2 * nb
    <2>1. nb \in 0 .. nb
      BY <1>1
    <2> QED
      BY <1>8, <1>9, <2>1
  <1>11. \A b \in 1 .. nb : r[2 * b - 1] = line[ats[b][1]] /\ r[2 * b] = line[ats[b][2]]
    <2> SUFFICES ASSUME NEW b \in 1 .. nb
                 PROVE  r[2 * b - 1] = line[ats[b][1]] /\ r[2 * b] = line[ats[b][2]]
      OBVIOUS
    <2>1. b - 1 \in 0 .. nb
      BY <1>1
    <2>2. len[b - 1] = 2 * (b - 1)
      BY <1>9, <2>1
    <2>3. len[b - 1] + 1 = 2 * b - 1 /\ len[b - 1] + 2 = 2 * b
      BY <2>2
    <2> QED
      BY <1>8, <2>3
  <1> DEFINE bk == [k \in 1 .. 2 * nb |-> (k + 1) \div 2]
             at == [k \in 1 .. 2 * nb |-> ats[bk[k]][k - 2 * (bk[k] - 1)]]
             lo1 == [k \in 1 .. 2 * nb |-> lo[bk[k]]]
             hi1 == [k \in 1 .. 2 * nb |-> hi[bk[k]]]
  <1>12. \A k \in 1 .. 2 * nb : /\ bk[k] \in 1 .. nb
                               /\ \/ k = 2 * bk[k] - 1 /\ k - 2 * (bk[k] - 1) = 1
                                  \/ k = 2 * bk[k] /\ k - 2 * (bk[k] - 1) = 2
    <2> SUFFICES ASSUME NEW k \in 1 .. 2 * nb
                 PROVE  /\ bk[k] \in 1 .. nb
                        /\ \/ k = 2 * bk[k] - 1 /\ k - 2 * (bk[k] - 1) = 1
                           \/ k = 2 * bk[k] /\ k - 2 * (bk[k] - 1) = 2
      OBVIOUS
    <2>1. bk[k] = (k + 1) \div 2 /\ k \in Int /\ 1 <= k /\ k <= 2 * nb /\ nb \in Nat
      BY <1>1
    <2> HIDE DEF bk, nb
    <2> QED
      BY <2>1
  <1>13. \A k \in 1 .. 2 * nb : /\ at[k] = ats[bk[k]][k - 2 * (bk[k] - 1)]
                               /\ lo1[k] = lo[bk[k]] /\ hi1[k] = hi[bk[k]]
    OBVIOUS
  <1> HIDE DEF bk, at, lo1, hi1
  <1>14. \A k \in 1 .. 2 * nb : /\ r[k] = line[at[k]] /\ at[k] \in lo[bk[k]] .. hi[bk[k]]
    <2> SUFFICES ASSUME NEW k \in 1 .. 2 * nb
                 PROVE  r[k] = line[at[k]] /\ at[k] \in lo[bk[k]] .. hi[bk[k]]
      OBVIOUS
    <2>1. bk[k] \in 1 .. nb
      BY <1>12
    <2>2. ats[bk[k]][1] \in lo[bk[k]] .. hi[bk[k]] /\ ats[bk[k]][2] \in lo[bk[k]] .. hi[bk[k]]
      BY <1>4, <2>1
    <2> HIDE DEF Good
    <2> QED
      BY <1>11, <1>12, <1>13, <2>1, <2>2
  <1>15. Placed(at, lo1, hi1, r, line)
    <2> HIDE DEF Good
    <2> QED
      BY <1>2, <1>10, <1>12, <1>13, <1>14 DEF Placed
  <1>16. \A b, c \in 1 .. nb : b <= c => lo[b] <= lo[c] /\ hi[b] <= hi[c]
    <2> SUFFICES ASSUME NEW b \in 1 .. nb, NEW c \in 1 .. nb, b <= c
                 PROVE  lo[b] <= lo[c] /\ hi[b] <= hi[c]
      OBVIOUS
    <2>1. lo[b] \in Int /\ hi[b] \in Int /\ lo[c] \in Int /\ hi[c] \in Int /\ lo[b] <= hi[b] /\ lo[c] <= hi[c]
      <3> HIDE DEF n
      <3> QED
        BY <1>1, <1>2
    <2>2. CASE b = c
      BY <2>1, <2>2
    <2>3. CASE b < c
      <3>1. hi[b] < lo[c]
        BY <2>3 DEF Paired
      <3> QED
        BY <2>1, <3>1
    <2>4. b = c \/ b < c
      BY <1>1
    <2> QED
      BY <2>2, <2>3, <2>4
  <1>17. \A k, l \in 1 .. 2 * nb : k <= l => /\ bk[k] <= bk[l]
                                            /\ \A t \in Nat : l - k <= 2 * t => bk[l] - bk[k] <= t
    <2> SUFFICES ASSUME NEW k \in 1 .. 2 * nb, NEW l \in 1 .. 2 * nb, k <= l
                 PROVE  /\ bk[k] <= bk[l]
                        /\ \A t \in Nat : l - k <= 2 * t => bk[l] - bk[k] <= t
      OBVIOUS
    <2> DEFINE x == bk[k]
               y == bk[l]
    <2>1. x \in 1 .. nb /\ (k = 2 * x - 1 \/ k = 2 * x)
      BY <1>12
    <2>2. y \in 1 .. nb /\ (l = 2 * y - 1 \/ l = 2 * y)
      BY <1>12
    <2>3. x \in Int /\ y \in Int
      BY <2>1, <2>2
    <2> HIDE DEF x, y, nb
    <2>4. x <= y /\ \A t \in Nat : l - k <= 2 * t => y - x <= t
      BY <2>1, <2>2, <2>3
    <2> QED
      BY <2>4 DEF x, y
  <1>18. Forward(lo1, hi1, r)
    <2> SUFFICES ASSUME NEW k \in 1 .. 2 * nb, NEW l \in 1 .. 2 * nb, k <= l
                 PROVE  lo1[k] <= lo1[l] /\ hi1[k] <= hi1[l]
      BY <1>10 DEF Forward
    <2>1. bk[k] \in 1 .. nb /\ bk[l] \in 1 .. nb /\ bk[k] <= bk[l]
      BY <1>12, <1>17
    <2>2. lo[bk[k]] <= lo[bk[l]] /\ hi[bk[k]] <= hi[bk[l]]
      BY <1>16, <2>1
    <2> QED
      BY <1>13, <2>2
  <1>19. Narrow(lo1, hi1, r, W, E)
    <2> SUFFICES ASSUME NEW k \in 1 .. 2 * nb, NEW l \in 1 .. 2 * nb, NEW t \in Nat,
                        k <= l, l - k <= 2 * t
                 PROVE  hi1[l] - lo1[k] + 1 <= (t + 1) * W + E
      BY <1>10 DEF Narrow
    <2>1. bk[k] \in 1 .. nb /\ bk[l] \in 1 .. nb /\ bk[k] <= bk[l] /\ bk[l] - bk[k] <= t
      BY <1>12, <1>17
    <2>2. hi[bk[l]] - lo[bk[k]] + 1 <= (t + 1) * W + E
      BY <2>1, EvenWidth
    <2> QED
      BY <1>13, <2>2
  <1>20. Spanning(lo1, hi1, r, line)
    <2> SUFFICES ASSUME NEW i \in 1 .. n
                 PROVE  /\ \E k \in 1 .. 2 * nb : i \in lo1[k] .. hi1[k] /\ r[k][2] >= line[i][2]
                        /\ \E k \in 1 .. 2 * nb : i \in lo1[k] .. hi1[k] /\ r[k][2] <= line[i][2]
      BY <1>10 DEF Spanning
    <2>1. PICK b \in 1 .. nb : i \in lo[b] .. hi[b]
      BY BucketsCover
    <2>2. Spans(line[ats[b][1]], line[ats[b][2]], line[i])
      BY <1>4, <2>1
    <2>3. 2 * b - 1 \in 1 .. 2 * nb /\ 2 * b \in 1 .. 2 * nb
      <3> HIDE DEF nb
      <3> QED
        BY <1>1
    <2>4. bk[2 * b - 1] = b /\ bk[2 * b] = b
      <3> DEFINE x == bk[2 * b - 1]
                 y == bk[2 * b]
      <3>1. x \in 1 .. nb /\ (2 * b - 1 = 2 * x - 1 \/ 2 * b - 1 = 2 * x)
        BY <1>12, <2>3
      <3>2. y \in 1 .. nb /\ (2 * b = 2 * y - 1 \/ 2 * b = 2 * y)
        BY <1>12, <2>3
      <3> HIDE DEF x, y, nb
      <3>3. x \in Int /\ y \in Int /\ b \in Int
        BY ONLY <3>1, <3>2, b \in 1 .. nb
      <3>4. x = b /\ y = b
        BY ONLY <3>1, <3>2, <3>3
      <3> QED
        BY <3>4 DEF x, y
    <2>5. /\ i \in lo1[2 * b - 1] .. hi1[2 * b - 1] /\ i \in lo1[2 * b] .. hi1[2 * b]
          /\ r[2 * b - 1] = line[ats[b][1]] /\ r[2 * b] = line[ats[b][2]]
      BY <1>11, <1>13, <2>1, <2>3, <2>4
    <2> QED
      BY <2>2, <2>3, <2>5 DEF Spans
  <1>21. Summary(at, lo1, hi1, r, line, W, E)
    <2>1. Len(r) \in Nat \ {0}
      BY <1>1, <1>10
    <2> QED
      BY <2>1, <1>15, <1>18, <1>19, <1>20 DEF Summary
  <1>22. Summarizes(r, line, W, E)
    BY <1>21 DEF Summarizes
  <1> QED
    BY <1>6, <1>22 DEF r

(* minmax_core_mex gives a summary. *)
LEMMA CoreSummarizes ==
  ASSUME NEW line, IsLine(line), ~HasGap(line), NEW nb \in Nat \ {0}, nb <= Len(line),
         NEW W \in Nat, NEW E \in Nat, NEW size, size = Len(line) \div nb, size <= W,
         NEW count, count = Len(line) \div size,
         Len(line) - (count - 1) * size <= W + E
  PROVE  Summarizes(MinMaxCore(line, nb), line, W, E)
  <1>1. PICK pairs, lo, hi :
           /\ Len(pairs) \in Nat \ {0} /\ Paired(pairs, lo, hi, line)
           /\ Even(lo, hi, Len(pairs), size, Len(line))
           /\ Len(pairs) = count
           /\ MinMaxCore(line, nb) =
                 IF Less(Last(FlattenSeq(pairs))[1], line[Len(line)][1])
                 THEN Append(FlattenSeq(pairs), line[Len(line)]) ELSE FlattenSeq(pairs)
    BY CorePairs
  <1> DEFINE flat == FlattenSeq(pairs)
  <1>2. flat \in Seq(Sample) /\ Summarizes(flat, line, W, E)
    BY <1>1, PairsSummarize
  <1>3. Summarizes(Append(flat, line[Len(line)]), line, W, E)
    <2> HIDE DEF flat
    <2> QED
      BY <1>2, AppendedSummarizes
  <1> QED
    BY <1>1, <1>2, <1>3

(* A summary of a summary. *)
LEMMA Compose ==
  ASSUME NEW line, IsLine(line), ~HasGap(line), NEW mid, IsLine(mid), ~HasGap(mid), NEW pts,
         NEW R \in Nat \ {0}, NEW W \in Nat, NEW E \in Nat,
         Summarizes(mid, line, W, E), Summarizes(pts, mid, 2 * R - 2, 0)
  PROVE  Summarizes(pts, line, R * W, E)
  <1> DEFINE n == Len(line)
             m == Len(mid)
             s == Len(pts)
  <1>1. PICK a, l, h : Summary(a, l, h, mid, line, W, E)
    BY DEF Summarizes
  <1>2. PICK b, p, q : Summary(b, p, q, pts, mid, 2 * R - 2, 0)
    BY DEF Summarizes
  <1>3. n \in Nat \ {0} /\ m \in Nat \ {0} /\ s \in Nat \ {0}
    BY <1>2 DEF IsLine, Summary
  <1>4. \A k \in 1 .. m : /\ l[k] \in 1 .. n /\ h[k] \in l[k] .. n /\ a[k] \in l[k] .. h[k]
                          /\ mid[k] = line[a[k]]
    BY <1>1 DEF Summary, Placed
  <1>5. \A k \in 1 .. s : /\ p[k] \in 1 .. m /\ q[k] \in p[k] .. m /\ b[k] \in p[k] .. q[k]
                          /\ pts[k] = mid[b[k]]
    BY <1>2 DEF Summary, Placed
  <1>6. \A k, j \in 1 .. m : k <= j => l[k] <= l[j] /\ h[k] <= h[j]
    BY <1>1 DEF Summary, Forward
  <1>7. \A k, j \in 1 .. s : k <= j => p[k] <= p[j] /\ q[k] <= q[j]
    BY <1>2 DEF Summary, Forward
  <1>8. \A k \in 1 .. s : /\ p[k] \in 1 .. m /\ q[k] \in 1 .. m /\ b[k] \in 1 .. m
                          /\ p[k] <= b[k] /\ b[k] <= q[k]
    <2> HIDE DEF n, m, s
    <2> QED
      BY <1>3, <1>5
  <1>9. \A k \in 1 .. m : /\ l[k] \in 1 .. n /\ h[k] \in 1 .. n /\ a[k] \in 1 .. n
                          /\ l[k] <= a[k] /\ a[k] <= h[k]
    <2> HIDE DEF n, m, s
    <2> QED
      BY <1>3, <1>4
  <1> DEFINE at == [k \in 1 .. s |-> a[b[k]]]
             lo == [k \in 1 .. s |-> l[p[k]]]
             hi == [k \in 1 .. s |-> h[q[k]]]
  <1>10. \A k \in 1 .. s : at[k] = a[b[k]] /\ lo[k] = l[p[k]] /\ hi[k] = h[q[k]]
    OBVIOUS
  <1> HIDE DEF at, lo, hi
  <1>11. \A k \in 1 .. s : \A c \in p[k] .. q[k] :
            c \in 1 .. m /\ lo[k] <= l[c] /\ h[c] <= hi[k]
    <2> SUFFICES ASSUME NEW k \in 1 .. s, NEW c \in p[k] .. q[k]
                 PROVE  c \in 1 .. m /\ lo[k] <= l[c] /\ h[c] <= hi[k]
      OBVIOUS
    <2>1. c \in 1 .. m /\ p[k] <= c /\ c <= q[k] /\ p[k] \in 1 .. m /\ q[k] \in 1 .. m
      <3>1. p[k] \in 1 .. m /\ q[k] \in 1 .. m
        BY <1>8
      <3> HIDE DEF m
      <3> QED
        BY <1>3, <3>1
    <2> QED
      BY <1>6, <1>10, <2>1
  <1>12. \A k \in 1 .. s : lo[k] \in 1 .. n /\ hi[k] \in 1 .. n
    BY <1>8, <1>9, <1>10
  <1>13. Placed(at, lo, hi, pts, line)
    <2> SUFFICES ASSUME NEW k \in 1 .. s
                 PROVE  /\ lo[k] \in 1 .. n /\ hi[k] \in lo[k] .. n
                        /\ at[k] \in lo[k] .. hi[k] /\ pts[k] = line[at[k]]
      BY DEF Placed
    <2>1. b[k] \in p[k] .. q[k] /\ b[k] \in 1 .. m /\ pts[k] = mid[b[k]]
      BY <1>5, <1>8
    <2>2. lo[k] <= l[b[k]] /\ h[b[k]] <= hi[k] /\ l[b[k]] <= at[k] /\ at[k] <= h[b[k]]
          /\ at[k] \in 1 .. n /\ l[b[k]] \in 1 .. n /\ h[b[k]] \in 1 .. n
      BY <1>9, <1>10, <1>11, <2>1
    <2>3. lo[k] \in 1 .. n /\ hi[k] \in 1 .. n
      BY <1>12
    <2>4. lo[k] \in 1 .. n /\ hi[k] \in lo[k] .. n /\ at[k] \in lo[k] .. hi[k]
      <3> DEFINE u == l[b[k]]
                 v == h[b[k]]
      <3>1. /\ lo[k] <= u /\ v <= hi[k] /\ u <= at[k] /\ at[k] <= v /\ at[k] \in Int /\ u \in Int
            /\ v \in Int /\ n \in Int
        BY <1>3, <2>2
      <3> HIDE DEF u, v, n
      <3>2. lo[k] \in Int /\ hi[k] \in 1 .. n /\ hi[k] \in Int
        BY <2>3, <3>1
      <3>3. lo[k] <= at[k] /\ at[k] <= hi[k] /\ lo[k] <= hi[k] /\ hi[k] <= n
        BY ONLY <3>1, <3>2
      <3> QED
        BY ONLY <2>3, <3>1, <3>2, <3>3
    <2>5. pts[k] = line[at[k]]
      BY <1>4, <1>10, <2>1
    <2> QED
      BY <2>4, <2>5
  <1>14. Forward(lo, hi, pts)
    <2> SUFFICES ASSUME NEW k \in 1 .. s, NEW j \in 1 .. s, k <= j
                 PROVE  lo[k] <= lo[j] /\ hi[k] <= hi[j]
      BY DEF Forward
    <2>1. p[k] <= p[j] /\ q[k] <= q[j] /\ p[k] \in 1 .. m /\ p[j] \in 1 .. m
          /\ q[k] \in 1 .. m /\ q[j] \in 1 .. m
      BY <1>7, <1>8
    <2>2. l[p[k]] <= l[p[j]] /\ h[q[k]] <= h[q[j]]
      BY <1>6, <2>1
    <2> QED
      BY <1>10, <2>2
  <1>15. Narrow(lo, hi, pts, R * W, E)
    <2> SUFFICES ASSUME NEW k \in 1 .. s, NEW j \in 1 .. s, NEW t \in Nat, k <= j, j - k <= 2 * t
                 PROVE  hi[j] - lo[k] + 1 <= (t + 1) * (R * W) + E
      BY DEF Narrow
    <2>1. q[j] - p[k] + 1 <= (t + 1) * (2 * R - 2) + 0
      BY <1>2 DEF Summary, Narrow
    <2>2. p[k] \in 1 .. m /\ q[j] \in 1 .. m /\ p[k] <= q[j]
      <3>1. p[k] \in 1 .. m /\ q[j] \in 1 .. m /\ p[j] \in 1 .. m /\ p[k] <= p[j] /\ p[j] <= b[j]
            /\ b[j] <= q[j] /\ b[j] \in 1 .. m
        BY <1>7, <1>8
      <3>2. p[k] \in Int /\ q[j] \in Int /\ p[j] \in Int /\ b[j] \in Int
        BY <3>1
      <3> HIDE DEF m
      <3> QED
        BY ONLY <3>1, <3>2
    <2> DEFINE T == (t + 1) * (R - 1)
    <2>3. T \in Nat /\ (t + 1) * (2 * R - 2) = 2 * T
      <3>1. R - 1 \in Nat /\ 2 * R - 2 = 2 * (R - 1)
        OBVIOUS
      <3>2. \A u \in Nat : (t + 1) * u \in Nat /\ (t + 1) * (2 * u) = 2 * ((t + 1) * u)
        OBVIOUS
      <3> QED
        BY <3>1, <3>2
    <2>4. T + 1 <= (t + 1) * R /\ (t + 1) * R \in Nat
      <3>1. (t + 1) * R = T + (t + 1)
        OBVIOUS
      <3> QED
        BY <2>3, <3>1
    <2> HIDE DEF T
    <2>5. q[j] - p[k] <= 2 * T
      <3>1. q[j] \in Int /\ p[k] \in Int
        BY <2>2
      <3> QED
        BY <2>1, <2>3, <3>1
    <2>6. h[q[j]] - l[p[k]] + 1 <= (T + 1) * W + E
      BY <1>1, <2>2, <2>3, <2>5 DEF Summary, Narrow
    <2>7. (T + 1) * W <= (t + 1) * (R * W) /\ (T + 1) * W \in Nat /\ (t + 1) * (R * W) \in Nat
      <3>1. (t + 1) * (R * W) = ((t + 1) * R) * W
        OBVIOUS
      <3> DEFINE u == (t + 1) * R - (T + 1)
                 v == (t + 1) * R
      <3>2. u \in Nat /\ v = (T + 1) + u
        BY <2>3, <2>4
      <3> HIDE DEF u, v
      <3>3. ((T + 1) + u) * W = (T + 1) * W + u * W /\ u * W \in Nat /\ (T + 1) * W \in Nat
        BY <2>3, <3>2
      <3>4. v * W = (T + 1) * W + u * W
        BY <3>2, <3>3
      <3>5. v * W = (t + 1) * (R * W)
        BY <3>1 DEF v
      <3> QED
        BY <3>3, <3>4, <3>5
    <2>8. hi[j] \in Int /\ lo[k] \in Int
      BY <1>12
    <2>9. hi[j] = h[q[j]] /\ lo[k] = l[p[k]]
      BY <1>10
    <2> DEFINE wide == (T + 1) * W
               wider == (t + 1) * (R * W)
    <2>10. wide <= wider /\ wide \in Int /\ wider \in Int /\ hi[j] - lo[k] + 1 <= wide + E /\ E \in Int
      BY <2>6, <2>7, <2>9
    <2> HIDE DEF wide, wider
    <2>11. hi[j] - lo[k] + 1 <= wider + E
      BY ONLY <2>8, <2>10
    <2> QED
      BY <2>11 DEF wider
  <1>16. ASSUME NEW i \in 1 .. n
         PROVE  /\ \E k \in 1 .. s : i \in lo[k] .. hi[k] /\ pts[k][2] >= line[i][2]
                /\ \E k \in 1 .. s : i \in lo[k] .. hi[k] /\ pts[k][2] <= line[i][2]
    <2>1. ASSUME NEW c \in 1 .. m, i \in l[c] .. h[c], NEW k \in 1 .. s, c \in p[k] .. q[k]
          PROVE  i \in lo[k] .. hi[k]
      <3>1. lo[k] <= l[c] /\ h[c] <= hi[k]
        BY <1>11, <2>1
      <3>2. lo[k] \in Int /\ hi[k] \in Int /\ l[c] \in Int /\ h[c] \in Int
        BY <1>9, <1>12
      <3> QED
        BY ONLY i \in l[c] .. h[c], <3>1, <3>2, Wider
    <2>2. line[i][2] \in Int /\ \A c \in 1 .. m : mid[c][2] \in Int
      BY Levels
    <2>3. \A k \in 1 .. s : pts[k][2] \in Int
      BY <1>5, <1>8, <2>2
    <2>4. PICK c \in 1 .. m : i \in l[c] .. h[c] /\ mid[c][2] >= line[i][2]
      BY <1>1 DEF Summary, Spanning
    <2>5. PICK d \in 1 .. m : i \in l[d] .. h[d] /\ mid[d][2] <= line[i][2]
      BY <1>1 DEF Summary, Spanning
    <2>6. PICK k \in 1 .. s : c \in p[k] .. q[k] /\ pts[k][2] >= mid[c][2]
      BY <1>2 DEF Summary, Spanning
    <2>7. PICK j \in 1 .. s : d \in p[j] .. q[j] /\ pts[j][2] <= mid[d][2]
      BY <1>2 DEF Summary, Spanning
    <2>8. i \in lo[k] .. hi[k] /\ i \in lo[j] .. hi[j]
      BY <2>1, <2>4, <2>5, <2>6, <2>7
    <2>9. pts[k][2] >= line[i][2]
      BY <2>2, <2>3, <2>4, <2>6, NotBelow
    <2>10. pts[j][2] <= line[i][2]
      BY <2>2, <2>3, <2>5, <2>7, NotAbove
    <2> QED
      BY <2>8, <2>9, <2>10
  <1>17. Summary(at, lo, hi, pts, line, R * W, E)
    BY <1>3, <1>13, <1>14, <1>15, <1>16 DEF Summary, Spanning
  <1> QED
    BY <1>17 DEF Summarizes

(* A level spans PyramidReduction times what the one below spans. *)
SpanLoop(f, n) == f = [k \in 0 .. n |-> IF k = 0 THEN 2 ELSE PyramidReduction * f[k - 1]]

LEMMA SpanExists ==
  ASSUME NEW n \in Nat
  PROVE  \E f \in [0 .. n -> Nat] : SpanLoop(f, n)
  <1> DEFINE g == [p \in Nat \X (1 .. n) |-> PyramidReduction * p[1]]
  <1>1. PyramidReduction \in Nat
    BY DataStoreAssumption
  <1>2. g \in [Nat \X (1 .. n) -> Nat] /\ \A v \in Nat : \A k \in 1 .. n :
           g[<<v, k>>] = PyramidReduction * v
    BY <1>1
  <1> HIDE DEF g
  <1>3. PICK f \in [0 .. n -> Nat] : Iterates(f, n, 2, g)
    BY <1>2, IterationExists
  <1>4. \A k \in 0 .. n : k # 0 => g[<<f[k - 1], k>>] = PyramidReduction * f[k - 1]
    <2> SUFFICES ASSUME NEW k \in 0 .. n, k # 0
                 PROVE  g[<<f[k - 1], k>>] = PyramidReduction * f[k - 1]
      OBVIOUS
    <2>1. k \in 1 .. n /\ k - 1 \in 0 .. n
      OBVIOUS
    <2>2. f[k - 1] \in Nat
      BY <2>1
    <2> QED
      BY <1>2, <2>1, <2>2
  <1>5. f = [k \in 0 .. n |-> IF k = 0 THEN 2 ELSE g[<<f[k - 1], k>>]]
    BY <1>3 DEF Iterates
  <1> QED
    BY <1>4, <1>5 DEF SpanLoop

LEMMA SpansAgree ==
  ASSUME NEW n \in Nat, NEW m \in Nat, n <= m, NEW f, SpanLoop(f, n), NEW h, SpanLoop(h, m)
  PROVE  \A k \in 0 .. n : f[k] = h[k]
  <1> DEFINE U == {k \in 0 .. n : f[k] = h[k]}
  <1>1. /\ f[0] = 2 /\ h[0] = 2
        /\ \A k \in 1 .. n : f[k] = PyramidReduction * f[k - 1] /\ h[k] = PyramidReduction * h[k - 1]
    <2>1. 0 \in 0 .. n /\ 0 \in 0 .. m
      OBVIOUS
    <2>2. \A k \in 1 .. n : k \in 0 .. n /\ k \in 0 .. m /\ k # 0
      OBVIOUS
    <2> QED
      BY <2>1, <2>2 DEF SpanLoop
  <1>2. 0 \in U
    BY <1>1
  <1>3. ASSUME NEW k \in 1 .. n, k - 1 \in U PROVE k \in U
    BY <1>1, <1>3
  <1>4. 0 .. n \subseteq U
    <2> HIDE DEF U
    <2> QED
      BY <1>2, <1>3, UpToInduction
  <1> QED
    BY <1>4

LEMMA SpannedIs ==
  /\ Spanned(0) = 2
  /\ \A n \in Nat : Spanned(n) \in Nat
  /\ \A n \in Nat \ {0} : Spanned(n) = PyramidReduction * Spanned(n - 1)
  <1> DEFINE span(n) == CHOOSE f : SpanLoop(f, n)
  <1>1. \A n \in Nat : Spanned(n) = span(n)[n]
    BY DEF Spanned, SpanLoop
  <1>2. ASSUME NEW n \in Nat
        PROVE  SpanLoop(span(n), n) /\ span(n) \in [0 .. n -> Nat]
    <2>1. PICK f \in [0 .. n -> Nat] : SpanLoop(f, n)
      BY SpanExists
    <2>2. SpanLoop(span(n), n)
      BY <2>1
    <2> DEFINE h == span(n)
    <2>3. \A k \in 0 .. n : f[k] = h[k]
      <3> HIDE DEF h
      <3>1. SpanLoop(h, n)
        BY <2>2 DEF h
      <3> QED
        BY <2>1, <3>1, SpansAgree
    <2>4. h = [k \in 0 .. n |-> IF k = 0 THEN 2 ELSE PyramidReduction * h[k - 1]]
      BY <2>2 DEF SpanLoop
    <2>5. h \in [0 .. n -> Nat]
      <3> HIDE DEF h
      <3>1. \A k \in 0 .. n : h[k] \in Nat
        BY <2>1, <2>3
      <3>2. DOMAIN h = 0 .. n /\ h = [k \in DOMAIN h |-> h[k]]
        BY <2>4
      <3> QED
        BY <3>1, <3>2
    <2> QED
      BY <2>2, <2>5
  <1> HIDE DEF span
  <1>3. \A n \in Nat : Spanned(n) \in Nat
    <2>1. \A n \in Nat : n \in 0 .. n
      OBVIOUS
    <2> QED
      BY <1>1, <1>2, <2>1
  <1>4. Spanned(0) = 2
    <2>1. span(0)[0] = 2
      <3>1. SpanLoop(span(0), 0) /\ 0 \in 0 .. 0
        BY <1>2
      <3> QED
        BY <3>1 DEF SpanLoop
    <2> QED
      BY <1>1, <2>1
  <1>5. ASSUME NEW n \in Nat \ {0} PROVE Spanned(n) = PyramidReduction * Spanned(n - 1)
    <2> DEFINE f == span(n)
               h == span(n - 1)
    <2>1. n - 1 \in Nat /\ n \in 0 .. n /\ n - 1 \in 0 .. n - 1 /\ n - 1 <= n /\ n # 0
      OBVIOUS
    <2>2. SpanLoop(f, n) /\ SpanLoop(h, n - 1)
      BY <1>2, <2>1
    <2> HIDE DEF f, h
    <2>3. h[n - 1] = f[n - 1]
      BY <2>1, <2>2, SpansAgree
    <2>4. f[n] = PyramidReduction * f[n - 1]
      BY <2>1, <2>2 DEF SpanLoop
    <2>5. Spanned(n) = f[n] /\ Spanned(n - 1) = h[n - 1]
      BY <1>1, <2>1 DEF f, h
    <2> QED
      BY <2>3, <2>4, <2>5
  <1> QED
    BY <1>3, <1>4, <1>5

(* A pyramid level is a summary of what it is built from. *)
LEMMA ReducedSummarizes ==
  ASSUME NEW line, IsLine(line), ~HasGap(line)
  PROVE  Summarizes(Reduced(line), line, 2 * PyramidReduction - 2, 0)
  <1> DEFINE R == PyramidReduction
             n == Len(line)
             nb == Max({1, RoundDiv(n, R)})
  <1>1. R \in Nat \ {0, 1} /\ n \in Nat \ {0}
    BY DataStoreAssumption DEF IsLine
  <1>2. nb \in Nat \ {0}
    BY <1>1, RoundDivType
  <1>3. Reduced(line) = IF n <= 2 * nb THEN line ELSE MinMaxCore(line, nb)
    BY DEF Reduced, MinMaxDownsample
  <1>4. nb = Max({1, RoundDiv(n, R)})
    OBVIOUS
  <1> HIDE DEF nb
  <1>5. CASE n <= 2 * nb
    <2>1. 2 * R - 2 \in Nat /\ 2 * R - 2 >= 2
      BY <1>1
    <2> QED
      BY <1>3, <1>5, <2>1, WholeSummarizes
  <1>6. CASE ~(n <= 2 * nb)
    <2> DEFINE size == n \div nb
               count == n \div size
    <2>1. nb <= n
      BY <1>1, <1>2, <1>6
    <2>2. size <= 2 * R - 2
      BY <1>1, <1>4, <2>1, BucketSize
    <2>3. n - (count - 1) * size <= 2 * R - 2
      <3>1. size = n \div nb /\ count = n \div size
        OBVIOUS
      <3> HIDE DEF size, count
      <3> QED
        BY <1>1, <1>4, <1>6, <3>1, LastBucket
    <2>4. Summarizes(MinMaxCore(line, nb), line, 2 * R - 2, 0)
      <3>1. size = n \div nb /\ count = n \div size /\ 2 * R - 2 \in Nat
            /\ n - (count - 1) * size <= 2 * R - 2 + 0
        BY <1>1, <2>3
      <3> HIDE DEF size, count, R
      <3> QED
        BY <1>2, <2>1, <2>2, <3>1, CoreSummarizes
    <2> QED
      BY <1>3, <1>6, <2>4
  <1> QED
    BY <1>5, <1>6 DEF R

LEMMA StoreSummarizes ==
  ASSUME NEW line, IsLine(line), ~HasGap(line)
  PROVE  Summarizes(StorePyramid(line), line, 2 * PyramidReduction,
                    Len(line) % Max({1, RoundDiv(Len(line), PyramidReduction)}))
  <1> DEFINE R == PyramidReduction
             n == Len(line)
             nb == Max({1, RoundDiv(n, R)})
             size == n \div nb
             rest == n % nb
             W == 2 * R
  <1>1. R \in Nat \ {0, 1} /\ n \in Nat \ {0}
    BY DataStoreAssumption DEF IsLine
  <1>2. nb \in Nat \ {0}
    BY <1>1, RoundDivType
  <1>3. n <= 2 * nb => StorePyramid(line) = line
    BY DEF StorePyramid
  <1>4. nb = Max({1, RoundDiv(n, R)}) /\ n = Len(line) /\ W = 2 * R
    OBVIOUS
  <1> HIDE DEF nb
  <1>5. rest \in Nat /\ W \in Nat /\ W >= 2
    BY <1>1, <1>2
  <1>9. size = n \div nb /\ rest = n % nb
    OBVIOUS
  <1> HIDE DEF W, rest, size
  <1> SUFFICES Summarizes(StorePyramid(line), line, W, rest)
    BY DEF R, n, nb, W, rest
  <1>6. CASE n <= 2 * nb
    <2>1. Summarizes(line, line, W, rest)
      BY <1>5, WholeSummarizes
    <2> QED
      BY <1>3, <1>6, <2>1
  <1>7. CASE ~(n <= 2 * nb)
    <2>1. nb <= n
      BY <1>1, <1>2, <1>7
    <2>2. PICK pairs, lo, hi : /\ Len(pairs) = nb /\ Paired(pairs, lo, hi, line)
                              /\ Even(lo, hi, nb, size, Len(line))
                              /\ StorePyramid(line) = FlattenSeq(pairs)
      BY <1>2, <1>4, <1>7, <1>9, StorePairs
    <2>3. size <= 2 * R - 2 /\ size \in Nat
      BY <1>1, <1>2, <1>4, <1>9, <2>1, BucketSize, Share
    <2> HIDE DEF R, n
    <2>4. n \in Nat \ {0} /\ nb \in Nat \ {0} /\ nb <= n /\ size = n \div nb /\ rest = n % nb
      BY <1>1, <1>2, <1>9, <2>1
    <2>5. n - (nb - 1) * size = size + rest
      <3>1. n = size * nb + rest /\ size \in Int /\ rest \in Int
        BY <2>4
      <3>2. (nb - 1) * size = size * nb - size /\ size * nb \in Int
        BY <2>4, <3>1
      <3> QED
        BY <2>4, <3>1, <3>2
    <2>6. size <= W /\ size + rest <= W + rest
      BY <1>1, <1>4, <1>5, <2>3
    <2>7. /\ Paired(pairs, lo, hi, line) /\ Even(lo, hi, Len(pairs), size, Len(line))
          /\ Len(line) - (Len(pairs) - 1) * size <= W + rest
      BY <1>4, <2>2, <2>5, <2>6
    <2>8. Summarizes(FlattenSeq(pairs), line, W, rest)
      BY <1>5, <2>6, <2>7, PairsSummarize
    <2> QED
      BY <2>2, <2>8
  <1> QED
    BY <1>6, <1>7

LEMMA FoldedType ==
  ASSUME NEW line, IsLine(line)
  PROVE  Folded(line) \in Nat
  <1> DEFINE nb == Max({1, RoundDiv(Len(line), PyramidReduction)})
  <1>1. Len(line) \in Nat /\ PyramidReduction \in Nat \ {0}
    BY DataStoreAssumption DEF IsLine
  <1>2. nb \in Nat \ {0}
    BY <1>1, RoundDivType
  <1>3. Folded(line) = IF OnDisk(line) THEN Len(line) % nb ELSE 0
    BY DEF Folded
  <1> HIDE DEF nb
  <1> QED
    BY <1>1, <1>2, <1>3

LEMMA PyramidSummarizes ==
  ASSUME NEW line, IsLine(line), ~HasGap(line), NEW levels, IsPyramid(line, levels)
  PROVE  \A k \in 1 .. Len(levels) : Summarizes(levels[k], line, Spanned(k), Folded(line))
  <1> DEFINE R == PyramidReduction
             U == {k \in 0 .. Len(levels) : k = 0 \/ Summarizes(levels[k], line, Spanned(k), Folded(line))}
  <1>1. Len(levels) \in Nat /\ \A k \in 1 .. Len(levels) : levels[k] = Rung(line, levels, k)
    BY DEF IsPyramid
  <1>2. R \in Nat \ {0, 1} /\ Folded(line) \in Nat
    BY DataStoreAssumption, FoldedType
  <1>3. 0 \in U
    BY <1>1
  <1>4. ASSUME NEW k \in 1 .. Len(levels), k - 1 \in U PROVE k \in U
    <2>1. k \in 0 .. Len(levels) /\ k \in Nat \ {0}
      BY <1>1
    <2>2. CASE k > 1
      <3>1. k - 1 \in 1 .. Len(levels) /\ k - 1 # 0 /\ k - 1 \in Nat
        BY <1>1, <2>2
      <3>2. Summarizes(levels[k - 1], line, Spanned(k - 1), Folded(line))
        BY <1>4, <3>1
      <3>3. Picks(levels[k - 1], line)
        BY <3>1, PyramidPicks
      <3>4. IsLine(levels[k - 1]) /\ ~HasGap(levels[k - 1])
        BY <3>3, PicksIsLine
      <3>5. levels[k] = Reduced(levels[k - 1])
        BY <1>1, <2>2 DEF Rung
      <3>6. Summarizes(levels[k], levels[k - 1], 2 * R - 2, 0)
        BY <3>4, <3>5, ReducedSummarizes
      <3>7. Spanned(k) = R * Spanned(k - 1) /\ Spanned(k - 1) \in Nat
        BY <2>1, <3>1, SpannedIs
      <3>8. Summarizes(levels[k], line, R * Spanned(k - 1), Folded(line))
        <4>1. R \in Nat \ {0}
          BY <1>2
        <4> HIDE DEF R
        <4> QED
          BY <1>2, <3>2, <3>4, <3>6, <3>7, <4>1, Compose
      <3> QED
        BY <2>1, <3>7, <3>8
    <2>3. CASE ~(k > 1)
      <3>1. k = 1
        BY <1>1, <2>3
      <3>2. levels[1] = IF OnDisk(line) THEN StorePyramid(line) ELSE Reduced(line)
        BY <1>1, <3>1 DEF Rung
      <3>3. Spanned(1) = 2 * R
        <4>1. Spanned(1) = R * Spanned(1 - 1) /\ 1 - 1 = 0
          BY SpannedIs
        <4> QED
          BY <1>2, <4>1, SpannedIs
      <3>4. CASE OnDisk(line)
        <4>1. Folded(line) = Len(line) % Max({1, RoundDiv(Len(line), PyramidReduction)})
          BY <3>4 DEF Folded
        <4> QED
          BY <2>1, <3>1, <3>2, <3>3, <3>4, <4>1, StoreSummarizes
      <3>5. CASE ~OnDisk(line)
        <4>1. Summarizes(levels[1], line, 2 * R - 2, 0)
          BY <3>2, <3>5, ReducedSummarizes
        <4>2. Summarizes(levels[1], line, 2 * R, Folded(line))
          <5>1. 2 * R - 2 \in Nat /\ 2 * R \in Nat /\ 2 * R - 2 <= 2 * R
            BY <1>2
          <5> HIDE DEF R
          <5> QED
            BY <1>2, <4>1, <5>1, WiderSummarizes
        <4> QED
          BY <2>1, <3>1, <3>3, <4>2
      <3> QED
        BY <3>4, <3>5
    <2> QED
      BY <2>2, <2>3
  <1>5. 0 .. Len(levels) \subseteq U
    <2> HIDE DEF U
    <2> QED
      BY <1>1, <1>3, <1>4, UpToInduction
  <1> SUFFICES ASSUME NEW k \in 1 .. Len(levels)
               PROVE  Summarizes(levels[k], line, Spanned(k), Folded(line))
    OBVIOUS
  <1>6. k \in 0 .. Len(levels) /\ k # 0
    BY <1>1
  <1> QED
    BY <1>5, <1>6

-----------------------------------------------------------------------------
(* No sample goes beyond the points. *)
Above(pts, s) == \E k \in 1 .. Len(pts) : pts[k][2] # NaN /\ pts[k][2] >= s[2]
Below(pts, s) == \E k \in 1 .. Len(pts) : pts[k][2] # NaN /\ pts[k][2] <= s[2]
Covers(pts, line) ==
  \A i \in 1 .. Len(line) : line[i][2] # NaN => Above(pts, line[i]) /\ Below(pts, line[i])

LEMMA WholeCovers ==
  ASSUME NEW line, IsLine(line) PROVE Covers(line, line)
  <1> SUFFICES ASSUME NEW i \in 1 .. Len(line), line[i][2] # NaN
               PROVE  Above(line, line[i]) /\ Below(line, line[i])
    BY DEF Covers
  <1>1. line[i][2] \in Int
    BY DEF IsLine, Sample
  <1>2. line[i][2] >= line[i][2] /\ line[i][2] <= line[i][2]
    BY <1>1
  <1> QED
    BY <1>2 DEF Above, Below

LEMMA SummaryCovers ==
  ASSUME NEW line, IsLine(line), ~HasGap(line), NEW pts, NEW W, NEW E, Summarizes(pts, line, W, E)
  PROVE  Covers(pts, line)
  <1>1. PICK at, lo, hi : Summary(at, lo, hi, pts, line, W, E)
    BY DEF Summarizes
  <1>2. \A k \in 1 .. Len(pts) : pts[k][2] # NaN
    <2> SUFFICES ASSUME NEW k \in 1 .. Len(pts) PROVE pts[k][2] # NaN
      OBVIOUS
    <2>1. lo[k] \in 1 .. Len(line) /\ hi[k] \in lo[k] .. Len(line) /\ at[k] \in lo[k] .. hi[k]
          /\ pts[k] = line[at[k]]
      BY <1>1 DEF Summary, Placed
    <2>2. Len(line) \in Int
      BY DEF IsLine
    <2>3. at[k] \in 1 .. Len(line)
      BY ONLY <2>1, <2>2, InBounds
    <2>4. line[at[k]][2] \in Int
      BY <2>3, Levels
    <2> QED
      BY <2>1, <2>4, NaNAssumption
  <1> SUFFICES ASSUME NEW i \in 1 .. Len(line)
               PROVE  Above(pts, line[i]) /\ Below(pts, line[i])
    BY DEF Covers
  <1>3. /\ \E k \in 1 .. Len(pts) : i \in lo[k] .. hi[k] /\ pts[k][2] >= line[i][2]
        /\ \E k \in 1 .. Len(pts) : i \in lo[k] .. hi[k] /\ pts[k][2] <= line[i][2]
    BY <1>1 DEF Summary, Spanning
  <1> QED
    BY <1>2, <1>3 DEF Above, Below

LEMMA CoreCovers ==
  ASSUME NEW line, IsLine(line), ~HasGap(line), NEW nb \in Nat \ {0}, nb <= Len(line)
  PROVE  Covers(MinMaxCore(line, nb), line)
  <1> DEFINE n == Len(line)
             size == n \div nb
             count == n \div size
  <1>1. n \in Nat \ {0} /\ size = n \div nb /\ count = n \div size
    BY DEF IsLine
  <1>2. size \in Nat \ {0} /\ size <= n
    BY <1>1, Share
  <1> HIDE DEF size
  <1>3. count \in Nat \ {0}
    BY <1>1, <1>2, Share
  <1> HIDE DEF count
  <1>4. n - (count - 1) * size <= n + 0
    <2>1. (count - 1) * size \in Nat
      BY <1>2, <1>3
    <2> HIDE DEF n
    <2> QED
      BY <1>1, <2>1
  <1>5. Summarizes(MinMaxCore(line, nb), line, n, 0)
    <2>1. n \in Nat /\ 0 \in Nat
      BY <1>1
    <2> QED
      BY <1>1, <1>2, <1>4, <2>1, CoreSummarizes
  <1> QED
    BY <1>5, SummaryCovers

(* What is in a piece is in the whole. *)
HoldsPieces(r, seqs) ==
  \A k \in 1 .. Len(seqs) : \A u \in 1 .. Len(seqs[k]) :
    \E v \in 1 .. Len(r) : r[v] = seqs[k][u]

LEMMA FlattenHolds ==
  ASSUME NEW seqs, Len(seqs) \in Nat \ {0},
         \A i \in 1 .. Len(seqs) : seqs[i] \in Seq(Point),
         NEW r, r = FlattenSeq(seqs)
  PROVE  HoldsPieces(r, seqs)
  <1> SUFFICES ASSUME NEW k \in 1 .. Len(seqs), NEW u \in 1 .. Len(seqs[k])
               PROVE  \E v \in 1 .. Len(r) : r[v] = seqs[k][u]
    BY DEF HoldsPieces
  <1>1. PICK len : Laid(r, seqs, len)
    BY FlattenLaid
  <1>2. /\ len \in [0 .. Len(seqs) -> Nat] /\ len[Len(seqs)] = Len(r)
        /\ len[k] = len[k - 1] + Len(seqs[k]) /\ r[len[k - 1] + u] = seqs[k][u]
    BY <1>1 DEF Laid
  <1>3. k \in 0 .. Len(seqs) /\ k - 1 \in 0 .. Len(seqs) /\ Len(seqs) \in 0 .. Len(seqs)
        /\ k <= Len(seqs)
    OBVIOUS
  <1>4. len[k] <= Len(r)
    BY <1>1, <1>2, <1>3 DEF Laid
  <1>5. len[k - 1] \in Nat /\ len[k] \in Nat /\ Len(r) \in Nat
    BY <1>2, <1>3
  <1>6. Len(seqs[k]) \in Nat
    OBVIOUS
  <1>7. len[k - 1] + u \in 1 .. Len(r)
    <2>1. len[k - 1] + Len(seqs[k]) <= Len(r)
      BY <1>2, <1>4
    <2> QED
      BY ONLY <1>5, <1>6, <2>1, Inside
  <1> QED
    BY <1>2, <1>7

(* A line covered segment by segment. *)
LEMMA BySegmentCovers ==
  ASSUME NEW line, IsLine(line), Valid(line) # 0, NEW parts,
         \A seg : IsLine(seg) /\ ~HasGap(seg) => parts[seg] \in Seq(Point) /\ Covers(parts[seg], seg),
         NEW pts,
         pts = FlattenSeq([k \in DOMAIN Segments(line) |->
                  parts[Segments(line)[k]] \o (IF k < Len(Segments(line)) THEN <<Gap>> ELSE <<>>)])
  PROVE  Covers(pts, line)
  <1> DEFINE segs == Segments(line)
             seqs == [k \in DOMAIN segs |-> parts[segs[k]] \o (IF k < Len(segs) THEN <<Gap>> ELSE <<>>)]
  <1>1. PICK first, end : Runs(line, segs, first, end)
    BY SegmentsAre
  <1>2. pts = FlattenSeq(seqs)
    OBVIOUS
  <1> HIDE DEF segs
  <1>3. DOMAIN segs = 1 .. Len(segs) /\ Len(segs) \in Nat
    BY <1>1 DEF Runs
  <1>4. \A k \in 1 .. Len(segs) : /\ IsLine(segs[k]) /\ ~HasGap(segs[k])
                                  /\ parts[segs[k]] \in Seq(Point) /\ Covers(parts[segs[k]], segs[k])
    BY <1>1, SegmentIsLine
  <1>5. \A k \in 1 .. Len(segs) : /\ seqs[k] \in Seq(Point)
                                  /\ \A u \in 1 .. Len(parts[segs[k]]) :
                                        u \in 1 .. Len(seqs[k]) /\ seqs[k][u] = parts[segs[k]][u]
    <2> SUFFICES ASSUME NEW k \in 1 .. Len(segs)
                 PROVE  /\ seqs[k] \in Seq(Point)
                        /\ \A u \in 1 .. Len(parts[segs[k]]) :
                              u \in 1 .. Len(seqs[k]) /\ seqs[k][u] = parts[segs[k]][u]
      OBVIOUS
    <2> DEFINE a == parts[segs[k]]
               b == IF k < Len(segs) THEN <<Gap>> ELSE <<>>
    <2>1. seqs[k] = a \o b
      BY <1>3
    <2>2. a \in Seq(Point) /\ b \in Seq(Point)
      <3>1. Gap \in Point
        BY DEF Point
      <3>2. <<Gap>> \in Seq(Point) /\ <<>> \in Seq(Point)
        BY <3>1
      <3> QED
        BY <1>4, <3>2
    <2> HIDE DEF a, b, seqs
    <2>3. a \o b \in Seq(Point) /\ \A u \in 1 .. Len(a) : u \in 1 .. Len(a \o b) /\ (a \o b)[u] = a[u]
      BY <2>2
    <2> QED
      BY <2>1, <2>3 DEF a
  <1>6. Len(seqs) = Len(segs)
    BY <1>3
  <1> HIDE DEF seqs
  <1> SUFFICES ASSUME NEW i \in 1 .. Len(line), line[i][2] # NaN
               PROVE  Above(pts, line[i]) /\ Below(pts, line[i])
    BY DEF Covers
  <1>7. PICK k \in 1 .. Len(segs) : i \in first[k] .. end[k]
    BY <1>1 DEF Runs
  <1>8. HoldsPieces(pts, seqs)
    <2>1. Len(seqs) \in Nat \ {0}
      BY <1>3, <1>6, <1>7
    <2>2. \A d \in 1 .. Len(seqs) : seqs[d] \in Seq(Point)
      BY <1>5, <1>6
    <2> QED
      BY ONLY <1>2, <2>1, <2>2, FlattenHolds
  <1> DEFINE seg == segs[k]
             p == first[k]
             q == end[k]
  <1>9. /\ p \in 1 .. Len(line) /\ q \in p .. Len(line) /\ seg = SubSeq(line, p, q)
    BY <1>1 DEF Runs
  <1>10. /\ Len(seg) = q - p + 1 /\ \A j \in 1 .. q - p + 1 : seg[j] = line[p + j - 1]
    <2>1. p \in 1 .. Len(line) /\ q \in p .. Len(line)
      BY <1>9
    <2> HIDE DEF seg, p, q
    <2>2. /\ Len(SubSeq(line, p, q)) = q - p + 1
          /\ \A j \in 1 .. q - p + 1 : SubSeq(line, p, q)[j] = line[p + j - 1]
      BY ONLY <2>1, IsLine(line), PartIsLine
    <2> QED
      BY <1>9, <2>2
  <1>11. PICK j \in 1 .. Len(seg) : seg[j] = line[i]
    <2>1. p \in Int /\ q \in Int
      BY <1>9 DEF IsLine
    <2>2. i - p + 1 \in 1 .. q - p + 1 /\ p + (i - p + 1) - 1 = i
      BY <1>7, <2>1, ShiftedBack
    <2> HIDE DEF seg, p, q
    <2> QED
      BY <1>10, <2>2
  <1>12. Above(parts[seg], line[i]) /\ Below(parts[seg], line[i])
    BY <1>4, <1>11 DEF Covers
  <1>13. \A u \in 1 .. Len(parts[seg]) : \E v \in 1 .. Len(pts) : pts[v] = parts[seg][u]
    <2> SUFFICES ASSUME NEW u \in 1 .. Len(parts[seg])
                 PROVE  \E v \in 1 .. Len(pts) : pts[v] = parts[seg][u]
      OBVIOUS
    <2>1. u \in 1 .. Len(seqs[k]) /\ seqs[k][u] = parts[seg][u]
      BY <1>5
    <2>2. k \in 1 .. Len(seqs)
      BY <1>6
    <2>3. \E v \in 1 .. Len(pts) : pts[v] = seqs[k][u]
      BY ONLY <1>8, <2>1, <2>2 DEF HoldsPieces
    <2> QED
      BY <2>1, <2>3
  <1> HIDE DEF seg
  <1>14. Above(pts, line[i])
    BY ONLY <1>12, <1>13 DEF Above
  <1>15. Below(pts, line[i])
    BY ONLY <1>12, <1>13 DEF Below
  <1> QED
    BY <1>14, <1>15

(* minmax_downsample leaves out no extreme. *)
LEMMA MinMaxCovers ==
  ASSUME NEW line, IsLine(line), NEW nb \in Nat \ {0}, NEW hasNaN, hasNaN \/ ~HasGap(line)
  PROVE  Covers(MinMaxDownsample(line, nb, hasNaN), line)
  <1> DEFINE Fit(seg, share) == IF Len(seg) <= 2 * share THEN seg ELSE MinMaxCore(seg, share)
             Part(seg) == Fit(seg, Max({1, RoundDiv(nb * Len(seg), Valid(line))}))
             parts == [seg \in Seq(Sample) |-> Part(seg)]
             segs == Segments(line)
             pts == FlattenSeq([k \in DOMAIN segs |->
                       Part(segs[k]) \o (IF k < Len(segs) THEN <<Gap>> ELSE <<>>)])
  <1>1. MinMaxDownsample(line, nb, hasNaN) =
          IF ~hasNaN THEN Fit(line, nb) ELSE IF Valid(line) <= 2 * nb THEN line ELSE pts
    BY DEF MinMaxDownsample, BySegment
  <1>2. ASSUME NEW seg, IsLine(seg), ~HasGap(seg), NEW share \in Nat \ {0}
        PROVE  Fit(seg, share) \in Seq(Point) /\ Covers(Fit(seg, share), seg)
    <2>1. CASE Len(seg) <= 2 * share
      <3>1. Picks(seg, seg) /\ Covers(seg, seg)
        BY <1>2, WholePicks, WholeCovers
      <3> QED
        BY <2>1, <3>1 DEF Picks, Traces
    <2>2. CASE ~(Len(seg) <= 2 * share)
      <3>1. share <= Len(seg)
        BY <1>2, <2>2 DEF IsLine
      <3>2. Picks(MinMaxCore(seg, share), seg) /\ Covers(MinMaxCore(seg, share), seg)
        BY <1>2, <3>1, MinMaxCorePicks, CoreCovers
      <3> QED
        BY <2>2, <3>2 DEF Picks, Traces
    <2> QED
      BY <2>1, <2>2
  <1> HIDE DEF Fit
  <1>3. CASE ~hasNaN
    BY <1>1, <1>2, <1>3
  <1>4. CASE hasNaN /\ Valid(line) <= 2 * nb
    BY <1>1, <1>4, WholeCovers
  <1>5. CASE hasNaN /\ ~(Valid(line) <= 2 * nb)
    <2>1. Valid(line) \in Nat \ {0}
      <3>1. Valid(line) \in Nat
        BY ValidCount
      <3> QED
        BY <1>5, <3>1
    <2>2. \A seg : IsLine(seg) /\ ~HasGap(seg) => parts[seg] \in Seq(Point) /\ Covers(parts[seg], seg)
      <3> SUFFICES ASSUME NEW seg, IsLine(seg), ~HasGap(seg)
                   PROVE  parts[seg] \in Seq(Point) /\ Covers(parts[seg], seg)
        OBVIOUS
      <3> DEFINE share == Max({1, RoundDiv(nb * Len(seg), Valid(line))})
      <3>1. share \in Nat \ {0}
        <4>1. nb * Len(seg) \in Nat
          BY DEF IsLine
        <4> QED
          BY <2>1, <4>1, RoundDivType
      <3>2. parts[seg] = Fit(seg, share)
        BY DEF IsLine
      <3> HIDE DEF share, parts
      <3> QED
        BY <1>2, <3>1, <3>2
    <2>3. pts = FlattenSeq([k \in DOMAIN segs |->
                   parts[segs[k]] \o (IF k < Len(segs) THEN <<Gap>> ELSE <<>>)])
      <3>1. \A k \in DOMAIN segs : parts[segs[k]] = Part(segs[k])
        <4>1. \A k \in DOMAIN segs : segs[k] \in Seq(Sample)
          BY SegmentsType
        <4> HIDE DEF Part, segs
        <4> QED
          BY <4>1
      <3> HIDE DEF parts, Part, segs
      <3>2. [k \in DOMAIN segs |-> parts[segs[k]] \o (IF k < Len(segs) THEN <<Gap>> ELSE <<>>)]
              = [k \in DOMAIN segs |-> Part(segs[k]) \o (IF k < Len(segs) THEN <<Gap>> ELSE <<>>)]
        BY <3>1
      <3> QED
        BY <3>2
    <2>4. Covers(pts, line)
      <3> HIDE DEF parts, pts
      <3>1. Valid(line) # 0
        BY <2>1
      <3> QED
        BY <2>2, <2>3, <3>1, BySegmentCovers DEF segs
    <2> QED
      BY <1>1, <1>5, <2>4
  <1> QED
    BY <1>3, <1>4, <1>5

(* A window holds the samples within the limits. *)
LEMMA WindowHolds ==
  ASSUME NEW line, IsLine(line), NEW lim \in View, NEW i \in 1 .. Len(line), InView(line[i], lim)
  PROVE  \E k \in 1 .. Len(Window(line, lim)) : Window(line, lim)[k] = line[i]
  <1> DEFINE n == Len(line)
             a == SearchLeft(Xs(line), lim[1])
             b == SearchRight(Xs(line), lim[2])
             from == Max({1, a - 1})
             to == Min({n, b + 1})
  <1>1. lim[1] \in Int /\ lim[2] \in Int /\ lim[1] <= line[i][1] /\ line[i][1] <= lim[2]
        /\ line[i][1] \in Int
    BY DEF View, InView, IsLine
  <1>2. Leftmost(line, lim[1], a) /\ Rightmost(line, lim[2], b)
    <2>1. Leftmost(line, lim[1], a)
      BY <1>1, SearchedLeft, Zenon
    <2>2. Rightmost(line, lim[2], b)
      BY <1>1, SearchedRight, Zenon
    <2> QED
      BY <2>1, <2>2
  <1> HIDE DEF a, b
  <1>3. /\ a \in 1 .. n /\ b \in 1 .. n /\ n \in Nat
        /\ \A j \in 1 .. a - 1 : line[j][1] < lim[1]
        /\ \A j \in b + 1 .. n : line[j][1] > lim[2]
    BY <1>2 DEF Leftmost, Rightmost, IsLine
  <1>4. Window(line, lim) = SubSeq(line, from, to)
    BY DEF Window, a, b
  <1>5. /\ from = (IF 1 >= a - 1 THEN 1 ELSE a - 1)
        /\ to = (IF n <= b + 1 THEN n ELSE b + 1)
    <2>1. 1 \in Int /\ a - 1 \in Int /\ n \in Int /\ b + 1 \in Int
      BY <1>3
    <2> HIDE DEF n
    <2> QED
      BY <2>1, Max2, Min2
  <1> HIDE DEF from, to
  <1>6. a <= i /\ i <= b
    <2>1. i \in 1 .. a - 1 => FALSE
      BY <1>1, <1>3
    <2>2. i \in b + 1 .. n => FALSE
      BY <1>1, <1>3
    <2>3. i \in 1 .. n
      OBVIOUS
    <2> HIDE DEF n
    <2> QED
      BY <1>3, <2>1, <2>2, <2>3
  <1>7. from \in 1 .. n /\ to \in from .. n /\ i \in from .. to /\ from \in Int /\ to \in Int
    <2>1. i \in 1 .. n
      OBVIOUS
    <2> HIDE DEF n
    <2> QED
      BY <1>3, <1>5, <1>6, <2>1
  <1>8. /\ Len(Window(line, lim)) = to - from + 1
        /\ \A j \in 1 .. to - from + 1 : Window(line, lim)[j] = line[from + j - 1]
    BY <1>4, <1>7, PartIsLine
  <1>9. i - from + 1 \in 1 .. to - from + 1 /\ from + (i - from + 1) - 1 = i
    BY <1>7, ShiftedBack
  <1> QED
    BY <1>8, <1>9

(* So does what is read from a store. *)
LEMMA VisibleHolds ==
  ASSUME NEW line, IsLine(line), NEW lim \in View, NEW i \in 1 .. Len(line), InView(line[i], lim)
  PROVE  Visible(line, lim) = Window(line, lim)
  <1>1. CASE ~OnDisk(line)
    BY <1>1 DEF Visible
  <1>2. CASE OnDisk(line)
    <2> DEFINE store == Store(line)
    <2>1. PICK first, end : Cuts(store, line, first, end)
      BY StoreCuts
    <2> HIDE DEF store
    <2>2. lim \in Int \X Int /\ lim[1] <= lim[2] /\ lim[1] \in Int /\ lim[2] \in Int
      BY DEF View
    <2>3. lim[1] <= line[i][1] /\ line[i][1] <= lim[2] /\ line[i][1] \in Int /\ i \in Int
      BY DEF InView, IsLine
    <2>4. \/ \E c \in 1 .. Len(store) - 1 : store[c].xmax < lim[1] /\ lim[2] < store[c + 1].xmin
          \/ lim[2] < store[1].xmin
          \/ lim[1] > store[Len(store)].xmax
          \/ GetRange(store, lim) = Window(line, lim)
      BY <2>1, <2>2, RangeAnswers
    <2>5. /\ Len(store) \in Nat \ {0} /\ first[1] = 1 /\ end[Len(store)] = Len(line)
          /\ \A c \in 1 .. Len(store) : /\ store[c].xmin = line[first[c]][1]
                                       /\ store[c].xmax = line[end[c]][1]
                                       /\ first[c] \in 1 .. Len(line) /\ end[c] \in 1 .. Len(line)
          /\ \A c \in 1 .. Len(store) - 1 : first[c + 1] = end[c] + 1
      BY <2>1 DEF Cuts
    <2>6. \A j \in 1 .. Len(line) : /\ line[j][1] \in Int /\ j \in Int
                                   /\ (i <= j => line[i][1] <= line[j][1])
                                   /\ (j <= i => line[j][1] <= line[i][1])
      BY DEF IsLine
    <2>7. ASSUME NEW c \in 1 .. Len(store) - 1, store[c].xmax < lim[1], lim[2] < store[c + 1].xmin
          PROVE  FALSE
      <3>1. c \in 1 .. Len(store) /\ c + 1 \in 1 .. Len(store)
        BY <2>5
      <3>2. first[c + 1] = end[c] + 1 /\ end[c] \in 1 .. Len(line) /\ first[c + 1] \in 1 .. Len(line)
        BY <2>5, <3>1
      <3>3. i <= end[c] \/ first[c + 1] <= i
        BY <2>3, <2>6, <3>2
      <3>4. line[end[c]][1] < lim[1] /\ lim[2] < line[first[c + 1]][1]
        BY <2>5, <2>7, <3>1
      <3>5. /\ line[end[c]][1] \in Int /\ line[first[c + 1]][1] \in Int
            /\ (i <= end[c] => line[i][1] <= line[end[c]][1])
            /\ (first[c + 1] <= i => line[first[c + 1]][1] <= line[i][1])
        BY <2>6, <3>2
      <3> DEFINE here == line[i][1]
                 left == line[end[c]][1]
                 right == line[first[c + 1]][1]
      <3>6. /\ here \in Int /\ left \in Int /\ right \in Int
            /\ lim[1] \in Int /\ lim[2] \in Int /\ lim[1] <= here /\ here <= lim[2]
            /\ left < lim[1] /\ lim[2] < right /\ (here <= left \/ right <= here)
        BY <2>2, <2>3, <3>3, <3>4, <3>5
      <3> HIDE DEF here, left, right
      <3> QED
        BY ONLY <3>6
    <2>8. ~(lim[2] < store[1].xmin)
      <3>1. 1 \in 1 .. Len(store) /\ store[1].xmin = line[1][1] /\ 1 \in 1 .. Len(line) /\ 1 <= i
        BY <2>5
      <3>2. line[1][1] <= line[i][1] /\ line[1][1] \in Int
        BY <2>6, <3>1
      <3> QED
        BY <2>2, <2>3, <3>1, <3>2
    <2>9. ~(lim[1] > store[Len(store)].xmax)
      <3>1. Len(store) \in 1 .. Len(store) /\ Len(line) \in 1 .. Len(line) /\ i <= Len(line)
        BY <2>5 DEF IsLine
      <3>2. store[Len(store)].xmax = line[Len(line)][1]
        BY <2>5, <3>1
      <3>3. line[i][1] <= line[Len(line)][1] /\ line[Len(line)][1] \in Int
        BY <2>6, <3>1
      <3> QED
        BY <2>2, <2>3, <3>2, <3>3
    <2>10. GetRange(store, lim) = Window(line, lim)
      BY <2>4, <2>7, <2>8, <2>9
    <2> QED
      BY <1>2, <2>10 DEF Visible, store
  <1> QED
    BY <1>1, <1>2

(* A sample outside the limits, less than d samples away, goes as far. *)
OutsideAbove(line, lim, i, d) ==
  \E j \in 1 .. Len(line) : /\ i - d < j /\ j < i + d /\ ~InView(line[j], lim)
                            /\ line[j][2] # NaN /\ line[j][2] >= line[i][2]
OutsideBelow(line, lim, i, d) ==
  \E j \in 1 .. Len(line) : /\ i - d < j /\ j < i + d /\ ~InView(line[j], lim)
                            /\ line[j][2] # NaN /\ line[j][2] <= line[i][2]

(* What covers the window of a summary. *)
LEMMA SummaryReaches ==
  ASSUME NEW line, IsLine(line), ~HasGap(line), NEW source, IsLine(source), ~HasGap(source),
         NEW W \in Nat, NEW E \in Nat, Summarizes(source, line, W, E), NEW lim \in View,
         NEW pts, \A k \in 1 .. Len(pts) : pts[k] \in Point, Covers(pts, Window(source, lim)),
         NEW i \in 1 .. Len(line)
  PROVE  /\ Above(pts, line[i]) \/ OutsideAbove(line, lim, i, W + E)
         /\ Below(pts, line[i]) \/ OutsideBelow(line, lim, i, W + E)
  <1> DEFINE n == Len(line)
             m == Len(source)
             part == Window(source, lim)
  <1>1. PICK at, lo, hi : Summary(at, lo, hi, source, line, W, E)
    BY DEF Summarizes
  <1>2. n \in Nat \ {0} /\ m \in Nat \ {0} /\ line[i][2] \in Int /\ i \in Int
    BY Levels DEF IsLine
  <1>3. ASSUME NEW k \in 1 .. m, i \in lo[k] .. hi[k], ~InView(source[k], lim)
        PROVE  \E j \in 1 .. n : /\ i - (W + E) < j /\ j < i + (W + E) /\ ~InView(line[j], lim)
                                 /\ line[j][2] # NaN /\ line[j] = source[k]
    <2>1. lo[k] \in 1 .. n /\ hi[k] \in lo[k] .. n /\ at[k] \in lo[k] .. hi[k] /\ source[k] = line[at[k]]
      BY <1>1 DEF Summary, Placed
    <2>2. at[k] \in 1 .. n
      <3>1. n \in Int
        BY <1>2
      <3> HIDE DEF n
      <3> QED
        BY ONLY <2>1, <3>1, InBounds
    <2>3. hi[k] - lo[k] + 1 <= (0 + 1) * W + E
      <3>1. k <= k /\ k - k <= 2 * 0 /\ 0 \in Nat
        BY <1>2
      <3> QED
        BY <1>1, <3>1 DEF Summary, Narrow
    <2>4. i - (W + E) < at[k] /\ at[k] < i + (W + E)
      <3> DEFINE x == lo[k]
                 y == hi[k]
                 z == at[k]
      <3>1. x \in Int /\ y \in Int /\ z \in Int /\ x <= z /\ z <= y /\ x <= i /\ i <= y
        <4>1. n \in Int
          BY <1>2
        <4> HIDE DEF n
        <4> QED
          BY <1>3, <2>1, <4>1
      <3>2. y - x + 1 <= W + E
        BY <2>3
      <3> HIDE DEF x, y, z
      <3>3. i - (W + E) < z /\ z < i + (W + E)
        BY <1>2, <3>1, <3>2
      <3> QED
        BY <3>3 DEF z
    <2>5. line[at[k]][2] # NaN
      <3>1. line[at[k]][2] \in Int
        BY <2>2, Levels
      <3> QED
        BY <3>1, NaNAssumption
    <2> QED
      BY <1>3, <2>1, <2>2, <2>4, <2>5
  <1>4. ASSUME NEW k \in 1 .. m, InView(source[k], lim)
        PROVE  Above(pts, source[k]) /\ Below(pts, source[k])
    <2>1. PICK u \in 1 .. Len(part) : part[u] = source[k]
      BY <1>4, WindowHolds
    <2>2. source[k][2] # NaN
      <3>1. source[k][2] \in Int
        BY Levels
      <3> QED
        BY <3>1, NaNAssumption
    <2> QED
      BY <2>1, <2>2 DEF Covers
  <1>5. \A k \in 1 .. m : source[k][2] \in Int
    BY Levels
  <1>6. \A k \in 1 .. Len(pts) : pts[k][2] # NaN => pts[k][2] \in Int
    BY DEF Point, Sample, Gap
  <1>7. Above(pts, line[i]) \/ OutsideAbove(line, lim, i, W + E)
    <2>1. PICK k \in 1 .. m : i \in lo[k] .. hi[k] /\ source[k][2] >= line[i][2]
      BY <1>1 DEF Summary, Spanning
    <2>2. CASE InView(source[k], lim)
      <3>1. PICK v \in 1 .. Len(pts) : pts[v][2] # NaN /\ pts[v][2] >= source[k][2]
        BY <1>4, <2>2 DEF Above
      <3>2. pts[v][2] >= line[i][2]
        BY <1>2, <1>5, <1>6, <2>1, <3>1, NotBelow
      <3> QED
        BY <3>1, <3>2 DEF Above
    <2>3. CASE ~InView(source[k], lim)
      BY <1>3, <2>1, <2>3 DEF OutsideAbove
    <2> QED
      BY <2>2, <2>3
  <1>8. Below(pts, line[i]) \/ OutsideBelow(line, lim, i, W + E)
    <2>1. PICK k \in 1 .. m : i \in lo[k] .. hi[k] /\ source[k][2] <= line[i][2]
      BY <1>1 DEF Summary, Spanning
    <2>2. CASE InView(source[k], lim)
      <3>1. PICK v \in 1 .. Len(pts) : pts[v][2] # NaN /\ pts[v][2] <= source[k][2]
        BY <1>4, <2>2 DEF Below
      <3>2. pts[v][2] <= line[i][2]
        BY <1>2, <1>5, <1>6, <2>1, <3>1, NotAbove
      <3> QED
        BY <3>1, <3>2 DEF Below
    <2>3. CASE ~InView(source[k], lim)
      BY <1>3, <2>1, <2>3 DEF OutsideBelow
    <2> QED
      BY <2>2, <2>3
  <1> QED
    BY <1>7, <1>8

(* The points of a reduced part. *)
LEMMA FitCovers ==
  ASSUME NEW part, IsLine(part), NEW gaps, gaps \/ ~HasGap(part), NEW width \in Nat \ {0},
         NEW pts, pts = part \/ pts = Downsample(part, gaps, "minmax", width)
  PROVE  Covers(pts, part) /\ \A k \in 1 .. Len(pts) : pts[k] \in Point
  <1>1. Downsample(part, gaps, "minmax", width) = MinMaxDownsample(part, width, gaps)
    BY DEF Downsample
  <1>2. Covers(pts, part)
    BY <1>1, WholeCovers, MinMaxCovers
  <1>3. Draws(pts, part)
    BY WholeDraws, DownsampleDraws
  <1>4. pts \in Seq(Point) /\ Len(pts) \in Nat
    BY <1>3 DEF Draws, Traces
  <1> QED
    BY <1>2, <1>4, ElementOfSeq

(* What updateLines shows leaves no extreme of the view out. *)
LEMMA LinesCover ==
  ASSUME NEW line, IsLine(line), NEW lim \in View, NEW width \in Nat \ {0},
         NEW p, IsPyramid(line, p),
         NEW new, new = Lines(line, "minmax", lim, width, p), new.level = 0 \/ ~HasGap(line),
         NEW i \in 1 .. Len(line), InView(line[i], lim), line[i][2] # NaN
  PROVE  \/ Above(new.points, line[i]) /\ Below(new.points, line[i])
         \/ /\ new.level > 0
            /\ \/ Above(new.points, line[i])
               \/ OutsideAbove(line, lim, i, Spanned(new.level) + Folded(line))
            /\ \/ Below(new.points, line[i])
               \/ OutsideBelow(line, lim, i, Spanned(new.level) + Folded(line))
  <1> DEFINE vis == Visible(line, lim)
             level == LevelFor(line, lim, width)
             built == IF level = 0 THEN p ELSE BuildPyramid(line, p, level)
             Fit(source) == IF Len(source) <= MinPoints THEN source
                            ELSE Downsample(source, HasGap(line), "minmax", width)
  <1>1. CASE IsStatic(line)
    <2>1. new.points = line
      BY <1>1 DEF Lines
    <2>2. Covers(line, line)
      BY WholeCovers
    <2> QED
      BY <2>1, <2>2 DEF Covers
  <1>2. CASE ~IsStatic(line)
    <2>1. new = [points |-> Fit(IF level = 0 THEN vis ELSE Window(built[level], lim)),
                 level |-> level, pyramid |-> built]
      BY <1>2 DEF Lines, LevelFor
    <2>2. new.level = level /\ new.points = Fit(IF level = 0 THEN vis ELSE Window(built[level], lim))
      <3> HIDE DEF level, built, vis, Fit
      <3> QED
        BY <2>1
    <2>3. level \in Nat
      BY LevelForType
    <2> HIDE DEF vis, level
    <2>4. \A source : Fit(source) = source \/ Fit(source) = Downsample(source, HasGap(line), "minmax", width)
      OBVIOUS
    <2> HIDE DEF Fit
    <2>5. CASE level = 0
      <3> DEFINE part == Window(line, lim)
      <3>1. vis = part
        BY VisibleHolds DEF vis
      <3>2. PartOf(part, line)
        BY WindowIsPart
      <3>3. new.points = part \/ new.points = Downsample(part, HasGap(line), "minmax", width)
        BY <2>2, <2>4, <2>5, <3>1
      <3>4. PICK k \in 1 .. Len(part) : part[k] = line[i]
        BY WindowHolds
      <3> HIDE DEF part
      <3>5. IsLine(part) /\ (HasGap(line) \/ ~HasGap(part))
        BY <3>2, PartSamples
      <3>6. Covers(new.points, part)
        BY <3>3, <3>5, FitCovers
      <3>7. Above(new.points, line[i]) /\ Below(new.points, line[i])
        BY <3>4, <3>6 DEF Covers
      <3> QED
        BY <3>7
    <2>6. CASE level # 0
      <3> DEFINE source == built[level]
                 part == Window(source, lim)
                 W == Spanned(level)
                 E == Folded(line)
      <3>1. ~HasGap(line)
        BY <2>2, <2>6
      <3>2. IsPyramid(line, built) /\ level \in 1 .. Len(built)
        <4>1. built = BuildPyramid(line, p, level)
          BY <2>6
        <4> HIDE DEF built
        <4>2. IsPyramid(line, built) /\ level <= Len(built)
          BY <2>3, <4>1, BuildIsPyramid
        <4> QED
          BY <2>3, <2>6, <4>2 DEF IsPyramid
      <3>3. new.points = Fit(part)
        BY <2>2, <2>6
      <3> HIDE DEF built
      <3>4. Picks(source, line)
        BY <3>1, <3>2, PyramidPicks
      <3>5. IsLine(source) /\ ~HasGap(source)
        BY <3>1, <3>4, PicksIsLine
      <3>6. Summarizes(source, line, W, E)
        BY <3>1, <3>2, PyramidSummarizes
      <3>7. W \in Nat /\ E \in Nat
        BY <2>3, SpannedIs, FoldedType
      <3>8. PartOf(part, source)
        <4> HIDE DEF source
        <4> QED
          BY <3>5, WindowIsPart
      <3>12. part = Window(source, lim)
        OBVIOUS
      <3> HIDE DEF source, part, W, E
      <3>9. new.points = part \/ new.points = Downsample(part, HasGap(line), "minmax", width)
        BY <2>4, <3>3
      <3>10. IsLine(part) /\ ~HasGap(part)
        BY <3>5, <3>8, PartSamples
      <3>11. Covers(new.points, part) /\ \A k \in 1 .. Len(new.points) : new.points[k] \in Point
        BY <3>9, <3>10, FitCovers
      <3>13. /\ Above(new.points, line[i]) \/ OutsideAbove(line, lim, i, W + E)
             /\ Below(new.points, line[i]) \/ OutsideBelow(line, lim, i, W + E)
        BY <3>1, <3>5, <3>6, <3>7, <3>11, <3>12, SummaryReaches
      <3>14. new.level = level /\ level > 0
        BY <2>2, <2>3, <2>6
      <3> QED
        BY <3>13, <3>14 DEF W, E
    <2> QED
      BY <2>5, <2>6
  <1> QED
    BY <1>1, <1>2

(* What refineLines shows leaves no extreme of the line out. *)
LEMMA RefinedCovers ==
  ASSUME NEW line, IsLine(line), method = "minmax", NEW width \in Nat \ {0}, NEW p, IsPyramid(line, p),
         OnDisk(line) => ~HasGap(line),
         NEW i \in 1 .. Len(line), line[i][2] # NaN
  PROVE  /\ Above(Refined(line, BuildPyramid(line, p, 1), width), line[i])
         /\ Below(Refined(line, BuildPyramid(line, p, 1), width), line[i])
  <1> DEFINE built == BuildPyramid(line, p, 1)
             pts == Refined(line, built, width)
  <1>1. IsPyramid(line, built) /\ 1 <= Len(built)
    BY BuildIsPyramid
  <1> HIDE DEF built
  <1>2. CASE OnDisk(line)
    <2> DEFINE source == built[1]
    <2>1. 1 \in 1 .. Len(built)
      BY <1>1 DEF IsPyramid
    <2>2. Picks(source, line)
      BY <1>1, <1>2, <2>1, PyramidPicks
    <2>3. IsLine(source) /\ ~HasGap(source)
      BY <1>2, <2>2, PicksIsLine
    <2>4. Covers(source, line)
      <3>1. Summarizes(source, line, Spanned(1), Folded(line))
        BY <1>1, <1>2, <2>1, PyramidSummarizes
      <3> HIDE DEF source
      <3> QED
        BY <1>2, <3>1, SummaryCovers
    <2>5. pts = Downsample(source, HasGap(line), "minmax", width)
      BY <1>2 DEF Refined
    <2> HIDE DEF source, pts
    <2>6. Covers(pts, source) /\ \A k \in 1 .. Len(pts) : pts[k] \in Point
      BY <2>3, <2>5, FitCovers
    <2>7. \A k \in 1 .. Len(source) : source[k][2] \in Int /\ source[k][2] # NaN
      BY <2>3, Levels, NaNAssumption
    <2>8. \A k \in 1 .. Len(pts) : pts[k][2] # NaN => pts[k][2] \in Int
      BY <2>6 DEF Point, Sample, Gap
    <2>9. line[i][2] \in Int
      BY <1>2, Levels
    <2>10. Above(pts, line[i])
      <3>1. PICK k \in 1 .. Len(source) : source[k][2] >= line[i][2]
        BY <2>4 DEF Covers, Above
      <3>2. PICK v \in 1 .. Len(pts) : pts[v][2] # NaN /\ pts[v][2] >= source[k][2]
        BY <2>6, <2>7 DEF Covers, Above
      <3>3. pts[v][2] >= line[i][2]
        BY <2>7, <2>8, <2>9, <3>1, <3>2, NotBelow
      <3> QED
        BY <3>2, <3>3 DEF Above
    <2>11. Below(pts, line[i])
      <3>1. PICK k \in 1 .. Len(source) : source[k][2] <= line[i][2]
        BY <2>4 DEF Covers, Below
      <3>2. PICK v \in 1 .. Len(pts) : pts[v][2] # NaN /\ pts[v][2] <= source[k][2]
        BY <2>6, <2>7 DEF Covers, Below
      <3>3. pts[v][2] <= line[i][2]
        BY <2>7, <2>8, <2>9, <3>1, <3>2, NotAbove
      <3> QED
        BY <3>2, <3>3 DEF Below
    <2> QED
      BY <2>10, <2>11 DEF pts, built
  <1>3. CASE ~OnDisk(line)
    <2>1. pts = Downsample(line, HasGap(line), "minmax", width)
      BY <1>3 DEF Refined
    <2>2. HasGap(line) \/ ~HasGap(line)
      OBVIOUS
    <2> HIDE DEF pts
    <2>3. Covers(pts, line)
      BY <2>1, <2>2, FitCovers
    <2> QED
      BY <2>3 DEF Covers, pts, built
  <1> QED
    BY <1>2, <1>3

-----------------------------------------------------------------------------
(* What follows from it. *)

(* The line is computed for the limits and the width in force, but for the *)
(* exceptions that ViewFresh names.                                        *)
THEOREM PlotViewFresh ==
  Spec => []ViewFresh
  <1>1. Inv => ViewFresh
    BY DEF Inv, CachedLimits, DrawnLimits, ViewFresh
  <1> QED
    BY <1>1, PlotInvariant, PTL

(* The markers are those of the samples and the view in force: the cache   *)
(* that is keyed by the view alone never keeps markers of other samples.   *)
THEOREM PlotMarkersFresh ==
  Spec => []MarkersFresh
  <1>1. Inv => MarkersFresh
    <2> SUFFICES ASSUME Inv, visible, marked.by \in {"update", "refine"}, ~deferred, behind = "no"
                 PROVE  markers = Markers(data, IF marked.by = "refine"
                                   THEN Refined(data, BuildPyramid(data, pyramid, 1), marked.pw)
                                   ELSE Lines(data, method, xlim, pw, pyramid).points, xlim, pw)
      BY DEF MarkersFresh
    <2>1. PICK lim \in View :
            /\ lim = cachedXLim
            /\ markers = Markers(data, IF marked.by = "refine"
                                       THEN Refined(data, BuildPyramid(data, pyramid, 1), marked.pw)
                                       ELSE Lines(data, method, lim, pw, pyramid).points, lim, pw)
      BY DEF Inv, MarkedView
    <2>2. lim = xlim
      BY <2>1 DEF Inv, CachedLimits
    <2> QED
      BY <2>1, <2>2
  <1> QED
    BY <1>1, PlotInvariant, PTL

(* A store, wherever its chunks are cut, is read like the line in memory. *)
THEOREM PlotStoreReads ==
  Spec => []StoreReads
  <1>1. Inv => StoreReads
    <2> SUFFICES ASSUME Inv PROVE StoreReads
      OBVIOUS
    <2>1. IsLine(data)
      BY DatasetsAreLines DEF Inv, Types
    <2>2. xlim \in Int \X Int /\ xlim[1] <= xlim[2] /\ xlim[1] \in Int /\ xlim[2] \in Int
      BY DEF Inv, Types, View
    <2> DEFINE store == Store(data)
    <2>3. PICK first, end : Cuts(store, data, first, end)
      BY <2>1, StoreCuts
    <2> HIDE DEF store
    <2>4. \/ \E c \in 1 .. (Len(store) - 1) : store[c].xmax < xlim[1] /\ xlim[2] < store[c + 1].xmin
          \/ xlim[2] < store[1].xmin
          \/ xlim[1] > Last(store).xmax
          \/ GetRange(store, xlim) = Window(data, xlim)
      BY <2>1, <2>2, <2>3, RangeAnswers DEF Last
    <2>5. \A k \in {1, 2} : /\ FindIndexLeft(store, xlim[k]) = SearchLeft(Xs(data), xlim[k])
                            /\ FindIndexRight(store, xlim[k]) = SearchRight(Xs(data), xlim[k])
      <3> SUFFICES ASSUME NEW k \in {1, 2}
                   PROVE  /\ FindIndexLeft(store, xlim[k]) = SearchLeft(Xs(data), xlim[k])
                          /\ FindIndexRight(store, xlim[k]) = SearchRight(Xs(data), xlim[k])
        OBVIOUS
      <3>1. xlim[k] \in Int
        BY <2>2
      <3> QED
        BY <2>1, <2>3, <3>1, FindIndexAnswers
    <2> DEFINE last == SearchRight(Xs(data), xlim[2])
    <2>6. \A a \in 1 .. last : ReadSlice(store, a, last) = SubSeq(data, a, last)
      <3>1. last \in 1 .. Len(data)
        BY <2>1, <2>2, SearchedRight DEF Rightmost
      <3> HIDE DEF last
      <3>2. \A a \in 1 .. last : a \in 1 .. Len(data) /\ last \in a .. Len(data)
        BY <2>1, <3>1 DEF IsLine
      <3> QED
        BY <2>1, <2>3, <3>2, SliceAnswers
    <2> QED
      BY <2>4, <2>5, <2>6 DEF StoreReads, store
  <1> QED
    BY <1>1, PlotInvariant, PTL

(* Whatever is on screen is a sample of the line as it is now, in the      *)
(* order of x; no stroke runs across a gap of the data; and a line drawn   *)
(* from its samples ends with the last one in reach of the view.           *)
THEOREM PlotLineHonest ==
  Spec => []LineHonest
  <1>1. Inv => LineHonest
    <2> SUFFICES ASSUME Inv, Reliable
                 PROVE  /\ Honest(shown, data)
                        /\ drawn.by # "render" => Unbroken(shown, data)
                        /\ drawn.by = "update" /\ drawn.level = 0 =>
                             EndsWithLast(shown, Visible(data, drawn.lim))
      BY DEF LineHonest, Honest, Unbroken, EndsWithLast, Real, Samples
    <2>1. IsLine(data) /\ pw \in Nat \ {0} /\ drawn.pw \in Nat \ {0} /\ drawn.lim \in View
          /\ IsPyramid(data, pyramid) /\ drawn.by \in {"render", "update", "refine"}
      BY DatasetsAreLines, LimitsAreViews DEF Inv, Types
    <2>2. CASE drawn.by = "render"
      <3>1. shown = Preview(data)
        BY <2>2 DEF Inv, DrawnLine
      <3>2. Honest(Preview(data), data)
        BY <2>1, PreviewHonest
      <3> QED
        BY <2>2, <3>1, <3>2
    <2>3. CASE drawn.by = "update"
      <3> DEFINE new == Lines(data, method, drawn.lim, pw, pyramid)
      <3>1. shown = new.points /\ drawn.level = new.level
        BY <2>3 DEF Inv, DrawnLine
      <3>2. new.level = 0 \/ ~HasGap(data)
        BY <3>1 DEF Reliable
      <3>3. /\ Honest(new.points, data) /\ Unbroken(new.points, data)
            /\ new.level = 0 => EndsWithLast(new.points, Visible(data, drawn.lim))
        BY <2>1, <3>2, LinesHonest
      <3> QED
        BY <3>1, <3>3
    <2>4. CASE drawn.by = "refine"
      <3>1. /\ shown = Refined(data, BuildPyramid(data, pyramid, 1), drawn.pw)
            /\ drawn.level = IF OnDisk(data) THEN 1 ELSE 0
        BY <2>4 DEF Inv, DrawnLine
      <3>2. OnDisk(data) => ~HasGap(data)
        BY <3>1 DEF Reliable
      <3>3. /\ Honest(Refined(data, BuildPyramid(data, pyramid, 1), drawn.pw), data)
            /\ Unbroken(Refined(data, BuildPyramid(data, pyramid, 1), drawn.pw), data)
        BY <2>1, <3>2, RefinedHonest
      <3> QED
        BY <2>4, <3>1, <3>3
    <2> QED
      BY <2>1, <2>2, <2>3, <2>4
  <1> QED
    BY <1>1, PlotInvariant, PTL

(* No spike disappears: when the line is drawn by updateLines or by the    *)
(* refinement with the min/max kernel, some point on screen is as high as  *)
(* a sample in view, and some as low, unless a pyramid level merged it     *)
(* with a sample outside the view that goes further.                       *)
THEOREM PlotEnvelopeShown ==
  Spec => []EnvelopeShown
  <1>1. Inv => EnvelopeShown
    <2> DEFINE lim == drawn.lim
               Up(i) == \/ Above(shown, data[i])
                        \/ drawn.level > 0 /\ OutsideAbove(data, lim, i, Reach)
               Down(i) == \/ Below(shown, data[i])
                          \/ drawn.level > 0 /\ OutsideBelow(data, lim, i, Reach)
    <2>1. ASSUME Inv PROVE IsLine(data) /\ pw \in Nat \ {0} /\ drawn.pw \in Nat \ {0} /\ lim \in View
                           /\ IsPyramid(data, pyramid) /\ drawn.by \in {"render", "update", "refine"}
      BY <2>1, DatasetsAreLines, LimitsAreViews DEF Inv, Types
    <2>2. ASSUME Inv, method = "minmax", drawn.by # "render", Reliable,
                 NEW i \in 1 .. Len(data), InView(data[i], lim), data[i][2] # NaN
          PROVE  Up(i) /\ Down(i)
      <3>1. IsLine(data) /\ pw \in Nat \ {0} /\ drawn.pw \in Nat \ {0} /\ lim \in View
            /\ IsPyramid(data, pyramid) /\ drawn.by \in {"render", "update", "refine"}
        BY <2>1, <2>2
      <3>2. CASE drawn.by = "update"
        <4> DEFINE new == Lines(data, method, lim, pw, pyramid)
        <4>1. shown = new.points /\ drawn.level = new.level
          BY <2>2, <3>2 DEF Inv, DrawnLine
        <4>2. new = Lines(data, "minmax", lim, pw, pyramid)
          BY <2>2
        <4> HIDE DEF new, lim
        <4>3. new.level = 0 \/ ~HasGap(data)
          BY <2>2, <4>1 DEF Reliable
        <4>4. \/ Above(new.points, data[i]) /\ Below(new.points, data[i])
              \/ /\ new.level > 0
                 /\ \/ Above(new.points, data[i])
                    \/ OutsideAbove(data, lim, i, Spanned(new.level) + Folded(data))
                 /\ \/ Below(new.points, data[i])
                    \/ OutsideBelow(data, lim, i, Spanned(new.level) + Folded(data))
          BY <2>2, <3>1, <4>2, <4>3, LinesCover
        <4> QED
          BY <4>1, <4>4 DEF Reach
      <3>3. CASE drawn.by = "refine"
        <4> DEFINE pts == Refined(data, BuildPyramid(data, pyramid, 1), drawn.pw)
        <4>1. shown = pts /\ drawn.level = IF OnDisk(data) THEN 1 ELSE 0
          BY <2>2, <3>3 DEF Inv, DrawnLine
        <4>2. OnDisk(data) => ~HasGap(data)
          BY <2>2, <4>1 DEF Reliable
        <4>3. Above(pts, data[i]) /\ Below(pts, data[i])
          BY <2>2, <3>1, <4>2, RefinedCovers
        <4> HIDE DEF pts
        <4> QED
          BY <4>1, <4>3
      <3> QED
        BY <2>2, <3>1, <3>2, <3>3
    <2>3. ASSUME Inv, method = "minmax", drawn.by # "render", Reliable,
                 NEW i \in DOMAIN data, InView(data[i], lim), data[i][2] # NaN
          PROVE  LET Near == {j \in DOMAIN data : /\ drawn.level > 0 /\ i - Reach < j /\ j < i + Reach
                                                  /\ ~InView(data[j], lim)}
                     Seen == {q[2] : q \in ToSet(shown) \cup {data[j] : j \in Near}} \ {NaN}
                 IN  (\E v \in Seen : v >= data[i][2]) /\ (\E v \in Seen : v <= data[i][2])
      <3> DEFINE Near == {j \in DOMAIN data : /\ drawn.level > 0 /\ i - Reach < j /\ j < i + Reach
                                              /\ ~InView(data[j], lim)}
                 Seen == {q[2] : q \in ToSet(shown) \cup {data[j] : j \in Near}} \ {NaN}
      <3>1. DOMAIN data = 1 .. Len(data)
        BY <2>1, <2>3 DEF IsLine
      <3>2. i \in 1 .. Len(data)
        BY <2>3, <3>1
      <3>3. Up(i) /\ Down(i)
        BY <2>2, <2>3, <3>2
      <3>4. \A k \in DOMAIN shown : shown[k][2] # NaN => shown[k][2] \in Seen
        BY DEF ToSet
      <3>5. \A j \in 1 .. Len(data) :
               /\ drawn.level > 0 /\ i - Reach < j /\ j < i + Reach /\ ~InView(data[j], lim)
               /\ data[j][2] # NaN
               => data[j][2] \in Seen
        BY <3>1
      <3>6. \A k \in 1 .. Len(shown) : k \in DOMAIN shown
        OBVIOUS
      <3> HIDE DEF Seen
      <3>7. \E v \in Seen : v >= data[i][2]
        BY <3>3, <3>4, <3>5, <3>6 DEF Above, OutsideAbove
      <3>8. \E v \in Seen : v <= data[i][2]
        BY <3>3, <3>4, <3>5, <3>6 DEF Below, OutsideBelow
      <3> QED
        BY <3>7, <3>8 DEF Seen
    <2> QED
      BY <2>3 DEF EnvelopeShown
  <1> QED
    BY <1>1, PlotInvariant, PTL
=============================================================================
