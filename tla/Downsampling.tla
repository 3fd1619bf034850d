---------------------------- MODULE Downsampling ----------------------------
(***************************************************************************)
(* The kernels that reduce a line to what the screen can show:             *)
(* minmax_core_mex.c and lttb_core_mex.c with the MATLAB functions that    *)
(* split a line at its gaps and call them, binary_search_mex.c, and the    *)
(* stride preview of FastSense.render.  A line is a sequence of points     *)
(* <<x, y>>; numbers are integers; NaN is a value of its own that every    *)
(* comparison rejects.  Indices are 1-based, those of the C code plus one. *)
(***************************************************************************)
EXTENDS Integers, SequencesExt, FiniteSetsExt, LogicalIndexing

CONSTANTS NaN,        \* the IEEE value: no comparison with it holds
          SimdWidth   \* lanes of a vector register: 1, 2 or 4

ASSUME SimdWidthAssumption == SimdWidth \in {1, 2, 4}
ASSUME NaNAssumption == NaN \notin Int

Gap == <<NaN, NaN>>
Xs(line) == [i \in DOMAIN line |-> line[i][1]]
Ys(line) == [i \in DOMAIN line |-> line[i][2]]

\* The indices 1..n that pass a test, in order.
Indices(n, Test(_)) == SelectSeq([i \in 1..n |-> i], Test)

Less(a, b) == a # NaN /\ b # NaN /\ a < b

\* The vector instructions: the second operand when the comparison fails, so
\* also when either is NaN.
MinPd(a, b) == IF Less(a, b) THEN a ELSE b
MaxPd(a, b) == IF Less(b, a) THEN a ELSE b

\* simd_hmin, simd_hmax: the lanes of one register to one number.
Horizontal(Op(_, _), v) ==
    CASE Len(v) = 1 -> v[1]
      [] Len(v) = 2 -> Op(v[1], v[2])
      [] Len(v) = 4 -> Op(Op(v[1], v[3]), Op(v[2], v[4]))

\* The reduction of minmax_core_mex and compute_yminmax: every lane starts
\* with the first sample, whole blocks go through the lanes, the rest is scalar.
Reduce(Op(_, _), ys) ==
    LET blocks == IF SimdWidth = 1 THEN 0 ELSE Len(ys) \div SimdWidth
        whole == blocks * SimdWidth
        lanes[b \in 0..blocks] ==
          IF b = 0 THEN [j \in 1..SimdWidth |-> ys[1]]
          ELSE [j \in 1..SimdWidth |-> Op(lanes[b - 1][j], ys[(b - 1) * SimdWidth + j])]
        scalar[i \in whole..Len(ys)] ==
          IF i > whole THEN Op(ys[i], scalar[i - 1])
          ELSE IF i = 0 THEN ys[1] ELSE Horizontal(Op, lanes[blocks])
    IN  scalar[Len(ys)]

FirstAt(ys, v) ==
    IF v # NaN /\ \E i \in DOMAIN ys : ys[i] = v
    THEN Min({i \in DOMAIN ys : ys[i] = v}) ELSE 1

\* One bucket's minimum and maximum, in the order of their places.
BucketPair(bucket) ==
    LET InOrder(low, i, high, j) ==
          IF i <= j THEN << <<bucket[i][1], low>>, <<bucket[j][1], high>> >>
          ELSE << <<bucket[j][1], high>>, <<bucket[i][1], low>> >>
        Placed(low, high) ==
          InOrder(low, FirstAt(Ys(bucket), low), high, FirstAt(Ys(bucket), high))
    IN  Placed(Reduce(MinPd, Ys(bucket)), Reduce(MaxPd, Ys(bucket)))

\* Mutant: the remainder is left out.
MinMaxCore_DropsRest(line, nb) ==
    LET size == Len(line) \div nb
    IN  FlattenSeq([b \in 1..(Len(line) \div size) |->
            BucketPair(SubSeq(line, (b - 1) * size + 1, b * size))])

\* minmax_core_mex for n >= nb > 0: buckets of equal size, the remainder in
\* the last one, and the last sample appended when no extreme lies on it.
MinMaxCore(line, nb) ==
    LET n == Len(line)
        size == n \div nb
        buckets == n \div size          \* >= nb
        Anchored(pairs) == IF Less(Last(pairs)[1], line[n][1]) THEN Append(pairs, line[n])
                           ELSE pairs
    IN  Anchored(FlattenSeq([b \in 1..buckets |->
            BucketPair(SubSeq(line, (b - 1) * size + 1,
                              IF b = buckets THEN n ELSE b * size))]))

\* The sum of one coordinate over the samples first..last.
Total(line, coord, first, last) ==
    LET sum[k \in 0..(last - first + 1)] ==
          IF k = 0 THEN 0 ELSE sum[k - 1] + line[first + k - 1][coord]
    IN  sum[last - first + 1]

\* lttb_core_mex for numOut >= 2: per bucket the point that spans the largest
\* triangle with the point picked before and the mean of the next bucket. The
\* areas are scaled by the next bucket's count to stay in the integers.
LttbCore(line, numOut) ==
    LET n == Len(line)
        Border(i) == (i * (n - 2)) \div (numOut - 2)
        pick[i \in 0..(numOut - 1)] ==
          IF i = 0 THEN 1 ELSE IF i = numOut - 1 THEN n ELSE
          LET first == Border(i - 1) + 2
              last == Min({Border(i), n - 2}) + 1
              nextFirst == Border(i) + 2
              nextLast == Max({nextFirst, Min({Border(i + 1), n - 2}) + 1})
              count == nextLast - nextFirst + 1
              sumX == Total(line, 1, nextFirst, nextLast)
              sumY == Total(line, 2, nextFirst, nextLast)
              prev == line[pick[i - 1]]
              Area(c) == LET area == (prev[1] * count - sumX) * (line[c][2] - prev[2])
                                     - (prev[1] - line[c][1]) * (sumY - prev[2] * count)
                         IN  IF area < 0 THEN -area ELSE area
          IN  CHOOSE c \in first..last :
                /\ \A d \in first..last : Area(d) <= Area(c)
                /\ \A d \in first..(c - 1) : Area(d) < Area(c)
    IN  [i \in 1..numOut |-> line[pick[i - 1]]]

-----------------------------------------------------------------------------
HasGap(line) == \E i \in DOMAIN line : line[i][2] = NaN
Valid(line) == Cardinality({i \in DOMAIN line : line[i][2] # NaN})
RoundDiv(a, b) == (2 * a + b) \div (2 * b)

\* The maximal runs of samples that are not NaN, in order.
Segments(line) ==
    LET starts == Masked([i \in DOMAIN line |-> i],
                         {i \in DOMAIN line : line[i][2] # NaN /\ (i = 1 \/ line[i - 1][2] = NaN)})
        EndOf(s) == Max({e \in s..Len(line) : \A i \in s..e : line[i][2] # NaN})
    IN  [k \in DOMAIN starts |-> SubSeq(line, starts[k], EndOf(starts[k]))]

\* Each segment reduced on its own, one NaN between two of them.
BySegment(line, Part(_)) ==
    LET segs == Segments(line)
    IN  FlattenSeq([k \in DOMAIN segs |->
            Part(segs[k]) \o (IF k < Len(segs) THEN <<Gap>> ELSE <<>>)])

\* minmax_downsample: the caller says whether there are gaps.
MinMaxDownsample(line, nb, hasNaN) ==
    LET Fit(seg, share) == IF Len(seg) <= 2 * share THEN seg ELSE MinMaxCore(seg, share)
        Part(seg) == Fit(seg, Max({1, RoundDiv(nb * Len(seg), Valid(line))}))
    IN  IF ~hasNaN THEN Fit(line, nb)
        ELSE IF Valid(line) <= 2 * nb THEN line ELSE BySegment(line, Part)

\* lttb_downsample finds the gaps itself.
LttbDownsample(line, numOut) ==
    LET Part(seg) == LET share == Max({2, RoundDiv(numOut * Len(seg), Valid(line))})
                     IN  IF Len(seg) <= share THEN seg ELSE LttbCore(seg, share)
    IN  IF Valid(line) = 0 \/ Len(line) <= numOut THEN line ELSE BySegment(line, Part)

\* The preview of render: every K-th sample.
StridePreview(line, pw) ==
    LET K == Max({1, Len(line) \div (2 * pw)})
    IN  [i \in 1..(((Len(line) - 1) \div K) + 1) |-> line[(i - 1) * K + 1]]

-----------------------------------------------------------------------------
\* binary_search_mex: the first index with x >= val (the last index when there
\* is none) and the last index with x <= val (the first when there is none).
Interval(n) == [lo : 1..(n + 1), hi : 0..n, idx : 1..n]

SearchLeft(xs, val) ==
    LET loop[s \in Interval(Len(xs))] ==
          LET mid == s.lo + ((s.hi - s.lo) \div 2)
          IN  IF s.lo > s.hi THEN s.idx
              ELSE IF xs[mid] >= val THEN loop[[lo |-> s.lo, hi |-> mid - 1, idx |-> mid]]
                                     ELSE loop[[lo |-> mid + 1, hi |-> s.hi, idx |-> s.idx]]
    IN  loop[[lo |-> 1, hi |-> Len(xs), idx |-> Len(xs)]]

SearchRight(xs, val) ==
    LET loop[s \in Interval(Len(xs))] ==
          LET mid == s.lo + ((s.hi - s.lo) \div 2)
          IN  IF s.lo > s.hi THEN s.idx
              ELSE IF xs[mid] <= val THEN loop[[lo |-> mid + 1, hi |-> s.hi, idx |-> mid]]
                                     ELSE loop[[lo |-> s.lo, hi |-> mid - 1, idx |-> s.idx]]
    IN  loop[[lo |-> 1, hi |-> Len(xs), idx |-> 1]]

\* The samples inside the limits and one more on each side.
Window(line, lim) ==
    SubSeq(line, Max({1, SearchLeft(Xs(line), lim[1]) - 1}),
                 Min({Len(line), SearchRight(Xs(line), lim[2]) + 1}))
=============================================================================
