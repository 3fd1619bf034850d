----------------------------- MODULE Violations -----------------------------
(***************************************************************************)
(* Where a line leaves its thresholds: compute_violations_mex.c, the       *)
(* detection of resolve_disk_mex.c, to_step_function_mex.c, violation_cull *)
(* and violation_cull_mex.c.  A threshold is [x |-> ..., y |-> ..., up |-> *)
(* ...]: the knots of a step function and its direction; one knot is a     *)
(* constant threshold.                                                     *)
(***************************************************************************)
EXTENDS Downsampling

Beyond(y, th, up) == IF up THEN Less(th, y) ELSE Less(y, th)

\* The indices of ys beyond th.  A whole vector block is looked into only when
\* its horizontal maximum (minimum) is beyond: a NaN lane can hide the others.
Flagged(ys, th, up) ==
    LET whole == IF SimdWidth = 1 THEN 0 ELSE (Len(ys) \div SimdWidth) * SimdWidth
        Block(i) == LET first == ((i - 1) \div SimdWidth) * SimdWidth + 1
                    IN  SubSeq(ys, first, first + SimdWidth - 1)
        Opened(i) == i <= whole =>
            Beyond(IF up THEN Horizontal(MaxPd, Block(i)) ELSE Horizontal(MinPd, Block(i)),
                   th, up)
    IN  Indices(Len(ys), LAMBDA i : Opened(i) /\ Beyond(ys[i], th, up))

\* compute_violations_mex for one threshold: segs is a sequence of index pairs.
ComputeViolations(ys, segs, th, up) ==
    FlattenSeq([s \in DOMAIN segs |->
        LET found == Flagged(SubSeq(ys, segs[s][1], segs[s][2]), th, up)
        IN  [k \in DOMAIN found |-> found[k] + segs[s][1] - 1]])

-----------------------------------------------------------------------------
\* The step function of a schedule: segment i begins at bounds[i] and ends at
\* the next bound or at dataEnd; a segment whose value is NaN is inactive.
\* Two active segments that do not touch are separated by a NaN knot.
ToStepFunction(bounds, vals, dataEnd) ==
    LET SegEnd(i) == IF i = Len(bounds) THEN dataEnd ELSE bounds[i + 1]
        active == Indices(Len(vals), LAMBDA i : vals[i] # NaN)
        Knots(a) ==
            LET i == active[a]
                apart == a > 1 /\ SegEnd(active[a - 1]) # bounds[i]
            IN  (IF apart THEN <<Gap>> ELSE <<>>)
                \o << <<bounds[i], vals[i]>>, <<SegEnd(i), vals[i]>> >>
    IN  FlattenSeq([a \in DOMAIN active |-> Knots(a)])

\* Mutant: the first of the knots that share an x is kept.
CleanThreshold_KeepsFirst(thr) ==
    LET kept == Indices(Len(thr.x), LAMBDA i :
                  /\ thr.x[i] # NaN /\ thr.y[i] # NaN
                  /\ \A j \in 1..(i - 1) : thr.x[j] # thr.x[i])
    IN  IF Len(thr.x) <= 1 THEN thr
        ELSE [thr EXCEPT !.x = [k \in DOMAIN kept |-> thr.x[kept[k]]],
                         !.y = [k \in DOMAIN kept |-> thr.y[kept[k]]]]

\* violation_cull cleans a threshold of several knots: no NaN, and the last of
\* the knots that share an x (they are in the order of x already).
CleanThreshold(thr) ==
    LET kept == Indices(Len(thr.x), LAMBDA i :
                  /\ thr.x[i] # NaN /\ thr.y[i] # NaN
                  /\ \A j \in (i + 1)..Len(thr.x) : thr.y[j] # NaN => thr.x[j] # thr.x[i])
    IN  IF Len(thr.x) <= 1 THEN thr
        ELSE [thr EXCEPT !.x = [k \in DOMAIN kept |-> thr.x[kept[k]]],
                         !.y = [k \in DOMAIN kept |-> thr.y[kept[k]]]]

\* step_lookup: the knot in force at x, the first one before all knots.
LastKnot(thr, x) == Max({1} \union {k \in DOMAIN thr.x : thr.x[k] <= x})

\* violation_cull_mex: of the points beyond the threshold the one that is
\* farthest away, per pixel column, by column (points are in the order of x); pw
\* is the number of pixels across lim.  The last point must not lie before lim.
Cull(line, thr, pw, lim) ==
    LET ThAt(p) == IF Len(thr.x) = 1 THEN thr.y[1] ELSE thr.y[LastKnot(thr, p[1])]
        Deviation(p) == IF thr.up THEN p[2] - ThAt(p) ELSE ThAt(p) - p[2]
        Pixel(x) == ((x - lim[1]) * pw) \div (lim[2] - lim[1])
        columns == Min({Pixel(Last(line)[1]) + 2, 8192})
        Column(p) == Max({0, Min({Pixel(p[1]), columns - 1})})
        Below(p, q) == Column(p) = Column(q) /\ Deviation(p) < Deviation(q)
        Worst(beyond) ==
          LET kept == Indices(Len(beyond), LAMBDA i :
                /\ \A j \in DOMAIN beyond : ~Below(beyond[i], beyond[j])
                /\ \A j \in 1..(i - 1) : Column(beyond[j]) = Column(beyond[i]) =>
                                           Below(beyond[j], beyond[i]))
          IN  [k \in DOMAIN kept |-> beyond[kept[k]]]
    IN  Worst(SelectSeq(line, LAMBDA p : p[2] # NaN /\ Beyond(p[2], ThAt(p), thr.up)))

ViolationCull(line, given, pw, lim) == Cull(line, CleanThreshold(given), pw, lim)
=============================================================================
