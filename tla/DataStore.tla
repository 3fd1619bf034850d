----------------------------- MODULE DataStore ------------------------------
(***************************************************************************)
(* FastSenseDataStore: a line cut into chunks of ChunkPoints samples, one  *)
(* row of a SQLite table each (build_store_mex.c), the queries over the    *)
(* rows and the pyramid level computed while the data is in memory.        *)
(***************************************************************************)
EXTENDS Violations

CONSTANTS ChunkPoints,      \* samples per chunk
          PyramidReduction  \* samples per bucket of a pyramid level

ASSUME DataStoreAssumption ==
    ChunkPoints \in Nat \ {0} /\ PyramidReduction \in Nat \ {0, 1}

\* compute_yminmax: columns y_min and y_max of a chunk, as a set.  When the lanes
\* end in NaN the extremes are searched again; a chunk of NaN alone has the
\* empty range (Inf, -Inf), written {}.
YRange(ys) ==
    LET low == Reduce(MinPd, ys)   high == Reduce(MaxPd, ys)
        valid == {y \in ToSet(ys) : y # NaN}
    IN  IF low # NaN /\ high # NaN THEN {low, high}
        ELSE IF valid = {} THEN {} ELSE {Min(valid), Max(valid)}

\* build_store_mex: the rows of table chunks.
Store(line) ==
    LET Rows == (Len(line) + ChunkPoints - 1) \div ChunkPoints
        First(c) == (c - 1) * ChunkPoints + 1
        End(c) == Min({c * ChunkPoints, Len(line)})
    IN  [c \in 1..Rows |-> [xmin |-> line[First(c)][1], xmax |-> line[End(c)][1],
                            offset |-> First(c), points |-> SubSeq(line, First(c), End(c))]]

NumPoints(store) == Last(store).offset + Len(Last(store).points) - 1
Concat(store, first, end) ==
    FlattenSeq([c \in 1..(end - first + 1) |-> store[first + c - 1].points])

\* Mutant: no neighbour chunks for the padding.
GetRange_NoNeighbours(store, lim) ==
    LET ids == {c \in DOMAIN store : store[c].xmax >= lim[1] /\ store[c].xmin <= lim[2]}
    IN  IF lim[1] > lim[2] \/ ids = {} THEN <<>>
        ELSE Window(Concat(store, Min(ids), Max(ids)), lim)

\* getRange: the chunks that overlap the limits and one more on each side, cut
\* like a line in memory; nothing when no chunk overlaps.
GetRange(store, lim) ==
    LET ids == {c \in DOMAIN store : store[c].xmax >= lim[1] /\ store[c].xmin <= lim[2]}
    IN  IF lim[1] > lim[2] \/ ids = {} THEN <<>>
        ELSE Window(Concat(store, Max({1, Min(ids) - 1}), Min({Len(store), Max(ids) + 1})), lim)

\* readSlice: the samples from index a to index b.
ReadSlice(store, a, b) ==
    LET start == Max({1, a})   end == Min({NumPoints(store), b})
        ids == {c \in DOMAIN store : /\ store[c].offset + Len(store[c].points) - 1 >= start
                                     /\ store[c].offset <= end}
        skipped == store[Min(ids)].offset - 1
    IN  IF end < start THEN <<>>
        ELSE SubSeq(Concat(store, Min(ids), Max(ids)), start - skipped, end - skipped)

\* findIndex by way of one chunk.
FindIndexLeft(store, x) ==
    LET ids == {c \in DOMAIN store : store[c].xmax >= x}
    IN  IF ids = {} THEN NumPoints(store)
        ELSE store[Min(ids)].offset + SearchLeft(Xs(store[Min(ids)].points), x) - 1
FindIndexRight(store, x) ==
    LET ids == {c \in DOMAIN store : store[c].xmin <= x}
    IN  IF ids = {} THEN 1
        ELSE store[Max(ids)].offset + SearchRight(Xs(store[Max(ids)].points), x) - 1

\* The chunks of [a, b] whose y range reaches beyond th, cut to [a, b].
Suspects(store, a, b, th, up) ==
    LET rows == SelectSeq(store, LAMBDA row :
                  /\ row.offset + Len(row.points) - 1 >= a
                  /\ row.offset <= b
                  /\ \E y \in YRange(Ys(row.points)) : Beyond(y, th, up))
    IN  [k \in DOMAIN rows |->
            SubSeq(rows[k].points, Max({1, a - rows[k].offset + 1}),
                   Min({Len(rows[k].points), b - rows[k].offset + 1}))]

\* findViolations
FindViolations(store, a, b, th, up) ==
    SelectSeq(FlattenSeq(Suspects(store, a, b, th, up)), LAMBDA p : Beyond(p[2], th, up))

\* resolve_disk_mex for one threshold and one segment.
ResolveDisk(store, a, b, th, up) ==
    LET Resolved(cut) == LET found == Flagged(Ys(cut), th, up)
                         IN  [j \in DOMAIN found |-> cut[found[j]]]
        cuts == Suspects(store, a, b, th, up)
    IN  FlattenSeq([k \in DOMAIN cuts |-> Resolved(cuts[k])])

-----------------------------------------------------------------------------
\* buildPyramidFromMemory: buckets of equal size with MATLAB's min and max,
\* which skip NaN; the rest is folded into the last bucket where it is beyond
\* it; the last sample is not added.
SkipNaN(line, Wins(_, _)) ==
    LET valid == {i \in DOMAIN line : line[i][2] # NaN}
    IN  IF valid = {} THEN 1
        ELSE CHOOSE i \in valid : /\ \A j \in valid : ~Wins(line[j][2], line[i][2])
                                  /\ \A j \in valid : j < i => Wins(line[i][2], line[j][2])

StorePyramid(line) ==
    LET n == Len(line)
        nb == Max({1, RoundDiv(n, PyramidReduction)})
        size == n \div nb
        Extreme(b, Wins(_, _)) ==
            LET main == (b - 1) * size + SkipNaN(SubSeq(line, (b - 1) * size + 1, b * size), Wins)
                rest == nb * size + SkipNaN(SubSeq(line, nb * size + 1, n), Wins)
            IN  IF b = nb /\ nb * size < n /\ Wins(line[rest][2], line[main][2])
                THEN rest ELSE main
        Pair(b) == LET i == Extreme(b, Less)   j == Extreme(b, LAMBDA u, v : Less(v, u))
                   IN  <<line[Min({i, j})], line[Max({i, j})]>>
    IN  IF n <= 2 * nb THEN line ELSE FlattenSeq([b \in 1..nb |-> Pair(b)])
=============================================================================
