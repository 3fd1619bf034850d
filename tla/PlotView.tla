------------------------------ MODULE PlotView ------------------------------
(***************************************************************************)
(* One FastSense plot with one data line and one threshold, after render:  *)
(* the view (limits, width in pixels), the line on screen, its pyramid,    *)
(* the violation markers, and the callbacks that keep them together: the   *)
(* XLim and XLimMode listeners, the one-shot timers of the refinement and  *)
(* of the Home button, the resize handler, live mode with its updates of   *)
(* the data, and the quiet limits of the dashboard.  Callbacks of MATLAB   *)
(* run one after the other; what interleaves is their order.               *)
(***************************************************************************)
EXTENDS DataStore

CONSTANTS Datasets,      \* what the line's samples may be
          Thresholds,    \* what the threshold may be
          Limits,        \* limits a user or a dashboard may choose
          Widths,        \* widths of the axes in pixels
          MinPoints,     \* MinPointsForDownsample
          MemoryPoints,  \* MemoryLimit, in samples: longer lines go to the disk
          MaxSteps       \* bound on the callbacks of a behaviour

Sample == Int \X ({NaN} \union Int)

\* addLine rejects an X that decreases; limits of axes increase.
ASSUME PlotAssumption ==
    /\ \A line \in Datasets :
          /\ line \in Seq(Sample) /\ line # <<>>
          /\ \A i, j \in DOMAIN line : i <= j => line[i][1] <= line[j][1]
    /\ \A lim \in Limits : lim \in Int \X Int /\ lim[1] < lim[2]
    /\ Widths \subseteq Nat \ {0} /\ MinPoints \in Nat /\ MemoryPoints \in Nat

VARIABLES data, method, thr, mode, xlim, fullXLim,
          axes,          \* the width of the axes in pixels
          pw,            \* PixelWidth: that width as render or onResize measured it
          live,          \* LiveIsActive
          cachedXLim,    \* CachedXLim: the limits last acted upon
          pyramid,       \* the levels built so far
          shown,         \* XData and YData of the line
          refine,        \* the refinement timer is running
          deferred,      \* the timer of the Home button is running
          visible,       \* ViolationsVisible
          markers,       \* XData and YData of the markers
          cachedView,    \* CachedViolationLim: <<>> or <<limits, width>>
          drawn,         \* auxiliary: the view the line was computed for
          marked,        \* auxiliary: how the line was drawn that the markers are
                         \* computed from, and at what width; by "other" is a line
                         \* drawn for other limits
          behind,        \* auxiliary: "quiet" when limits were set behind CachedXLim's
                         \* back, "overtaken" when a callback drew for limits that
                         \* the Home button's check had still to notice, "cancelled"
                         \* when live mode deleted that check's timer, or "no"
          steps

vars == <<data, method, thr, mode, xlim, fullXLim, axes, pw, live, cachedXLim, pyramid, shown,
          refine, deferred, visible, markers, cachedView, drawn, marked, behind, steps>>

Extent(line) == <<line[1][1], Last(line)[1]>>
IsStatic(line) == Len(line) <= MinPoints
OnDisk(line) == Len(line) > MemoryPoints

-----------------------------------------------------------------------------
\* buildPyramidLevel: level 1 from the store or the data, the next one from
\* the one before; the caller of minmax_downsample always says: no gaps.
Reduced(line) ==
    MinMaxDownsample(line, Max({1, RoundDiv(Len(line), PyramidReduction)}), FALSE)

BuildPyramid(line, levels, top) ==
    LET level[k \in 1..top] ==
          IF k <= Len(levels) THEN levels[k]
          ELSE IF k > 1 THEN Reduced(level[k - 1])
          ELSE IF OnDisk(line) THEN StorePyramid(line) ELSE Reduced(line)
    IN  [k \in 1..Max({top, Len(levels)}) |-> IF k <= top THEN level[k] ELSE levels[k]]

\* selectPyramidLevel: the coarsest level that exists for nTotal samples and
\* still has the points wanted; need is that number times the reduction.
PyramidLevel(nVis, nTotal, need) ==
    Max({0} \union {k \in 1..(nVis \div need) :
          need * PyramidReduction^(k - 1) <= nVis /\ need * PyramidReduction^(k - 1) < nTotal})

Downsample(line, gaps, meth, width) ==
    IF meth = "lttb" THEN LttbDownsample(line, width)
    ELSE MinMaxDownsample(line, width, gaps)

Visible(line, lim) == IF OnDisk(line) THEN GetRange(Store(line), lim) ELSE Window(line, lim)

\* updateLines: the points to show, the level they come from and the pyramid.
Lines(line, meth, lim, width, levels) ==
    LET Fit(source) == IF Len(source) <= MinPoints THEN source
                       ELSE Downsample(source, HasGap(line), meth, width)
        From(vis, level, built) ==
          [points |-> Fit(IF level = 0 THEN vis ELSE Window(built[level], lim)),
           level |-> level, pyramid |-> built]
        At(vis, level) ==
          From(vis, level, IF level = 0 THEN levels ELSE BuildPyramid(line, levels, level))
        Draw(vis) == At(vis, IF Len(vis) <= MinPoints THEN 0
                             ELSE PyramidLevel(Len(vis), Len(line),
                                               2 * width * PyramidReduction))
    IN  IF IsStatic(line) THEN [points |-> line, level |-> 0, pyramid |-> levels]
        ELSE Draw(Visible(line, lim))

\* Mutant: the pyramid survives a change of the data.
UpdateLines_KeepsPyramid(levels) ==
    \E new \in {Lines(data', method, xlim', pw', pyramid)} :
        /\ shown' = new.points
        /\ pyramid' = new.pyramid
        /\ drawn' = [by |-> "update", lim |-> xlim', pw |-> pw', level |-> new.level]

UpdateLines(levels) ==
    \E new \in {Lines(data', method, xlim', pw', levels)} :
        /\ shown' = new.points
        /\ pyramid' = new.pyramid
        /\ drawn' = [by |-> "update", lim |-> xlim', pw |-> pw', level |-> new.level]

\* The threshold as addThreshold gets it: one knot for a constant, the step
\* function of its schedule otherwise.
Threshold == LET knots == ToStepFunction(thr.bounds, thr.vals, thr.end)
             IN  IF Len(thr.bounds) = 1 THEN [x |-> <<0>>, y |-> thr.vals, up |-> thr.up]
                 ELSE [x |-> Xs(knots), y |-> Ys(knots), up |-> thr.up]

\* updateViolations; the cache holds the view, not what is displayed in it.
Markers(line, points, lim, width) ==
    ViolationCull(IF IsStatic(line) THEN Window(points, lim) ELSE points, Threshold, width, lim)

Recompute ==
    /\ markers' = Markers(data', shown', xlim', pw')
    /\ cachedView' = <<xlim', pw'>>
    /\ marked' = [by |-> IF drawn'.by = "update" /\ drawn'.lim # xlim' /\ ~IsStatic(data')
                         THEN "other" ELSE drawn'.by,
                  pw |-> drawn'.pw]

\* Mutant: a caller cannot clear the cache.
UpdateViolations_KeepsCache(cache) ==
    IF visible' /\ cachedView # <<xlim', pw'>> THEN Recompute
    ELSE UNCHANGED <<cachedView, markers, marked>>

UpdateViolations(cache) ==
    IF visible' /\ cache # <<xlim', pw'>> THEN Recompute
    ELSE cachedView' = cache /\ UNCHANGED <<markers, marked>>

\* A callback that draws for the limits of the axes and leaves CachedXLim alone.
Overtakes == behind' = IF behind = "no" /\ xlim # cachedXLim THEN "overtaken" ELSE behind

Step == steps < MaxSteps /\ steps' = steps + 1 /\ UNCHANGED <<method, thr, fullXLim>>

-----------------------------------------------------------------------------
\* render: a line in memory is shown as a stride preview, one on disk from its
\* first pyramid level; the markers are culled within the axes' own limits,
\* wider than the data's, and CachedViolationLim stays empty.
Init ==
    /\ data \in Datasets /\ thr \in Thresholds /\ axes \in Widths /\ pw = axes
    /\ method \in {"minmax", "lttb"} /\ mode = "preserve" /\ live = FALSE
    /\ fullXLim = Extent(data) /\ xlim = fullXLim /\ cachedXLim = fullXLim
    /\ pyramid = IF OnDisk(data) THEN BuildPyramid(data, <<>>, 1) ELSE <<>>
    /\ shown = IF IsStatic(data) THEN data
               ELSE IF OnDisk(data) THEN Downsample(pyramid[1], HasGap(data), method, pw)
               ELSE StridePreview(data, pw)
    /\ drawn = [by |-> "render", lim |-> xlim, pw |-> pw, level |-> 0]
    /\ visible = TRUE /\ cachedView = <<>>
    /\ marked = [by |-> "render", pw |-> pw]
    /\ \E wider \in Limits : /\ wider[1] <= xlim[1] /\ xlim[2] <= wider[2]
                             /\ markers = ViolationCull(shown, Threshold, pw, wider)
    /\ refine = ~IsStatic(data) /\ deferred = FALSE
    /\ behind = "no" /\ steps = 0

\* The user zooms or pans: onXLimChanged cancels the refinement, and acts when
\* the limits are not the cached ones.
Zoom(lim) ==
    /\ Step
    /\ xlim' = lim /\ refine' = FALSE
    /\ UNCHANGED <<data, axes, pw, live, deferred, visible>>
    /\ IF lim = cachedXLim
       THEN UNCHANGED <<mode, cachedXLim, pyramid, shown, markers, cachedView, drawn, marked, behind>>
       ELSE /\ cachedXLim' = lim /\ behind' = "no"
            /\ UpdateLines(pyramid)
            /\ UpdateViolations(cachedView)
            /\ mode' = IF mode = "follow" THEN "preserve" ELSE mode

\* Mutant: no deferred check is scheduled.
Home_Unscheduled ==
    /\ Step
    /\ xlim' = fullXLim
    /\ UNCHANGED <<data, mode, axes, pw, live, cachedXLim, pyramid, shown, refine, deferred,
                   visible, markers, cachedView, drawn, marked, behind>>

\* The Home button: resetplotview sets the limits without the XLim event; the
\* XLimMode listener schedules the deferred check.
Home ==
    /\ Step
    /\ xlim' = fullXLim /\ deferred' = TRUE
    /\ UNCHANGED <<data, mode, axes, pw, live, cachedXLim, pyramid, shown, refine, visible,
                   markers, cachedView, drawn, marked, behind>>

DeferredCheck ==
    /\ deferred /\ deferred' = FALSE
    /\ UNCHANGED <<data, method, thr, mode, xlim, fullXLim, axes, pw, live, refine, visible,
                   steps>>
    /\ IF xlim = cachedXLim
       THEN UNCHANGED <<cachedXLim, pyramid, shown, markers, cachedView, drawn, marked, behind>>
       ELSE /\ cachedXLim' = xlim /\ behind' = "no"
            /\ UpdateLines(pyramid)
            /\ UpdateViolations(cachedView)

\* XLimMode = 'auto': onXLimModeChanged restores the full limits at once.
AutoLimits ==
    /\ Step
    /\ xlim' = fullXLim /\ cachedXLim' = fullXLim /\ behind' = "no"
    /\ UNCHANGED <<data, mode, axes, pw, live, refine, deferred, visible>>
    /\ UpdateLines(pyramid)
    /\ UpdateViolations(cachedView)

\* The axes get another width; their figure may tell onResize of it.
SizeAxes(width) ==
    /\ Step
    /\ width # axes /\ axes' = width
    /\ UNCHANGED <<data, mode, xlim, pw, live, cachedXLim, pyramid, shown, refine, deferred,
                   visible, markers, cachedView, drawn, marked, behind>>

\* onResize, the ResizeFcn of a figure of the plot's own; axes in a figure of
\* others (ParentAxes) have none, and it never comes.
Resize ==
    /\ axes # pw /\ pw' = axes
    /\ UNCHANGED <<data, method, thr, mode, xlim, fullXLim, axes, live, cachedXLim, refine,
                   deferred, visible, steps>>
    /\ Overtakes
    /\ UpdateLines(pyramid)
    /\ UpdateViolations(cachedView)

\* refineLines: the whole line at the width of the axes, whatever the view.  The
\* width is measured anew, and PixelWidth, which the markers go by, is left alone.
Refined(line, levels, width) ==
    Downsample(IF OnDisk(line) THEN levels[1] ELSE line, HasGap(line), method, width)

RefineLines ==
    /\ refine /\ refine' = FALSE
    /\ UNCHANGED <<data, method, thr, mode, xlim, fullXLim, axes, pw, live, cachedXLim, deferred,
                   visible, steps>>
    /\ Overtakes
    /\ IF IsStatic(data) THEN UNCHANGED <<pyramid, shown, drawn>>
       ELSE /\ pyramid' = IF OnDisk(data) THEN BuildPyramid(data, pyramid, 1) ELSE pyramid
            /\ shown' = Refined(data, pyramid', axes)
            /\ drawn' = [by |-> "refine", lim |-> Extent(data), pw |-> axes,
                         level |-> IF OnDisk(data) THEN 1 ELSE 0]
    /\ UpdateViolations(cachedView)

\* applyViewMode: 'follow' keeps the width and 2% of it to the right of the
\* last sample, 'reset' takes the extent of the data, 'preserve' does nothing.
FollowLimits(line) ==
    LET width == xlim[2] - xlim[1]
        pad == (2 * width) \div 100
        last == Last(line)[1]
    IN  <<last - width + pad, last + pad>>

\* updateData: a live tick replaces the samples.
UpdateData(line) ==
    /\ Step
    /\ data' = line
    /\ xlim' = CASE mode = "preserve" -> xlim
                 [] mode = "follow" -> FollowLimits(line)
                 [] mode = "reset" -> Extent(line)
    /\ IF mode = "preserve" THEN Overtakes /\ UNCHANGED cachedXLim
       ELSE cachedXLim' = xlim' /\ behind' = "no"
    /\ UNCHANGED <<mode, axes, pw, live, refine, deferred, visible>>
    /\ UpdateLines(<<>>)
    /\ UpdateViolations(<<>>)

SetViewMode(m) ==
    /\ Step
    /\ m # mode /\ mode' = m
    /\ UNCHANGED <<data, xlim, axes, pw, live, cachedXLim, pyramid, shown, refine, deferred,
                   visible, markers, cachedView, drawn, marked, behind>>

\* stopLive deletes the timer of the Home button's check, due or not.
CancelCheck ==
    /\ deferred' = FALSE
    /\ behind' = IF deferred /\ xlim # cachedXLim /\ behind = "no" THEN "cancelled" ELSE behind

StopLive ==
    /\ Step
    /\ live' = FALSE /\ refine' = FALSE
    /\ CancelCheck
    /\ UNCHANGED <<data, mode, xlim, axes, pw, cachedXLim, pyramid, shown, visible,
                   markers, cachedView, drawn, marked>>

\* startLive: no refinement any more, and stopLive first where it was live.
StartLive(m) ==
    /\ Step
    /\ live' = TRUE /\ refine' = FALSE /\ mode' = m
    /\ IF live THEN CancelCheck ELSE UNCHANGED <<deferred, behind>>
    /\ UNCHANGED <<data, xlim, axes, pw, cachedXLim, pyramid, shown, visible,
                   markers, cachedView, drawn, marked>>

SetViolationsVisible(on) ==
    /\ Step
    /\ visible' = on
    /\ UNCHANGED <<data, mode, xlim, axes, pw, live, cachedXLim, pyramid, shown, refine,
                   deferred, drawn>>
    /\ IF on THEN UpdateViolations(<<>>) /\ Overtakes
       ELSE UNCHANGED <<markers, cachedView, marked, behind>>

\* setXLimQuiet, called by FastSenseWidget.setTimeRange, which does no more.
SetXLimQuiet(lim) ==
    /\ Step
    /\ xlim' = lim /\ behind' = "quiet"
    /\ UNCHANGED <<data, mode, axes, pw, live, cachedXLim, pyramid, shown, refine, deferred,
                   visible, markers, cachedView, drawn, marked>>

Next ==
    \/ \E lim \in Limits : Zoom(lim) \/ SetXLimQuiet(lim)
    \/ Home \/ DeferredCheck \/ AutoLimits \/ RefineLines \/ Resize \/ StopLive
    \/ \E width \in Widths : SizeAxes(width)
    \/ \E line \in Datasets : UpdateData(line)
    \/ \E m \in {"preserve", "follow", "reset"} : SetViewMode(m) \/ StartLive(m)
    \/ \E on \in BOOLEAN : SetViolationsVisible(on)

Spec == Init /\ [][Next]_vars

-----------------------------------------------------------------------------
Samples == ToSet(data)
InView(p, lim) == lim[1] <= p[1] /\ p[1] <= lim[2]
\* A pyramid is built as if the line had no gaps (buildPyramidLevel passes
\* hasNaN = FALSE): its buckets with NaN in them are unreliable.
Reliable == drawn.level = 0 \/ ~HasGap(data)
\* Samples that one bucket of the line's pyramid level may span: those of fewer
\* than two buckets, and what the store folds into its last one.
Folded(line) ==
    IF OnDisk(line) THEN Len(line) % Max({1, RoundDiv(Len(line), PyramidReduction)}) ELSE 0
Spanned(level) ==
    LET span[k \in 0..level] == IF k = 0 THEN 2 ELSE PyramidReduction * span[k - 1]
    IN  span[level]
Reach == Spanned(drawn.level) + Folded(data)

\* The line on screen is computed for the limits in force and for PixelWidth, or
\* a timer is pending that puts it right.  The ways out: quiet limits, which
\* leave CachedXLim behind and so may make the listener skip a later zoom; a
\* callback that overtook the check of the Home button, and live mode stopped
\* before that check, with the same effect; and a refinement, which goes by the
\* width of the axes when it runs and may have been overtaken.
ViewFresh ==
    \/ drawn.by = "refine"
    \/ /\ drawn.pw = pw
       /\ drawn.lim = xlim \/ IsStatic(data) \/ deferred \/ behind # "no"

\* The markers are those of the samples and the view in force, computed from
\* the line as updateLines or the refinement draws it, be it at another width
\* than the one they are culled with: the cache of updateViolations, keyed by the
\* view alone, keeps no markers of other samples.
\* The exceptions are markers computed, by setViolationsVisible, from the stride
\* preview or from a line drawn for other limits, which the cache may keep when
\* the line is drawn anew, and a view that CachedXLim has not followed.
MarkersFresh ==
    visible /\ marked.by \in {"update", "refine"} /\ ~deferred /\ behind = "no" =>
        markers = Markers(data, IF marked.by = "refine"
                                THEN Refined(data, BuildPyramid(data, pyramid, 1), marked.pw)
                                ELSE Lines(data, method, xlim, pw, pyramid).points, xlim, pw)

\* What is drawn exists: every point is a sample of the line as it is now, in
\* the order of x, and no stroke runs across a gap of the data; a line drawn
\* from its samples ends with the last one in reach of the view.
LineHonest ==
    LET real == {k \in DOMAIN shown : shown[k][2] # NaN}
        valid == {p \in ToSet(Visible(data, drawn.lim)) : p[2] # NaN}
    IN  Reliable =>
        /\ \A k \in real : shown[k] \in Samples
        /\ \A k \in real : k + 1 \in real =>
              /\ shown[k][1] <= shown[k + 1][1]
              /\ drawn.by # "render" =>
                    ~\E p \in Samples : p[2] = NaN /\ shown[k][1] < p[1] /\ p[1] < shown[k + 1][1]
        /\ drawn.by = "update" /\ drawn.level = 0 /\ valid # {} =>
              \E k \in real : \A p \in valid : p[1] <= shown[k][1]

\* No spike disappears: a sample in view lies within the range of the points on
\* screen.  From a pyramid level it may be missed only if a sample outside the
\* view, in the reach of its bucket, goes further.
EnvelopeShown ==
    LET reach == Reach
        Near(i) == {j \in DOMAIN data : /\ drawn.level > 0 /\ i - reach < j /\ j < i + reach
                                        /\ ~InView(data[j], drawn.lim)}
        Seen(i) == {p[2] : p \in ToSet(shown) \cup {data[j] : j \in Near(i)}} \ {NaN}
    IN  method = "minmax" /\ drawn.by # "render" /\ Reliable =>
        \A i \in DOMAIN data : InView(data[i], drawn.lim) /\ data[i][2] # NaN =>
            (\E v \in Seen(i) : v >= data[i][2]) /\ (\E v \in Seen(i) : v <= data[i][2])

\* The buckets of a level are alike (minmax_downsample.m:207: "we keep every
\* bucket the same width"): of the samples of four buckets in a row one at least
\* is in the level.
BucketsAlike ==
    OnDisk(data) /\ pyramid # <<>> =>
        \A i \in 1..(Len(data) - 4 * PyramidReduction + 1) :
            \E j \in i..(i + 4 * PyramidReduction - 1) : data[j] \in ToSet(pyramid[1])

\* The schedule says which value is in force at x, NaN where none is.
ScheduleAt(x) ==
    LET i == Max({0} \union {k \in DOMAIN thr.bounds : thr.bounds[k] <= x})
    IN  IF Len(thr.bounds) = 1 THEN thr.vals[1]
        ELSE IF i = 0 \/ x >= thr.end THEN NaN ELSE thr.vals[i]

\* Every marker is a sample that is beyond the value the schedule has there
\* (where it has none the last one is kept, which nothing here judges); and a
\* constant threshold never goes unmarked: the markers reach as far as the
\* worst sample in view.
MarkersRight ==
    visible /\ Reliable =>
    /\ \A m \in ToSet(markers) :
          /\ m \in Samples
          /\ ScheduleAt(m[1]) # NaN => Beyond(m[2], ScheduleAt(m[1]), thr.up)
    /\ Len(thr.bounds) = 1 /\ method = "minmax" /\ drawn.by = "update" /\ drawn.level = 0
       /\ drawn.lim = xlim /\ marked.by = "update" /\ behind = "no" /\ shown # <<>> =>
          \A p \in Samples : InView(p, xlim) /\ Beyond(p[2], thr.vals[1], thr.up) =>
             \E m \in ToSet(markers) : ~Beyond(p[2], m[2], thr.up)

\* A store is read like the line in memory: the window, unless the view falls
\* between two chunks or beside them all, the search for an index, and the slice from
\* any sample to the last one in view.
StoreReads ==
    LET store == Store(data)
        between == \E c \in 1..(Len(store) - 1) :
                      store[c].xmax < xlim[1] /\ xlim[2] < store[c + 1].xmin
        last == SearchRight(Xs(data), xlim[2])
    IN  OnDisk(data) =>
        /\ between \/ xlim[2] < store[1].xmin \/ xlim[1] > Last(store).xmax
             \/ GetRange(store, xlim) = Window(data, xlim)
        /\ \A k \in {1, 2} : /\ FindIndexLeft(store, xlim[k]) = SearchLeft(Xs(data), xlim[k])
                             /\ FindIndexRight(store, xlim[k]) = SearchRight(Xs(data), xlim[k])
        /\ \A a \in 1..last : ReadSlice(store, a, last) = SubSeq(data, a, last)

\* The samples in view that a store finds beyond a threshold are those the line
\* has, when the line has no gaps, and never too many.
StoreFinds ==
    LET store == Store(data)
        a == SearchLeft(Xs(data), xlim[1])
        b == SearchRight(Xs(data), xlim[2])
        beyond == SelectSeq(SubSeq(data, a, b), LAMBDA p : Beyond(p[2], thr.vals[1], thr.up))
        found == FindViolations(store, a, b, thr.vals[1], thr.up)
        resolved == ResolveDisk(store, a, b, thr.vals[1], thr.up)
        flagged == ComputeViolations(Ys(data), << <<a, b>> >>, thr.vals[1], thr.up)
    IN  OnDisk(data) /\ a <= b =>
        /\ ToSet(found) \subseteq ToSet(beyond)
        /\ ToSet(resolved) \subseteq ToSet(found)
        /\ ~HasGap(data) => /\ found = beyond /\ resolved = found
                            /\ [k \in DOMAIN flagged |-> data[flagged[k]]] = found

\* Who is beyond a threshold is told rightly by the markers on screen and by
\* the queries of a store and the kernel for lines in memory.
AlarmsRight == MarkersRight /\ StoreFinds
=============================================================================
