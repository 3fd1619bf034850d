----------------------------- MODULE MonitorTag -----------------------------
(***************************************************************************)
(* MonitorTag.m: the alarm signal of a parent line and its events, by full *)
(* recomputation (recompute_) and chunk by chunk (appendData).  A line is  *)
(* a sequence of points <<x, level>> with x in Nat \ {0}; 0 stands for the *)
(* NaN of ongoingRunStart_, and for the empty id.  A rule says which       *)
(* levels raise the alarm, which clear it ({} is: no hysteresis) and how   *)
(* long it must last.  A monitor is [rule, dirty, cache, row]: its cache   *)
(* and the row it keeps in the DataStore when Persist is on.               *)
(***************************************************************************)
EXTENDS EventStore

NoCache == [pts |-> <<>>, y |-> <<>>, flag |-> FALSE, hyst |-> FALSE, ongoing |-> 0,
            openId |-> 0]
NoRow == [pts |-> <<>>, y |-> <<>>, num |-> 0, xmin |-> 0, xmax |-> 0]

\* findRuns_: the maximal runs of TRUE, as pairs of indices.
Runs(bin) ==
    LET starts == Masked([i \in DOMAIN bin |-> i],
                         {i \in DOMAIN bin : bin[i] /\ (i > 1 => ~bin[i - 1])})
        EndOf(s) == Min({e \in s..Len(bin) : e = Len(bin) \/ ~bin[e + 1]})
    IN  [k \in DOMAIN starts |-> <<starts[k], EndOf(starts[k])>>]

\* applyHysteresis_ from a given state; without a clearing condition the raw
\* condition, and the state stays.
Hysteresis(pts, rule, initial) ==
    LET state[i \in 0..Len(pts)] ==
          IF i = 0 THEN initial
          ELSE IF state[i - 1] THEN pts[i][2] \notin rule.off ELSE pts[i][2] \in rule.on
    IN  IF rule.off = {}
        THEN [bin |-> [i \in DOMAIN pts |-> pts[i][2] \in rule.on], hyst |-> initial]
        ELSE [bin |-> [i \in DOMAIN pts |-> state[i]], hyst |-> state[Len(pts)]]

\* applyDebounce_, and the bookkeeping of the open run's start: the first run
\* of a chunk began at carry when the chunk before ended in it.
Debounced(pts, bin, minDur, carry) ==
    LET Start(r) == IF r[1] = 1 /\ carry # 0 THEN carry ELSE pts[r[1]][1]
        short == {r \in ToSet(Runs(bin)) : pts[r[2]][1] - Start(r) < minDur}
        kept == [i \in DOMAIN bin |->
                   bin[i] /\ \A r \in short : i \notin r[1]..r[2]]
    IN  [bin |-> kept,
         ongoing |-> IF kept # <<>> /\ Last(kept) THEN Start(Last(Runs(kept))) ELSE 0]

\* Stages 1 to 3 of both paths.
Signal(pts, rule, hyst, carry) ==
    LET Result(raw, deb) == [bin |-> deb.bin, hyst |-> raw.hyst, ongoing |-> deb.ongoing]
        From(raw) == Result(raw, Debounced(pts, raw.bin, rule.minDur, carry))
    IN  From(Hysteresis(pts, rule, hyst))

-----------------------------------------------------------------------------
\* emitEvent_ outside cluster mode: a new event object, stored and bound.
Emit(w, m, startT, endT, open) ==
    LET h == Len(w.events) + 1
        made == [w EXCEPT !.events = Append(@, [mon |-> m, start |-> startT, end |-> endT,
                                                open |-> open, id |-> 0])]
    IN  [Stored(made, "store", h) EXCEPT !.bound = @ \union {<<w.store.nextId + 1, m>>}]

LastId(w) == w.store.nextId

\* fireEventsOnRisingEdges_: closed runs, then the run that reaches the end of
\* the line.  Runs whose start has an event in the store are not emitted again;
\* the first open event is closed in place.  Returns the world and openEventId_.
RisingEdges(w, m, pts, bin) ==
    LET prior == EventsForTag(w, m)
        Ev(h) == w.events[h]
        starts == {Ev(h).start : h \in ToSet(prior)}
        opens == SelectSeq(prior, LAMBDA h : Ev(h).open)
        none == [id |-> 0, start |-> 0]
        existing == IF opens = <<>> THEN none
                    ELSE [id |-> Ev(opens[1]).id, start |-> Ev(opens[1]).start]
        runs == Runs(bin)
        closed == Len(runs) - IF runs # <<>> /\ Last(runs)[2] = Len(bin) THEN 1 ELSE 0
        Closed(st, r) ==
            LET startT == pts[r[1]][1]   endT == pts[r[2]][1]
            IN  IF startT \notin st.starts
                THEN [st EXCEPT !.w = Emit(@, m, startT, endT, FALSE),
                                !.starts = @ \union {startT}]
                ELSE IF st.existing.id # 0 /\ st.existing.start = startT
                THEN [st EXCEPT !.w = CloseEvent(@, st.existing.id, endT),
                                !.openId = 0, !.existing = none]
                ELSE st
        startT == pts[Last(runs)[1]][1]
        Opened(end) ==
            IF closed < Len(runs) /\ end.openId = 0 /\ startT \notin end.starts
            THEN [w |-> Emit(end.w, m, startT, 0, TRUE), openId |-> LastId(end.w) + 1]
            ELSE [w |-> end.w, openId |-> end.openId]
        fired[i \in 0..closed] ==
            IF i = 0 THEN [w |-> w, starts |-> starts, existing |-> existing,
                           openId |-> existing.id]
            ELSE Closed(fired[i - 1], runs[i])
    IN  Opened(fired[closed])

\* fireEventsInTail_: the open event is closed when the chunk clears the
\* alarm, which also drops the chunk's first run, be it a new one or not.
TailEdges(w, m, cache, chunk, bin) ==
    LET all == Runs(bin)
        clearsLater == all # <<>> /\ all[1][1] = 1 /\ all[1][2] < Len(bin)
        clears == cache.openId # 0 /\ cache.flag /\ (clearsLater \/ ~bin[1])
        endT == IF clearsLater THEN chunk[all[1][2]][1] ELSE Last(cache.pts)[1]
        closed == IF clears THEN CloseEvent(w, cache.openId, endT) ELSE w
        runs == IF clears THEN SubSeq(all, 2, Len(all)) ELSE all
        Fire(st, k) ==
            LET r == runs[k]
                startT == IF k = 1 /\ cache.flag /\ r[1] = 1 /\ cache.ongoing # 0
                          THEN cache.ongoing ELSE chunk[r[1]][1]
            IN  IF r[2] < Len(bin)
                THEN [st EXCEPT !.w = Emit(@, m, startT, chunk[r[2]][1], FALSE)]
                ELSE IF st.openId # 0 THEN st
                ELSE [w |-> Emit(st.w, m, startT, 0, TRUE), openId |-> LastId(st.w) + 1]
        fired[k \in 0..Len(runs)] ==
            IF k = 0 THEN [w |-> closed, openId |-> IF clears THEN 0 ELSE cache.openId]
            ELSE Fire(fired[k - 1], k)
    IN  fired[Len(runs)]

-----------------------------------------------------------------------------
\* The operations below take and return [mon, w].
Invalidated(mon) == [mon EXCEPT !.dirty = TRUE, !.cache = NoCache]

Persisted(mon, parent, persist) ==
    IF ~persist \/ mon.cache.pts = <<>> \/ parent = <<>> THEN mon
    ELSE [mon EXCEPT !.row = [pts |-> mon.cache.pts, y |-> mon.cache.y, num |-> Len(parent),
                              xmin |-> parent[1][1], xmax |-> Last(parent)[1]]]

\* recompute_; the store may hold events of this monitor already.
Recompute(mon, w, m, parent) ==
    LET Cached(sig, fired) ==
          [mon |-> [mon EXCEPT !.dirty = FALSE,
                       !.cache = [pts |-> parent, y |-> sig.bin, flag |-> Last(sig.bin),
                                  hyst |-> sig.hyst, ongoing |-> sig.ongoing,
                                  openId |-> fired.openId]],
           w |-> fired.w]
        From(sig) == Cached(sig, RisingEdges(w, m, parent, sig.bin))
    IN  IF parent = <<>> THEN [mon |-> [mon EXCEPT !.dirty = FALSE, !.cache = NoCache], w |-> w]
        ELSE From(Signal(parent, mon.rule, FALSE, 0))

\* In cluster mode emitEvent_ passes the Event object to EventLog.append,
\* which takes structs only: the error leaves the monitor dirty.  This is when
\* a recomputation would emit.
WouldEmit(mon, w, m, parent) ==
    /\ parent # <<>>
    /\ Len(Recompute(mon, w, m, parent).w.events) > Len(w.events)

\* Mutant: the number of samples is not part of the signature.
Stale_NoCount(row, parent) ==
    \/ row.pts = <<>> \/ parent = <<>>
    \/ row.xmin # parent[1][1]

\* cacheIsStale_
Stale(row, parent) ==
    \/ row.pts = <<>> \/ parent = <<>>
    \/ row.num # Len(parent) \/ row.xmin # parent[1][1] \/ row.xmax # Last(parent)[1]

\* getXY of a dirty monitor: tryLoadFromDisk_, which loses the open event and
\* the start of the open run, or recompute_ and persistIfEnabled_.
GetXY(mon, w, m, parent, persist) ==
    LET lastOn == Last(mon.row.y)
    IN  IF persist /\ ~Stale(mon.row, parent)
        THEN [mon |-> [mon EXCEPT !.dirty = FALSE,
                          !.cache = [pts |-> mon.row.pts, y |-> mon.row.y, flag |-> lastOn,
                                     hyst |-> lastOn, ongoing |-> 0, openId |-> 0]],
              w |-> w]
        ELSE [Recompute(mon, w, m, parent) EXCEPT !.mon = Persisted(@, parent, persist)]

\* appendData is a recomputation when there is nothing to append to.
Cold(mon) == mon.dirty \/ mon.cache.pts = <<>>

AppendData(mon, w, m, parent, chunk, persist) ==
    LET c == mon.cache
        Grown(sig, fired) ==
          [mon |-> Persisted(
                     [mon EXCEPT !.cache = [pts |-> c.pts \o chunk, y |-> c.y \o sig.bin,
                                            flag |-> Last(sig.bin), hyst |-> sig.hyst,
                                            ongoing |-> sig.ongoing, openId |-> fired.openId]],
                     parent, persist),
           w |-> fired.w]
        From(sig) == Grown(sig, TailEdges(w, m, c, chunk, sig.bin))
    IN  IF chunk = <<>> THEN [mon |-> mon, w |-> w]
        ELSE IF Cold(mon) THEN Recompute(mon, w, m, parent)
        ELSE From(Signal(chunk, mon.rule, c.hyst, c.ongoing))
=============================================================================
