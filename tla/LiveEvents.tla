----------------------------- MODULE LiveEvents -----------------------------
(***************************************************************************)
(* Monitors, their sensors, the event store they share and the             *)
(* LiveEventPipeline that polls a file for each.  Everything runs in one   *)
(* MATLAB process, one callback after the other; what interleaves is the   *)
(* logger that extends the files, the poll cycle, dashboards that read a   *)
(* monitor, callers that stream chunks, setters, and an operator who       *)
(* removes or edits events.                                                *)
(***************************************************************************)
EXTENDS MonitorTag

CONSTANTS Keys,        \* the keys of the monitors, in the order of the poll
          Levels, Rules,
          Chunks,      \* chunks a caller may stream
          Starts,      \* the monitors' rules and their sensors' first samples
          Configs,     \* who feeds the sensors, and how the pipeline is set up
          MaxSamples,  \* per monitor a bound on its samples
          MaxExtras    \* bound on the steps that are not data, polls or views

Monitors == ToSet(Keys)

ASSUME LiveAssumption ==
    /\ Keys \in Seq(Monitors)
    /\ Chunks \subseteq Seq(Levels)
    /\ \A c \in Configs : c.feed \in {"pipeline", "stream"} /\ c.sharing \in {"none", "own", "store"}
    /\ \A s \in Starts, m \in Monitors : s[m].levels \in Seq(Levels)

\* Where an alarm has a minimum duration, no level both raises and clears it.
ASSUME RuleAssumption ==
    \A rule \in Rules \union {s[m].rule : s \in Starts, m \in Monitors} :
        rule.minDur \in Nat /\ (rule.minDur = 0 \/ rule.on \intersect rule.off = {})

VARIABLES feed,        \* "pipeline" or "stream": who brings the samples
          cluster,     \* the pipeline has a SharedRoot
          sharing,     \* the pipeline's store: "none", "own", or "store", the monitors'
          persist,     \* MonitorTag.Persist
          file,        \* per monitor the samples its file holds
          newer,       \* the file's mtime is newer than lastModTime_
          lastIndex,   \* lastIndex_ of the data source
          parent,      \* the sensor's X and Y
          mon, w,      \* the monitors, and the world of MonitorTag
          dropped,     \* auxiliary: samples fetched and then given up
          past,        \* auxiliary: per monitor what happened that leaves a trace
          extras

vars == <<feed, cluster, sharing, persist, file, newer, lastIndex, parent, mon, w,
          dropped, past, extras>>

config == <<feed, cluster, sharing, persist>>
source == <<file, newer, lastIndex, dropped>>

Points(levels, after) == [i \in DOMAIN levels |-> <<after + i, levels[i]>>]
Samples(m) == Len(parent[m]) + Cardinality(dropped[m]) + Len(file[m]) - lastIndex[m]

\* How a step of monitor m leaves its trace in past[m].
Batch(pts, rule) == Signal(pts, rule, FALSE, 0).bin
RecomputeTrace(m) == IF "uneven" \in past[m] THEN {"recut"} ELSE {}
EmitTrace(after) ==
    IF sharing = "own" /\ Len(after.events) > Len(w.events) THEN {"numbered apart"} ELSE {}
AppendTrace(m, chunk, new) ==
    LET c == mon[m].cache
        bin == Signal(chunk, mon[m].rule, c.hyst, c.ongoing).bin
    IN  (IF c.openId # 0 /\ c.flag /\ ~bin[1] /\ Runs(bin) # <<>> THEN {"run dropped"} ELSE {})
        \union (IF c.openId = 0 /\ c.flag THEN {"orphaned"} ELSE {})
        \union (IF new.cache.y # Batch(new.cache.pts, new.rule) THEN {"uneven"} ELSE {})

-----------------------------------------------------------------------------
Init ==
    /\ \E c \in Configs : /\ feed = c.feed /\ cluster = c.cluster
                          /\ sharing = c.sharing /\ persist = c.persist
    /\ file = [m \in Monitors |-> <<>>]
    /\ newer = [m \in Monitors |-> FALSE]
    /\ lastIndex = [m \in Monitors |-> 0]
    /\ \E s \in Starts :
          /\ parent = [m \in Monitors |-> Points(s[m].levels, 0)]
          /\ mon = [m \in Monitors |-> [rule |-> s[m].rule, dirty |-> TRUE,
                                        cache |-> NoCache, row |-> NoRow]]
    /\ w = NoEvents
    /\ dropped = [m \in Monitors |-> {}]
    /\ past = [m \in Monitors |-> {}]
    /\ extras = 0

\* A sample is written; its file's mtime may stay within the same second.
Log(m, level) ==
    /\ feed = "pipeline" /\ Samples(m) < MaxSamples[m]
    /\ file' = [file EXCEPT ![m] = Append(@, <<Samples(m) + 1, level>>)]
    /\ \E later \in BOOLEAN : newer' = [newer EXCEPT ![m] = @ \/ later]
    /\ UNCHANGED <<config, lastIndex, parent, mon, w, dropped, past, extras>>

\* fetchNew and processMonitorTag_ for one monitor.  A fetch may fail on a file
\* that is being written ("torn"): lastModTime_ is set already, lastIndex_ is
\* not.  In cluster mode another process may hold the lock after the fetch.
Fetched(m) == SubSeq(file[m], lastIndex[m] + 1, Len(file[m]))

\* Mutant: the new samples replace the sensor's.
ProcessMonitorTag_Replaces(st, m, outcome) ==
    LET grown == Fetched(m)
        got == AppendData(Invalidated(mon[m]), st.w, m, grown, Fetched(m), persist)
    IN  IF ~newer[m] \/ Fetched(m) = <<>> \/ outcome[m] # "ok" THEN st
        ELSE [st EXCEPT !.parent[m] = grown, !.mon[m] = got.mon, !.w = got.w,
                        !.lastIndex[m] = Len(file[m])]

ProcessMonitorTag(st, m, outcome) ==
    LET grown == parent[m] \o Fetched(m)
        cold == Invalidated(mon[m])
        taken == [st EXCEPT !.lastIndex[m] = Len(file[m])]
        Into(got) == [taken EXCEPT !.parent[m] = grown, !.mon[m] = got.mon, !.w = got.w,
                                   !.past[m] = @ \union RecomputeTrace(m)]
    IN  IF ~newer[m] \/ Fetched(m) = <<>> \/ outcome[m] = "torn" THEN st
        ELSE IF outcome[m] = "contended"
        THEN [taken EXCEPT !.dropped[m] = @ \union {p[1] : p \in ToSet(Fetched(m))}]
        ELSE Into(IF cluster /\ WouldEmit(cold, st.w, m, grown) THEN [mon |-> cold, w |-> st.w]
                  ELSE AppendData(cold, st.w, m, grown, Fetched(m), persist))

\* The loop of runCycle over its monitors.
Polled(before, outcome) ==
    LET polled[i \in 0..Len(Keys)] ==
          IF i = 0 THEN before ELSE ProcessMonitorTag(polled[i - 1], Keys[i], outcome)
    IN  polled[Len(Keys)]

\* runCycle: every monitor in turn; then the pipeline appends the events that
\* the cycle brought to its own store.
RunCycle(outcome) ==
    /\ feed = "pipeline"
    /\ \A m \in Monitors : outcome[m] = "contended" => cluster
    /\ \A m \in Monitors : outcome[m] # "ok" => newer[m]
    /\ LET before == [lastIndex |-> lastIndex, parent |-> parent, mon |-> mon, w |-> w,
                      dropped |-> dropped, past |-> past]
           Added(after) ==
             SubSeq(after.w.store.list, Len(w.store.list) + 1, Len(after.w.store.list))
       IN  \E after \in {Polled(before, outcome)} :
           /\ lastIndex' = after.lastIndex /\ parent' = after.parent /\ mon' = after.mon
           /\ dropped' = after.dropped /\ past' = after.past
           /\ w' = IF sharing = "none" THEN after.w
                   ELSE StoredAll(after.w, sharing, Added(after))
    /\ newer' = [m \in Monitors |-> FALSE]
    /\ UNCHANGED <<config, file, extras>>

\* A dashboard reads a monitor; only a dirty one does anything.
View(m) ==
    /\ mon[m].dirty
    /\ LET loads == persist /\ ~Stale(mon[m].row, parent[m])
       IN  \E got \in {GetXY(mon[m], w, m, parent[m], persist)} :
           /\ ~(cluster /\ ~loads /\ WouldEmit(mon[m], w, m, parent[m]))
           /\ mon' = [mon EXCEPT ![m] = got.mon] /\ w' = got.w
           /\ past' = [k \in Monitors |-> past[k] \union EmitTrace(got.w)
                        \union (IF k = m /\ ~loads THEN RecomputeTrace(m) ELSE {})]
    /\ UNCHANGED <<config, source, parent, extras>>

-----------------------------------------------------------------------------
\* A caller streams a chunk: the sensor has absorbed it without telling its
\* listeners (load, or a monitor that was itself appended to), and appendData
\* gets it.
Stream(m, levels) ==
    /\ feed = "stream" /\ Samples(m) + Len(levels) <= MaxSamples[m]
    /\ LET chunk == Points(levels, Len(parent[m]))
           grown == parent[m] \o chunk
       IN  \E got \in {AppendData(mon[m], w, m, grown, chunk, persist)} :
           /\ parent' = [parent EXCEPT ![m] = grown]
           /\ mon' = [mon EXCEPT ![m] = got.mon] /\ w' = got.w
           /\ past' = [past EXCEPT ![m] = @ \union
                           IF Cold(mon[m]) THEN RecomputeTrace(m)
                           ELSE AppendTrace(m, chunk, got.mon)]
    /\ UNCHANGED <<config, source, extras>>

\* updateData with more samples, or with the same ones: the monitor is told.
Update(m, levels) ==
    /\ feed = "stream" /\ Samples(m) + Len(levels) <= MaxSamples[m]
    /\ levels # <<>> \/ ~mon[m].dirty
    /\ parent' = [parent EXCEPT ![m] = @ \o Points(levels, Len(@))]
    /\ mon' = [mon EXCEPT ![m] = Invalidated(@)]
    /\ UNCHANGED <<config, source, w, past, extras>>

Extra == extras < MaxExtras /\ extras' = extras + 1 /\ UNCHANGED config

\* updateData with other values at the same times: a corrected measurement.
Revise(m, i, level) ==
    /\ Extra
    /\ level # parent[m][i][2]
    /\ parent' = [parent EXCEPT ![m][i][2] = level]
    /\ mon' = [mon EXCEPT ![m] = Invalidated(@)]
    /\ past' = [past EXCEPT ![m] = @ \union {"revised"}]
    /\ UNCHANGED <<source, w>>

\* The setters of ConditionFn, AlarmOffConditionFn and MinDuration.
SetRule(m, rule) ==
    /\ Extra
    /\ rule # mon[m].rule
    /\ mon' = [mon EXCEPT ![m] = [Invalidated(@) EXCEPT !.rule = rule]]
    /\ past' = [past EXCEPT ![m] = @ \union {"ruled"}]
    /\ UNCHANGED <<source, parent, w>>

Ids == {w.events[h].id : h \in ToSet(w.store.list)}
Edited == [m \in Monitors |-> past[m] \union {"edited"}]

RemoveEvent(id) == /\ Extra /\ w' = RemoveEvents(w, id) /\ past' = Edited
              /\ UNCHANGED <<source, parent, mon>>
EditWindow(id, startT) == /\ Extra /\ w' = EditEvent(w, id, startT) /\ past' = Edited
                    /\ UNCHANGED <<source, parent, mon>>

Next ==
    \/ \E m \in Monitors :
          \/ \E level \in Levels : Log(m, level)
          \/ View(m)
          \/ \E levels \in Chunks : Stream(m, levels)
          \/ \E levels \in Chunks \union {<<>>} : Update(m, levels)
          \/ \E i \in DOMAIN parent[m], level \in Levels : Revise(m, i, level)
          \/ \E rule \in Rules : SetRule(m, rule)
    \/ \E outcome \in [Monitors -> {"ok", "torn", "contended"}] : RunCycle(outcome)
    \/ \E id \in Ids : RemoveEvent(id) \/ \E startT \in 1..2 : EditWindow(id, startT)

Spec == Init /\ [][Next]_vars

-----------------------------------------------------------------------------
\* The signal of a monitor that is not dirty belongs to the samples its sensor
\* holds now, whichever of recompute_, appendData and the persisted row it comes
\* from, and whatever the chunks: it is the signal of one recomputation, except
\* that a minimum duration may suppress more of it (a run cut by a chunk is
\* judged by its parts).  The row of the DataStore does not tell a changed rule
\* or changed values from the old ones: these cases are left out.
SignalMatchesBatch ==
    \A m \in Monitors :
        LET c == mon[m].cache   batch == Batch(parent[m], mon[m].rule)
        IN  ~mon[m].dirty /\ ~(persist /\ past[m] \intersect {"ruled", "revised"} # {}) =>
            /\ c.pts = parent[m]
            /\ \A i \in DOMAIN c.y : c.y[i] => batch[i]
            /\ mon[m].rule.minDur = 0 => c.y = batch

\* The events of a monitor are the runs of its signal: one event for each run,
\* with its start and its end, open exactly when the run reaches the last
\* sample.  Recomputing, in every poll, neither duplicates nor forgets one.
\* What breaks this in the code is named: a chunk that clears the alarm and
\* raises it again (its first run is dropped), a chunk appended after the
\* persisted row had lost the open event, a recomputation that cuts runs
\* differently from the stream, ids numbered apart by two stores, cluster mode
\* (no event can be emitted), rules, values and events changed by hand.
EventsAreRuns ==
    \A m \in Monitors :
        LET c == mon[m].cache   runs == ToSet(Runs(c.y))
            hs == {h \in ToSet(w.store.list) : w.events[h].mon = m}
            IsRun(e, r) == /\ e.start = c.pts[r[1]][1]
                           /\ IF r[2] = Len(c.y) THEN e.open
                              ELSE ~e.open /\ e.end = c.pts[r[2]][1]
        IN  ~mon[m].dirty /\ ~cluster /\ past[m] \subseteq {"uneven"} =>
            /\ \A h \in hs : \E r \in runs : IsRun(w.events[h], r)
            /\ \A r \in runs : Cardinality({h \in hs : IsRun(w.events[h], r)}) = 1

\* An id names one event, that of the monitor it is bound to: closing, removing
\* and acknowledging by id reach the right one.  Two stores that both number
\* the same objects break it once an event was emitted outside a poll.
IdsNameOneEvent ==
    (\A m \in Monitors : "numbered apart" \notin past[m]) =>
        \A g, h \in ToSet(w.store.list) :
            /\ w.events[g].id = w.events[h].id => g = h
            /\ \A m \in Monitors : <<w.events[h].id, m>> \in w.bound => w.events[h].mon = m

\* Every sample a poll has fetched is in the sensor, once and in order, except
\* those given up because the lock was taken: a failed fetch, an mtime that
\* stands still or an error of the monitor lose none.
SamplesArrive ==
    \A m \in Monitors :
        feed = "pipeline" =>
            LET old == Len(parent[m]) + Cardinality(dropped[m]) - lastIndex[m]
                taken == Masked(file[m], {i \in 1..lastIndex[m] : file[m][i][1] \notin dropped[m]})
            IN  /\ old >= 0
                /\ "revised" \notin past[m] => SubSeq(parent[m], old + 1, Len(parent[m])) = taken
=============================================================================
