# A TLA+ verification project for FastSense

FastSense is a MATLAB/Octave library for time-series dashboards. Below its
plots it has a small distributed system: several MATLAB processes ingest raw
sensor files, share per-tag `.mat` files on a network share under file locks,
derive alarm signals, and record and announce events. That part, the graph of
tags it feeds and the plot that shows it are what these modules specify, check
with TLC and prove with TLAPS.

## 1. Inventory

| Component (source) | State | Operations | Hard behaviour | What makes it correct |
|---|---|---|---|---|
| FileLock, lockfile_mex (`libs/Concurrency/FileLock.m`, `private/mex_src/lockfile_mex.c`) | kernel lock, body file, per-process `heldKeys_`, `handle_` | tryAcquire, release, delete, heartbeat_ | contention between processes, nested attempts, death of a holder, stale heartbeat | mutual exclusion per key; the lock is freed; a dead holder's body does not stay |
| TagWriteCoordinator, AtomicWriter (`libs/Concurrency`) | temp file, shared file | acquireTag, write, replace | check-then-rename, retries, a rename that cannot be confirmed, crash | no acknowledged write is lost; the file only grows |
| LiveTagPipeline (`libs/SensorThreshold/LiveTagPipeline.m`) | per-tag `lastModTime`/`lastIndex`, `priorState_`, `tagMtimeCache_`, per-tick caches | onTick_, processTag_, gcStaleTagState_ | a logger writing during the tick, truncation, torn saves, restart | every row arrives, once and in order |
| BatchTagPipeline | none between calls | run | overwrites what the live pipeline appends | same rows as the live path |
| EventLog, EventLogReader, ndjson (`libs/Concurrency`) | NDJSON file per tag, reader's mtime cache | append, readAll, tail | appends under contention, torn last line, reads during appends | every appended event is read back; no torn line is accepted |
| EventLogConsolidator | `events.mat` snapshot | consolidate | leader election, merge with an older snapshot | the snapshot has every event once and is never shortened |
| MonitorTag (`libs/SensorThreshold/MonitorTag.m`) | cache of x/y and flags, open event, dirty flag | getXY, appendData, invalidate, recompute_ | streaming against recomputation, hysteresis and debounce over chunk borders | streaming gives what recomputation gives; each run has one event |
| CompositeTag, DerivedTag, Tag | children, listeners, cache | addChild, invalidate, getXY, invalidateBatch_ | cycles, batched fan-out, merge of unaligned series | no stale cache after an update; acyclic |
| SensorTag, StateTag, TagRegistry | data, key map | updateData, load, register, unregister | registry changes while pipelines run | keys are unique |
| EventStore, Event, EventBinding (`libs/EventDetection`) | events, ids, acknowledgements, file | append, closeEvent, removeEvents, acknowledgeEvent, save, loadFile | id reuse after restart, two writers of one file, stale read cache | ids are unique; a closed event stays closed; a save is all or nothing |
| LiveEventPipeline | data-source cursors | runCycle, processMonitorTag_ | fetch before lock, events appended twice | no sample is dropped; each event is stored once |
| NotificationService | last-sent times | notify, findBestRule | cooldown | one message per cooldown and event class |
| PlantLogStore, PlantLogLiveTail (`libs/PlantLog`) | entries, hashes, cursor | addEntries, tick_ | re-read of a growing file | no entry twice |
| FastSense and its kernels (`libs/FastSense`) | line data, view, line and markers on screen, pyramid, two timers | render, zoom, Home, resize, updateData, refineLines, startLive, stopLive | callbacks and timers in any order, caches keyed by the view, NaN gaps, SIMD remainders | the screen belongs to the view and the samples; no extreme is lost |
| FastSenseDataStore | SQLite rows of chunks | getRange, readSlice, findIndex, findViolations | chunk borders, NaN in a chunk's range | answers like the line in memory |
| Dashboard, Companion, WebBridge, Python bridge | GUI, sockets | live tick, request, notify | GUI callbacks, reconnects | out of scope, except the bridge protocol |
| SQLite, mksqlite | | | | third-party |

How they interact: a timer calls `LiveTagPipeline.onTick_` on MATLAB's one
thread; in cluster mode `processTag_` takes the tag's `FileLock` through
`TagWriteCoordinator` and writes through `AtomicWriter`. `LiveEventPipeline`
feeds `MonitorTag.appendData`, whose events go to `EventStore` and, in cluster
mode, to `EventLog` under the same per-tag lock; `EventLogConsolidator` merges
the logs under a lock of its own. A `SensorTag` that changes tells its
listeners: monitors, composites and derived tags, which recompute when a
dashboard or the Companion reads them. `FastSense` shows a line from memory or
from a `FastSenseDataStore`, reduced to the pixels of the axes.

MATLAB runs callbacks only where user code pauses, so inside one process the
interleavings are coarse; between processes, and between a process and the
logger that writes the raw files, they are not.

## 2. Modules

| Module | Models | Uses |
|---|---|---|
| `Mutex` | what FileLock promises: at most one holder | |
| `FileLock` | the two lock files of one key and every process's lock object | refines `Mutex` |
| `CoordinatedWrite` | the locked read-merge-rename of one tag file | composes with `FileLock` |
| `LiveTagPipeline` | one pipeline's tick over all tags | abstracts `CoordinatedWrite` to its outcomes |
| `MCLiveTagPipeline` | instance: two tags on one raw file | |
| `EventLog` | one tag's NDJSON log, its writers and its cached readers | `Mutex` for the tag's lock |
| `EventLogConsolidator` | leader election and the merge of log and snapshot | extends `EventLog`; `Mutex` for the leader's lock |
| `MCEventLogConsolidator` | instances: two forms of one event, an event without an Id; two permuted texts | |
| `LogicalIndexing` | a list indexed by a logical mask, `s(mask)` in MATLAB | used by the event log, the consolidator, `EventStore` and all above it |
| `EventStore` | Event handles, a store's list and counter, the bindings of ids to tags | |
| `MonitorTag` | the signal of a monitor and its events, recomputed, streamed or read back | extends `EventStore` |
| `LiveEvents` | monitors, sensors, the poll of `LiveEventPipeline`, callers and an operator | extends `MonitorTag` |
| `MCLiveEvents` | instance: two monitors; chunks, rules, ways to set the pipeline up | |
| `TagGraph` | who reads whom, who tells whom, what is dirty | |
| `MCTagGraph` | instance: one sensor, monitor and derived tag, three composites | |
| `Downsampling` | the MinMax and LTTB kernels with their vector lanes, binary search, the window of a view | |
| `Violations` | thresholds and the markers of the points beyond them | extends `Downsampling` |
| `DataStore` | chunks, their queries, the first pyramid level | extends `Violations` |
| `PlotView` | one plot: its callbacks, timers and caches | extends `DataStore` |
| `MCPlotView` | instance: lines with spikes and gaps, thresholds, views | |
| `RecursionLemmas` | induction over numbers and over loops; what a mask selects; the least and the greatest of a set | |
| `FileLockProofs`, `CoordinatedWriteProofs`, `LiveTagPipelineProofs`, `EventLogProofs`, `LiveEventsProofs`, `TagGraphProofs`, `PlotViewProofs` | theorems about the module each is named after; those of `EventLogConsolidator` are in `EventLogProofs` | those of the logs, of `LiveEvents` and of `PlotView` use `RecursionLemmas` |

**FileLock.** One lock is `<key>.lock` (the kernel lock: variable `kernel`) and
`<key>.lock.body` (identity of the holder: `body`). `held` is the `heldKeys_`
registry, `handle` says that an object's `handle_` is non-empty, `seen` is what
a heartbeat in progress has read. `pc` follows the object through tryAcquire,
the critical section, release and its destructor. An action is one effect on
the shared files with the local assignments around it. Processes in `MexProc`
have `lockfile_mex`; the others use the sidecar protocol, and both kinds may
contend for a key. The body deletions in `release` (which the destructor
repeats), the refused nested attempt and the heartbeat's write-back are all
there. A body operation in a `try/catch` may fail (`BestEffort`). A crash frees
the kernel lock and leaves the body, now naming `Ghost`.

**CoordinatedWrite.** `Lock` is an instance of `FileLock` over the same
variables. `phase` is the holder's place in `AtomicWriter.write`: `temp` is
loaded-and-merged content, `file` the shared file as a sequence of batches,
`next` the process's next batch, `acked` the batches whose write has returned.
`RenameUnconfirmed` is the case where the rename has happened and the call
throws all the same. Timer callbacks (heartbeats, nested attempts) run where
the code pauses.

**LiveTagPipeline.** A row is its serial number, so duplicates and gaps show.
The environment (`Log`, `Touch`, `Rotate`, `Clock`) acts between any two steps.
A tick collects garbage, lists the directory and then processes each tag in one
step: `Skip`, `NoNewRows`, `Save`/`SeedFails`/`LoadFails`/`SaveFails` (single-user),
`Merge`/`MergeUnconfirmed` (cluster), or `Deferred` (parse error, contention,
lost lock). `SeedFails` is a cold save whose read-back fails: the error is swallowed and
the place advances, but `priorState_` stays empty (`unseeded`). `Restart` empties the process's memory, and may tear a save. The
order of the tags is arbitrary. `replayed` is a history variable: the tags
whose place in the raw file was lost after something had been written; `stamp` is the
mtime granule each row was logged in.

**EventLog.** The file is a sequence of tokens: `Hash` (the text of the magic
line), `NL`, and for each event `Start(e)` and `Rest(e)`. `append` takes the
lock, decides on the header, and then its tokens reach the file one by one
(`WriteToken`), so readers see and crashes leave every prefix. `Decode` is
`ndjsonDecode`: a line counts if it is exactly one whole event. An event is one
call's payload; the same event logged by two processes, or again after a crash,
is two events. `ShortWrite` is an `fwrite` that stops short, which `append`
does not notice. A reader stats (`BeginRead`), parses and fills its cache
(`EndRead`), or fails; `CacheHit` is a read that changes nothing. `ackTime`
records when `append` returned true. The lock is `Mutex`, which `FileLock` is
proved to implement for processes with `lockfile_mex`; without it finding 1
applies to the log as well.

**EventLogConsolidator.** `leader` is the kernel lock of `events-consolidator`
and `body` says that its body file exists; `Refused` and `Erase` delete it
whosever it is. `gathered` is `accumulated`. `Key` is what `dedupById_`
compares: the Id, or the sum of the characters.

**MonitorTag, EventStore, LiveEvents.** An `Event` is a handle object: `w.events`
holds the objects, a store is a list of indices into it, so that a second store
that numbers the same objects overwrites their ids, as in the code. A monitor
is its rule (thresholds on and off, minimum duration), `dirty_`, its cache
(signal, last flag, hysteresis state, start and id of the ongoing run) and the row
`persistIfEnabled_` wrote. `Recompute` and `AppendData` are whole calls, with
the events they emit and close; `GetXY` loads the row, recomputes or does
nothing. A sample is a time stamp and a level. `RunCycle` polls every monitor
in turn and then appends what is new to the pipeline's store; each fetch goes
well, fails on a torn file, or is followed by a lock that is taken. `dropped`
and `past` are auxiliary: samples given up, and for each monitor which of the
code's known weaknesses (section 4) it has met. The properties exclude a monitor only
after the step that damages it, never a kind of behaviour.

**TagGraph.** `inputs` and `listeners` are kept apart, as in the code; that they
mirror each other is a theorem. `Closure` is the least closed set, which is what
the recursive cascade of `invalidate` and the search of `wouldCreateCycle_`
compute where they end. `behind` holds the tags whose cache is not what
computing all inputs anew would give; a read makes a tag fresh only if the clean
inputs it trusts are. `quiet` holds the tags changed without telling (`load`,
the setters), until something above them is invalidated by their cascade. A monitor in
`Persistent` stores a row of its signal when it is computed (`Persisted`), and when it is read dirty it may
load the row it has (`LoadedFromDisk`). The row's signature is the parent's key, its number of samples and its first and last x.
Whether it still fits after a change depends on values, which this module leaves out, so it may or may not;
`oldRows` says which rows are outdated and `reloaded` which monitors show one.

**Downsampling, Violations, DataStore.** Pure operators. A sample is a pair
`<<x, y>>` with `NaN` among the values of y; comparison, minimum and maximum treat
NaN as the vector instructions do (the second operand wins), lane by lane and
then across lanes. `MinMaxCore`, `LttbCore` and `ViolationCull` are the mex
kernels; areas and slopes of LTTB are compared by cross-multiplication. `Store`
is the table `chunks`; queries select rows and cut them.

**PlotView.** One action per callback: `Zoom` (onXLimChanged), `Home` and
`DeferredCheck`, `AutoLimits`, `Resize`, `RefineLines`, `UpdateData`,
`SetViewMode`, `SetViolationsVisible`, `SetXLimQuiet`, `StartLive`, `StopLive`. MATLAB runs them one
after the other; the two one-shot timers may come at any later moment. A zoom, `startLive` and `stopLive`
cancel the refinement, and `stopLive` the check of the Home button (`CancelCheck`).
The width has two variables: `axes` is what the window system gives (`SizeAxes`), `pw` is `PixelWidth`, which
`onResize` alone sets, perhaps never: axes in another program's figure have no `ResizeFcn`. A refinement measures `axes`, all else
goes by `pw`. `UpdateLines` and `UpdateViolations` are
the shared parts, with the pyramid and the marker cache. `drawn` and
`marked` are auxiliary and say for which view the line and the markers were computed;
`behind` says how `CachedXLim` came to differ from the limits that were drawn: by quiet limits, by a callback
that overtook the check, or because live mode cancelled it.

Definitions named `X_Something` are mutants: variants of `X` with a plausible
slip. Replacing `X` by its mutant makes TLC report the property that
`PROJECT.json` pairs with it; they are used nowhere else.

## 3. Runs

| Run | Instance | Shows |
|---|---|---|
| `filelock` | two processes with the MEX, one without; one heartbeat, crash and fault | `MutualExclusion`, `RegistryHonest`, `ImplementsMutex`; under fairness `KernelFreed`, `StaleBodyCleared` |
| `filelock_sidecar` (violation) | two processes without the MEX, nothing fails | `SidecarExclusion` fails: finding 1 |
| `coordinated_write` | two processes, one batch each, two attempts, one crash, one fault, two bad renames | `AckedDurable`, `AppendOnly`, `RenamerOwnsLock`, `WriteEnds` |
| `live_tag_pipeline` | both modes, two tags on one raw file, three rows, two mtime granules, one rotation, one restart, two faults | `CacheFaithful`, `NoRowSkipped`, `OlderGranulesTaken`, `OnceInOrder`, `SingleUserPickedUp` |
| `live_tag_pipeline_cluster` (violation) | cluster mode, two rows, nothing fails | `MtimePickedUp` fails: finding 3 |
| `event_log` | two processes, three events, one reader, two granules, one crash, one short write | `AckedReadable`, `LinesIntact`, `AppendOnly`, `CacheComplete`; under fairness `LockReleased` |
| `event_log_consolidator` | one writer, three events of which two share an Id, two consolidators, two mishaps | `SnapshotExtends`, `SnapshotDistinct`, `OneMishapLosesNothing`; under fairness `SnapshotCatchesUp` |
| `event_log_anagrams` (violation) | one writer, one consolidator, nothing fails | `DifferentEventsKept` fails: finding 4 |
| `live_events` | two monitors (three samples and one), six set-ups, rules with hysteresis and minimum duration, one setter, correction, removal or edit | `SignalMatchesBatch`, `EventsAreRuns`, `IdsNameOneEvent`, `SamplesArrive` |
| `tag_graph` | one sensor, monitor and derived tag, three composites, four edges, one quiet change at a time, rows of the monitor in a DataStore | `CleanMeansFresh`, `NoCompositeCycle` |
| `plot_view` | four lines (static, in memory, on disk, with gaps), constant and scheduled thresholds, two widths, three callbacks or resized axes, their timers and `onResize` | `ViewFresh`, `MarkersFresh`, `LineHonest`, `EnvelopeShown`, `AlarmsRight`, `StoreReads` |
| `plot_view_tail` (violation) | one line of 41 samples on disk | `BucketsAlike` fails: finding 2 |

**Bounds.** `MaxBeats`, `MaxCrashes`, `MaxFaults`, `MaxMisses`, `MaxRows`,
`MaxTime`, `MaxRotations`, `MaxRestarts`, `MaxShort`, `MaxMishaps`,
`MaxSamples`, `MaxExtras`, `MaxEdges`, `MaxQuiet`, `MaxSteps`, `Batches` and `Retries` cap what the
environment may do; they occur only in guards. Two contenders and one process
of the other kind give every pairing of roles the lock has. One crash lets a
stale body meet every state of the others; two bad renames exhaust
`Retries = 2`. Three rows over two mtime granules give growth inside and
across a granule before, during and after a tick; two faults are a read-back that fails and
the save that is torn after it. Three events are the first
writer's, one that is interrupted and the one that joins its torn line; a
repeated key with another in between needs three as well. Crashes of writers
are left to `event_log`: a torn line is to the consolidator only a line it does
not see. In `live_events`
three samples are a run that starts, is cut by a chunk or a poll and ends, and the
second monitor's event comes between two of the first's ids; one extra step is
enough for each kind of trace, since traces are kept. In `tag_graph` three
composites make the indirect cycle, four edges the diamond and the loop through
a monitor; composites are interchangeable (symmetry). In `plot_view`
`SimdWidth = 2`, `ChunkPoints = 5`, `PyramidReduction = 3` and `MinPoints = 5` let
lines of 5, 13 and 17 samples have vector remainders, chunk borders and a
pyramid; three callbacks are a change of the view, one of the data and a timer overtaken by either. The
constants of the code (4 lanes or 2, at least 10 000 samples per chunk, 5000 drawn as they are) enter it in no
other way. The proofs do not depend on these numbers.

**Fairness.** `FileLock`: a live process goes on executing (`WF` of its steps);
nothing forces a nested attempt or a crash. `CoordinatedWrite`: the same, for
the call a process is in, and for the next tick's attempt. `LiveTagPipeline`:
the timer fires again and a tick that has begun ends; a tag taken out of the
registry comes back. `EventLog`: a live process goes on with its `append`.
`EventLogConsolidator`: a pass goes on, and `consolidate` is called again and
again, as its header says ("Periodically merges"); nothing in `libs/` calls it
yet. `CoordinatedWrite` and the event-log modules are not checked for deadlock:
processes with nothing left to write stop; nor are `live_events` and `plot_view`, whose bounds
end every behaviour. `LiveEvents`, `TagGraph` and `PlotView` assume no fairness:
their properties are invariants, and the timers of a plot are one-shot timers whose
pending state the invariants name. No property assumes that a contended lock is granted.

## 4. Findings

1. *A refused attempt unlocks the key* (`filelock_sidecar`). `FileLock.delete`
   calls `release`, which deletes the body file even if the object never held
   the lock. Without `lockfile_mex` that file is the lock, so mutual exclusion
   is lost. With `lockfile_mex` the same deletion makes `stillHeldByMe` false, and
   `AtomicWriter.replace` throws `lockLostBeforeReplace` with the kernel lock
   in hand (`Revalidate`). No data is lost then (`AckedDurable` holds); the write is repeated.
2. *The end of a stored line is drawn from two samples* (`plot_view_tail`). `FastSenseDataStore.buildPyramidFromMemory`
   divides `n` samples into `round(n/R)` buckets of `floor(n / buckets)` and folds all that remain, up to one less than there
   are buckets, into the last. `minmax_downsample.m` and `minmax_core_mex.c` were changed to avoid exactly this ("fake tail
   spike"); the store's own copy was not. `EnvelopeShown` holds all the same, with a reach that counts the folded samples (`Folded`).
3. *Tags sharing a raw file starve in cluster mode*
   (`live_tag_pipeline_cluster`). `tagMtimeCache_` is keyed by the raw file, so
   the first tag's write hides the file's mtime from all the others.
4. *Different events become one* (`event_log_anagrams`). The content hash of an
   event without an Id is the sum of its characters, so permuted texts collide.

What the runs show of behaviour that is by design or undocumented: rows are
written again after a restart, after a tag leaves and re-enters the registry,
and after an unconfirmed rename (`OnceInOrder` excludes `replayed` tags); rows
logged in the mtime granule of the last listing wait for the next write; a torn
in-place save blocks its tag until someone removes the file, unless the
cache is warm (`SingleUserPickedUp` excludes `Torn` files). The comment at `LiveTagPipeline.m:683`
says that after a failed read-back the cold path is correct; it is, as long as no save is torn. If one
is, the file cannot be loaded, there is no cache to rewrite it from, and the rows counted so far are lost
to this process (`Lost`; `NoRowSkipped` excepts it). `OlderGranulesTaken` shows that nothing older than the listed granule is
ever left to wait. In the event log, a
crash can make one acknowledged event unreadable and an unnoticed short write
two (`AckedReadable` counts them); a log whose first writer dies before its
first `fwrite` never gets a magic line (`LinesIntact` speaks of failure-free
behaviours); an event appended in the granule of the last parse stays hidden
from a kept reader until a later write (`CacheComplete` speaks of earlier
granules; all callers in `libs/` make a new reader per call). The snapshot
keeps the first form of an Id. Consolidators that refuse each other can abort
each other's passes for ever; `SnapshotCatchesUp` assumes that this ends.

Found while modelling the monitors, the tags and the plot; the properties name
these cases and leave them out, no run is spent on them:

* A chunk that clears a streamed alarm and raises it again loses the new run's
  event: the first run of the chunk is dropped as if it were the one that closed
  (`MonitorTag.m:877`).
* A persisted row comes back without its open event, so that a chunk appended
  next opens a second one; and its signature (`MonitorTag.m:958`) tells neither a
  changed rule nor changed values: a dirty monitor reloads the old row and is clean with it, and so is all
  that is computed above it, until it is recomputed (`reloaded` in `TagGraph`).
* A minimum duration is judged per chunk: a run cut by a chunk may be suppressed
  in the stream and kept by the next recomputation, whose events then overlap.
* In cluster mode `emitEvent_` hands an `Event` object to `EventLog.append`,
  which accepts structs only (`EventLog.m:126`); the error leaves the monitor
  dirty and no event is ever emitted (`MonitorTag.m:533`).
* A pipeline with a store of its own, or the monitors' own, appends the events
  the monitor has appended already: ids are overwritten, or every event is
  listed twice (`LiveEventPipeline.m:221`, `EventStore.m:91`).
* Samples fetched before the tag's lock is refused are never fetched again
  (`LiveEventPipeline.m:313`).
* An event removed or edited by hand comes back with the next recomputation.
* A monitor added to a composite whose listeners lead back to that monitor
  closes a loop `wouldCreateCycle_` does not look for, since it descends through
  composites only; the cascade then ends in the recursion limit
  (`CompositeTag.m:515-547`). `load`, the setters and a composite's properties
  tell no listener.
* Markers culled from the stride preview, or from a line drawn for other limits
  after `setXLimQuiet`, stay as long as the view does, since `CachedViolationLim`
  knows only the view (`FastSense.m:4736`). `setXLimQuiet` leaves `CachedXLim`
  behind, so a later zoom back is skipped (`FastSense.m:4174`); a resize or a live
  update between the Home button and its 10 ms timer has the same effect, as it draws
  the full view and leaves `CachedXLim` at the zoomed one (`behind` says which). If live mode is stopped in
  that time, the timer is deleted and the line stays that of the zoomed view (`FastSense.m:2269`). A refinement
  overtaken by another callback draws the whole line into the zoomed view; it measures the axes anew
  (`FastSense.m:4036`), while its markers are culled with `PixelWidth`. `startLive` right after `render` cancels the refinement, and
  the stride preview stays until something else draws.
* Pyramid levels are built as if there were no gaps (`FastSense.m:4635`): NaN
  lanes may hide extremes there, in a chunk's y range and in the vector tests of
  `resolve_disk_mex` and `compute_violations_mex`. A view between two chunks
  shows nothing (`FastSenseDataStore.m:833`).

Five hazards of `PROJECT.json` have no property. Two the code does whenever they can arise, and the models do the
same: a pipeline that shares the monitors' store lists each event twice
(`EventsAreRuns` compares sets, and `IdsNameOneEvent` leaves out stores that number the same events apart), and samples are given up
at a contended lock (`SamplesArrive` shows that no others are). Three concern parts not modelled: the temporary file of
`EventStore.save`, ids after a restart, and the cooldown of notifications.

## 5. Proofs

TLAPS checks, for every set of processes and every bound:

* `FileLockProofs`: `FileLockTypes`, `FileLockMutualExclusion`,
  `FileLockRegistryHonest`, `FileLockImplementsMutex`.
* `CoordinatedWriteProofs`: `CoordinatedWriteTypes`,
  `CoordinatedWriteAckedDurable`, `CoordinatedWriteRenamerOwnsLock`,
  `CoordinatedWriteAppendOnly`.
* `LiveTagPipelineProofs`: `PipelineInvariant`, `PipelineTypes`,
  `CacheIsFaithful`, `PipelineSkipsNoRow`, `PipelineOlderGranules`, `PipelineWritesOnce`.
* `EventLogProofs`: `EventLogInvariant`, `EventLogTypes`, `EventLogLinesIntact`,
  `EventLogAppendOnly`, `EventLogPromises`, `EventLogReaderTypes`,
  `EventLogKeepsPromises`, `EventLogCachesAll`.
* `EventLogProofs`, of the consolidators: `ConsolidatorKeepsLogs`, `ConsolidatorInvariant`,
  `ConsolidatorTypes`, `ConsolidatorIdempotent`, `ConsolidatorKeepsHistory`,
  `ConsolidatorSurvivesOneMishap`.
* `LiveEventsProofs`: `LivePollInvariant`, `LiveSamplesArrive`,
  `LiveIdInvariant`, `LiveIdsNameOneEvent`, `LiveSignalInvariant`, `LiveSignalMatchesBatch`.
* `TagGraphProofs`: `TypesAndListeners`, `CompositesAcyclic`, `CleanTagsFresh`.
* `PlotViewProofs`: `PlotInvariant`, `PlotViewFresh`, `PlotMarkersFresh`,
  `PlotLineHonest`, `PlotEnvelopeShown`, `PlotStoreReads`.

*Lock.* Mutual exclusion is not inductive: a state in which two objects have a
handle is excluded only because each handle is backed by the kernel lock.
`IInv` adds exactly that (`KernelBacksHandle`), that a handle exists just
between acquire and release (`HandleInHold`), that the kernel lock belongs to
a process with a handle (`KernelInHold`), that only sidecar processes verify
(`VerifyIsSidecar`), and where the registry may be marked (`RegistryInHold`).
The refinement of `Mutex` maps `holders` to the processes with the MEX and a
handle.

*Write.* `LockStep` shows that every step of the writer is a step of `FileLock`
or leaves its variables alone, which is so by construction and no result, but lets `FileLock`'s
invariant hold here without a second proof (`LockBehaviour`, `LockInvariant`). The data invariant `WInv` says that a process
that has begun a write has a handle, and that the temp file of a writer between
load and rename is the current file plus its batch (`TempFresh`). That is
inductive because a rename by one process finds no other in that window:
handles are exclusive. `AckedDurable` follows since a rename only appends.

*Pipeline.* `NoRowSkipped` and `OnceInOrder` relate a tag's file to a raw file that
the logger may extend or rotate after it was parsed and before the tag is saved. The
invariant therefore speaks of three contents at once. A parse is the beginning
of its file or, if that was rotated, older than all in it (`ParsedFits`). The
rows before a tag's place are stored (`PlaceStored`), in the file or, where a
save tore it, in the cache that replaces it; this needs that single-user
mode has a cache for every tag with a place unless its read-back failed (`PlaceCached`, `UnseededCold`), that the cache is what the file
would be (`CacheFaithful`) and that cluster mode has no torn file (`ClusterIntact`). The rows behind
the place are newer than all that is stored, unless the tag has lost its place (`PlaceOrdered`). `OlderGranulesTaken` needs the same of the listing and of each parse
(`GranulesInv`): a parse holds every row of a granule before the listed one, and time stamps never run back.

*Event log, lines.* That the file consists of whole lines is not inductive, since it
says nothing of the tokens still to come. `WriteCompletes` does: the file with
the holder's remaining tokens is `Complete` (magic line first, then whole lines,
a newline last), and when nobody writes the file itself is, or does not exist.
Opening preserves it by `HeaderCompletes` and `LineCompletes`, writing a token
moves it from buffer to file, and `PrefixInLines` gives `LinesIntact`. It holds
because only the lock's holder writes (`WriterOwnsLock`).

*Event log, promises.* With crashes and short writes the file is no sequence of
lines any more. `DebtBounded` keeps accounts: the `Debt` of a file is the number of
promised events that have no whole line of their own followed by a newline (`Kept`), plus one if the
file ends in the middle of a line (`Torn`), since the next line will be joined to it. Of the
file together with what the holder has yet to write it is at most one for each
crash and two for each short write. Opening, finishing and refusing a call leave the
debt alone, each fault adds what it may cost. `BufferEndsLine` says what
can be left in a buffer, `OneCallEach` and `WrittenOnce` that no event is written in two
calls. `DecodeReads` connects the file with what `ndjsonDecode` returns: a kept event is decoded. The
cache is complete because the clock moves between a stat and the appends it misses (`TimesPast`).

*Consolidation.* Its steps are steps of the log or leave it alone, so all of the above holds beside it
(`ConsolidatorKeepsLogs`). In the invariant one process leads (`LeaderAlone`), what was
written and could not be read never becomes readable (`SeenWritten`), and what
the leader has gathered covers what could be read when it looked, save for counted mishaps (`PriorCovered`,
`WriteCovered`). `DedupKeeps` and `DedupExtends` say what `dedupById_` does to any
list: one event for each key, the first, and nothing of a prefix without repetitions is dropped.

*Polls.* `SamplesArrive` compares a sensor with the lines of a file whose dropped ones are left out; the
invariant gives each monitor an account (`Fed`): the samples it started with, those in its file up to
`lastIndex` and those given up are numbered without a gap, and the sensor has, behind those it started with, the fetched
ones in order. A poll treats one monitor after the other, and may leave each in one of
three ways (`Account`); that the loop leaves all of them so is an induction over `Keys`
(`PolledFits`).

*Ids.* `IdsNameOneEvent` speaks of the events a store lists and of bindings that are still there. Inductive is
that every event object, listed or removed, has an id of its own that `nextId` has reached, and that a binding
names the tag of whatever event has its id (`Named`): ids are then never reused.
`Extends` says what any call of a monitor may do to the world: events are
added with consecutive ids, at the end of the list, and older ones keep id and monitor. It is transitive, so
it passes from `Emit` and `CloseEvent` through the loops over runs of `fireEventsOnRisingEdges_` and
`fireEventsInTail_` to `appendData`, `getXY` and a whole poll. A pipeline whose store is its
own hands out the same ids again (`NumberedAlike`) as long as every event came by a poll, which is why
`LiveEvents` records the first that did not. When the pipeline has the monitors'
store, an event gets a second, new id (`NumberedAgain`); the first stays bound and names nothing.

*Signals.* `SignalMatchesBatch` speaks of clean caches and of whole lines; what a chunk adds depends on more. The
invariant (`SignalInv`) keeps with each cache the state of the hysteresis, which is that of a recomputation (`StateFits`), and the
start of the open run, which belongs to a stretch of the alarm that reaches the end of the line (`CarryFits`); it keeps the row of the
DataStore, read back later, as a signal of the samples its line began with (`RowFits`), and every line in the order of
its times (`Ordered`), for which the polls' account is needed. Then a chunk is judged as the same samples in one line are:
`HysteresisGrows` says that a hysteresis continued from a lower state stays below the one of the
whole line, `DebouncedIs` that a sample stays raised exactly when the alarm is on around it for
long enough (`Lasts`), and `LastsLonger` that what lasts in a chunk lasts in the line. With a minimum duration the state read
back from a row is the suppressed signal's last value (`LastFits`), lower than the true one; a lower state is harmless only
if no level both raises and clears the alarm, which is what `RuleAssumption` asks. The level and band
factories (`MonitorTag.m:1226-1237`, `1302-1312`) build such rules; the raw constructor takes any two functions.

*Tag graph.* `CleanMeansFresh` is not inductive: that a cascade of listeners
reaches every reader of a changed tag needs `Told` (the listeners of a tag are
exactly its readers). `CompositesAcyclic` needs that `Closure` is the least closed
set: were there a set of composites each with a child in it after `addChild`, the new child's
closure would contain the parent, and the check would have refused. A tag that is wrong although clean lies above
one that changed quietly or that reloaded an outdated row (`Excuses`): a cascade takes the tags it reaches out of
the account together with the excuses it removes (`Healed`), a quiet change adds one for all it leaves behind
(`Excused`). Cycles
through monitors are not excluded, which is why freshness is claimed only for
graphs without loops.

*Plot.* `ViewFresh` and `MarkersFresh` speak of the view in force, which callbacks change without drawing.
The invariant instead says of line and markers for which view they were drawn, and that they are what that
view calls for (`DrawnLine`, `MarkedView`); a view differs from the one in force only while the check of the Home button is pending,
where `CachedXLim` was left behind, or for a refinement (`CachedLimits`, `DrawnLimits`). A refinement is compared at the width it measured. The markers' cache is a matter of the pyramid: a line
may have been drawn before a level was built and be compared with one drawn after. A level depends on the
samples alone (`IsPyramid`, `PyramidsAgree`), so it makes no difference (`LinesOfPyramid`, `RefinedOfPyramid`).

*Lines.* `PlotLineHonest` follows from the same invariant, since what is drawn is what a kernel makes of the samples, once every kernel
is shown to pick: `Picks` says that each of its points is a sample and that they come in the order of the samples,
`Reaches` that the last point lies no further left than the last sample. Both hold of `MinMaxCore` (its pairs lie in
consecutive buckets), of `LttbCore` (a bucket's point is one of the bucket, and the buckets are disjoint: `Bucket`), and of
the levels of a store's pyramid. A line with gaps is cut into the
runs between them (`Runs`), each is drawn on its own, and the pieces are joined with a separator; `SegmentsDrawn` is the account
of the joint sequence, from which a stroke stays within a run (`Strokes`) and so crosses no gap. `DrawsHonest` and
`DrawsUnbroken` carry this from the window a view selects to the line.

*Extremes.* `PlotEnvelopeShown` needs to know where in the line a point stands for samples. `Paired` says that the two points of a
bucket are a lowest and a highest of its samples, `Even` how wide the buckets are. From them `Summarizes(pts, line, W, E)`: each point
stands for an interval that holds it, the intervals are in order and cover the line with an extreme of each kind, and
`2 t + 1` points in a row stand for at most `(t + 1) W + E` samples. Summaries compose (`Compose`): a level that
summarizes the level below summarizes the line, with the factors multiplied (`Spanned`, from
`SpansAgree` and `SpannedIs`), and the samples a store's last bucket takes over are the `E` (`Folded`,
`StoreSummarizes`). So the points of a level in a window cover the samples in view, but for one whose bucket
holds a sample outside the view that goes further, and that one is less than `Reach` away (`SummaryReaches`). Without a level the kernel
covers each run of samples between gaps (`MinMaxCovers`, `BySegmentCovers`) and no such exception is needed (`LinesCover`).

*Chunks.* `PlotStoreReads` needs no invariant beyond the type of the samples. The chunks of a store are the line cut in order
(`StoreCuts`); those a query selects are consecutive, since x does not decrease (`ChunksInOrder`), so what they concatenate to is
one part of the line (`ConcatIs`); and a binary search in a part finds the place the search in the line does,
when the part holds the samples on both sides of it (`SearchedInPart`, `WindowOfPart`).

*Loops.* `RecursionLemmas` states induction for sets of numbers instead of operators, which is the form
the provers can use (`UpToInduction`), shows that a loop has a result (`IterationExists`) and what a
logical mask selects (`MaskedSelects`, `MaskedPrefix`, `MaskedSuffix`). Loops of the models that proofs
reach are recursive functions for this reason.

Assumptions are the named `ASSUME`s of the modules: process identities differ
from the markers `Nobody` and `Ghost`, the kinds of tags are disjoint, the text of the magic line is no event
and no newline, the polled keys are a list of the monitors, a pipeline has the monitors' store, one of its own or none,
chunks and first samples are sequences of levels, no level both raises and clears an alarm that has a minimum duration, a line has samples with x that does not decrease (`addLine` rejects others),
`NaN` is no number, limits increase, a chunk has at least one sample, a vector register one, two or four lanes, and bounds are natural numbers.
`lockfile_mex`'s kernel lock itself (exclusive, dropped at death) is taken from
the operating system, as `KernelAcquire` and `Crash` state it.

Only model-checked: all liveness properties (`KernelFreed`,
`StaleBodyCleared`, `WriteEnds`, `SingleUserPickedUp`, `LockReleased`,
`SnapshotCatchesUp`), which are beyond these provers; of `LiveEvents` `EventsAreRuns`, which needs an account of how a
recomputation and each chunk pair runs with events; and of `PlotView` `AlarmsRight`, to which the queries for violations belong.

## 6. Not modelled

`isStale`, `peek` and the time stamps in the body (no code acts on them); the 64-entry limit of
`lf_fdTable` beyond "acquire fails"; `StampIdentity` sidecars; `readAllWithStats`, `tail(n)` and
the reader's counters; the start, stop and jitter of the pipelines' timers (those of a plot's live mode are modelled, its polling of a file is not); several raw directories; value columns,
parsing and number formats. Of the monitors and events: running statistics,
callbacks, acknowledgements, `save`/`loadFile`, the merge with the cluster log,
manual events. Of the tag graph: the aggregation of values, two-pass loading. Of
the plot: linked axes, several lines, logarithmic axes, limits of y, shadings,
the event layer, the paths without MEX, and with them all other GUI code
(`Dashboard`, `FastSenseCompanion`). Mail and web transports, the plant-log tail and the batch
pipeline keep no state that interacts with the rest. `FastSenseDataStore` is
modelled as what its SQL selects.

`libs/FastSense/private/mex_src/sqlite3.c` and `sqlite3.h` are the public SQLite
amalgamation, 98% of the lines of C in the repository (which holds the mapped
share of C below 2%); it is third-party code and enters the models only as "a query returns the rows it selects". Of the C
that is FastSense's own, the kernels, the store builder and the lock are mapped;
`delimited_parse_mex.c` (text to columns) and `mksqlite.c` (a binding of SQLite)
are conversions without state.

## 7. Plan

1. Proofs: `EventsAreRuns` (the runs of a concatenation, and which of them has an event already);
   `PlotView`'s `AlarmsRight`, whose markers are thinned by pixel columns; `StaleBodyCleared`'s safety part.
2. `EventStore`: save and restart with two writers.
3. `TagGraph`: two-pass loading and the aggregation of unaligned series.
4. Notification cooldown, plant-log tail, bridge protocol.
