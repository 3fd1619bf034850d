-------------------------- MODULE LiveTagPipeline --------------------------
(***************************************************************************)
(* One LiveTagPipeline process: a timer tick re-reads the raw text files   *)
(* whose mtime has advanced and appends the rows beyond lastIndex to one   *)
(* .mat file per tag (libs/SensorThreshold/LiveTagPipeline.m).             *)
(*                                                                         *)
(* A logger outside MATLAB writes the raw files at any moment, between any *)
(* two steps of a tick.  In single-user mode the .mat file is saved in     *)
(* place, from the priorState_ cache when it is warm; in cluster mode it   *)
(* is written under the tag's lock, of which CoordinatedWrite gives the    *)
(* detail and this module the outcomes.  All raw files are in one          *)
(* directory, so a tick lists it once.                                     *)
(***************************************************************************)
EXTENDS Naturals, Sequences

CONSTANTS Tag, File,
          RawOf,        \* RawSource.file of each tag
          Modes,        \* the values of IsClusterMode_ considered
          None, Torn,   \* no cache entry; a .mat file that load() rejects
          MaxRows,      \* rows logged (bound)
          MaxTime,      \* mtime granules that pass (bound)
          MaxRotations, \* raw files started afresh (bound)
          MaxFaults,    \* parses, loads, saves, locks and renames that fail (bound)
          MaxRestarts   \* pipeline restarts and registry changes (bound)

ASSUME PipelineAssumption ==
  /\ RawOf \in [Tag -> File]
  /\ Modes \subseteq BOOLEAN
  /\ {MaxRows, MaxTime, MaxRotations, MaxFaults, MaxRestarts} \subseteq Nat

Rows == Nat \ {0}

ASSUME MarkerAssumption == None \notin Seq(Rows) /\ Torn \notin Seq(Rows)

VARIABLES
  cluster,    \* IsClusterMode_
  now,        \* the clock, in granules of a file's mtime
  raw,        \* the rows in each raw file; a row is its serial number
  mtime,      \* mtime of each raw file, 0 when it does not exist
  logged,     \* rows logged so far
  stamp,      \* the granule in which each of them was logged
  rotated,    \* files that have been started afresh
  rotations,
  registered, \* tags eligibleTags_ finds in TagRegistry
  ticking,    \* onTick_ is running
  todo,       \* tags it has still to process
  listing,    \* fsCache: the mtimes dir() showed in this tick
  parsed,     \* tickCache: the files parsed in this tick
  tagState,   \* tagState_
  fileSeen,   \* tagMtimeCache_, keyed by raw file, 0 when absent
  priorState, \* priorState_
  mat,        \* the rows in each tag's .mat file
  replayed,   \* tags whose place in the raw file was lost after a write
  unseeded,   \* tags whose priorState_ could not be read back after a save
  faults, restarts

logger == <<now, raw, mtime, logged, stamp, rotated, rotations>>
memory == <<tagState, fileSeen, priorState, unseeded>>
counters == <<faults, restarts>>
vars == <<cluster, logger, registered, ticking, todo, listing, parsed,
          memory, mat, replayed, counters>>

Fresh == [lastModTime |-> 0, lastIndex |-> 0]

TypeOK ==
  /\ cluster \in BOOLEAN
  /\ now \in Nat \ {0}
  /\ raw \in [File -> Seq(Rows)]
  /\ mtime \in [File -> Nat]
  /\ logged \in Nat /\ stamp \in Seq(Nat) /\ rotated \subseteq File /\ rotations \in Nat
  /\ registered \subseteq Tag
  /\ ticking \in BOOLEAN
  /\ todo \subseteq registered
  /\ listing \in [File -> Nat]
  /\ parsed \in [File -> Seq(Rows) \cup {None}]
  /\ tagState \in [Tag -> [lastModTime : Nat, lastIndex : Nat]]
  /\ fileSeen \in [File -> Nat]
  /\ priorState \in [Tag -> Seq(Rows) \cup {None}]
  /\ mat \in [Tag -> Seq(Rows) \cup {Torn}]
  /\ replayed \subseteq Tag /\ unseeded \subseteq Tag
  /\ faults \in Nat /\ restarts \in Nat

(* A pipeline is constructed on an empty output directory. *)
Init ==
  /\ cluster \in Modes
  /\ now = 1
  /\ raw = [f \in File |-> <<>>]
  /\ mtime = [f \in File |-> 0]
  /\ logged = 0 /\ stamp = <<>> /\ rotated = {} /\ rotations = 0
  /\ registered = Tag
  /\ ticking = FALSE
  /\ todo = {}
  /\ listing = [f \in File |-> 0]
  /\ parsed = [f \in File |-> None]
  /\ tagState = [t \in Tag |-> Fresh]
  /\ fileSeen = [f \in File |-> 0]
  /\ priorState = [t \in Tag |-> None]
  /\ mat = [t \in Tag |-> <<>>]
  /\ replayed = {} /\ unseeded = {}
  /\ faults = 0 /\ restarts = 0

-----------------------------------------------------------------------------
(* The logger, and the clock that stamps what it writes. *)
Pipeline == <<cluster, registered, ticking, todo, listing, parsed,
              memory, mat, replayed, counters>>

Log(f) ==
  /\ logged < MaxRows
  /\ logged' = logged + 1
  /\ stamp' = Append(stamp, now)
  /\ raw' = [raw EXCEPT ![f] = Append(@, logged + 1)]
  /\ mtime' = [mtime EXCEPT ![f] = now]
  /\ UNCHANGED <<now, rotated, rotations, Pipeline>>

Touch(f) ==
  /\ mtime[f] \notin {0, now}
  /\ mtime' = [mtime EXCEPT ![f] = now]
  /\ UNCHANGED <<now, raw, logged, stamp, rotated, rotations, Pipeline>>

Rotate(f) ==
  /\ mtime[f] # 0
  /\ rotations < MaxRotations
  /\ rotations' = rotations + 1
  /\ rotated' = rotated \cup {f}
  /\ raw' = [raw EXCEPT ![f] = <<>>]
  /\ mtime' = [mtime EXCEPT ![f] = now]
  /\ UNCHANGED <<now, logged, stamp, Pipeline>>

Clock ==
  /\ now < MaxTime
  /\ now' = now + 1
  /\ UNCHANGED <<raw, mtime, logged, stamp, rotated, rotations, Pipeline>>

Logger == Clock \/ \E f \in File : Log(f) \/ Touch(f) \/ Rotate(f)

-----------------------------------------------------------------------------
(* gcStaleTagState_ forgets the tags that are no longer eligible (but not  *)
(* their priorState_).                                                     *)
GcStaleTagState ==
  /\ tagState' = [t \in Tag |-> IF t \in registered THEN tagState[t] ELSE Fresh]
  /\ replayed' = replayed \cup
       {t \in Tag \ registered : tagState[t].lastIndex > 0}

(* onTick_: find the eligible tags, collect garbage, list the directory. *)
StartTick ==
  /\ ~ticking
  /\ ticking' = TRUE
  /\ todo' = registered
  /\ GcStaleTagState
  /\ listing' = mtime
  /\ parsed' = [f \in File |-> None]
  /\ UNCHANGED <<cluster, logger, registered, fileSeen, priorState, unseeded, mat, counters>>

EndTick ==
  /\ ticking /\ todo = {}
  /\ ticking' = FALSE
  /\ UNCHANGED <<cluster, logger, registered, todo, listing, parsed,
                 memory, mat, replayed, counters>>

(* What processTag_ finds at its three early returns and after its parse.  *)
Stale(t) == listing[RawOf[t]] <= tagState[t].lastModTime

SeenByOther(t) ==
  cluster /\ fileSeen[RawOf[t]] # 0 /\ fileSeen[RawOf[t]] = listing[RawOf[t]]

Content(f) == IF parsed[f] = None THEN raw[f] ELSE parsed[f]

NewRows(t) ==
  SubSeq(Content(RawOf[t]), tagState[t].lastIndex + 1, Len(Content(RawOf[t])))

Take(t) == t \in todo /\ todo' = todo \ {t}

(* The parse is kept for the other tags of this tick. *)
Parse(t) ==
  /\ ~Stale(t) /\ ~SeenByOther(t)
  /\ parsed' = [parsed EXCEPT ![RawOf[t]] = Content(RawOf[t])]

(* Mutant: the mtime is taken from the file again, not from the listing.   *)
Advance_StatsAgain(t) ==
  tagState' = [tagState EXCEPT ![t] =
    [lastModTime |-> mtime[RawOf[t]], lastIndex |-> Len(Content(RawOf[t]))]]

(* Mutant: the row count is taken from the file again, not from the parse. *)
Advance_CountsAgain(t) ==
  tagState' = [tagState EXCEPT ![t] =
    [lastModTime |-> listing[RawOf[t]], lastIndex |-> Len(raw[RawOf[t]])]]

Advance(t) ==
  tagState' = [tagState EXCEPT ![t] =
    [lastModTime |-> listing[RawOf[t]], lastIndex |-> Len(Content(RawOf[t]))]]

(* No file, no newer mtime, or (cluster) this mtime already seen. *)
Skip(t) ==
  /\ Take(t)
  /\ Stale(t) \/ SeenByOther(t)
  /\ UNCHANGED <<cluster, logger, registered, ticking, listing, parsed,
                 memory, mat, replayed, counters>>

(* Mutant: the new mtime of a touched file is not recorded. *)
NoNewRows_KeepsMtime(t) ==
  /\ Take(t) /\ Parse(t)
  /\ NewRows(t) = <<>>
  /\ UNCHANGED <<cluster, logger, registered, ticking, listing,
                 memory, mat, replayed, counters>>

(* A touched or truncated file: only the mtime is recorded. *)
NoNewRows(t) ==
  /\ Take(t) /\ Parse(t)
  /\ NewRows(t) = <<>>
  /\ tagState' = [tagState EXCEPT ![t].lastModTime = listing[RawOf[t]]]
  /\ UNCHANGED <<cluster, logger, registered, ticking, listing,
                 fileSeen, priorState, unseeded, mat, replayed, counters>>

Merged(t) == (IF priorState[t] = None THEN mat[t] ELSE priorState[t]) \o NewRows(t)

Loadable(t) == priorState[t] # None \/ mat[t] # Torn

(* Mutant: the cache is seeded with the new rows although a file existed. *)
Save_SeedsNewRowsOnly(t) ==
  /\ ~cluster
  /\ Take(t) /\ Parse(t)
  /\ NewRows(t) # <<>> /\ Loadable(t)
  /\ mat' = [mat EXCEPT ![t] = Merged(t)]
  /\ priorState' = [priorState EXCEPT ![t] =
       IF @ = None THEN NewRows(t) ELSE Merged(t)]
  /\ unseeded' = unseeded \ {t}
  /\ Advance(t)
  /\ UNCHANGED <<cluster, logger, registered, ticking, listing,
                 fileSeen, replayed, counters>>

(* Mutant: the tag's place in the raw file is not advanced after a save. *)
Save_KeepsPlace(t) ==
  /\ ~cluster
  /\ Take(t) /\ Parse(t)
  /\ NewRows(t) # <<>> /\ Loadable(t)
  /\ mat' = [mat EXCEPT ![t] = Merged(t)]
  /\ priorState' = [priorState EXCEPT ![t] = Merged(t)]
  /\ UNCHANGED <<cluster, logger, registered, ticking, listing,
                 tagState, fileSeen, unseeded, replayed, counters>>

(* Single-user: writeTagMatCached_ on a warm cache, writeTagMat_ 'append'  *)
(* on a cold one, which is then seeded from the new rows (no file before)  *)
(* or from the file, read back; the cache then holds what was saved.       *)
Save(t) ==
  /\ ~cluster
  /\ Take(t) /\ Parse(t)
  /\ NewRows(t) # <<>> /\ Loadable(t)
  /\ mat' = [mat EXCEPT ![t] = Merged(t)]
  /\ priorState' = [priorState EXCEPT ![t] = Merged(t)]
  /\ unseeded' = unseeded \ {t}
  /\ Advance(t)
  /\ UNCHANGED <<cluster, logger, registered, ticking, listing,
                 fileSeen, replayed, counters>>

Fault == faults < MaxFaults /\ faults' = faults + 1 /\ UNCHANGED restarts

(* A cold save onto an existing file, whose read-back fails: the error is  *)
(* swallowed, the place advances and the cache stays cold.                 *)
SeedFails(t) ==
  /\ ~cluster /\ Fault
  /\ Take(t) /\ Parse(t)
  /\ NewRows(t) # <<>> /\ Loadable(t)
  /\ priorState[t] = None /\ mat[t] # <<>>
  /\ mat' = [mat EXCEPT ![t] = Merged(t)]
  /\ unseeded' = unseeded \cup {t}
  /\ Advance(t)
  /\ UNCHANGED <<cluster, logger, registered, ticking, listing,
                 fileSeen, priorState, replayed>>

(* Cold cache and an unreadable .mat file: load() throws, on every tick.   *)
LoadFails(t) ==
  /\ ~cluster
  /\ Take(t) /\ Parse(t)
  /\ NewRows(t) # <<>> /\ ~Loadable(t)
  /\ UNCHANGED <<cluster, logger, registered, ticking, listing,
                 memory, mat, replayed, counters>>

(* save() throws half-way: the file in place is the old one or torn. *)
SaveFails(t) ==
  /\ ~cluster /\ Fault
  /\ Take(t) /\ Parse(t)
  /\ NewRows(t) # <<>> /\ Loadable(t)
  /\ mat' \in {mat, [mat EXCEPT ![t] = Torn]}
  /\ UNCHANGED <<cluster, logger, registered, ticking, listing, memory, replayed>>

(* Cluster: acquireTag, writeMergedTagMat_ and AtomicWriter succeed. *)
Merge(t) ==
  /\ cluster
  /\ Take(t) /\ Parse(t)
  /\ NewRows(t) # <<>>
  /\ mat' = [mat EXCEPT ![t] = @ \o NewRows(t)]
  /\ fileSeen' = [fileSeen EXCEPT ![RawOf[t]] = listing[RawOf[t]]]
  /\ Advance(t)
  /\ UNCHANGED <<cluster, logger, registered, ticking, listing,
                 priorState, unseeded, replayed, counters>>

(* Cluster: AtomicWriter renames but cannot confirm it, and throws. *)
MergeUnconfirmed(t) ==
  /\ cluster /\ Fault
  /\ Take(t) /\ Parse(t)
  /\ NewRows(t) # <<>>
  /\ mat' = [mat EXCEPT ![t] = @ \o NewRows(t)]
  /\ replayed' = replayed \cup {t}
  /\ UNCHANGED <<cluster, logger, registered, ticking, listing, memory>>

(* The lock is contended or lost, or no rename succeeds; or, in any mode,  *)
(* the parse throws.  The tag is left for the next tick.                   *)
Deferred(t) ==
  /\ Fault
  /\ Take(t)
  /\ ~Stale(t) /\ ~SeenByOther(t)
  /\ \/ Parse(t) /\ cluster /\ NewRows(t) # <<>>
     \/ parsed[RawOf[t]] = None /\ UNCHANGED parsed
  /\ UNCHANGED <<cluster, logger, registered, ticking, listing, memory, mat, replayed>>

ProcessTag(t) ==
  \/ Skip(t) \/ NoNewRows(t)
  \/ Save(t) \/ SeedFails(t) \/ LoadFails(t) \/ SaveFails(t)
  \/ Merge(t) \/ MergeUnconfirmed(t) \/ Deferred(t)

Tick == StartTick \/ EndTick \/ \E t \in Tag : ProcessTag(t)

-----------------------------------------------------------------------------
Restarted == restarts < MaxRestarts /\ restarts' = restarts + 1 /\ UNCHANGED faults

(* Mutant: the registry may change under a running tick. *)
Unregister_MidTick(t) ==
  /\ Restarted
  /\ t \in registered
  /\ registered' = registered \ {t}
  /\ UNCHANGED <<cluster, logger, ticking, todo, listing, parsed, memory, mat, replayed>>

(* User code runs between ticks, on the same thread. *)
Unregister(t) ==
  /\ Restarted
  /\ ~ticking /\ t \in registered
  /\ registered' = registered \ {t}
  /\ UNCHANGED <<cluster, logger, ticking, todo, listing, parsed, memory, mat, replayed>>

Register(t) ==
  /\ ~ticking /\ t \notin registered
  /\ registered' = registered \cup {t}
  /\ UNCHANGED <<cluster, logger, ticking, todo, listing, parsed,
                 memory, mat, replayed, counters>>

(* The process stops or dies and a new one is constructed: its memory is   *)
(* empty, its .mat files are still there.  A save in progress is torn.     *)
Restart ==
  /\ Restarted
  /\ ticking' = FALSE /\ todo' = {}
  /\ tagState' = [t \in Tag |-> Fresh]
  /\ fileSeen' = [f \in File |-> 0]
  /\ priorState' = [t \in Tag |-> None]
  /\ unseeded' = {}
  /\ \/ UNCHANGED mat
     \/ \E t \in todo : /\ ~cluster /\ ~Stale(t) /\ NewRows(t) # <<>>
                        /\ mat' = [mat EXCEPT ![t] = Torn]
  /\ replayed' = replayed \cup {t \in Tag : mat[t] # <<>>}
  /\ UNCHANGED <<cluster, logger, registered, listing, parsed>>

Next ==
  \/ Logger \/ Tick \/ Restart
  \/ \E t \in Tag : Unregister(t) \/ Register(t)

Spec == Init /\ [][Next]_vars

(* The timer fires again and again, a tick that has begun runs to its end, *)
(* and a tag that is taken out of the registry is put back.                *)
FairSpec ==
  Spec /\ WF_vars(Tick) /\ \A t \in Tag : WF_vars(Register(t))
-----------------------------------------------------------------------------
RowsOf(s) == {s[i] : i \in 1..Len(s)}

(* The priorState_ cache is what load() would return: the next cached save *)
(* drops nothing that is on disk.  (writeTagMatCached_: "the caller must   *)
(* guarantee priorX/priorY reflect the on-disk state".)                    *)
CacheFaithful ==
  \A t \in Tag : priorState[t] # None /\ mat[t] # Torn => mat[t] = priorState[t]

(* A save tore the file of a tag whose cache could not be seeded (the      *)
(* comment at l.683 calls the cold path correct): its rows are gone.       *)
Lost(t) == mat[t] = Torn /\ t \in unseeded

(* Rows the pipeline has counted as done are in the .mat file, or in the   *)
(* cache from which the next save rewrites a torn file.  Excepted are a    *)
(* raw file that was started afresh, and a file torn with no cache to      *)
(* rewrite it from because an earlier read-back had failed.                *)
NoRowSkipped ==
  \A t \in Tag : RawOf[t] \notin rotated /\ ~Lost(t) =>
    \A i \in 1..tagState[t].lastIndex :
      raw[RawOf[t]][i] \in RowsOf(IF mat[t] = Torn THEN priorState[t] ELSE mat[t])

(* What mtime granules can hide is one granule: every row that was logged  *)
(* before the granule a tag has recorded as lastModTime is behind its      *)
(* place, whatever the logger does between the listing, the parse and the  *)
(* other tags' use of that parse (tickCache).  Rows logged later in that   *)
(* granule wait for the next mtime, which SingleUserPickedUp is about.     *)
OlderGranulesTaken ==
  \A t \in Tag : RawOf[t] \notin rotated =>
    \A i \in 1..Len(raw[RawOf[t]]) :
      stamp[raw[RawOf[t]][i]] < tagState[t].lastModTime => i <= tagState[t].lastIndex

(* A row is written once and in order, however the file is touched,        *)
(* truncated or re-read and whatever fails, unless a restart, a removal    *)
(* from the registry or an unconfirmed rename lost the tag's place.        *)
OnceInOrder ==
  \A t \in Tag : t \notin replayed /\ mat[t] # Torn =>
    \A i, j \in 1..Len(mat[t]) : i < j => mat[t][i] < mat[t][j]

(* "having its mtime advance between the tick-start dir() and a later      *)
(* per-tag lookup ... is picked up on the NEXT tick" (l.167-171): a file   *)
(* newer than a tag's lastModTime is eventually taken up for that tag.     *)
Newer(t) == t \in registered /\ mtime[RawOf[t]] > tagState[t].lastModTime

MtimePickedUp == \A t \in Tag : Newer(t) ~> ~Newer(t) \/ mat[t] = Torn

(* The same, for single-user mode. *)
SingleUserPickedUp ==
  \A t \in Tag : ~cluster /\ Newer(t) ~> ~Newer(t) \/ mat[t] = Torn
=============================================================================
