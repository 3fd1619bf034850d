----------------------- MODULE LiveTagPipelineProofs -----------------------
(***************************************************************************)
(* Proofs about LiveTagPipeline for every set of tags and raw files, every *)
(* assignment of tags to files, both modes and every bound.                *)
(***************************************************************************)
EXTENDS LiveTagPipeline, SequenceTheorems, TLAPS

-----------------------------------------------------------------------------
(* The inductive invariant. *)

Increasing(s) == \A i, j \in 1 .. Len(s) : i < j => s[i] < s[j]

UpTo(s, n) == \A i \in 1 .. Len(s) : s[i] <= n

Begins(p, s) == Len(p) <= Len(s) /\ \A i \in 1 .. Len(p) : p[i] = s[i]

(* The rows of r behind place come after all rows of s. *)
Behind(s, place, r) ==
  \A i \in 1 .. Len(s), j \in 1 .. Len(r) : place < j => s[i] < r[j]

Holds(s, row) == \E i \in 1 .. Len(s) : s[i] = row

(* What the next save of a tag starts from. *)
Stored(t) == IF mat[t] = Torn THEN priorState[t] ELSE mat[t]

TodoInTick == ~ticking => todo = {}

(* Cluster mode keeps no cache and never leaves a torn file. *)
ClusterIntact == cluster => \A t \in Tag : mat[t] # Torn /\ priorState[t] = None

(* In single-user mode a tag that has a place has a warm cache, unless its *)
(* read-back failed and no save has seeded the cache since.                *)
PlaceCached ==
  ~cluster => \A t \in Tag \ unseeded :
                tagState[t].lastIndex > 0 => priorState[t] # None

UnseededCold == \A t \in unseeded : priorState[t] = None

RawOrdered == \A f \in File : Increasing(raw[f]) /\ UpTo(raw[f], logged)

(* A parse is the beginning of its file, or older than all that is in it.  *)
ParsedFits ==
  \A f \in File : parsed[f] # None =>
    /\ Increasing(parsed[f]) /\ UpTo(parsed[f], logged)
    /\ \/ Begins(parsed[f], raw[f])
       \/ f \in rotated /\ Behind(parsed[f], 0, raw[f])

(* Of a tag that never lost its place, the rows stored come before those   *)
(* the file, or the parse of this tick, has behind that place.             *)
OrderedTag(t) ==
  t \notin replayed /\ Stored(t) # None =>
    /\ Increasing(Stored(t)) /\ UpTo(Stored(t), logged)
    /\ Behind(Stored(t), tagState[t].lastIndex, raw[RawOf[t]])
    /\ parsed[RawOf[t]] # None =>
         Behind(Stored(t), tagState[t].lastIndex, parsed[RawOf[t]])

PlaceOrdered == \A t \in Tag : OrderedTag(t)

(* The rows before the place are stored. *)
StoredTag(t) ==
  RawOf[t] \notin rotated =>
    /\ tagState[t].lastIndex <= Len(raw[RawOf[t]])
    /\ Lost(t) \/ \A i \in 1 .. tagState[t].lastIndex :
                    Holds(Stored(t), raw[RawOf[t]][i])

PlaceStored == \A t \in Tag : StoredTag(t)

IInv ==
  /\ TypeOK /\ TodoInTick /\ ClusterIntact /\ CacheFaithful /\ PlaceCached /\ UnseededCold
  /\ RawOrdered /\ ParsedFits /\ PlaceOrdered /\ PlaceStored

-----------------------------------------------------------------------------
(* Facts about the rows of a parse. *)

LEMMA NewRowsType ==
  ASSUME TypeOK, NEW t \in Tag
  PROVE  /\ RawOf[t] \in File
         /\ Content(RawOf[t]) \in Seq(Rows)
         /\ tagState[t].lastIndex \in Nat
         /\ NewRows(t) \in Seq(Rows)
         /\ NewRows(t) # <<>> =>
              /\ tagState[t].lastIndex < Len(Content(RawOf[t]))
              /\ Len(NewRows(t)) = Len(Content(RawOf[t])) - tagState[t].lastIndex
         /\ \A i \in 1 .. Len(NewRows(t)) :
              /\ tagState[t].lastIndex + i \in 1 .. Len(Content(RawOf[t]))
              /\ NewRows(t)[i] = Content(RawOf[t])[tagState[t].lastIndex + i]
  <1> DEFINE c == Content(RawOf[t])
             n == tagState[t].lastIndex
  <1>1. RawOf[t] \in File /\ n \in Nat
    BY PipelineAssumption DEF TypeOK
  <1>2. c \in Seq(Rows)
    BY <1>1 DEF TypeOK, Content
  <1>3. \A i \in n + 1 .. Len(c) : c[i] \in Rows
    <2> HIDE DEF c, n
    <2> QED
      BY <1>1, <1>2
  <1>4. /\ SubSeq(c, n + 1, Len(c)) \in Seq(Rows)
        /\ Len(SubSeq(c, n + 1, Len(c))) = IF n + 1 <= Len(c) THEN Len(c) - (n + 1) + 1 ELSE 0
        /\ \A i \in 1 .. Len(c) - (n + 1) + 1 : SubSeq(c, n + 1, Len(c))[i] = c[(n + 1) + i - 1]
    <2> HIDE DEF c, n
    <2>1. n + 1 \in Int /\ Len(c) \in Int
      BY <1>1, <1>2
    <2> QED
      BY <2>1, <1>3, SubSeqProperties
  <1>5. NewRows(t) = SubSeq(c, n + 1, Len(c))
    BY DEF NewRows
  <1> HIDE DEF c, n
  <1>6. Len(c) \in Nat
    BY <1>2
  <1>7. NewRows(t) # <<>> => Len(NewRows(t)) > 0
    BY <1>4, <1>5
  <1>8. \A i \in 1 .. Len(NewRows(t)) : n + i \in 1 .. Len(c) /\ NewRows(t)[i] = c[n + i]
    <2> SUFFICES ASSUME NEW i \in 1 .. Len(NewRows(t))
                 PROVE  n + i \in 1 .. Len(c) /\ NewRows(t)[i] = c[n + i]
      OBVIOUS
    <2>1. i \in 1 .. Len(c) - (n + 1) + 1 /\ n + i \in 1 .. Len(c)
      BY <1>1, <1>4, <1>5, <1>6
    <2>2. (n + 1) + i - 1 = n + i
      BY <1>1
    <2> QED
      BY <2>1, <2>2, <1>4, <1>5
  <1>9. NewRows(t) # <<>> => n < Len(c) /\ Len(NewRows(t)) = Len(c) - n
    BY <1>1, <1>4, <1>5, <1>6, <1>7
  <1>10. NewRows(t) \in Seq(Rows)
    BY <1>4, <1>5
  <1> QED
    BY <1>1, <1>2, <1>8, <1>9, <1>10 DEF c, n

(* A file that grows at its end. *)
LEMMA AppendFacts ==
  ASSUME NEW s \in Seq(Rows), NEW n \in Nat, Increasing(s), UpTo(s, n)
  PROVE  /\ Append(s, n + 1) \in Seq(Rows)
         /\ Len(Append(s, n + 1)) = Len(s) + 1
         /\ \A i \in 1 .. Len(s) : Append(s, n + 1)[i] = s[i]
         /\ Append(s, n + 1)[Len(s) + 1] = n + 1
         /\ Increasing(Append(s, n + 1)) /\ UpTo(Append(s, n + 1), n + 1)
  <1>1. /\ Append(s, n + 1) \in Seq(Rows)
        /\ Len(Append(s, n + 1)) = Len(s) + 1
        /\ \A i \in 1 .. Len(s) : Append(s, n + 1)[i] = s[i]
        /\ Append(s, n + 1)[Len(s) + 1] = n + 1
    BY DEF Rows
  <1>2. \A i \in 1 .. Len(s) : s[i] \in Nat /\ s[i] <= n
    BY DEF UpTo, Rows
  <1>3. Increasing(Append(s, n + 1))
    <2> DEFINE t == Append(s, n + 1)
               len == Len(s)
    <2>1. /\ len \in Nat /\ Len(t) = len + 1 /\ t[len + 1] = n + 1
          /\ \A i \in 1 .. len : t[i] = s[i] /\ s[i] \in Nat /\ s[i] <= n
          /\ \A i, j \in 1 .. len : i < j => s[i] < s[j]
      BY <1>1, <1>2 DEF Increasing
    <2> HIDE DEF t, len
    <2>2. ASSUME NEW i \in 1 .. len + 1, NEW j \in 1 .. len + 1, i < j PROVE t[i] < t[j]
      <3>1. i \in 1 .. len
        BY <2>1, <2>2
      <3>2. CASE j = len + 1
        BY <2>1, <3>1, <3>2
      <3>3. CASE j \in 1 .. len
        BY <2>1, <2>2, <3>1, <3>3
      <3> QED
        BY <2>1, <3>2, <3>3
    <2>3. \A i, j \in 1 .. Len(t) : i < j => t[i] < t[j]
      BY <2>1, <2>2
    <2> QED
      BY <2>3 DEF Increasing, t
  <1>4. UpTo(Append(s, n + 1), n + 1)
    BY <1>1, <1>2 DEF UpTo
  <1> QED
    BY <1>1, <1>3, <1>4

(* What is stored grows by the rows of c behind place. *)
LEMMA StoreFacts ==
  ASSUME NEW s \in Seq(Rows), NEW c \in Seq(Rows), NEW place \in Nat, NEW a \in Seq(Rows),
         \A i \in 1 .. Len(a) : place + i \in 1 .. Len(c) /\ a[i] = c[place + i],
         Increasing(s), Increasing(c), Behind(s, place, c)
  PROVE  Increasing(s \o a)
  <1>1. /\ Len(s \o a) = Len(s) + Len(a)
        /\ \A i \in 1 .. Len(s) + Len(a) :
             (s \o a)[i] = IF i <= Len(s) THEN s[i] ELSE a[i - Len(s)]
    BY ConcatProperties
  <1> SUFFICES ASSUME NEW i \in 1 .. Len(s) + Len(a), NEW j \in 1 .. Len(s) + Len(a), i < j
               PROVE  (s \o a)[i] < (s \o a)[j]
    BY <1>1 DEF Increasing
  <1>2. CASE j <= Len(s)
    BY <1>1, <1>2 DEF Increasing
  <1>3. CASE i <= Len(s) /\ j > Len(s)
    <2>1. j - Len(s) \in 1 .. Len(a)
      BY <1>3
    <2>2. place + (j - Len(s)) \in 1 .. Len(c) /\ a[j - Len(s)] = c[place + (j - Len(s))]
      BY <2>1
    <2> QED
      BY <1>1, <1>3, <2>1, <2>2 DEF Behind
  <1>4. CASE i > Len(s)
    <2>1. i - Len(s) \in 1 .. Len(a) /\ j - Len(s) \in 1 .. Len(a) /\ i - Len(s) < j - Len(s)
      BY <1>4
    <2>2. /\ place + (i - Len(s)) \in 1 .. Len(c) /\ a[i - Len(s)] = c[place + (i - Len(s))]
          /\ place + (j - Len(s)) \in 1 .. Len(c) /\ a[j - Len(s)] = c[place + (j - Len(s))]
      BY <2>1
    <2>3. c[place + (i - Len(s))] < c[place + (j - Len(s))]
      <3>1. place + (i - Len(s)) < place + (j - Len(s))
        BY <2>1
      <3>2. \A p, q \in 1 .. Len(c) : p < q => c[p] < c[q]
        BY DEF Increasing
      <3> QED
        BY <2>2, <3>1, <3>2
    <2>4. (s \o a)[i] = a[i - Len(s)] /\ (s \o a)[j] = a[j - Len(s)]
      BY <1>1, <1>4
    <2> QED
      BY <2>2, <2>3, <2>4
  <1> QED
    BY <1>2, <1>3, <1>4

-----------------------------------------------------------------------------
(* Types. *)

LEMMA ParseType ==
  ASSUME TypeOK, NEW t \in Tag, Parse(t)
  PROVE  parsed' \in [File -> Seq(Rows) \cup {None}]
  BY NewRowsType DEF Parse, TypeOK

LEMMA AdvanceType ==
  ASSUME TypeOK, NEW t \in Tag, Advance(t)
  PROVE  tagState' \in [Tag -> [lastModTime : Nat, lastIndex : Nat]]
  <1>1. listing[RawOf[t]] \in Nat /\ Len(Content(RawOf[t])) \in Nat
    BY NewRowsType DEF TypeOK
  <1> QED
    BY <1>1 DEF Advance, TypeOK

LEMMA MergedType ==
  ASSUME TypeOK, NEW t \in Tag
  PROVE  /\ Loadable(t) => Merged(t) \in Seq(Rows)
         /\ mat[t] # Torn => mat[t] \o NewRows(t) \in Seq(Rows)
  <1>1. NewRows(t) \in Seq(Rows)
    BY NewRowsType
  <1>2. /\ mat[t] \in Seq(Rows) \cup {Torn}
        /\ priorState[t] \in Seq(Rows) \cup {None}
    BY DEF TypeOK
  <1>3. \A s \in Seq(Rows) : s \o NewRows(t) \in Seq(Rows)
    BY <1>1
  <1> QED
    BY <1>2, <1>3 DEF Loadable, Merged

LEMMA LoggerTypes ==
  ASSUME TypeOK, Logger
  PROVE  TypeOK'
  <1> USE DEF TypeOK, Pipeline, memory, counters
  <1>1. CASE Clock
    BY <1>1 DEF Clock
  <1>2. ASSUME NEW f \in File, Log(f) PROVE TypeOK'
    <2>1. logged + 1 \in Rows
      BY DEF Rows
    <2>2. Append(raw[f], logged + 1) \in Seq(Rows)
      BY <2>1
    <2>3. Append(stamp, now) \in Seq(Nat)
      OBVIOUS
    <2> QED
      BY <1>2, <2>2, <2>3 DEF Log
  <1>3. ASSUME NEW f \in File, Touch(f) PROVE TypeOK'
    BY <1>3 DEF Touch
  <1>4. ASSUME NEW f \in File, Rotate(f) PROVE TypeOK'
    BY <1>4 DEF Rotate
  <1> QED
    BY <1>1, <1>2, <1>3, <1>4 DEF Logger

LEMMA TickTypes ==
  ASSUME TypeOK, ClusterIntact, Tick
  PROVE  TypeOK'
  <1> USE DEF TypeOK, logger, memory, counters
  <1>1. CASE StartTick
    BY <1>1 DEF StartTick, GcStaleTagState, Fresh
  <1>2. CASE EndTick
    BY <1>2 DEF EndTick
  <1>3. ASSUME NEW t \in Tag, Skip(t) PROVE TypeOK'
    BY <1>3 DEF Skip, Take
  <1>4. ASSUME NEW t \in Tag, NoNewRows(t) PROVE TypeOK'
    <2>1. listing[RawOf[t]] \in Nat
      BY NewRowsType
    <2> QED
      BY <1>4, <2>1, ParseType DEF NoNewRows, Take
  <1>5. ASSUME NEW t \in Tag, Save(t) PROVE TypeOK'
    BY <1>5, ParseType, AdvanceType, MergedType DEF Save, Take
  <1>5a. ASSUME NEW t \in Tag, SeedFails(t) PROVE TypeOK'
    <2>1. Merged(t) \in Seq(Rows)
      BY <1>5a, MergedType DEF SeedFails
    <2>2. parsed' \in [File -> Seq(Rows) \cup {None}]
      BY <1>5a, ParseType DEF SeedFails
    <2>3. tagState' \in [Tag -> [lastModTime : Nat, lastIndex : Nat]]
      BY <1>5a, AdvanceType DEF SeedFails
    <2>4. mat' \in [Tag -> Seq(Rows) \cup {Torn}]
      BY <1>5a, <2>1 DEF SeedFails
    <2>5. faults' \in Nat /\ restarts' \in Nat
      BY <1>5a DEF SeedFails, Fault
    <2>6. todo' \subseteq registered' /\ unseeded' \subseteq Tag
      BY <1>5a DEF SeedFails, Take
    <2> QED
      BY <1>5a, <2>2, <2>3, <2>4, <2>5, <2>6 DEF SeedFails
  <1>6. ASSUME NEW t \in Tag, LoadFails(t) PROVE TypeOK'
    BY <1>6, ParseType DEF LoadFails, Take
  <1>7. ASSUME NEW t \in Tag, SaveFails(t) PROVE TypeOK'
    <2>1. mat' \in [Tag -> Seq(Rows) \cup {Torn}]
      BY <1>7 DEF SaveFails
    <2>2. parsed' \in [File -> Seq(Rows) \cup {None}]
      BY <1>7, ParseType DEF SaveFails
    <2> QED
      BY <1>7, <2>1, <2>2 DEF SaveFails, Take, Fault
  <1>8. ASSUME NEW t \in Tag, Merge(t) PROVE TypeOK'
    <2>1. mat[t] \o NewRows(t) \in Seq(Rows) /\ listing[RawOf[t]] \in Nat
      BY <1>8, MergedType, NewRowsType DEF Merge, ClusterIntact
    <2> QED
      BY <1>8, <2>1, ParseType, AdvanceType DEF Merge, Take
  <1>9. ASSUME NEW t \in Tag, MergeUnconfirmed(t) PROVE TypeOK'
    <2>1. mat[t] \o NewRows(t) \in Seq(Rows)
      BY <1>9, MergedType DEF MergeUnconfirmed, ClusterIntact
    <2>2. parsed' \in [File -> Seq(Rows) \cup {None}]
      BY <1>9, ParseType DEF MergeUnconfirmed
    <2>3. mat' \in [Tag -> Seq(Rows) \cup {Torn}]
      BY <1>9, <2>1 DEF MergeUnconfirmed
    <2> QED
      BY <1>9, <2>2, <2>3 DEF MergeUnconfirmed, Take, Fault
  <1>10. ASSUME NEW t \in Tag, Deferred(t) PROVE TypeOK'
    <2>1. parsed' \in [File -> Seq(Rows) \cup {None}]
      BY <1>10, ParseType DEF Deferred
    <2> QED
      BY <1>10, <2>1 DEF Deferred, Take, Fault
  <1> QED
    BY <1>1, <1>2, <1>3, <1>4, <1>5, <1>5a, <1>6, <1>7, <1>8, <1>9, <1>10 DEF Tick, ProcessTag

LEMMA TypeStep ==
  ASSUME TypeOK, TodoInTick, ClusterIntact, [Next]_vars
  PROVE  TypeOK' /\ TodoInTick'
  <1>1. TypeOK'
    <2> USE DEF TypeOK, logger, memory, counters
    <2>1. CASE Restart
      <3>1. mat' \in [Tag -> Seq(Rows) \cup {Torn}]
        BY <2>1 DEF Restart
      <3>2. tagState' \in [Tag -> [lastModTime : Nat, lastIndex : Nat]]
        BY <2>1 DEF Restart, Fresh
      <3>3. fileSeen' \in [File -> Nat] /\ priorState' \in [Tag -> Seq(Rows) \cup {None}]
        BY <2>1 DEF Restart
      <3>4. replayed' \subseteq Tag /\ unseeded' = {}
        BY <2>1 DEF Restart
      <3>5. faults' \in Nat /\ restarts' \in Nat
        BY <2>1 DEF Restart, Restarted
      <3>6. ticking' = FALSE /\ todo' = {}
        BY <2>1 DEF Restart
      <3>7. UNCHANGED <<cluster, now, raw, mtime, logged, stamp, rotated, rotations, registered,
                        listing, parsed>>
        BY <2>1 DEF Restart
      <3> QED
        BY <3>1, <3>2, <3>3, <3>4, <3>5, <3>6, <3>7
    <2>2. ASSUME NEW t \in Tag, Unregister(t) PROVE TypeOK'
      BY <2>2 DEF Unregister, Restarted, TodoInTick
    <2>3. ASSUME NEW t \in Tag, Register(t) PROVE TypeOK'
      BY <2>3 DEF Register
    <2>4. CASE UNCHANGED vars
      BY <2>4 DEF vars
    <2> HIDE DEF TypeOK, logger, memory, counters
    <2> QED
      BY <2>1, <2>2, <2>3, <2>4, LoggerTypes, TickTypes DEF Next
  <1>2. TodoInTick'
    <2> USE DEF TodoInTick
    <2>1. CASE Logger
      BY <2>1 DEF Logger, Clock, Log, Touch, Rotate, Pipeline
    <2>2. CASE Tick
      <3>1. CASE StartTick \/ EndTick
        BY <3>1 DEF StartTick, EndTick
      <3>2. ASSUME NEW t \in Tag, ProcessTag(t) PROVE ticking' = ticking /\ todo' = todo \ {t}
        BY <3>2 DEF ProcessTag, Skip, NoNewRows, Save, SeedFails, LoadFails, SaveFails, Merge,
           MergeUnconfirmed, Deferred, Take
      <3> QED
        BY <2>2, <3>1, <3>2 DEF Tick
    <2>3. CASE Restart
      BY <2>3 DEF Restart
    <2>4. ASSUME NEW t \in Tag, Unregister(t) \/ Register(t) PROVE TodoInTick'
      BY <2>4 DEF Unregister, Register
    <2>5. CASE UNCHANGED vars
      BY <2>5 DEF vars
    <2> QED
      BY <2>1, <2>2, <2>3, <2>4, <2>5 DEF Next
  <1> QED
    BY <1>1, <1>2

-----------------------------------------------------------------------------
(* Clusters, caches and files. *)

(* The steps that leave files, parses, places and what is stored alone. *)
data == <<cluster, raw, logged, rotated, parsed, tagState, priorState, unseeded, mat, replayed>>

(* A step that at most parses the raw file of t. *)
ReadStep(t) ==
  /\ \/ parsed' = parsed
     \/ parsed' = [parsed EXCEPT ![RawOf[t]] = Content(RawOf[t])]
  /\ UNCHANGED <<cluster, raw, logged, rotated, priorState, unseeded, mat, replayed>>
  /\ \A u \in Tag : tagState'[u].lastIndex = tagState[u].lastIndex

LEMMA StepCases ==
  ASSUME TypeOK, [Next]_vars
  PROVE  \/ UNCHANGED data
         \/ \E f \in File : Log(f) \/ Rotate(f)
         \/ StartTick \/ Restart
         \/ \E t \in Tag : \/ ReadStep(t) \/ Save(t) \/ SeedFails(t) \/ SaveFails(t)
                           \/ Merge(t) \/ MergeUnconfirmed(t)
  <1> USE DEF data, logger, memory, counters, Pipeline
  <1>1. CASE Logger
    <2>1. Clock \/ (\E f \in File : Touch(f)) => UNCHANGED data
      BY DEF Clock, Touch
    <2> QED
      BY <1>1, <2>1 DEF Logger
  <1>2. CASE Tick
    <2>1. EndTick \/ (\E t \in Tag : Skip(t)) => UNCHANGED data
      BY DEF EndTick, Skip
    <2>2. ASSUME NEW t \in Tag, NoNewRows(t) PROVE ReadStep(t)
      <3>1. \A u \in Tag : tagState'[u].lastIndex = tagState[u].lastIndex
        BY <2>2 DEF NoNewRows, TypeOK
      <3> QED
        BY <2>2, <3>1 DEF NoNewRows, ReadStep, Parse
    <2>3. ASSUME NEW t \in Tag, LoadFails(t) \/ Deferred(t) PROVE ReadStep(t)
      BY <2>3 DEF LoadFails, Deferred, ReadStep, Parse
    <2> QED
      BY <1>2, <2>1, <2>2, <2>3 DEF Tick, ProcessTag
  <1>3. ASSUME NEW t \in Tag, Unregister(t) \/ Register(t) PROVE UNCHANGED data
    BY <1>3 DEF Unregister, Register
  <1>4. CASE UNCHANGED vars
    BY <1>4 DEF vars
  <1> QED
    BY <1>1, <1>2, <1>3, <1>4 DEF Next

LEMMA CacheStep ==
  ASSUME TypeOK, ClusterIntact, CacheFaithful, PlaceCached, UnseededCold, [Next]_vars
  PROVE  ClusterIntact' /\ CacheFaithful' /\ PlaceCached' /\ UnseededCold'
  <1> USE DEF ClusterIntact, CacheFaithful, PlaceCached, UnseededCold, TypeOK
  <1> DEFINE Goal == ClusterIntact' /\ CacheFaithful' /\ PlaceCached' /\ UnseededCold'
  <1>1. CASE UNCHANGED data
    BY <1>1 DEF data
  <1>2. ASSUME NEW f \in File, Log(f) \/ Rotate(f) PROVE Goal
    BY <1>2 DEF Log, Rotate, Pipeline, memory
  <1>3. CASE StartTick
    BY <1>3 DEF StartTick, GcStaleTagState, Fresh
  <1>4. CASE Restart
    BY <1>4 DEF Restart, Fresh
  <1>5. ASSUME NEW t \in Tag, ReadStep(t) PROVE Goal
    BY <1>5 DEF ReadStep
  <1>6. ASSUME NEW t \in Tag, Save(t) PROVE Goal
    <2>1. Merged(t) # None /\ Merged(t) # Torn
      BY <1>6, MergedType, MarkerAssumption DEF Save
    <2>2. tagState' = [tagState EXCEPT ![t] = [lastModTime |-> listing[RawOf[t]],
                                   lastIndex |-> Len(Content(RawOf[t]))]]
      BY <1>6 DEF Save, Advance
    <2>3. mat' = [mat EXCEPT ![t] = Merged(t)] /\ priorState' = [priorState EXCEPT ![t] = Merged(t)]
          /\ ~cluster /\ cluster' = cluster /\ unseeded' = unseeded \ {t}
      BY <1>6 DEF Save
    <2> HIDE DEF TypeOK
    <2>4. /\ mat'[t] = Merged(t) /\ priorState'[t] = Merged(t)
          /\ \A u \in Tag \ {t} : /\ mat'[u] = mat[u] /\ priorState'[u] = priorState[u]
                                  /\ tagState'[u] = tagState[u]
      BY <2>2, <2>3 DEF TypeOK
    <2> QED
      BY <2>1, <2>3, <2>4
  <1>6a. ASSUME NEW t \in Tag, SeedFails(t) PROVE Goal
    <2>1. tagState' = [tagState EXCEPT ![t] = [lastModTime |-> listing[RawOf[t]],
                                   lastIndex |-> Len(Content(RawOf[t]))]]
      BY <1>6a DEF SeedFails, Advance
    <2>2. mat' = [mat EXCEPT ![t] = Merged(t)] /\ priorState' = priorState
          /\ priorState[t] = None /\ ~cluster /\ cluster' = cluster
          /\ unseeded' = unseeded \cup {t}
      BY <1>6a DEF SeedFails
    <2> HIDE DEF TypeOK
    <2>3. \A u \in Tag \ {t} : mat'[u] = mat[u] /\ tagState'[u] = tagState[u]
      BY <2>1, <2>2 DEF TypeOK
    <2> QED
      BY <2>2, <2>3
  <1>7. ASSUME NEW t \in Tag, SaveFails(t) PROVE Goal
    BY <1>7 DEF SaveFails, memory
  <1>8. ASSUME NEW t \in Tag, Merge(t) \/ MergeUnconfirmed(t) PROVE Goal
    <2>1. /\ mat' = [mat EXCEPT ![t] = @ \o NewRows(t)]
          /\ cluster /\ cluster' = cluster /\ UNCHANGED <<priorState, unseeded>>
      BY <1>8 DEF Merge, MergeUnconfirmed, memory
    <2>2. mat[t] \o NewRows(t) # Torn
      BY <2>1, MergedType, MarkerAssumption
    <2>3. \A u \in Tag : mat'[u] # Torn /\ priorState'[u] = None
      BY <2>1, <2>2
    <2> QED
      BY <2>1, <2>3
  <1> QED
    BY <1>1, <1>2, <1>3, <1>4, <1>5, <1>6, <1>6a, <1>7, <1>8, StepCases

LEMMA RawStep ==
  ASSUME TypeOK, RawOrdered, [Next]_vars
  PROVE  RawOrdered'
  <1> USE DEF RawOrdered
  <1>1. ASSUME NEW f \in File, Log(f) PROVE RawOrdered'
    <2>1. /\ raw[f] \in Seq(Rows) /\ logged \in Nat /\ raw' = [raw EXCEPT ![f] = Append(@, logged + 1)]
          /\ raw \in [File -> Seq(Rows)] /\ logged' = logged + 1
      BY <1>1 DEF Log, TypeOK
    <2>2. Increasing(raw'[f]) /\ UpTo(raw'[f], logged')
      BY <2>1, AppendFacts
    <2>3. ASSUME NEW g \in File, g # f PROVE Increasing(raw'[g]) /\ UpTo(raw'[g], logged')
      <3>1. raw'[g] = raw[g] /\ raw[g] \in Seq(Rows)
        BY <2>1, <2>3
      <3> QED
        BY <3>1, <2>1 DEF UpTo, Rows
    <2> QED
      BY <2>2, <2>3
  <1>2. ASSUME NEW f \in File, Rotate(f) PROVE RawOrdered'
    BY <1>2 DEF Rotate, TypeOK, Increasing, UpTo
  <1>3. CASE UNCHANGED <<raw, logged>>
    BY <1>3
  <1> QED
    BY <1>1, <1>2, <1>3, StepCases DEF data, ReadStep, StartTick, Restart, Save, SeedFails, SaveFails,
       Merge, MergeUnconfirmed, logger

(* What a parse puts into tickCache fits its file. *)
LEMMA ContentFits ==
  ASSUME TypeOK, RawOrdered, ParsedFits, NEW t \in Tag
  PROVE  /\ Increasing(Content(RawOf[t])) /\ UpTo(Content(RawOf[t]), logged)
         /\ \/ Begins(Content(RawOf[t]), raw[RawOf[t]])
            \/ RawOf[t] \in rotated /\ Behind(Content(RawOf[t]), 0, raw[RawOf[t]])
  <1>1. RawOf[t] \in File
    BY NewRowsType
  <1>2. raw[RawOf[t]] \in Seq(Rows)
    BY <1>1 DEF TypeOK
  <1>3. Begins(raw[RawOf[t]], raw[RawOf[t]])
    BY <1>2 DEF Begins
  <1> QED
    BY <1>1, <1>3 DEF Content, RawOrdered, ParsedFits

LEMMA ParsedStep ==
  ASSUME TypeOK, RawOrdered, ParsedFits, [Next]_vars
  PROVE  ParsedFits'
  <1> USE DEF ParsedFits
  <1>1. ASSUME NEW f \in File, Log(f) PROVE ParsedFits'
    <2> SUFFICES ASSUME NEW g \in File, parsed[g] # None
                 PROVE  /\ Increasing(parsed[g]) /\ UpTo(parsed[g], logged')
                        /\ \/ Begins(parsed[g], raw'[g])
                           \/ g \in rotated' /\ Behind(parsed[g], 0, raw'[g])
      BY <1>1 DEF Log, Pipeline
    <2>1. /\ raw[f] \in Seq(Rows) /\ raw[g] \in Seq(Rows) /\ parsed[g] \in Seq(Rows)
          /\ logged \in Nat /\ logged' = logged + 1 /\ rotated' = rotated
          /\ raw' = [raw EXCEPT ![f] = Append(@, logged + 1)] /\ raw \in [File -> Seq(Rows)]
      BY <1>1 DEF Log, TypeOK
    <2>2. \A i \in 1 .. Len(parsed[g]) : parsed[g][i] \in Nat /\ parsed[g][i] <= logged
      BY <2>1 DEF UpTo, Rows
    <2>3. UpTo(parsed[g], logged')
      BY <2>1, <2>2 DEF UpTo
    <2>4. CASE g # f
      BY <2>1, <2>3, <2>4
    <2>5. CASE g = f
      <3>1. /\ raw'[g] = Append(raw[g], logged + 1)
            /\ Len(raw'[g]) = Len(raw[g]) + 1 /\ raw'[g][Len(raw[g]) + 1] = logged + 1
            /\ \A i \in 1 .. Len(raw[g]) : raw'[g][i] = raw[g][i]
        BY <2>1, <2>5
      <3>2. Begins(parsed[g], raw[g]) => Begins(parsed[g], raw'[g])
        BY <3>1, <2>1 DEF Begins
      <3>3. Behind(parsed[g], 0, raw[g]) => Behind(parsed[g], 0, raw'[g])
        <4> DEFINE p == parsed[g]
                   q == raw[g]
        <4>1. /\ Len(p) \in Nat /\ Len(q) \in Nat /\ logged \in Nat
              /\ \A i \in 1 .. Len(p) : p[i] <= logged /\ p[i] \in Nat
              /\ Len(raw'[g]) = Len(q) + 1 /\ raw'[g][Len(q) + 1] = logged + 1
              /\ \A i \in 1 .. Len(q) : raw'[g][i] = q[i]
          BY <3>1, <2>1, <2>2
        <4> HIDE DEF p, q
        <4>2. Behind(p, 0, q) => Behind(p, 0, raw'[g])
          BY <4>1 DEF Behind
        <4> QED
          BY <4>2 DEF p, q
      <3> QED
        BY <2>1, <2>3, <3>2, <3>3
    <2> QED
      BY <2>4, <2>5
  <1>2. ASSUME NEW f \in File, Rotate(f) PROVE ParsedFits'
    <2>1. /\ raw' = [raw EXCEPT ![f] = <<>>] /\ raw \in [File -> Seq(Rows)]
          /\ rotated' = rotated \cup {f} /\ parsed' = parsed /\ logged' = logged
      BY <1>2 DEF Rotate, Pipeline, TypeOK
    <2>2. \A g \in File : Behind(parsed[g], 0, <<>>)
      BY DEF Behind
    <2> QED
      BY <2>1, <2>2
  <1>3. ASSUME NEW t \in Tag, UNCHANGED <<raw, logged, rotated>>,
               \/ parsed' = parsed
               \/ parsed' = [parsed EXCEPT ![RawOf[t]] = Content(RawOf[t])]
        PROVE  ParsedFits'
    <2>1. parsed \in [File -> Seq(Rows) \cup {None}] /\ RawOf[t] \in File
      BY NewRowsType DEF TypeOK
    <2> QED
      BY <1>3, <2>1, ContentFits
  <1>4. CASE StartTick
    BY <1>4 DEF StartTick, logger
  <1>5. CASE UNCHANGED data \/ Restart
    BY <1>5 DEF data, Restart, logger
  <1> QED
    BY <1>1, <1>2, <1>3, <1>4, <1>5, StepCases DEF ReadStep, Save, SeedFails, SaveFails, Merge,
       MergeUnconfirmed, Parse, logger

-----------------------------------------------------------------------------
(* Places and what is stored. *)

LEMMA StoredType ==
  ASSUME TypeOK, NEW t \in Tag
  PROVE  Stored(t) \in Seq(Rows) \cup {None}
  BY DEF Stored, TypeOK

LEMMA ContentBehind ==
  ASSUME PlaceOrdered, NEW t \in Tag, t \notin replayed, Stored(t) # None
  PROVE  Behind(Stored(t), tagState[t].lastIndex, Content(RawOf[t]))
  BY DEF PlaceOrdered, OrderedTag, Content

(* The rows written behind a tag's stored rows keep the order, and the     *)
(* file and the parse have only later rows behind the new place.           *)
LEMMA WriteOrdered ==
  ASSUME TypeOK, RawOrdered, ParsedFits, PlaceOrdered, NEW t \in Tag,
         t \notin replayed, Stored(t) # None, NewRows(t) # <<>>
  PROVE  LET all == Stored(t) \o NewRows(t)   c == Content(RawOf[t])
         IN  /\ Increasing(all) /\ UpTo(all, logged)
             /\ Behind(all, Len(c), raw[RawOf[t]]) /\ Behind(all, Len(c), c)
  <1> DEFINE c == Content(RawOf[t])
             r == raw[RawOf[t]]
             s == Stored(t)
             a == NewRows(t)
             n == tagState[t].lastIndex
  <1>1. /\ c \in Seq(Rows) /\ s \in Seq(Rows) /\ a \in Seq(Rows) /\ n \in Nat /\ n < Len(c)
        /\ \A i \in 1 .. Len(a) : n + i \in 1 .. Len(c) /\ a[i] = c[n + i]
    BY NewRowsType, StoredType
  <1>2. r \in Seq(Rows) /\ Increasing(r) /\ logged \in Nat
    BY NewRowsType DEF TypeOK, RawOrdered
  <1>3. /\ Increasing(c) /\ UpTo(c, logged)
        /\ Begins(c, r) \/ Behind(c, 0, r)
    BY ContentFits
  <1>4. Increasing(s) /\ UpTo(s, logged) /\ Behind(s, n, r) /\ Behind(s, n, c)
    BY ContentBehind DEF PlaceOrdered, OrderedTag
  <1> HIDE DEF c, r, s, a, n
  <1>5. Increasing(s \o a)
    BY <1>1, <1>3, <1>4, StoreFacts
  <1>6. /\ Len(s \o a) = Len(s) + Len(a)
        /\ \A i \in 1 .. Len(s) + Len(a) :
             (s \o a)[i] = IF i <= Len(s) THEN s[i] ELSE a[i - Len(s)]
    BY <1>1, ConcatProperties
  <1>7. ASSUME NEW i \in 1 .. Len(s \o a)
        PROVE  \/ i \in 1 .. Len(s) /\ (s \o a)[i] = s[i]
               \/ \E k \in n + 1 .. Len(c) : (s \o a)[i] = c[k]
    <2>1. CASE i <= Len(s)
      BY <1>1, <1>6, <2>1
    <2>2. CASE i > Len(s)
      <3>1. i - Len(s) \in 1 .. Len(a)
        BY <1>1, <1>6, <2>2
      <3>2. n + (i - Len(s)) \in 1 .. Len(c) /\ a[i - Len(s)] = c[n + (i - Len(s))]
        BY <1>1, <3>1
      <3>3. n + (i - Len(s)) \in n + 1 .. Len(c)
        BY <3>1, <3>2, <1>1
      <3> QED
        BY <1>6, <2>2, <3>2, <3>3
    <2> QED
      BY <2>1, <2>2, <1>1
  <1>8. UpTo(s \o a, logged)
    <2> SUFFICES ASSUME NEW i \in 1 .. Len(s \o a) PROVE (s \o a)[i] <= logged
      BY DEF UpTo
    <2>1. \A k \in n + 1 .. Len(c) : k \in 1 .. Len(c)
      BY <1>1
    <2> QED
      BY <1>3, <1>4, <1>7, <2>1 DEF UpTo
  <1>9. Behind(s \o a, Len(c), r)
    <2> SUFFICES ASSUME NEW i \in 1 .. Len(s \o a), NEW j \in 1 .. Len(r), Len(c) < j
                 PROVE  (s \o a)[i] < r[j]
      BY DEF Behind
    <2>1. CASE i \in 1 .. Len(s) /\ (s \o a)[i] = s[i]
      BY <2>1, <1>1, <1>4 DEF Behind
    <2>2. ASSUME NEW k \in n + 1 .. Len(c), (s \o a)[i] = c[k] PROVE (s \o a)[i] < r[j]
      <3>1. k \in 1 .. Len(c) /\ k < j
        BY <1>1
      <3>2. CASE Begins(c, r)
        <4>1. c[k] = r[k] /\ k \in 1 .. Len(r)
          BY <3>1, <3>2, <1>1, <1>2 DEF Begins
        <4> QED
          BY <2>2, <3>1, <4>1, <1>2 DEF Increasing
      <3>3. CASE Behind(c, 0, r)
        BY <2>2, <3>1, <3>3 DEF Behind
      <3> QED
        BY <1>3, <3>2, <3>3
    <2> QED
      BY <1>7, <2>1, <2>2
  <1>10. Behind(s \o a, Len(c), c)
    BY <1>1 DEF Behind
  <1> QED
    BY <1>5, <1>8, <1>9, <1>10 DEF c, r, s, a

(* A tag that a step leaves alone, whatever the step has parsed. *)
LEMMA OtherOrdered ==
  ASSUME TypeOK, PlaceOrdered, NEW t \in Tag, NEW u \in Tag,
         UNCHANGED <<raw, logged>>, replayed \subseteq replayed',
         \/ parsed' = parsed
         \/ parsed' = [parsed EXCEPT ![RawOf[t]] = Content(RawOf[t])],
         tagState'[u].lastIndex = tagState[u].lastIndex,
         u \notin replayed' => Stored(u)' = Stored(u)
  PROVE  OrderedTag(u)'
  <1> SUFFICES ASSUME u \notin replayed', Stored(u)' # None
               PROVE  /\ Increasing(Stored(u)) /\ UpTo(Stored(u), logged)
                      /\ Behind(Stored(u), tagState[u].lastIndex, raw[RawOf[u]])
                      /\ parsed'[RawOf[u]] # None =>
                           Behind(Stored(u), tagState[u].lastIndex, parsed'[RawOf[u]])
    BY DEF OrderedTag
  <1>1. u \notin replayed /\ Stored(u) # None
    OBVIOUS
  <1>2. parsed \in [File -> Seq(Rows) \cup {None}] /\ RawOf[t] \in File /\ RawOf[u] \in File
    BY NewRowsType DEF TypeOK
  <1>3. parsed'[RawOf[u]] = parsed[RawOf[u]] \/ parsed'[RawOf[u]] = Content(RawOf[u])
    BY <1>2
  <1> QED
    BY <1>1, <1>3, ContentBehind DEF PlaceOrdered, OrderedTag

(* A tag whose stored rows and file a successful write extends. *)
LEMMA WrittenOrdered ==
  ASSUME TypeOK, RawOrdered, ParsedFits, PlaceOrdered, NEW t \in Tag,
         NewRows(t) # <<>>, Stored(t) # None, Parse(t), Advance(t),
         UNCHANGED <<raw, logged, replayed>>, Stored(t)' = Stored(t) \o NewRows(t)
  PROVE  OrderedTag(t)'
  <1>1. /\ RawOf[t] \in File /\ parsed \in [File -> Seq(Rows) \cup {None}]
        /\ tagState \in [Tag -> [lastModTime : Nat, lastIndex : Nat]]
    BY NewRowsType DEF TypeOK
  <1>2. parsed'[RawOf[t]] = Content(RawOf[t])
    BY <1>1 DEF Parse
  <1>3. tagState'[t].lastIndex = Len(Content(RawOf[t]))
    BY <1>1 DEF Advance
  <1> QED
    BY <1>2, <1>3, WriteOrdered DEF OrderedTag

LEMMA SavedStored ==
  ASSUME TypeOK, CacheFaithful, NEW t \in Tag, Save(t) \/ SeedFails(t)
  PROVE  /\ Stored(t) # None /\ Stored(t)' = Stored(t) \o NewRows(t)
         /\ \A u \in Tag \ {t} : Stored(u)' = Stored(u) /\ tagState'[u] = tagState[u]
  <1>1. /\ mat' = [mat EXCEPT ![t] = Merged(t)]
        /\ \/ priorState' = [priorState EXCEPT ![t] = Merged(t)]
           \/ priorState' = priorState
        /\ Loadable(t) /\ Advance(t)
    BY DEF Save, SeedFails
  <1>2. Merged(t) \in Seq(Rows) /\ Merged(t) # Torn
    BY <1>1, MergedType, MarkerAssumption
  <1>3. Merged(t) = Stored(t) \o NewRows(t) /\ Stored(t) # None
    BY <1>1, MarkerAssumption DEF Merged, Stored, Loadable, CacheFaithful, TypeOK
  <1> QED
    BY <1>1, <1>2, <1>3 DEF Stored, TypeOK, Advance

LEMMA MergedStored ==
  ASSUME TypeOK, ClusterIntact, NEW t \in Tag, Merge(t) \/ MergeUnconfirmed(t)
  PROVE  /\ Stored(t) # None /\ Stored(t)' = Stored(t) \o NewRows(t)
         /\ \A u \in Tag \ {t} : Stored(u)' = Stored(u)
  <1>1. /\ mat' = [mat EXCEPT ![t] = @ \o NewRows(t)]
        /\ priorState' = priorState /\ cluster
    BY DEF Merge, MergeUnconfirmed, memory
  <1>2. mat[t] \in Seq(Rows) /\ mat[t] \o NewRows(t) \in Seq(Rows)
    BY <1>1, MergedType DEF TypeOK, ClusterIntact
  <1> QED
    BY <1>1, <1>2, MarkerAssumption DEF Stored, TypeOK

(* A save that fails: the cache still holds what the torn file held. *)
LEMMA SaveFailsStored ==
  ASSUME TypeOK, CacheFaithful, NEW t \in Tag, SaveFails(t), NEW u \in Tag
  PROVE  \/ Stored(u)' = Stored(u)
         \/ u = t /\ ~cluster /\ priorState[u] = None /\ Stored(u)' = None
  <1>1. /\ mat' \in {mat, [mat EXCEPT ![t] = Torn]} /\ ~cluster
        /\ priorState' = priorState
    BY DEF SaveFails, memory
  <1> QED
    BY <1>1 DEF Stored, TypeOK, CacheFaithful

LEMMA RestartStored ==
  ASSUME TypeOK, Restart, NEW t \in Tag, t \notin replayed'
  PROVE  Stored(t)' = None \/ Stored(t)' = <<>>
  <1>1. mat[t] = <<>> /\ priorState'[t] = None
    BY DEF Restart
  <1>2. mat'[t] = mat[t] \/ mat'[t] = Torn
    BY DEF Restart, TypeOK
  <1> QED
    BY <1>1, <1>2 DEF Stored

LEMMA OrderedStep ==
  ASSUME TypeOK, ClusterIntact, CacheFaithful, RawOrdered, ParsedFits, PlaceOrdered,
         [Next]_vars
  PROVE  PlaceOrdered'
  <1>0. \A t \in Tag : RawOf[t] \in File /\ tagState[t].lastIndex \in Nat
    BY NewRowsType
  <1>1. ASSUME NEW f \in File, Log(f), NEW u \in Tag PROVE OrderedTag(u)'
    <2>1. /\ UNCHANGED <<parsed, tagState, priorState, mat, replayed>>
          /\ raw' = [raw EXCEPT ![f] = Append(@, logged + 1)] /\ logged' = logged + 1
      BY <1>1 DEF Log, Pipeline, memory
    <2>2. /\ raw \in [File -> Seq(Rows)] /\ logged \in Nat /\ raw[f] \in Seq(Rows)
      BY DEF TypeOK
    <2> DEFINE s == Stored(u)
               n == tagState[u].lastIndex
               r == raw[RawOf[u]]
    <2> SUFFICES ASSUME u \notin replayed, s # None
                 PROVE  UpTo(s, logged + 1) /\ Behind(s, n, raw'[RawOf[u]])
      BY <2>1 DEF OrderedTag, Stored, PlaceOrdered
    <2>3. s \in Seq(Rows) /\ UpTo(s, logged) /\ Behind(s, n, r) /\ n \in Nat /\ r \in Seq(Rows)
      BY <1>0, <2>2, StoredType DEF PlaceOrdered, OrderedTag
    <2>4. \/ raw'[RawOf[u]] = r
          \/ raw'[RawOf[u]] = Append(r, logged + 1)
      BY <1>0, <2>1, <2>2
    <2> HIDE DEF s, n, r
    <2>5. \A i \in 1 .. Len(s) : s[i] \in Nat /\ s[i] <= logged
      BY <2>3 DEF UpTo, Rows
    <2>6. UpTo(s, logged + 1)
      BY <2>2, <2>5 DEF UpTo
    <2>7. Behind(s, n, Append(r, logged + 1))
      <3>1. /\ Len(Append(r, logged + 1)) = Len(r) + 1
            /\ Append(r, logged + 1)[Len(r) + 1] = logged + 1
            /\ \A j \in 1 .. Len(r) : Append(r, logged + 1)[j] = r[j]
        BY <2>3
      <3> QED
        BY <2>2, <2>3, <2>5, <3>1 DEF Behind
    <2> QED
      BY <2>3, <2>4, <2>6, <2>7
  <1>2. ASSUME NEW f \in File, Rotate(f), NEW u \in Tag PROVE OrderedTag(u)'
    <2>1. /\ UNCHANGED <<parsed, tagState, priorState, mat, replayed, logged>>
          /\ raw' = [raw EXCEPT ![f] = <<>>] /\ raw \in [File -> Seq(Rows)]
      BY <1>2 DEF Rotate, Pipeline, memory, TypeOK
    <2>2. raw'[RawOf[u]] = raw[RawOf[u]] \/ raw'[RawOf[u]] = <<>>
      BY <1>0, <2>1
    <2> QED
      BY <2>1, <2>2 DEF PlaceOrdered, OrderedTag, Stored, Behind
  <1>3. ASSUME StartTick, NEW u \in Tag PROVE OrderedTag(u)'
    <2>1. /\ UNCHANGED <<raw, logged, priorState, mat>>
          /\ parsed' = [f \in File |-> None] /\ replayed \subseteq replayed'
      BY <1>3 DEF StartTick, GcStaleTagState, logger
    <2>2. u \notin replayed' => tagState'[u].lastIndex = tagState[u].lastIndex
      BY <1>0, <1>3 DEF StartTick, GcStaleTagState, Fresh
    <2> QED
      BY <1>0, <2>1, <2>2 DEF PlaceOrdered, OrderedTag, Stored
  <1>4. ASSUME Restart, NEW u \in Tag PROVE OrderedTag(u)'
    BY <1>4, RestartStored DEF OrderedTag, Increasing, UpTo, Behind
  <1>5. ASSUME NEW t \in Tag, ReadStep(t), NEW u \in Tag PROVE OrderedTag(u)'
    <2>1. Stored(u)' = Stored(u)
      BY <1>5 DEF ReadStep, Stored
    <2> QED
      BY <1>5, <2>1, OtherOrdered DEF ReadStep
  <1>6. ASSUME NEW t \in Tag, Save(t) \/ SeedFails(t), NEW u \in Tag PROVE OrderedTag(u)'
    <2>1. Parse(t) /\ Advance(t) /\ NewRows(t) # <<>> /\ UNCHANGED <<raw, logged, replayed>>
      BY <1>6 DEF Save, SeedFails, logger
    <2> QED
      BY <1>6, <2>1, SavedStored, WrittenOrdered, OtherOrdered DEF Parse
  <1>7. ASSUME NEW t \in Tag, SaveFails(t), NEW u \in Tag PROVE OrderedTag(u)'
    <2>1. Parse(t) /\ UNCHANGED <<raw, logged, replayed, tagState>>
      BY <1>7 DEF SaveFails, logger, memory
    <2>2. CASE Stored(u)' = Stored(u)
      BY <2>1, <2>2, OtherOrdered DEF Parse
    <2>3. CASE Stored(u)' = None
      BY <2>3 DEF OrderedTag
    <2> QED
      BY <1>7, <2>2, <2>3, SaveFailsStored
  <1>8. ASSUME NEW t \in Tag, Merge(t), NEW u \in Tag PROVE OrderedTag(u)'
    <2>1. Parse(t) /\ Advance(t) /\ NewRows(t) # <<>> /\ UNCHANGED <<raw, logged, replayed>>
      BY <1>8 DEF Merge, logger
    <2>2. u # t => tagState'[u] = tagState[u]
      BY <2>1 DEF Advance, TypeOK
    <2> QED
      BY <1>8, <2>1, <2>2, MergedStored, WrittenOrdered, OtherOrdered DEF Parse
  <1>9. ASSUME NEW t \in Tag, MergeUnconfirmed(t), NEW u \in Tag PROVE OrderedTag(u)'
    <2>1. /\ Parse(t) /\ UNCHANGED <<raw, logged, tagState>> /\ replayed' = replayed \cup {t}
      BY <1>9 DEF MergeUnconfirmed, logger, memory
    <2> QED
      BY <1>9, <2>1, MergedStored, OtherOrdered DEF Parse
  <1>10. CASE UNCHANGED data
    BY <1>10 DEF data, PlaceOrdered, OrderedTag, Stored
  <1> QED
    BY <1>1, <1>2, <1>3, <1>4, <1>5, <1>6, <1>7, <1>8, <1>9, <1>10, StepCases DEF PlaceOrdered

(* A write extends what is stored, so nothing that is stored is lost.      *)
LEMMA ConcatHolds ==
  ASSUME NEW s \in Seq(Rows), NEW a \in Seq(Rows), NEW row,
         Holds(s, row) \/ Holds(a, row)
  PROVE  Holds(s \o a, row)
  <1>1. /\ Len(s \o a) = Len(s) + Len(a)
        /\ \A i \in 1 .. Len(s) + Len(a) :
             (s \o a)[i] = IF i <= Len(s) THEN s[i] ELSE a[i - Len(s)]
    BY ConcatProperties
  <1>2. ASSUME NEW i \in 1 .. Len(s), s[i] = row PROVE Holds(s \o a, row)
    BY <1>1, <1>2 DEF Holds
  <1>3. ASSUME NEW i \in 1 .. Len(a), a[i] = row PROVE Holds(s \o a, row)
    <2>1. Len(s) + i \in 1 .. Len(s \o a) /\ (s \o a)[Len(s) + i] = a[i]
      BY <1>1
    <2> QED
      BY <1>3, <2>1 DEF Holds
  <1> QED
    BY <1>2, <1>3 DEF Holds

(* A tag whose stored rows a successful write extends. *)
LEMMA WrittenPlaced ==
  ASSUME TypeOK, RawOrdered, ParsedFits, PlaceStored, NEW t \in Tag,
         NewRows(t) # <<>>, Stored(t) # None, ~Lost(t), Advance(t),
         UNCHANGED <<raw, rotated>>, Stored(t)' = Stored(t) \o NewRows(t)
  PROVE  StoredTag(t)'
  <1> DEFINE c == Content(RawOf[t])
             r == raw[RawOf[t]]
             s == Stored(t)
             a == NewRows(t)
             n == tagState[t].lastIndex
  <1> SUFFICES ASSUME RawOf[t] \notin rotated
               PROVE  Len(c) <= Len(r) /\ \A i \in 1 .. Len(c) : Holds(s \o a, r[i])
    BY DEF StoredTag, Advance, TypeOK
  <1>1. /\ c \in Seq(Rows) /\ s \in Seq(Rows) /\ a \in Seq(Rows) /\ n \in Nat /\ n < Len(c)
        /\ Len(a) = Len(c) - n
        /\ \A i \in 1 .. Len(a) : a[i] = c[n + i]
    BY NewRowsType, StoredType
  <1>2. Begins(c, r)
    BY ContentFits
  <1>3. \A i \in 1 .. n : Holds(s, r[i])
    BY DEF PlaceStored, StoredTag
  <1> HIDE DEF c, r, s, a, n
  <1>4. ASSUME NEW i \in 1 .. Len(c) PROVE Holds(s \o a, r[i])
    <2>1. CASE i <= n
      BY <1>1, <1>3, <2>1, ConcatHolds
    <2>2. CASE i > n
      <3>1. i - n \in 1 .. Len(a) /\ n + (i - n) = i
        BY <1>1, <2>2
      <3>2. a[i - n] = r[i]
        BY <1>1, <1>2, <3>1 DEF Begins
      <3>3. Holds(a, r[i])
        BY <3>1, <3>2 DEF Holds
      <3> QED
        BY <1>1, <3>3, ConcatHolds
    <2> QED
      BY <1>1, <2>1, <2>2
  <1> QED
    BY <1>2, <1>4 DEF Begins

(* A tag whose place a step leaves alone keeps the rows before it. *)
LEMMA OtherPlaced ==
  ASSUME TypeOK, PlaceStored, NEW u \in Tag, UNCHANGED <<raw, rotated>>,
         tagState'[u].lastIndex = tagState[u].lastIndex,
         Lost(u) => Lost(u)',
         ~Lost(u)' => \A row : Holds(Stored(u), row) => Holds(Stored(u)', row)
  PROVE  StoredTag(u)'
  BY DEF PlaceStored, StoredTag

(* A tag that has no place has nothing to keep. *)
LEMMA NoPlace ==
  ASSUME TypeOK', NEW u \in Tag, tagState'[u].lastIndex = 0
  PROVE  StoredTag(u)'
  <1>1. Len(raw'[RawOf[u]]) \in Nat
    BY PipelineAssumption DEF TypeOK
  <1> QED
    BY <1>1 DEF StoredTag

LEMMA PlacedStep ==
  ASSUME TypeOK, TypeOK', ClusterIntact, CacheFaithful, PlaceCached, UnseededCold,
         RawOrdered, ParsedFits, PlaceStored, [Next]_vars
  PROVE  PlaceStored'
  <1>0. \A t \in Tag : RawOf[t] \in File /\ tagState[t].lastIndex \in Nat
    BY NewRowsType
  <1>1. ASSUME NEW f \in File, Log(f), NEW u \in Tag PROVE StoredTag(u)'
    <2>1. /\ UNCHANGED <<tagState, priorState, unseeded, mat, rotated>>
          /\ raw' = [raw EXCEPT ![f] = Append(@, logged + 1)]
      BY <1>1 DEF Log, Pipeline, memory
    <2>2. raw \in [File -> Seq(Rows)]
      BY DEF TypeOK
    <2> DEFINE r == raw[RawOf[u]]
    <2>3. raw'[RawOf[u]] = r \/ raw'[RawOf[u]] = Append(r, logged + 1)
      BY <1>0, <2>1, <2>2
    <2>4. r \in Seq(Rows)
      BY <1>0, <2>2
    <2> HIDE DEF r
    <2>5. Len(r) <= Len(raw'[RawOf[u]]) /\ \A i \in 1 .. Len(r) : raw'[RawOf[u]][i] = r[i]
      BY <2>3, <2>4
    <2>6. CASE RawOf[u] \in rotated
      BY <2>1, <2>6 DEF StoredTag
    <2>7. CASE RawOf[u] \notin rotated
      <3>1. /\ tagState[u].lastIndex <= Len(r)
            /\ Lost(u) \/ \A i \in 1 .. tagState[u].lastIndex : Holds(Stored(u), r[i])
        BY <2>7 DEF PlaceStored, StoredTag, r
      <3>2. Stored(u)' = Stored(u) /\ Lost(u)' = Lost(u)
        BY <2>1 DEF Stored, Lost
      <3>3. Len(r) \in Nat /\ Len(raw'[RawOf[u]]) \in Nat
        BY <2>3, <2>4
      <3>4. tagState[u].lastIndex <= Len(raw'[RawOf[u]])
        BY <1>0, <2>5, <3>1, <3>3
      <3>5. ASSUME NEW i \in 1 .. tagState[u].lastIndex, ~Lost(u)
            PROVE  Holds(Stored(u), raw'[RawOf[u]][i])
        <4>1. i \in 1 .. Len(r)
          BY <1>0, <3>1, <3>3
        <4> QED
          BY <2>5, <3>1, <3>5, <4>1
      <3> QED
        BY <2>1, <3>2, <3>4, <3>5 DEF StoredTag
    <2> QED
      BY <2>6, <2>7
  <1>2. ASSUME NEW f \in File, Rotate(f), NEW u \in Tag PROVE StoredTag(u)'
    <2>1. /\ UNCHANGED <<tagState, priorState, unseeded, mat>>
          /\ raw' = [raw EXCEPT ![f] = <<>>] /\ raw \in [File -> Seq(Rows)]
          /\ rotated' = rotated \cup {f}
      BY <1>2 DEF Rotate, Pipeline, memory, TypeOK
    <2>2. RawOf[u] # f => raw'[RawOf[u]] = raw[RawOf[u]]
      BY <1>0, <2>1
    <2> QED
      BY <2>1, <2>2 DEF PlaceStored, StoredTag, Stored, Lost
  <1>3. ASSUME StartTick, NEW u \in Tag PROVE StoredTag(u)'
    <2>1. UNCHANGED <<raw, rotated, priorState, unseeded, mat>>
      BY <1>3 DEF StartTick, logger
    <2>2. tagState'[u].lastIndex \in {0, tagState[u].lastIndex}
      BY <1>3 DEF StartTick, GcStaleTagState, Fresh
    <2> QED
      BY <2>1, <2>2, OtherPlaced, NoPlace DEF Stored, Lost
  <1>4. ASSUME Restart, NEW u \in Tag PROVE StoredTag(u)'
    <2>1. tagState'[u].lastIndex = 0
      BY <1>4 DEF Restart, Fresh
    <2> QED
      BY <2>1, NoPlace
  <1>5. ASSUME NEW t \in Tag, ReadStep(t), NEW u \in Tag PROVE StoredTag(u)'
    BY <1>5, OtherPlaced DEF ReadStep, Stored, Lost
  <1>6. ASSUME NEW t \in Tag, Save(t) \/ SeedFails(t), NEW u \in Tag PROVE StoredTag(u)'
    <2>1. Advance(t) /\ NewRows(t) # <<>> /\ UNCHANGED <<raw, rotated>> /\ Loadable(t)
      BY <1>6 DEF Save, SeedFails, logger
    <2>2. ~Lost(t)
      BY <2>1 DEF Loadable, Lost, UnseededCold
    <2>3. u # t => Lost(u)' = Lost(u)
      <3>1. /\ mat' = [mat EXCEPT ![t] = Merged(t)] /\ mat \in [Tag -> Seq(Rows) \cup {Torn}]
            /\ unseeded' = unseeded \ {t} \/ unseeded' = unseeded \cup {t}
        BY <1>6 DEF Save, SeedFails, TypeOK
      <3> QED
        BY <3>1 DEF Lost
    <2> QED
      BY <1>6, <2>1, <2>2, <2>3, SavedStored, WrittenPlaced, OtherPlaced
  <1>7. ASSUME NEW t \in Tag, SaveFails(t), NEW u \in Tag PROVE StoredTag(u)'
    <2>1. /\ UNCHANGED <<raw, rotated, tagState, priorState, unseeded>>
          /\ mat' \in {mat, [mat EXCEPT ![t] = Torn]} /\ mat \in [Tag -> Seq(Rows) \cup {Torn}]
      BY <1>7 DEF SaveFails, logger, memory, TypeOK
    <2>2. Lost(u) => Lost(u)'
      BY <2>1 DEF Lost
    <2>3. CASE Stored(u)' = Stored(u)
      BY <2>1, <2>2, <2>3, OtherPlaced
    <2>4. CASE ~cluster /\ priorState[u] = None /\ Stored(u)' = None
      <3>1. CASE u \notin unseeded
        <4>1. tagState'[u].lastIndex = 0
          BY <1>0, <2>1, <2>4, <3>1 DEF PlaceCached
        <4> QED
          BY <4>1, NoPlace
      <3>2. CASE u \in unseeded
        <4>1. Lost(u)'
          BY <2>1, <2>4, <3>2, MarkerAssumption DEF Lost, Stored
        <4> QED
          BY <2>1, <4>1, OtherPlaced
      <3> QED
        BY <3>1, <3>2
    <2> QED
      BY <1>7, <2>3, <2>4, SaveFailsStored
  <1>8. ASSUME NEW t \in Tag, Merge(t) \/ MergeUnconfirmed(t), NEW u \in Tag
        PROVE  ~Lost(u) /\ ~Lost(u)'
    <2>1. cluster /\ mat' = [mat EXCEPT ![t] = mat[t] \o NewRows(t)] /\ mat[t] # Torn
      BY <1>8 DEF Merge, MergeUnconfirmed, ClusterIntact
    <2>2. mat[t] \o NewRows(t) # Torn
      BY <2>1, MergedType, MarkerAssumption
    <2> QED
      BY <2>1, <2>2 DEF Lost, ClusterIntact, TypeOK
  <1>9. ASSUME NEW t \in Tag, Merge(t), NEW u \in Tag PROVE StoredTag(u)'
    <2>1. Advance(t) /\ NewRows(t) # <<>> /\ UNCHANGED <<raw, rotated>>
      BY <1>9 DEF Merge, logger
    <2>2. u # t => tagState'[u] = tagState[u]
      BY <2>1 DEF Advance, TypeOK
    <2> QED
      BY <1>8, <1>9, <2>1, <2>2, MergedStored, WrittenPlaced, OtherPlaced
  <1>10. ASSUME NEW t \in Tag, MergeUnconfirmed(t), NEW u \in Tag PROVE StoredTag(u)'
    <2>1. UNCHANGED <<raw, rotated, tagState>>
      BY <1>10 DEF MergeUnconfirmed, logger, memory
    <2>2. NewRows(t) \in Seq(Rows) /\ (Stored(t) # None => Stored(t) \in Seq(Rows))
      BY NewRowsType, StoredType
    <2>3. \A row : Holds(Stored(u), row) => Holds(Stored(u)', row)
      BY <1>10, <2>2, MergedStored, ConcatHolds
    <2> QED
      BY <1>8, <1>10, <2>1, <2>3, OtherPlaced
  <1>11. CASE UNCHANGED data
    BY <1>11 DEF data, PlaceStored, StoredTag, Stored, Lost
  <1> QED
    BY <1>1, <1>2, <1>3, <1>4, <1>5, <1>6, <1>7, <1>9, <1>10, <1>11, StepCases DEF PlaceStored

-----------------------------------------------------------------------------
(* Granules.  No mtime is ahead of the clock, and neither is what a tag    *)
(* has recorded of one; so a row logged after a listing is stamped no      *)
(* earlier than the mtimes listed.                                         *)
ClockAhead ==
  /\ Len(stamp) = logged
  /\ \A i \in 1 .. logged : stamp[i] <= now
  /\ \A f \in File : mtime[f] <= now /\ listing[f] <= now
  /\ \A t \in Tag : tagState[t].lastModTime <= now

(* A parse has all rows of the granules before the mtime it was listed at. *)
ParsedListed ==
  \A f \in File : f \notin rotated /\ parsed[f] # None =>
    \A i \in 1 .. Len(raw[f]) : stamp[raw[f][i]] < listing[f] => i <= Len(parsed[f])

GranulesInv == ClockAhead /\ ParsedListed /\ OlderGranulesTaken

(* The steps that leave the clock, the raw files and the listing alone. *)
LEMMA ProcessFrame ==
  ASSUME NEW t \in Tag, ProcessTag(t)
  PROVE  /\ UNCHANGED <<now, raw, mtime, logged, stamp, rotated, listing>>
         /\ \/ parsed' = parsed
            \/ parsed' = [parsed EXCEPT ![RawOf[t]] = Content(RawOf[t])]
         /\ \/ tagState' = tagState
            \/ Advance(t)
            \/ /\ tagState' = [tagState EXCEPT ![t].lastModTime = listing[RawOf[t]]]
               /\ NewRows(t) = <<>>
  <1> USE DEF logger, memory, Parse
  <1>1. CASE Skip(t)
    BY <1>1 DEF Skip
  <1>2. CASE NoNewRows(t)
    BY <1>2 DEF NoNewRows
  <1>3. CASE Save(t) \/ SeedFails(t)
    BY <1>3 DEF Save, SeedFails
  <1>4. CASE LoadFails(t) \/ SaveFails(t)
    BY <1>4 DEF LoadFails, SaveFails
  <1>5. CASE Merge(t) \/ MergeUnconfirmed(t)
    BY <1>5 DEF Merge, MergeUnconfirmed
  <1>6. CASE Deferred(t)
    BY <1>6 DEF Deferred
  <1> QED
    BY <1>1, <1>2, <1>3, <1>4, <1>5, <1>6 DEF ProcessTag

LEMMA ProcessGranules ==
  ASSUME TypeOK, GranulesInv, NEW t \in Tag, ProcessTag(t)
  PROVE  GranulesInv'
  <1> USE DEF GranulesInv
  <1>1. /\ UNCHANGED <<now, raw, mtime, logged, stamp, rotated, listing>>
        /\ \/ parsed' = parsed
           \/ parsed' = [parsed EXCEPT ![RawOf[t]] = Content(RawOf[t])]
        /\ \/ tagState' = tagState
           \/ Advance(t)
           \/ /\ tagState' = [tagState EXCEPT ![t].lastModTime = listing[RawOf[t]]]
              /\ NewRows(t) = <<>>
    BY ProcessFrame
  <1>2. /\ RawOf[t] \in File /\ parsed \in [File -> Seq(Rows) \cup {None}]
        /\ raw \in [File -> Seq(Rows)] /\ raw[RawOf[t]] \in Seq(Rows)
        /\ tagState \in [Tag -> [lastModTime : Nat, lastIndex : Nat]]
        /\ listing \in [File -> Nat] /\ now \in Nat
        /\ Content(RawOf[t]) \in Seq(Rows) /\ tagState[t].lastIndex \in Nat
    BY NewRowsType DEF TypeOK
  <1>3. RawOf[t] \notin rotated =>
          \A i \in 1 .. Len(raw[RawOf[t]]) :
            stamp[raw[RawOf[t]][i]] < listing[RawOf[t]] => i <= Len(Content(RawOf[t]))
    BY <1>2 DEF ParsedListed, Content
  <1>4. ParsedListed'
    <2> SUFFICES ASSUME NEW f \in File, f \notin rotated, parsed'[f] # None,
                        NEW i \in 1 .. Len(raw[f]), stamp[raw[f][i]] < listing[f]
                 PROVE  i <= Len(parsed'[f])
      BY <1>1 DEF ParsedListed
    <2>1. CASE parsed'[f] = parsed[f]
      BY <2>1 DEF ParsedListed
    <2>2. CASE f = RawOf[t] /\ parsed'[f] = Content(f)
      BY <1>3, <2>2
    <2> QED
      BY <1>1, <1>2, <2>1, <2>2
  <1>5. \A u \in Tag : u # t => tagState'[u] = tagState[u]
    BY <1>1, <1>2 DEF Advance
  <1>6. \/ tagState'[t] = tagState[t]
        \/ /\ tagState'[t].lastModTime = listing[RawOf[t]]
           /\ tagState'[t].lastIndex \in Nat
           /\ Len(Content(RawOf[t])) <= tagState'[t].lastIndex
    <2>1. CASE Advance(t)
      <3>1. Len(Content(RawOf[t])) \in Nat
        BY <1>2
      <3> QED
        BY <1>2, <2>1, <3>1 DEF Advance
    <2>2. CASE /\ tagState' = [tagState EXCEPT ![t].lastModTime = listing[RawOf[t]]]
               /\ NewRows(t) = <<>>
      <3> DEFINE c == Content(RawOf[t])
                 n == tagState[t].lastIndex
      <3>1. SubSeq(c, n + 1, Len(c)) = <<>> /\ c \in Seq(Rows) /\ n \in Nat
        BY <1>2, <2>2 DEF NewRows
      <3> HIDE DEF c, n
      <3>2. Len(c) <= n
        BY <3>1
      <3> QED
        BY <1>2, <2>2, <3>2 DEF c, n
    <2> QED
      BY <1>1, <2>1, <2>2
  <1>7. ClockAhead'
    BY <1>1, <1>2, <1>5, <1>6 DEF ClockAhead
  <1>8. OlderGranulesTaken'
    <2> SUFFICES ASSUME NEW u \in Tag, RawOf[u] \notin rotated, NEW i \in 1 .. Len(raw[RawOf[u]]),
                        stamp[raw[RawOf[u]][i]] < tagState'[u].lastModTime
                 PROVE  i <= tagState'[u].lastIndex
      BY <1>1 DEF OlderGranulesTaken
    <2>1. CASE tagState'[u] = tagState[u]
      BY <2>1 DEF OlderGranulesTaken
    <2>2. CASE u = t /\ tagState'[u] # tagState[u]
      <3>1. /\ i <= Len(Content(RawOf[t])) /\ Len(Content(RawOf[t])) <= tagState'[t].lastIndex
            /\ i \in Nat /\ Len(Content(RawOf[t])) \in Nat /\ tagState'[t].lastIndex \in Nat
        BY <1>2, <1>3, <1>6, <2>2
      <3> QED
        BY <2>2, <3>1
    <2> QED
      BY <1>5, <2>1, <2>2
  <1> QED
    BY <1>4, <1>7, <1>8

LEMMA StampType ==
  ASSUME TypeOK, RawOrdered, ClockAhead, NEW f \in File, NEW i \in 1 .. Len(raw[f])
  PROVE  stamp[raw[f][i]] \in Nat
  <1>1. raw[f] \in Seq(Rows) /\ logged \in Nat /\ stamp \in Seq(Nat) /\ Len(stamp) = logged
    BY DEF TypeOK, ClockAhead
  <1>2. raw[f][i] \in 1 .. Len(stamp)
    BY <1>1 DEF RawOrdered, UpTo, Rows
  <1> QED
    BY <1>1, <1>2

LEMMA GranulesStep ==
  ASSUME TypeOK, RawOrdered, GranulesInv, [Next]_vars
  PROVE  GranulesInv'
  <1> USE DEF GranulesInv
  <1> DEFINE known == <<now, raw, mtime, logged, stamp, rotated, listing, parsed, tagState>>
  <1>0. \A t \in Tag : RawOf[t] \in File
    BY PipelineAssumption
  <1>1. ASSUME NEW f \in File, Log(f) PROVE GranulesInv'
    <2>1. /\ logged' = logged + 1 /\ stamp' = Append(stamp, now)
          /\ raw' = [raw EXCEPT ![f] = Append(@, logged + 1)]
          /\ mtime' = [mtime EXCEPT ![f] = now]
          /\ UNCHANGED <<now, rotated, listing, parsed, tagState>>
      BY <1>1 DEF Log, Pipeline, memory
    <2>2. /\ raw \in [File -> Seq(Rows)] /\ mtime \in [File -> Nat] /\ stamp \in Seq(Nat)
          /\ logged \in Nat /\ now \in Nat /\ Len(stamp) = logged
          /\ listing \in [File -> Nat] /\ \A t \in Tag : tagState[t].lastModTime \in Nat
      BY DEF TypeOK, ClockAhead
    <2>3. /\ Len(stamp') = logged + 1 /\ stamp'[logged + 1] = now
          /\ \A i \in 1 .. logged : stamp'[i] = stamp[i]
      BY <2>1, <2>2
    <2>4. ASSUME NEW g \in File, NEW i \in 1 .. Len(raw'[g])
          PROVE  \/ i \in 1 .. Len(raw[g]) /\ stamp'[raw'[g][i]] = stamp[raw[g][i]]
                 \/ stamp'[raw'[g][i]] = now
      <3>1. raw[g] \in Seq(Rows) /\ \A k \in 1 .. Len(raw[g]) : raw[g][k] \in 1 .. logged
        BY <2>2 DEF RawOrdered, UpTo, Rows
      <3>2. CASE g = f
        <4>1. raw'[g] = Append(raw[g], logged + 1)
          BY <2>1, <2>2, <3>2
        <4> QED
          BY <2>3, <3>1, <4>1
      <3>3. CASE g # f
        BY <2>1, <2>2, <2>3, <3>1, <3>3
      <3> QED
        BY <3>2, <3>3
    <2>5. ClockAhead'
      <3>1. \A i \in 1 .. logged + 1 : stamp'[i] <= now
        BY <2>2, <2>3 DEF ClockAhead
      <3> QED
        BY <2>1, <2>2, <2>3, <3>1 DEF ClockAhead
    <2>6. ASSUME NEW g \in File, NEW i \in 1 .. Len(raw'[g]), NEW m \in Nat, m <= now,
                 stamp'[raw'[g][i]] < m
          PROVE  i \in 1 .. Len(raw[g]) /\ stamp[raw[g][i]] < m
      BY <2>2, <2>4, <2>6
    <2>7. ParsedListed'
      <3> SUFFICES ASSUME NEW g \in File, g \notin rotated, parsed[g] # None,
                          NEW i \in 1 .. Len(raw'[g]), stamp'[raw'[g][i]] < listing[g]
                   PROVE  i <= Len(parsed[g])
        BY <2>1 DEF ParsedListed
      <3>1. listing[g] \in Nat /\ listing[g] <= now
        BY <2>2 DEF ClockAhead
      <3>2. i \in 1 .. Len(raw[g]) /\ stamp[raw[g][i]] < listing[g]
        BY <2>6, <3>1
      <3> QED
        BY <3>2 DEF ParsedListed
    <2>8. OlderGranulesTaken'
      <3> SUFFICES ASSUME NEW t \in Tag, RawOf[t] \notin rotated, NEW i \in 1 .. Len(raw'[RawOf[t]]),
                          stamp'[raw'[RawOf[t]][i]] < tagState[t].lastModTime
                   PROVE  i <= tagState[t].lastIndex
        BY <2>1 DEF OlderGranulesTaken
      <3>1. tagState[t].lastModTime \in Nat /\ tagState[t].lastModTime <= now
        BY <2>2 DEF ClockAhead
      <3>2. i \in 1 .. Len(raw[RawOf[t]]) /\ stamp[raw[RawOf[t]][i]] < tagState[t].lastModTime
        BY <1>0, <2>6, <3>1
      <3> QED
        BY <3>2 DEF OlderGranulesTaken
    <2> QED
      BY <2>5, <2>7, <2>8
  <1>2. ASSUME NEW f \in File, Touch(f) \/ Rotate(f) PROVE GranulesInv'
    <2>1. /\ mtime' = [mtime EXCEPT ![f] = now]
          /\ \/ UNCHANGED <<raw, rotated>>
             \/ raw' = [raw EXCEPT ![f] = <<>>] /\ rotated' = rotated \cup {f}
          /\ UNCHANGED <<now, logged, stamp, listing, parsed, tagState>>
      BY <1>2 DEF Touch, Rotate, Pipeline, memory
    <2>2. ClockAhead'
      BY <2>1 DEF ClockAhead, TypeOK
    <2>3. \A g \in File : g \notin rotated' => g \notin rotated /\ raw'[g] = raw[g]
      BY <2>1 DEF TypeOK
    <2> QED
      BY <1>0, <2>1, <2>2, <2>3 DEF ParsedListed, OlderGranulesTaken
  <1>3. CASE Clock
    <2>1. now' = now + 1 /\ UNCHANGED <<raw, mtime, logged, stamp, rotated, listing, parsed, tagState>>
      BY <1>3 DEF Clock, Pipeline, memory
    <2>2. ClockAhead'
      <3>1. /\ now \in Nat /\ mtime \in [File -> Nat] /\ listing \in [File -> Nat]
            /\ stamp \in Seq(Nat) /\ \A t \in Tag : tagState[t].lastModTime \in Nat
        BY DEF TypeOK
      <3>2. \A i \in 1 .. logged : stamp[i] \in Nat
        BY <3>1 DEF ClockAhead
      <3> QED
        BY <2>1, <3>1, <3>2 DEF ClockAhead
    <2> QED
      BY <2>1, <2>2 DEF ParsedListed, OlderGranulesTaken
  <1>4. CASE StartTick
    <2>1. /\ UNCHANGED <<now, raw, mtime, logged, stamp, rotated>>
          /\ listing' = mtime /\ parsed' = [g \in File |-> None]
          /\ tagState' = [t \in Tag |-> IF t \in registered THEN tagState[t] ELSE Fresh]
      BY <1>4 DEF StartTick, GcStaleTagState, logger
    <2>2. \A t \in Tag : tagState'[t] = tagState[t] \/ tagState'[t] = Fresh
      BY <2>1
    <2>3. \A t \in Tag : \A i \in 1 .. Len(raw[RawOf[t]]) : stamp[raw[RawOf[t]][i]] \in Nat
      BY <1>0, StampType
    <2>4. ClockAhead'
      BY <2>1, <2>2 DEF ClockAhead, Fresh, TypeOK
    <2>5. ParsedListed'
      BY <2>1 DEF ParsedListed
    <2>6. OlderGranulesTaken'
      BY <1>0, <2>1, <2>2, <2>3 DEF OlderGranulesTaken, Fresh
    <2> QED
      BY <2>4, <2>5, <2>6
  <1>5. CASE Restart
    <2>1. /\ UNCHANGED <<now, raw, mtime, logged, stamp, rotated, listing, parsed>>
          /\ tagState' = [t \in Tag |-> Fresh]
      BY <1>5 DEF Restart, logger
    <2>2. \A t \in Tag : \A i \in 1 .. Len(raw[RawOf[t]]) : stamp[raw[RawOf[t]][i]] \in Nat
      BY <1>0, StampType
    <2> QED
      BY <1>0, <2>1, <2>2 DEF ClockAhead, ParsedListed, OlderGranulesTaken, Fresh, TypeOK
  <1>6. CASE UNCHANGED known
    BY <1>6 DEF ClockAhead, ParsedListed, OlderGranulesTaken
  <1>7. ASSUME EndTick \/ UNCHANGED vars \/ \E t \in Tag : Unregister(t) \/ Register(t)
        PROVE  UNCHANGED known
    BY <1>7 DEF EndTick, Unregister, Register, vars, logger, memory
  <1> QED
    BY <1>1, <1>2, <1>3, <1>4, <1>5, <1>6, <1>7, ProcessGranules DEF Next, Logger, Tick

-----------------------------------------------------------------------------
(* The theorems. *)

LEMMA InitInvariant == Init => IInv
  <1> SUFFICES ASSUME Init PROVE IInv
    OBVIOUS
  <1> USE DEF Init
  <1>0. <<>> \in Seq(Rows) /\ <<>> # Torn
    <2>1. <<>> \in Seq(Rows)
      OBVIOUS
    <2> QED
      BY <2>1, MarkerAssumption
  <1>1. TypeOK
    <2>1. cluster \in BOOLEAN
      BY PipelineAssumption
    <2>2. raw \in [File -> Seq(Rows)] /\ mat \in [Tag -> Seq(Rows) \cup {Torn}]
      BY <1>0
    <2>3. /\ tagState \in [Tag -> [lastModTime : Nat, lastIndex : Nat]]
          /\ mtime \in [File -> Nat] /\ listing \in [File -> Nat] /\ fileSeen \in [File -> Nat]
      BY DEF Fresh
    <2>4. /\ parsed \in [File -> Seq(Rows) \cup {None}]
          /\ priorState \in [Tag -> Seq(Rows) \cup {None}]
      OBVIOUS
    <2>5. /\ now \in Nat \ {0} /\ logged \in Nat /\ rotations \in Nat
          /\ faults \in Nat /\ restarts \in Nat /\ stamp \in Seq(Nat) /\ unseeded \subseteq Tag
      OBVIOUS
    <2>6. /\ rotated \subseteq File /\ registered \subseteq Tag /\ ticking \in BOOLEAN
          /\ todo \subseteq registered /\ replayed \subseteq Tag
      OBVIOUS
    <2> HIDE DEF Init
    <2> QED
      BY <2>1, <2>2, <2>3, <2>4, <2>5, <2>6 DEF TypeOK
  <1>2. TodoInTick /\ ClusterIntact /\ CacheFaithful /\ PlaceCached /\ UnseededCold
    BY <1>0 DEF TodoInTick, ClusterIntact, CacheFaithful, PlaceCached, UnseededCold, Fresh
  <1>3. RawOrdered /\ ParsedFits
    BY DEF RawOrdered, ParsedFits, Increasing, UpTo
  <1>4. \A t \in Tag : /\ RawOf[t] \in File /\ Stored(t) = <<>>
                       /\ tagState[t].lastIndex = 0 /\ parsed[RawOf[t]] = None
    BY <1>0, PipelineAssumption DEF Stored, Fresh
  <1>5. PlaceOrdered
    BY <1>4 DEF PlaceOrdered, OrderedTag, Increasing, UpTo, Behind
  <1>6. PlaceStored
    BY <1>4 DEF PlaceStored, StoredTag
  <1> QED
    BY <1>1, <1>2, <1>3, <1>5, <1>6 DEF IInv

(* No step of the logger, of a tick or of a restart leads out of the       *)
(* inductive invariant.                                                    *)
THEOREM PipelineInvariant == Spec => []IInv
  <1>1. IInv /\ [Next]_vars => IInv'
    BY TypeStep, CacheStep, RawStep, ParsedStep, OrderedStep, PlacedStep DEF IInv
  <1> QED
    BY <1>1, InitInvariant, PTL DEF Spec

(* Every variable keeps its type: a cached parse is always a run of rows,  *)
(* and a tick works only on tags that are registered.                      *)
THEOREM PipelineTypes == Spec => []TypeOK
  <1>1. IInv => TypeOK
    BY DEF IInv
  <1> QED
    BY <1>1, PipelineInvariant, PTL

(* A cached row set is what load() would return, or the file is torn.      *)
THEOREM CacheIsFaithful == Spec => []CacheFaithful
  <1>1. IInv => CacheFaithful
    BY DEF IInv
  <1> QED
    BY <1>1, PipelineInvariant, PTL

(* Every row of a raw file before a tag's place is in its .mat file, or in *)
(* the cache from which a torn one is rewritten.                           *)
THEOREM PipelineSkipsNoRow == Spec => []NoRowSkipped
  <1>1. IInv => NoRowSkipped
    <2> SUFFICES ASSUME IInv, NEW t \in Tag, RawOf[t] \notin rotated, ~Lost(t),
                        NEW i \in 1 .. tagState[t].lastIndex
                 PROVE  raw[RawOf[t]][i]
                          \in RowsOf(IF mat[t] = Torn THEN priorState[t] ELSE mat[t])
      BY DEF NoRowSkipped
    <2>1. Holds(Stored(t), raw[RawOf[t]][i])
      BY DEF IInv, PlaceStored, StoredTag
    <2> QED
      BY <2>1 DEF Holds, Stored, RowsOf
  <1> QED
    BY <1>1, PipelineInvariant, PTL

(* Whatever the logger does and whatever fails, the rows of a .mat file    *)
(* are in order and none is there twice, unless the tag's place was lost.  *)
THEOREM PipelineWritesOnce == Spec => []OnceInOrder
  <1>1. IInv => OnceInOrder
    <2> SUFFICES ASSUME IInv, NEW t \in Tag, t \notin replayed, mat[t] # Torn
                 PROVE  Increasing(mat[t])
      BY DEF OnceInOrder, Increasing
    <2>1. Stored(t) = mat[t] /\ mat[t] # None
      BY MarkerAssumption DEF Stored, IInv, TypeOK
    <2> QED
      BY <2>1 DEF IInv, PlaceOrdered, OrderedTag
  <1> QED
    BY <1>1, PipelineInvariant, PTL

(* Rows wait for a later mtime only if they were logged in the very        *)
(* granule a tag has recorded: all older ones are behind its place.        *)
THEOREM PipelineOlderGranules == Spec => []OlderGranulesTaken
  <1>1. Init => GranulesInv
    <2> SUFFICES ASSUME Init PROVE GranulesInv
      OBVIOUS
    <2>1. \A t \in Tag : RawOf[t] \in File
      BY PipelineAssumption
    <2> QED
      BY <2>1 DEF Init, GranulesInv, ClockAhead, ParsedListed, OlderGranulesTaken, Fresh
  <1>2. IInv /\ GranulesInv /\ [Next]_vars => GranulesInv'
    BY GranulesStep DEF IInv
  <1>3. GranulesInv => OlderGranulesTaken
    BY DEF GranulesInv
  <1> QED
    BY <1>1, <1>2, <1>3, PipelineInvariant, PTL DEF Spec
=============================================================================
