------------------------------ MODULE TagGraph ------------------------------
(***************************************************************************)
(* The tags of libs/SensorThreshold as a graph: sensors, monitors over one *)
(* parent, composites over children, derived tags over several parents.    *)
(* A tag reads its inputs (Parent, children_, Parents) and is told of a    *)
(* change through the listeners_ of its inputs: invalidate() marks it      *)
(* dirty and goes on to its own listeners, with no visited set.  The two   *)
(* relations are kept apart here as they are in the code.                  *)
(***************************************************************************)
EXTENDS FiniteSets, Naturals

CONSTANTS Sensors, Monitors, Composites, Deriveds,
          Persistent,  \* the monitors with Persist and a DataStore
          MaxEdges,    \* bound on the edges of the graph
          MaxQuiet     \* bound on the tags changed quietly at a time

Tags == Sensors \union Monitors \union Composites \union Deriveds

ASSUME KindsAssumption ==
    /\ Sensors \intersect (Monitors \union Composites \union Deriveds) = {}
    /\ Composites \intersect (Monitors \union Deriveds) = {}
    /\ Persistent \subseteq Monitors

VARIABLES inputs,      \* per tag the tags it reads; {} is: not constructed yet
          listeners,   \* per tag its listeners_
          dirty,       \* the tags with dirty_
          behind,      \* auxiliary: tags whose cache, which they have when they are
                       \* not dirty, is not what computing all inputs anew gives
          quiet,       \* auxiliary: tags changed without telling their listeners
          rows,        \* the monitors of which the DataStore holds a row
          oldRows,     \* auxiliary: those whose row is not what computing gives now
          reloaded     \* auxiliary: monitors whose cache is such a row

vars == <<inputs, listeners, dirty, behind, quiet, rows, oldRows, reloaded>>

\* The least set that contains S and with every tag its R[t].
Closure(S, R) ==
    LET Supersets == {S \union T : T \in SUBSET (Tags \ S)}
        Closed == {T \in Supersets : \A t \in T : R[t] \subseteq T}
    IN  {t \in Tags : \A T \in Closed : t \in T}

\* The tags of K that read tag i; what reads S, directly or not.
UsersIn(K, ins) == [i \in Tags |-> {k \in K : i \in ins[k]}]
Above(S, ins) == Closure(S, UsersIn(Tags, ins))

\* Following the inputs inside K never ends.
Loops(K, ins) == \E T \in SUBSET K : T # {} /\ \A t \in T : ins[t] \intersect T # {}

Made == Sensors \union Composites \union {t \in Tags : inputs[t] # {}}

-----------------------------------------------------------------------------
Init ==
    /\ inputs = [t \in Tags |-> {}]
    /\ listeners = [t \in Tags |-> {}]
    /\ dirty = Tags \ Sensors
    /\ behind = {}
    /\ quiet = {}
    /\ rows \in SUBSET Persistent     \* stored by an earlier monitor of that key
    /\ oldRows = rows
    /\ reloaded = {}

\* Mutant: a tag that is dirty already does not tell its listeners.
Invalidated_StopsAtDirty(L, ins, lst) ==
    {Closure(L, [t \in Tags |-> IF t \in dirty THEN {} ELSE lst[t]])}

\* The sets of tags that calling invalidate() on each of L may mark.  On a loop
\* the recursion ends in an error somewhere on its way.
Invalidated(L, ins, lst) ==
    LET D == Closure(L, lst)
    IN  IF Loops(D, ins) THEN {E \in SUBSET D : L \intersect E # {}} ELSE {D}

\* What a change of S leaves behind, caches and rows, in the step that sets dirty'.
Changed(S, ins) ==
    LET A == Above(S, ins)
    IN  /\ behind' = (behind \union A) \ (Sensors \union dirty')
        /\ oldRows' = oldRows \union (rows \intersect A)
        /\ reloaded' = reloaded \ dirty'
        /\ UNCHANGED rows

\* A step that changes no tag.
OnlyMarked ==
    /\ behind' = behind \ dirty'
    /\ reloaded' = reloaded \ dirty'
    /\ UNCHANGED <<rows, oldRows>>

\* The tags that change without telling their listeners.
Quietly(t) == quiet' = quiet \union {t} /\ Cardinality(quiet') <= MaxQuiet

\* SensorTag.updateData (StateTag's likewise).
UpdateData(s) ==
    /\ \E D \in Invalidated(listeners[s], inputs, listeners) :
          /\ dirty' = dirty \union D
          /\ quiet' = quiet \ ({s} \union D)
    /\ Changed({s}, inputs)
    /\ UNCHANGED <<inputs, listeners>>

\* SensorTag.load, which tells nobody.
Load(s) ==
    /\ UNCHANGED <<inputs, listeners, dirty>>
    /\ Changed({s}, inputs)
    /\ Quietly(s)

\* Tag.invalidateBatch_ at the end of a tick: the listeners of the updated
\* tags, each once.
InvalidateBatch(S) ==
    /\ \E D \in Invalidated(UNION {listeners[s] : s \in S}, inputs, listeners) :
          /\ dirty' = dirty \union D
          /\ quiet' = quiet \ (S \union D)
    /\ OnlyMarked
    /\ UNCHANGED <<inputs, listeners>>

\* invalidate() called by hand.
Invalidate(t) ==
    /\ \E D \in Invalidated({t}, inputs, listeners) :
          /\ dirty' = dirty \union D
          /\ quiet' = quiet \ D
    /\ OnlyMarked
    /\ UNCHANGED <<inputs, listeners>>

\* The setters of MonitorTag mark the monitor and stop there.
SetRule(m) ==
    /\ m \in Made
    /\ dirty' = dirty \union {m}
    /\ Changed({m}, inputs)
    /\ Quietly(m)
    /\ UNCHANGED <<inputs, listeners>>

\* AggregateMode, Threshold, MinDuration of a composite are plain properties.
SetMode(c) ==
    /\ UNCHANGED <<inputs, listeners, dirty>>
    /\ Changed({c}, inputs)
    /\ Quietly(c)

-----------------------------------------------------------------------------
Edges == {e \in Tags \X Tags : e[2] \in inputs[e[1]]}

Wire(t, new) ==
    /\ Cardinality(Edges) + Cardinality(new) <= MaxEdges
    /\ inputs' = [inputs EXCEPT ![t] = @ \union new]
    /\ listeners' = [i \in Tags |-> IF i \in new THEN listeners[i] \union {t} ELSE listeners[i]]

\* The constructors; nothing reads the new tag yet.
NewMonitor(m, parent) ==
    /\ m \notin Made /\ parent \in Made
    /\ Wire(m, {parent})
    /\ UNCHANGED <<dirty, behind, quiet, rows, oldRows, reloaded>>

NewDerived(d, parents) ==
    /\ d \notin Made /\ parents # {} /\ parents \subseteq Made
    /\ Wire(d, parents)
    /\ UNCHANGED <<dirty, behind, quiet, rows, oldRows, reloaded>>

Children == [t \in Tags |-> IF t \in Composites THEN inputs[t] ELSE {}]

\* Mutant: only the new child and its own children are looked at.
WouldCreateCycle_NoDescent(c, child) == c \in {child} \union Children[child]

\* wouldCreateCycle_: a search from the new child that goes down through
\* composites only.
WouldCreateCycle(c, child) == c \in Closure({child}, Children)

AddChild(c, child) ==
    /\ child \in Made \intersect (Monitors \union Composites)
    /\ ~WouldCreateCycle(c, child)
    /\ Wire(c, {child})
    /\ \E D \in Invalidated({c}, inputs', listeners') :
          /\ dirty' = dirty \union D
          /\ quiet' = quiet \ D
    /\ Changed({c}, inputs')

\* tryLoadFromDisk_: of the monitors to be read, those whose row is taken for
\* current.  The signature (key of the parent, number and first and last x of its
\* samples) does not say whether a row is old.
LoadedFromDisk(K) == SUBSET (K \intersect rows)

\* persistIfEnabled_: the monitors computed store their rows, unless their
\* parent has no samples.
Persisted(C) == SUBSET (C \intersect Persistent)

\* getXY of a dirty tag computes it and, on the way, its dirty inputs.  What it
\* reads from a clean input is that input's cache, right or wrong.  A monitor
\* tries its row first, for whose signature it reads its parent.  On a loop
\* the call fails and leaves at most what reading the inputs alone leaves.
GetXY(t) ==
    LET K == Closure({t}, [i \in Tags |-> inputs[i] \intersect dirty])
    IN  /\ t \in Made \intersect dirty
        /\ ~Loops(K, inputs)
        /\ dirty' = dirty \ K
        /\ \E L \in LoadedFromDisk(K) :
              /\ behind' = Closure(behind \union (L \intersect oldRows), UsersIn(K \ L, inputs))
              /\ reloaded' = reloaded \union (L \intersect oldRows)
              /\ \E W \in Persisted(K \ L) :
                    /\ rows' = rows \union W
                    /\ oldRows' = (oldRows \ W) \union (W \intersect behind')
        /\ UNCHANGED <<inputs, listeners, quiet>>

Next ==
    \/ \E s \in Sensors : UpdateData(s) \/ Load(s)
    \/ \E S \in SUBSET Sensors : InvalidateBatch(S)
    \/ \E t \in Tags \ Sensors : GetXY(t) \/ (t \in Made /\ Invalidate(t))
    \/ \E m \in Monitors : SetRule(m) \/ \E parent \in Tags : NewMonitor(m, parent)
    \/ \E d \in Deriveds, parents \in SUBSET Tags : NewDerived(d, parents)
    \/ \E c \in Composites : SetMode(c) \/ \E child \in Tags : AddChild(c, child)

Spec == Init /\ [][Next]_vars

-----------------------------------------------------------------------------
TypeOK ==
    /\ inputs \in [Tags -> SUBSET Tags] /\ listeners \in [Tags -> SUBSET Tags]
    /\ \A s \in Sensors : inputs[s] = {}
    /\ dirty \subseteq Tags \ Sensors
    /\ behind \subseteq Tags \ (Sensors \union dirty)
    /\ quiet \subseteq Tags
    /\ rows \subseteq Persistent /\ oldRows \subseteq rows
    /\ reloaded \subseteq Monitors \ dirty

\* No composite contains itself, however deep, in whatever order the composites
\* were put together: every set of composites has one with no child in it.
NoCompositeCycle ==
    \A T \in SUBSET Composites : T # {} => \E c \in T : inputs[c] \intersect T = {}

\* A tag that is not dirty shows what its inputs give now, unless it is or reads
\* a tag that was changed without telling (load, a setter) and has not been
\* invalidated since, or a monitor that reloaded a row stored before the samples
\* or the rule changed, which its signature does not tell: listeners reach
\* everything that inputs reach, whatever the order of construction, changes and
\* reads.  Under a loop, which a composite over a monitor over that composite
\* closes, nothing is claimed: the cascade does not end.
CleanMeansFresh ==
    ~Loops(Tags, inputs) => behind \subseteq Above(quiet \union reloaded, inputs)
=============================================================================
