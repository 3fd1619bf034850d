--------------------------- MODULE TagGraphProofs ---------------------------
(***************************************************************************)
(* Proofs about TagGraph for every set of tags of each kind, every number  *)
(* of edges and of quiet changes.                                          *)
(***************************************************************************)
EXTENDS TagGraph, TLAPS

(* Every tag is a listener of its inputs, and only of them. *)
Told == listeners = UsersIn(Tags, inputs)

(* The inductive invariant: that a cascade along listeners reaches what    *)
(* reads along inputs reach needs the two relations to agree.              *)
IInv == TypeOK /\ Told /\ NoCompositeCycle /\ CleanMeansFresh

Relations == [Tags -> SUBSET Tags]

(* What clean tags may be out of date for. *)
Excuses == quiet \union reloaded

-----------------------------------------------------------------------------
(* The least closed set: it is closed, it contains its start, and it is    *)
(* inside every other such set.                                            *)
LEMMA ClosureIsSet == ASSUME NEW S, NEW R PROVE Closure(S, R) \in SUBSET Tags
  BY DEF Closure

LEMMA ClosureContains ==
  ASSUME NEW S \in SUBSET Tags, NEW R
  PROVE  S \subseteq Closure(S, R)
  BY DEF Closure

LEMMA ClosureClosed ==
  ASSUME NEW S, NEW R \in Relations, NEW t \in Closure(S, R)
  PROVE  R[t] \subseteq Closure(S, R)
  BY DEF Closure, Relations

LEMMA ClosureLeast ==
  ASSUME NEW S, NEW R, NEW T \in SUBSET Tags, S \subseteq T, \A t \in T : R[t] \subseteq T
  PROVE  Closure(S, R) \subseteq T
  <1>1. T = S \union (T \ S) /\ T \ S \in SUBSET (Tags \ S)
    OBVIOUS
  <1>2. T \in {S \union U : U \in SUBSET (Tags \ S)}
    BY <1>1
  <1> QED
    BY <1>2 DEF Closure

(* More edges reach more. *)
LEMMA ClosureMonotone ==
  ASSUME NEW S \in SUBSET Tags, NEW R \in Relations, NEW R2 \in Relations,
         \A t \in Tags : R[t] \subseteq R2[t]
  PROVE  Closure(S, R) \subseteq Closure(S, R2)
  <1> DEFINE T == Closure(S, R2)
  <1>1. T \in SUBSET Tags /\ S \subseteq T
    BY ClosureIsSet, ClosureContains
  <1>2. \A t \in T : R[t] \subseteq T
    BY <1>1, ClosureClosed
  <1> QED
    BY <1>1, <1>2, ClosureLeast

(* What a closed set D covers need not be a starting point. *)
LEMMA ClosureBeyond ==
  ASSUME NEW Q \in SUBSET Tags, NEW D \in SUBSET Tags, NEW R \in Relations,
         \A t \in D : R[t] \subseteq D
  PROVE  Closure(Q, R) \subseteq Closure(Q \ D, R) \union D
  <1> DEFINE T == Closure(Q \ D, R) \union D
  <1>1. T \in SUBSET Tags /\ Q \subseteq T
    BY ClosureIsSet, ClosureContains
  <1>2. \A t \in T : R[t] \subseteq T
    BY ClosureClosed
  <1> QED
    BY <1>1, <1>2, ClosureLeast

(* Starting from what is reached reaches nothing new. *)
LEMMA ClosureIdempotent ==
  ASSUME NEW Q \in SUBSET Tags, NEW R \in Relations, NEW S \in SUBSET Closure(Q, R)
  PROVE  Closure(S, R) \subseteq Closure(Q, R)
  <1> DEFINE T == Closure(Q, R)
  <1>1. T \in SUBSET Tags
    BY ClosureIsSet
  <1>2. \A t \in T : R[t] \subseteq T
    BY ClosureClosed
  <1> QED
    BY <1>1, <1>2, ClosureLeast

LEMMA UsersType ==
  ASSUME NEW K \in SUBSET Tags, NEW ins
  PROVE  UsersIn(K, ins) \in Relations
  BY DEF UsersIn, Relations

LEMMA UsersMonotone ==
  ASSUME NEW K \in SUBSET Tags, NEW ins \in Relations, NEW ins2 \in Relations,
         \A t \in Tags : ins[t] \subseteq ins2[t]
  PROVE  \A i \in Tags : UsersIn(K, ins)[i] \subseteq UsersIn(Tags, ins2)[i]
  BY DEF UsersIn, Relations

-----------------------------------------------------------------------------
(* invalidate() reaches everything downstream when there is no loop.       *)
LEMMA FullCascade ==
  ASSUME NEW L, NEW ins, NEW lst, ~Loops(Tags, ins), NEW D \in Invalidated(L, ins, lst)
  PROVE  D = Closure(L, lst)
  <1>1. Closure(L, lst) \in SUBSET Tags
    BY ClosureIsSet
  <1>2. ~Loops(Closure(L, lst), ins)
    BY <1>1 DEF Loops
  <1> QED
    BY <1>2 DEF Invalidated

LEMMA InvalidatedType ==
  ASSUME NEW L \in SUBSET (Tags \ Sensors), NEW lst \in [Tags -> SUBSET (Tags \ Sensors)],
         NEW ins, NEW D \in Invalidated(L, ins, lst)
  PROVE  D \in SUBSET (Tags \ Sensors)
  <1>1. Closure(L, lst) \subseteq Tags \ Sensors
    BY ClosureLeast
  <1> QED
    BY <1>1 DEF Invalidated

(* Sensors listen to nothing. *)
LEMMA ListenersType ==
  ASSUME TypeOK, Told PROVE listeners \in [Tags -> SUBSET (Tags \ Sensors)]
  BY DEF TypeOK, Told, UsersIn

LEMMA WireKeeps ==
  ASSUME TypeOK, Told, NEW t \in Tags, NEW new \in SUBSET Tags, Wire(t, new)
  PROVE  /\ inputs' \in Relations /\ listeners' \in Relations /\ Told'
         /\ \A x \in Tags : inputs[x] \subseteq inputs'[x]
         /\ ~Loops(Tags, inputs') => ~Loops(Tags, inputs)
  <1> USE DEF Wire, TypeOK, Relations
  <1>1. inputs' \in Relations /\ listeners' \in Relations
    OBVIOUS
  <1>2. \A x \in Tags : inputs[x] \subseteq inputs'[x]
    OBVIOUS
  <1>3. ~Loops(Tags, inputs') => ~Loops(Tags, inputs)
    <2> SUFFICES ASSUME Loops(Tags, inputs) PROVE Loops(Tags, inputs')
      OBVIOUS
    <2>1. PICK T \in SUBSET Tags : T # {} /\ \A x \in T : inputs[x] \intersect T # {}
      BY DEF Loops
    <2>2. \A x \in T : inputs'[x] \intersect T # {}
      BY <2>1, <1>2
    <2> QED
      BY <2>1, <2>2 DEF Loops
  <1>4. Told'
    <2>1. \A i \in Tags : listeners'[i] = {k \in Tags : i \in inputs'[k]}
      BY DEF Told, UsersIn
    <2> QED
      BY <2>1 DEF Told, UsersIn
  <1> QED
    BY <1>1, <1>2, <1>3, <1>4

-----------------------------------------------------------------------------
LEMMA InitIInv == Init => IInv
  <1> SUFFICES ASSUME Init PROVE IInv
    OBVIOUS
  <1>1. TypeOK
    BY DEF Init, TypeOK, Tags
  <1>2. Told
    BY DEF Init, Told, UsersIn
  <1>3. NoCompositeCycle
    BY DEF Init, NoCompositeCycle, Tags
  <1>4. CleanMeansFresh
    BY DEF Init, CleanMeansFresh
  <1> QED
    BY <1>1, <1>2, <1>3, <1>4 DEF IInv

(* A change of tags, or of their marks alone, keeps the types. *)
LEMMA ChangedType ==
  ASSUME TypeOK, NEW S, NEW ins, Changed(S, ins) \/ OnlyMarked
  PROVE  /\ behind' \subseteq Tags \ (Sensors \union dirty')
         /\ rows' \subseteq Persistent /\ oldRows' \subseteq rows'
         /\ reloaded' \subseteq Monitors \ dirty'
  <1>1. Above(S, ins) \in SUBSET Tags
    BY ClosureIsSet DEF Above
  <1> QED
    BY <1>1 DEF Changed, OnlyMarked, TypeOK

(* Every step keeps the types, and listeners_ in step with the inputs.     *)
LEMMA TypeStep == TypeOK /\ Told /\ [Next]_vars => TypeOK' /\ Told'
  <1> SUFFICES ASSUME TypeOK, Told, [Next]_vars PROVE TypeOK' /\ Told'
    OBVIOUS
  <1>1. ASSUME NEW s \in Sensors, UpdateData(s) PROVE TypeOK' /\ Told'
    <2>1. PICK D \in Invalidated(listeners[s], inputs, listeners) :
             dirty' = dirty \union D /\ quiet' = quiet \ ({s} \union D)
      BY <1>1 DEF UpdateData
    <2>2. s \in Tags
      BY DEF Tags
    <2>3. D \in SUBSET (Tags \ Sensors)
      <3>1. listeners[s] \in SUBSET (Tags \ Sensors)
        BY <2>2, ListenersType
      <3> QED
        BY <2>1, <3>1, InvalidatedType, ListenersType
    <2> QED
      BY <1>1, <2>1, <2>2, <2>3, ChangedType DEF UpdateData, TypeOK, Told
  <1>2. ASSUME NEW s \in Sensors, Load(s) PROVE TypeOK' /\ Told'
    <2>1. s \in Tags
      BY DEF Tags
    <2> QED
      BY <1>2, <2>1, ChangedType DEF Load, TypeOK, Told, Quietly
  <1>3. ASSUME NEW S \in SUBSET Sensors, InvalidateBatch(S) PROVE TypeOK' /\ Told'
    <2> DEFINE L == UNION {listeners[s] : s \in S}
    <2>1. PICK D \in Invalidated(L, inputs, listeners) :
             dirty' = dirty \union D /\ quiet' = quiet \ (S \union D)
      BY <1>3 DEF InvalidateBatch
    <2>2. D \in SUBSET (Tags \ Sensors)
      <3>1. L \in SUBSET (Tags \ Sensors)
        BY ListenersType DEF Tags
      <3> QED
        BY <3>1, InvalidatedType, ListenersType
    <2> QED
      BY <1>3, <2>1, <2>2, ChangedType DEF InvalidateBatch, TypeOK, Told
  <1>4. ASSUME NEW t \in Tags \ Sensors, Invalidate(t) PROVE TypeOK' /\ Told'
    <2>1. PICK D \in Invalidated({t}, inputs, listeners) :
             dirty' = dirty \union D /\ quiet' = quiet \ D
      BY <1>4 DEF Invalidate
    <2>2. D \in SUBSET (Tags \ Sensors)
      BY InvalidatedType, ListenersType
    <2> QED
      BY <1>4, <2>1, <2>2, ChangedType DEF Invalidate, TypeOK, Told
  <1>5. ASSUME NEW m \in Monitors, SetRule(m) PROVE TypeOK' /\ Told'
    <2>1. m \in Tags \ Sensors
      BY KindsAssumption DEF Tags
    <2> QED
      BY <1>5, <2>1, ChangedType DEF SetRule, TypeOK, Told, Quietly
  <1>6. ASSUME NEW c \in Composites, SetMode(c) PROVE TypeOK' /\ Told'
    <2>1. c \in Tags \ Sensors
      BY KindsAssumption DEF Tags
    <2> QED
      BY <1>6, <2>1, ChangedType DEF SetMode, TypeOK, Told, Quietly
  <1>7. ASSUME NEW m \in Monitors, NEW parent \in Tags, NewMonitor(m, parent)
        PROVE  TypeOK' /\ Told'
    <2>1. m \in Tags \ Sensors
      BY KindsAssumption DEF Tags
    <2>2. Wire(m, {parent}) /\ UNCHANGED <<dirty, behind, quiet, rows, oldRows, reloaded>>
      BY <1>7 DEF NewMonitor
    <2>3. inputs' \in Relations /\ listeners' \in Relations /\ Told'
      BY <2>1, <2>2, WireKeeps
    <2>4. \A s \in Sensors : inputs'[s] = {}
      BY <2>1, <2>2 DEF Wire, TypeOK, Tags
    <2> QED
      BY <2>2, <2>3, <2>4 DEF TypeOK, Relations
  <1>8. ASSUME NEW d \in Deriveds, NEW parents \in SUBSET Tags, NewDerived(d, parents)
        PROVE  TypeOK' /\ Told'
    <2>1. d \in Tags \ Sensors
      BY KindsAssumption DEF Tags
    <2>2. Wire(d, parents) /\ UNCHANGED <<dirty, behind, quiet, rows, oldRows, reloaded>>
      BY <1>8 DEF NewDerived
    <2>3. inputs' \in Relations /\ listeners' \in Relations /\ Told'
      BY <2>1, <2>2, WireKeeps
    <2>4. \A s \in Sensors : inputs'[s] = {}
      BY <2>1, <2>2 DEF Wire, TypeOK, Tags
    <2> QED
      BY <2>2, <2>3, <2>4 DEF TypeOK, Relations
  <1>9. ASSUME NEW c \in Composites, NEW child \in Tags, AddChild(c, child)
        PROVE  TypeOK' /\ Told'
    <2>1. c \in Tags \ Sensors
      BY KindsAssumption DEF Tags
    <2>2. Wire(c, {child})
      BY <1>9 DEF AddChild
    <2>3. inputs' \in Relations /\ listeners' \in Relations /\ Told'
      BY <2>1, <2>2, WireKeeps
    <2>4. PICK D \in Invalidated({c}, inputs', listeners') :
             dirty' = dirty \union D /\ quiet' = quiet \ D
      BY <1>9 DEF AddChild
    <2>a. listeners' \in [Tags -> SUBSET (Tags \ Sensors)]
      BY <2>1, <2>2, ListenersType DEF Wire
    <2>5. D \in SUBSET (Tags \ Sensors)
      BY <2>1, <2>4, <2>a, InvalidatedType
    <2>b. \A s \in Sensors : inputs'[s] = {}
      BY <2>1, <2>2 DEF Wire, TypeOK, Tags
    <2>6. /\ behind' \subseteq Tags \ (Sensors \union dirty')
          /\ rows' \subseteq Persistent /\ oldRows' \subseteq rows'
          /\ reloaded' \subseteq Monitors \ dirty'
      BY <1>9, ChangedType DEF AddChild
    <2> QED
      BY <2>3, <2>4, <2>5, <2>6, <2>b DEF TypeOK, Relations
  <1>10. ASSUME NEW t \in Tags \ Sensors, GetXY(t) PROVE TypeOK' /\ Told'
    <2> DEFINE K == Closure({t}, [i \in Tags |-> inputs[i] \intersect dirty])
    <2>1. dirty' = dirty \ K /\ UNCHANGED <<inputs, listeners, quiet>>
      BY <1>10 DEF GetXY
    <2>2. K \in SUBSET (dirty \ Sensors)
      <3>1. K \subseteq Tags /\ {t} \subseteq dirty
        BY <1>10, ClosureIsSet DEF GetXY
      <3>2. \A i \in dirty : inputs[i] \intersect dirty \subseteq dirty
        OBVIOUS
      <3>3. dirty \in SUBSET (Tags \ Sensors)
        BY DEF TypeOK
      <3> QED
        BY <3>1, <3>2, <3>3, ClosureLeast
    <2>3. PICK L \in LoadedFromDisk(K) :
            /\ behind' = Closure(behind \union (L \intersect oldRows), UsersIn(K \ L, inputs))
            /\ reloaded' = reloaded \union (L \intersect oldRows)
            /\ \E W \in Persisted(K \ L) :
                  /\ rows' = rows \union W
                  /\ oldRows' = (oldRows \ W) \union (W \intersect behind')
      BY <1>10 DEF GetXY
    <2>4. L \in SUBSET K /\ L \in SUBSET Monitors
      BY <2>3, KindsAssumption DEF LoadedFromDisk, TypeOK
    <2>5. behind' \in SUBSET (behind \union K)
      <3> DEFINE T == behind \union K
      <3>1. T \in SUBSET Tags
        BY <2>2 DEF TypeOK
      <3>2. \A i \in T : UsersIn(K \ L, inputs)[i] \subseteq T
        BY <3>1 DEF UsersIn
      <3> QED
        BY <2>3, <2>4, <3>1, <3>2, ClosureLeast
    <2>6. rows' \subseteq Persistent /\ oldRows' \subseteq rows'
      BY <2>3 DEF Persisted, TypeOK
    <2>7. reloaded' \subseteq Monitors \ dirty'
      BY <2>1, <2>2, <2>3, <2>4 DEF TypeOK
    <2> QED
      BY <2>1, <2>2, <2>5, <2>6, <2>7 DEF TypeOK, Told
  <1>11. CASE UNCHANGED vars
    BY <1>11 DEF vars, TypeOK, Told
  <1> QED
    BY <1>1, <1>2, <1>3, <1>4, <1>5, <1>6, <1>7, <1>8, <1>9, <1>10, <1>11 DEF Next

-----------------------------------------------------------------------------
(* A new edge from composite c to child closes no cycle of composites when *)
(* c is not below child: a cycle through the new edge would hold an older  *)
(* one among what is below child.                                          *)
LEMMA AddChildNoCycle ==
  ASSUME TypeOK, NoCompositeCycle, NEW c \in Composites, NEW child \in Tags,
         ~WouldCreateCycle(c, child), inputs' = [inputs EXCEPT ![c] = @ \union {child}]
  PROVE  NoCompositeCycle'
  <1> SUFFICES ASSUME NEW T \in SUBSET Composites, T # {},
                      \A x \in T : inputs'[x] \intersect T # {}
               PROVE  FALSE
    BY DEF NoCompositeCycle
  <1> DEFINE B == Closure({child}, Children)
  <1>1. Composites \subseteq Tags
    BY DEF Tags
  <1>2. Children \in Relations
    BY DEF Children, Relations, TypeOK
  <1>3. child \in B /\ c \notin B
    BY ClosureContains DEF WouldCreateCycle
  <1>4. \A x \in B \intersect Composites : inputs[x] \subseteq B
    BY <1>1, <1>2, ClosureClosed DEF Children
  <1>5. \A x \in T : x # c => inputs'[x] = inputs[x]
    BY <1>1 DEF TypeOK
  <1>6. CASE T \intersect B = {}
    <2>1. child \notin T
      BY <1>3, <1>6
    <2>2. inputs'[c] \subseteq inputs[c] \union {child}
      BY <1>1 DEF TypeOK
    <2>3. \A x \in T : inputs[x] \intersect T # {}
      BY <1>5, <2>1, <2>2
    <2> QED
      BY <2>3 DEF NoCompositeCycle
  <1>7. CASE T \intersect B # {}
    <2>1. \A x \in T \intersect B : inputs[x] \intersect (T \intersect B) # {}
      BY <1>3, <1>4, <1>5
    <2> QED
      BY <2>1, <1>7 DEF NoCompositeCycle
  <1> QED
    BY <1>6, <1>7

(* Every step keeps composites out of themselves. *)
LEMMA CycleStep == TypeOK /\ NoCompositeCycle /\ [Next]_vars => NoCompositeCycle'
  <1> SUFFICES ASSUME TypeOK, NoCompositeCycle, [Next]_vars PROVE NoCompositeCycle'
    OBVIOUS
  <1>1. CASE UNCHANGED inputs
    BY <1>1 DEF NoCompositeCycle
  <1>2. ASSUME NEW t \in Monitors \union Deriveds, NEW new, Wire(t, new)
        PROVE  NoCompositeCycle'
    <2>1. \A c \in Composites : inputs'[c] = inputs[c]
      BY <1>2, KindsAssumption DEF Wire, TypeOK, Tags
    <2> QED
      BY <2>1 DEF NoCompositeCycle
  <1>3. ASSUME NEW c \in Composites, NEW child \in Tags, AddChild(c, child)
        PROVE  NoCompositeCycle'
    BY <1>3, AddChildNoCycle DEF AddChild, Wire
  <1>4. \/ UNCHANGED inputs
        \/ \E t \in Monitors \union Deriveds, new \in SUBSET Tags : Wire(t, new)
        \/ \E c \in Composites, child \in Tags : AddChild(c, child)
    <2>1. ASSUME NEW m \in Monitors, NEW parent \in Tags, NewMonitor(m, parent)
          PROVE  \E t \in Monitors \union Deriveds, new \in SUBSET Tags : Wire(t, new)
      <3>1. Wire(m, {parent}) /\ {parent} \in SUBSET Tags
        BY <2>1 DEF NewMonitor
      <3> QED
        BY <3>1
    <2>2. ASSUME NEW d \in Deriveds, NEW parents \in SUBSET Tags, NewDerived(d, parents)
          PROVE  \E t \in Monitors \union Deriveds, new \in SUBSET Tags : Wire(t, new)
      BY <2>2 DEF NewDerived
    <2> QED
      BY <2>1, <2>2 DEF Next, vars, UpdateData, Load, InvalidateBatch, Invalidate, SetRule,
         SetMode, GetXY
  <1> QED
    BY <1>1, <1>2, <1>3, <1>4

-----------------------------------------------------------------------------
(* What is told to a set that is closed under listeners_ needs no excuse.  *)
LEMMA Healed ==
  ASSUME TypeOK, Told, CleanMeansFresh, ~Loops(Tags, inputs),
         NEW E \in SUBSET Tags, \A t \in E : listeners[t] \subseteq E
  PROVE  behind \ E \subseteq Above(Excuses \ E, inputs)
  <1>1. Excuses \in SUBSET Tags
    BY DEF Excuses, TypeOK, Tags
  <1>2. Above(Excuses, inputs) \subseteq Above(Excuses \ E, inputs) \union E
    BY <1>1, ClosureBeyond, UsersType DEF Above, Told, TypeOK
  <1> QED
    BY <1>2 DEF CleanMeansFresh, Excuses

(* A quiet change excuses what it leaves behind. *)
LEMMA Excused ==
  ASSUME TypeOK, CleanMeansFresh, ~Loops(Tags, inputs), NEW t \in Tags,
         NEW X \in SUBSET Tags, Excuses \union {t} \subseteq X
  PROVE  behind \union Above({t}, inputs) \subseteq Above(X, inputs)
  <1> DEFINE R == UsersIn(Tags, inputs)
  <1>1. R \in Relations
    BY UsersType DEF TypeOK
  <1>2. X \subseteq Closure(X, R)
    BY <1>1, ClosureContains
  <1>3. \A S \in SUBSET X : Closure(S, R) \subseteq Closure(X, R)
    BY <1>1, <1>2, ClosureIdempotent
  <1> QED
    BY <1>3 DEF CleanMeansFresh, Above, Excuses

LEMMA WiderAbove ==
  ASSUME TypeOK, Told, NEW t \in Tags, NEW new \in SUBSET Tags, Wire(t, new),
         NEW S \in SUBSET Tags
  PROVE  Above(S, inputs) \subseteq Above(S, inputs')
  <1>1. inputs \in Relations /\ inputs' \in Relations
    BY WireKeeps DEF TypeOK, Relations
  <1>2. \A x \in Tags : inputs[x] \subseteq inputs'[x]
    BY WireKeeps
  <1>3. \A i \in Tags : UsersIn(Tags, inputs)[i] \subseteq UsersIn(Tags, inputs')[i]
    BY <1>1, <1>2, UsersMonotone
  <1> QED
    BY <1>3, UsersType, ClosureMonotone DEF Above

LEMMA WireFresh ==
  ASSUME TypeOK, Told, CleanMeansFresh, NEW t \in Tags, NEW new \in SUBSET Tags,
         Wire(t, new), UNCHANGED <<behind, quiet, reloaded>>
  PROVE  CleanMeansFresh'
  <1>1. ~Loops(Tags, inputs') => ~Loops(Tags, inputs)
    BY WireKeeps
  <1>2. Excuses \in SUBSET Tags
    BY DEF Excuses, TypeOK, Tags
  <1>3. Above(Excuses, inputs) \subseteq Above(Excuses, inputs')
    BY <1>2, WiderAbove
  <1> QED
    BY <1>1, <1>3 DEF CleanMeansFresh, Excuses

LEMMA AddChildFresh ==
  ASSUME TypeOK, Told, Told', CleanMeansFresh, NEW c \in Composites, NEW child \in Tags,
         AddChild(c, child)
  PROVE  CleanMeansFresh'
  <1> SUFFICES ASSUME ~Loops(Tags, inputs') PROVE behind' \subseteq Above(Excuses', inputs')
    BY DEF CleanMeansFresh, Excuses
  <1> DEFINE R == UsersIn(Tags, inputs')
             D == Closure({c}, R)
  <1>1. c \in Tags /\ Excuses \in SUBSET Tags
    BY DEF Tags, TypeOK, Excuses
  <1>2. Wire(c, {child}) /\ {child} \in SUBSET Tags
    BY DEF AddChild
  <1>3. R \in Relations /\ D \in SUBSET Tags
    BY UsersType, ClosureIsSet
  <1>4. dirty' = dirty \union D /\ quiet' = quiet \ D
    BY FullCascade DEF AddChild, Told
  <1>5. behind' \subseteq behind \ D /\ reloaded' = reloaded \ D
    BY <1>4 DEF AddChild, Changed, Above, TypeOK
  <1>6. behind \subseteq Above(Excuses, inputs')
    BY <1>1, <1>2, WireKeeps, WiderAbove DEF CleanMeansFresh, Excuses
  <1>7. Above(Excuses, inputs') \subseteq Above(Excuses \ D, inputs') \union D
    <2>1. \A t \in D : R[t] \subseteq D
      BY <1>3, ClosureClosed
    <2> QED
      BY <1>1, <1>3, <2>1, ClosureBeyond DEF Above
  <1>8. Excuses' = Excuses \ D
    BY <1>4, <1>5 DEF Excuses
  <1> QED
    BY <1>5, <1>6, <1>7, <1>8

(* Every step leaves clean tags fresh. *)
LEMMA FreshStep ==
  TypeOK /\ Told /\ Told' /\ CleanMeansFresh /\ [Next]_vars => CleanMeansFresh'
  <1> SUFFICES ASSUME TypeOK, Told, Told', CleanMeansFresh, [Next]_vars PROVE CleanMeansFresh'
    OBVIOUS
  <1>r. UsersIn(Tags, inputs) \in Relations /\ listeners \in Relations
    BY UsersType DEF TypeOK, Relations
  <1>c. ASSUME NEW L PROVE /\ Closure(L, listeners) \in SUBSET Tags
                          /\ \A t \in Closure(L, listeners) :
                                listeners[t] \subseteq Closure(L, listeners)
    BY <1>r, ClosureIsSet, ClosureClosed
  <1>1. ASSUME NEW s \in Sensors, UpdateData(s), ~Loops(Tags, inputs)
        PROVE  behind' \subseteq Above(Excuses', inputs')
    <2> DEFINE D == Closure(listeners[s], listeners)
               E == {s} \union D
    <2>1. dirty' = dirty \union D /\ quiet' = quiet \ E
      BY <1>1, FullCascade DEF UpdateData
    <2>2. E \in SUBSET Tags /\ listeners[s] \in SUBSET Tags
      BY <1>c, <1>r DEF Tags, Relations
    <2>3. \A t \in E : listeners[t] \subseteq E
      <3>1. \A t \in D : listeners[t] \subseteq D
        BY <1>c
      <3>2. listeners[s] \subseteq D
        BY <2>2, ClosureContains
      <3> QED
        BY <3>1, <3>2
    <2>4. Above({s}, inputs) \subseteq E
      BY <2>2, <2>3, ClosureLeast DEF Above, Told
    <2>5. behind' \subseteq behind \ E /\ Excuses' = Excuses \ E
      <3>1. behind' = (behind \union Above({s}, inputs)) \ (Sensors \union dirty')
        BY <1>1 DEF UpdateData, Changed
      <3>2. behind' \subseteq behind \ E
        BY <2>1, <2>4, <3>1
      <3>3. reloaded' = reloaded \ dirty' /\ reloaded \subseteq Monitors \ dirty
        BY <1>1 DEF UpdateData, Changed, TypeOK
      <3>4. reloaded' = reloaded \ E
        BY <2>1, <3>3, KindsAssumption
      <3> QED
        BY <2>1, <3>2, <3>4 DEF Excuses
    <2>6. inputs' = inputs
      BY <1>1 DEF UpdateData
    <2> QED
      BY <1>1, <2>1, <2>2, <2>3, <2>5, <2>6, Healed
  <1>2. ASSUME NEW t \in Tags, Quietly(t), Changed({t}, inputs), dirty' \subseteq dirty \union {t},
               UNCHANGED inputs, ~Loops(Tags, inputs)
        PROVE  behind' \subseteq Above(Excuses', inputs')
    <2>1. Excuses \union {t} \subseteq Excuses' /\ Excuses' \in SUBSET Tags
      BY <1>2 DEF Quietly, Changed, Excuses, TypeOK, Tags
    <2>2. behind' \subseteq behind \union Above({t}, inputs)
      BY <1>2 DEF Changed
    <2> QED
      BY <1>2, <2>1, <2>2, Excused
  <1>3. ASSUME NEW S \in SUBSET Sensors, InvalidateBatch(S), ~Loops(Tags, inputs)
        PROVE  behind' \subseteq Above(Excuses', inputs')
    <2> DEFINE L == UNION {listeners[s] : s \in S}
               D == Closure(L, listeners)
               E == S \union D
    <2>1. dirty' = dirty \union D /\ quiet' = quiet \ E
      BY <1>3, FullCascade DEF InvalidateBatch
    <2>2. E \in SUBSET Tags /\ L \in SUBSET Tags
      BY <1>c, <1>r DEF Tags, Relations
    <2>3. \A t \in E : listeners[t] \subseteq E
      <3>1. \A t \in D : listeners[t] \subseteq D
        BY <1>c
      <3>2. L \subseteq D
        BY <2>2, ClosureContains
      <3> QED
        BY <3>1, <3>2
    <2>4. behind' \subseteq behind \ E /\ Excuses' = Excuses \ E
      BY <1>3, <2>1, KindsAssumption DEF InvalidateBatch, OnlyMarked, TypeOK, Excuses
    <2>5. inputs' = inputs
      BY <1>3 DEF InvalidateBatch
    <2> QED
      BY <1>3, <2>1, <2>2, <2>3, <2>4, <2>5, Healed
  <1>4. ASSUME NEW t \in Tags, Invalidate(t), ~Loops(Tags, inputs)
        PROVE  behind' \subseteq Above(Excuses', inputs')
    <2> DEFINE D == Closure({t}, listeners)
    <2>1. dirty' = dirty \union D /\ quiet' = quiet \ D
      BY <1>4, FullCascade DEF Invalidate
    <2>2. behind' \subseteq behind \ D /\ inputs' = inputs /\ Excuses' = Excuses \ D
      BY <1>4, <2>1 DEF Invalidate, OnlyMarked, TypeOK, Excuses
    <2>3. D \in SUBSET Tags /\ \A x \in D : listeners[x] \subseteq D
      BY <1>c
    <2> QED
      BY <1>4, <2>1, <2>2, <2>3, Healed
  <1>5. ASSUME NEW t \in Tags, GetXY(t), ~Loops(Tags, inputs)
        PROVE  behind' \subseteq Above(Excuses', inputs')
    <2> DEFINE K == Closure({t}, [i \in Tags |-> inputs[i] \intersect dirty])
    <2>1. PICK L \in LoadedFromDisk(K) :
            /\ behind' = Closure(behind \union (L \intersect oldRows), UsersIn(K \ L, inputs))
            /\ reloaded' = reloaded \union (L \intersect oldRows)
      BY <1>5 DEF GetXY
    <2> DEFINE R == UsersIn(K \ L, inputs)
               X == Excuses'
               T == Closure(X, UsersIn(Tags, inputs))
    <2>2. UNCHANGED <<inputs, quiet>> /\ X = Excuses \union (L \intersect oldRows)
      BY <1>5, <2>1 DEF GetXY, Excuses
    <2>3. K \in SUBSET Tags
      BY ClosureIsSet
    <2>4. X \in SUBSET Tags
      <3>1. L \subseteq Tags
        BY <2>1, KindsAssumption DEF TypeOK, LoadedFromDisk, Tags
      <3>2. Excuses \subseteq Tags
        BY DEF TypeOK, Excuses, Tags
      <3> QED
        BY <2>2, <3>1, <3>2
    <2>5. X \subseteq T /\ T \in SUBSET Tags /\ \A i \in T : UsersIn(Tags, inputs)[i] \subseteq T
      BY <1>r, <2>4, ClosureContains, ClosureIsSet, ClosureClosed
    <2>6. behind \subseteq T
      <3>1. Excuses \subseteq T
        BY <2>2, <2>5
      <3>2. Closure(Excuses, UsersIn(Tags, inputs)) \subseteq T
        BY <2>5, <3>1, ClosureLeast
      <3> QED
        BY <1>5, <3>2 DEF CleanMeansFresh, Above, Excuses
    <2>7. behind \union (L \intersect oldRows) \subseteq T
      BY <2>2, <2>5, <2>6
    <2>8. \A i \in T : R[i] \subseteq T
      BY <2>3, <2>5 DEF UsersIn
    <2> HIDE DEF T
    <2>9. Closure(behind \union (L \intersect oldRows), R) \subseteq T
      BY <2>5, <2>7, <2>8, ClosureLeast
    <2> QED
      BY <2>1, <2>2, <2>9 DEF Above, T
  <1>6. ASSUME NEW m \in Monitors, NEW parent \in Tags, NewMonitor(m, parent)
        PROVE  CleanMeansFresh'
    <2>1. Wire(m, {parent}) /\ UNCHANGED <<behind, quiet, reloaded>> /\ m \in Tags
      BY <1>6 DEF NewMonitor, Tags
    <2> QED
      BY <2>1, WireFresh
  <1>7. ASSUME NEW d \in Deriveds, NEW parents \in SUBSET Tags, NewDerived(d, parents)
        PROVE  CleanMeansFresh'
    <2>1. Wire(d, parents) /\ UNCHANGED <<behind, quiet, reloaded>> /\ d \in Tags
      BY <1>7 DEF NewDerived, Tags
    <2> QED
      BY <2>1, WireFresh
  <1>8. ASSUME NEW c \in Composites, NEW child \in Tags, AddChild(c, child)
        PROVE  CleanMeansFresh'
    BY <1>8, AddChildFresh
  <1>9. ASSUME NEW s \in Sensors, Load(s), ~Loops(Tags, inputs)
        PROVE  behind' \subseteq Above(Excuses', inputs')
    BY <1>2, <1>9 DEF Load, Tags
  <1>10. ASSUME NEW m \in Monitors, SetRule(m), ~Loops(Tags, inputs)
         PROVE  behind' \subseteq Above(Excuses', inputs')
    BY <1>2, <1>10 DEF SetRule, Tags
  <1>11. ASSUME NEW c \in Composites, SetMode(c), ~Loops(Tags, inputs)
         PROVE  behind' \subseteq Above(Excuses', inputs')
    BY <1>2, <1>11 DEF SetMode, Tags
  <1>12. \/ inputs' = inputs
         \/ \E m \in Monitors, parent \in Tags : NewMonitor(m, parent)
         \/ \E d \in Deriveds, parents \in SUBSET Tags : NewDerived(d, parents)
         \/ \E c \in Composites, child \in Tags : AddChild(c, child)
    BY DEF Next, vars, UpdateData, Load, InvalidateBatch, Invalidate, SetRule, SetMode, GetXY
  <1>13. CASE inputs' = inputs
    <2> SUFFICES ASSUME ~Loops(Tags, inputs) PROVE behind' \subseteq Above(Excuses', inputs')
      BY <1>13 DEF CleanMeansFresh, Excuses
    <2>1. CASE UNCHANGED vars
      BY <2>1 DEF vars, CleanMeansFresh, Excuses
    <2>2. CASE \E m \in Monitors, parent \in Tags : NewMonitor(m, parent)
      BY <1>6, <1>13, <2>2 DEF CleanMeansFresh, Excuses
    <2>3. CASE \E d \in Deriveds, parents \in SUBSET Tags : NewDerived(d, parents)
      BY <1>7, <1>13, <2>3 DEF CleanMeansFresh, Excuses
    <2>4. CASE \E c \in Composites, child \in Tags : AddChild(c, child)
      BY <1>8, <1>13, <2>4 DEF CleanMeansFresh, Excuses
    <2> QED
      BY <1>1, <1>3, <1>4, <1>5, <1>9, <1>10, <1>11, <2>1, <2>2, <2>3, <2>4 DEF Next
  <1> QED
    BY <1>6, <1>7, <1>8, <1>12, <1>13

-----------------------------------------------------------------------------
LEMMA IInvStep == IInv /\ [Next]_vars => IInv'
  BY TypeStep, CycleStep, FreshStep DEF IInv

LEMMA IInvAlways == Spec => []IInv
  <1>1. Init => IInv
    BY InitIInv
  <1>2. IInv /\ [Next]_vars => IInv'
    BY IInvStep
  <1> QED
    BY <1>1, <1>2, PTL DEF Spec

(* The variables have their types, and the listeners_ of CompositeTag,     *)
(* DerivedTag, MonitorTag and SensorTag are exactly the tags that read them. *)
THEOREM TypesAndListeners == Spec => [](TypeOK /\ Told)
  <1>1. IInv => TypeOK /\ Told
    BY DEF IInv
  <1> QED
    BY <1>1, IInvAlways, PTL

(* CompositeTag.addChild never lets a composite contain itself.            *)
THEOREM CompositesAcyclic == Spec => []NoCompositeCycle
  <1>1. IInv => NoCompositeCycle
    BY DEF IInv
  <1> QED
    BY <1>1, IInvAlways, PTL

(* A tag that is not dirty is up to date with everything that has told its *)
(* listeners of its last change.                                           *)
THEOREM CleanTagsFresh == Spec => []CleanMeansFresh
  <1>1. IInv => CleanMeansFresh
    BY DEF IInv
  <1> QED
    BY <1>1, IInvAlways, PTL
=============================================================================
