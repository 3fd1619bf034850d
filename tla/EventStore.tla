----------------------------- MODULE EventStore -----------------------------
(***************************************************************************)
(* EventStore.m and EventBinding.m in one process.  Event objects are      *)
(* handles: w.events holds the objects, a store is the list of its handles *)
(* (indices into w.events) with the counter of its ids, and w.bound is the *)
(* registry that binds ids to tags.  A second store, "own", is that of a   *)
(* pipeline; both write the id into the same object.                       *)
(***************************************************************************)
EXTENDS Integers, SequencesExt, FiniteSetsExt, LogicalIndexing

NoEvents == [events |-> <<>>, store |-> [list |-> <<>>, nextId |-> 0],
             own |-> [list |-> <<>>, nextId |-> 0], bound |-> {}]

\* Mutant: ids are counted from the length of the list.
Stored_CountsList(w, s, h) ==
    [w EXCEPT ![s].list = Append(@, h), !.events[h].id = Len(w[s].list) + 1]

\* EventStore.append of one event: a new id, whatever id the object has.
Stored(w, s, h) ==
    [w EXCEPT ![s].nextId = @ + 1, ![s].list = Append(@, h),
              !.events[h].id = w[s].nextId + 1]

\* append of several, one after the other.
StoredAll(w, s, hs) ==
    LET stored[i \in 0..Len(hs)] ==
          IF i = 0 THEN w ELSE Stored(stored[i - 1], s, hs[i])
    IN  stored[Len(hs)]

\* The events that carry an id; the operations by id take the first one.
WithId(w, id) == {i \in DOMAIN w.store.list : w.events[w.store.list[i]].id = id}
FirstWith(w, id) == w.store.list[Min(WithId(w, id))]

\* closeEvent, which fails for an unknown id and for an event that is not
\* open; its callers ignore the failure.
CloseEvent(w, id, endT) ==
    IF WithId(w, id) = {} \/ ~w.events[FirstWith(w, id)].open THEN w
    ELSE [w EXCEPT !.events[FirstWith(w, id)].open = FALSE,
                   !.events[FirstWith(w, id)].end = endT]

\* Mutant: only the open events are returned.
EventsForTag_OpenOnly(w, m) ==
    SelectSeq(w.store.list, LAMBDA h : w.events[h].mon = m /\ w.events[h].open)

\* getEventsForTag: the events whose id is bound to the tag, then those that
\* name the tag themselves.
EventsForTag(w, m) ==
    LET Bound(h) == <<w.events[h].id, m>> \in w.bound
    IN  SelectSeq(w.store.list, Bound)
        \o SelectSeq(w.store.list, LAMBDA h : ~Bound(h) /\ w.events[h].mon = m)

\* removeEvents of one id, with the bindings of the id.
RemoveEvents(w, id) ==
    [w EXCEPT !.store.list = Masked(@, {i \in DOMAIN @ : w.events[@[i]].id # id}),
              !.bound = {b \in @ : b[1] # id}]

\* editEvent of the time window.
EditEvent(w, id, startT) == [w EXCEPT !.events[FirstWith(w, id)].start = startT]
=============================================================================
