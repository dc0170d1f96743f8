--------------------------- MODULE GcrCollections ---------------------------
(***************************************************************************)
(* The collections of gcr: simple ones and one that holds a single object, *)
(* whose "added" and "removed" signals keep a union of them up to date     *)
(* (gcr-union-collection.c), and a filter of that union                    *)
(* (gcr-filter-collection.c).  Signals are synchronous: whoever listens is *)
(* up to date when the call returns.                                       *)
(***************************************************************************)
EXTENDS Integers, Sequences, FiniteSets, SequencesExt

CONSTANTS
    Object,         \* the objects, some of which are collections themselves
    Simple, Single, \* the collections that objects are put into
    Members,        \* those that may be in the union
    FirstLabel,     \* the labels of the objects at first
    Label, Low      \* values of the property that the filter looks at, and those
                    \* that it may be made to look for

ASSUME CollectionsAssumption ==
    /\ IsFiniteSet(Object) /\ IsFiniteSet(Members)
    /\ Simple \intersect Single = {} /\ Members \subseteq Simple \union Single
    /\ Label \subseteq Int /\ Low \subseteq Label /\ FirstLabel \in [Object -> Label]

Base == Simple \union Single

VARIABLES
    items,      \* the objects of each collection
    members,    \* the collections of the union
    counts,     \* its items: in how many of its collections each object is
    filtered,   \* the items of the filter
    filter,     \* its callback: "all", or those with "low" labels
    label,      \* the property of each object
    unseen      \* objects whose label changed after the filter has looked at it

collectionVars == <<items, members, counts, filtered, filter, label, unseen>>

-----------------------------------------------------------------------------
\* A signal of a collection, and what a listener makes of signals: a record with
\* its new state in field st, and the signals it emits in turn.
AddedSignal(o) == [signal |-> "added", object |-> o]
RemovedSignal(o) == [signal |-> "removed", object |-> o]

AddedAll(S) == LET q == SetToSeq(S) IN [i \in DOMAIN q |-> AddedSignal(q[i])]
RemovedAll(S) == LET q == SetToSeq(S) IN [i \in DOMAIN q |-> RemovedSignal(q[i])]

\* An object that leaves one collection leaves the union.
UnionForgets(u, s) ==
    IF s.signal = "added" THEN [u EXCEPT ![s.object] = @ + 1]
    ELSE [u EXCEPT ![s.object] = 0]
\* on_collection_added and on_collection_removed of the union: the counts of its items
Counted(u, s) ==
    IF s.signal = "added" THEN [u EXCEPT ![s.object] = @ + 1]
    ELSE [u EXCEPT ![s.object] = IF @ > 0 THEN @ - 1 ELSE @]

\* The union tells of an object that is new to it, or gone from it.
UnionHears(u, signals) ==
    LET heard[i \in 0 .. Len(signals)] ==
            IF i = 0 THEN [st |-> u, emits |-> << >>]
            ELSE LET was == heard[i - 1]
                     s == signals[i]
                     now == Counted(was.st, s)
                 IN  [st |-> now,
                      emits |-> IF (now[s.object] = 0) = (was.st[s.object] = 0)
                                THEN was.emits ELSE Append(was.emits, s)]
    IN  heard[Len(signals)]

\* filter_object
Accepts(fn, o) == fn = "all" \/ label[o] \in Low

\* on_collection_added and on_collection_removed of the filter
FilterHears(f, signals) ==
    LET heard[i \in 0 .. Len(signals)] ==
            IF i = 0 THEN [st |-> f, emits |-> << >>]
            ELSE LET was == heard[i - 1]
                     s == signals[i]
                     o == s.object
                 IN  IF s.signal = "added" /\ Accepts(filter, o)
                     THEN [st |-> was.st \union {o}, emits |-> Append(was.emits, s)]
                     ELSE IF s.signal = "removed" /\ o \in was.st
                     THEN [st |-> was.st \ {o}, emits |-> Append(was.emits, s)]
                     ELSE was
    IN  heard[Len(signals)]

UnionItems == {o \in Object : counts[o] > 0}

-----------------------------------------------------------------------------
(* The operations.                                                         *)

\* The union hears the signals, and the filter hears the union's.
Spread(signals) ==
    LET u == UnionHears(counts, signals)
        f == FilterHears(filtered, u.emits)
    IN  /\ counts' = u.st
        /\ filtered' = f.st
        /\ unseen' = unseen \ {s.object : s \in Range(u.emits)}

\* What the filter tells its own listeners then.
FilterEmits(signals) == FilterHears(filtered, UnionHears(counts, signals).emits).emits

\* Only members of the union are heard by it.
Heard(c, signals) == IF c \in members THEN signals ELSE << >>

\* gcr_simple_collection_add and gcr_simple_collection_remove
SimpleChange(c, o) ==
    IF o \in items[c] THEN <<RemovedSignal(o)>> ELSE <<AddedSignal(o)>>

\* _gcr_single_collection_set_object; None is the empty collection.
SingleChange(c, new) == RemovedAll(items[c] \ new) \o AddedAll(new \ items[c])

Emitted(c, signals) ==
    /\ items' = [items EXCEPT ![c] =
          {o \in Object : \/ o \in @ /\ RemovedSignal(o) \notin Range(signals)
                         \/ AddedSignal(o) \in Range(signals)}]
    /\ Spread(Heard(c, signals))
    /\ UNCHANGED <<members, filter, label>>

\* gcr_union_collection_take: the collection's objects are heard as if they were added.
Take(c) ==
    /\ c \in Members \ members
    /\ members' = members \union {c}
    /\ Spread(AddedAll(items[c]))
    /\ UNCHANGED <<items, filter, label>>

\* gcr_union_collection_remove
Drop(c) ==
    /\ c \in members
    /\ members' = members \ {c}
    /\ Spread(RemovedAll(items[c]))
    /\ UNCHANGED <<items, filter, label>>

\* What is to be removed is not looked for.
RefilterAdds(fn) == SetToSeq({o \in UnionItems \ filtered : Accepts(fn, o)})
\* gcr_filter_collection_refilter: the objects that come and go.  Each object of the
\* union is looked at again, and what is left of the filter's own items goes.
Refiltered(fn) ==
    SetToSeq({o \in UnionItems : Accepts(fn, o) # (o \in filtered)})
        \o SetToSeq(filtered \ UnionItems)

RefilterSignals(fn) ==
    LET changed == Refiltered(fn)
    IN  [i \in DOMAIN changed |-> IF changed[i] \in filtered THEN RemovedSignal(changed[i])
                                  ELSE AddedSignal(changed[i])]

\* gcr_filter_collection_set_callback
SetCallback(fn) ==
    /\ filter' = fn
    /\ filtered' = SymDiff(filtered, Range(Refiltered(fn)))
    /\ unseen' = {}
    /\ UNCHANGED <<items, members, counts, label>>

\* The label of an object changes, which the filter does not hear of.
SetLabel(o, v) ==
    /\ label[o] # v
    /\ label' = [label EXCEPT ![o] = v]
    /\ unseen' = unseen \union {o}
    /\ UNCHANGED <<items, members, counts, filtered, filter>>

CollectionsInit ==
    /\ items = [c \in Base |-> {}] /\ members = {}
    /\ counts = [o \in Object |-> 0]
    /\ filtered = {} /\ filter = "all"
    /\ label = FirstLabel
    /\ unseen = {}

\* The operations in any order.  GcrCollectionModel takes them one by one, with what
\* the rows of its tree become.
CollectionsNext ==
    \/ \E c \in Simple, o \in Object : Emitted(c, SimpleChange(c, o))
    \/ \E c \in Single, new \in {{}} \union {{o} : o \in Object} : Emitted(c, SingleChange(c, new))
    \/ \E c \in Members : Take(c) \/ Drop(c)
    \/ \E fn \in {"all", "low"} : SetCallback(fn)
    \/ \E o \in Object, v \in Label : SetLabel(o, v)

CollectionsSpec == CollectionsInit /\ [][CollectionsNext]_collectionVars

-----------------------------------------------------------------------------
\* The union counts every object once for each of its collections that has it:
\* an object in two of them stays until both have let go of it, whether they lose
\* the object or the union loses them.
UnionIsExact ==
    \A o \in Object : counts[o] = Cardinality({c \in members : o \in items[c]})

\* The filter has the objects of the union that its callback accepts: only an
\* object that has changed since may be wrong, until gcr_filter_collection_refilter.
FilterIsExact ==
    /\ filtered \subseteq UnionItems
    /\ \A o \in UnionItems \ unseen : o \in filtered <=> Accepts(filter, o)

\* Both at once: what the union and the filter hold is exactly what they should.
CollectionsAreExact == UnionIsExact /\ FilterIsExact
=============================================================================
