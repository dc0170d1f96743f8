------------------------- MODULE GcrCollectionModel -------------------------
(***************************************************************************)
(* ui/gcr-collection-model.c: the tree model that follows a collection,    *)
(* for the widgets of GTK+.  It has a row for every object of the          *)
(* collection, under it rows for the objects of an object that is itself a *)
(* collection, and tells its view of each change by the path of the row.   *)
(* The collection shown is the filter of GcrCollections or a simple one.   *)
(***************************************************************************)
EXTENDS GcrCollections

CONSTANTS
    Rank,       \* the order of the addresses of the objects
    Sorts,      \* ways to sort: column "none", "label" or "default", and reverse
    Changing,   \* bounds: the objects whose label may change, and those that
    Selecting,  \* may be selected
    None, Root, FilterOf

\* Objects that are collections are not in the union, and have none in them.
ASSUME ModelAssumption == Rank \in [Object -> Int] /\ Members \intersect Object = {}

Nested == Object \intersect Base
Parent == Object \union {Root}

VARIABLES
    shown,      \* the collection: None, FilterOf the union, or one of Base
    rows,       \* the sequences of rows, at the root and under each row
    view,       \* the rows that a view has, which knows the signals only
    selected,   \* the objects selected
    sort,       \* sort_column_id and sort_order_type
    moved       \* the label of a row has changed since the rows were sorted

modelVars == <<collectionVars, shown, rows, view, selected, sort, moved>>

Model == [rows |-> rows, view |-> view, selected |-> selected]
Become(m) == rows' = m.rows /\ view' = m.view /\ selected' = m.selected

-----------------------------------------------------------------------------
(* Rows and paths.                                                         *)

\* object_to_seq
HasRow(r, o) == \E p \in Parent : Contains(r[p], o)
ParentOf(r, o) == CHOOSE p \in Parent : Contains(r[p], o)
Position(q, o) == CHOOSE i \in DOMAIN q : q[i] = o

\* sequence_iter_to_path
RECURSIVE PathOf(_, _)
PathOf(r, o) ==
    IF o = Root THEN << >>
    ELSE LET p == ParentOf(r, o) IN Append(PathOf(r, p), Position(r[p], o))

\* The row that a view finds by a path, and what the view does on each signal.
RowAt(v, path) == FoldLeft(LAMBDA p, i : v[p][i], Root, path)

RowInserted(v, path, o) == [v EXCEPT ![RowAt(v, Front(path))] = InsertAt(@, Last(path), o)]
RowDeleted(v, path) ==
    [v EXCEPT ![RowAt(v, Front(path))] = RemoveAt(@, Last(path)), ![RowAt(v, path)] = << >>]
RowsReordered(v, path, newOrder) ==
    LET p == RowAt(v, path)
    IN  [v EXCEPT ![p] = [i \in DOMAIN newOrder |-> v[p][newOrder[i]]]]

-----------------------------------------------------------------------------
(* The order of rows.                                                      *)

\* The functions of order_sequence_*, as a is before b.
Before(s, a, b) ==
    LET less(c, d) == IF s.column = "none" THEN Rank[c] < Rank[d] ELSE label[c] < label[d]
    IN  IF s.reverse THEN less(b, a) ELSE less(a, b)

\* Where g_sequence_insert_sorted may put a row; there is one place in a sequence that
\* is sorted.  order_sequence_by_closure looks for the row of an object that has none
\* yet, and takes it for equal to all others.
Places(q, s, o) ==
    IF s.column = "default" THEN {Len(q) + 1}
    ELSE {k \in 1 .. Len(q) + 1 :
              /\ k = 1 \/ ~Before(s, o, q[k - 1])
              /\ k = Len(q) + 1 \/ Before(s, o, q[k])}

\* g_sequence_sort is stable.
Sorted(q, s) ==
    FoldLeft(LAMBDA acc, o :
                 InsertAt(acc, 1 + Cardinality({i \in DOMAIN acc : ~Before(s, o, acc[i])}), o),
             << >>, q)

\* Which row is where, instead of what row a place gets.
NewPlaces(old, new) == [i \in DOMAIN old |-> Position(new, old[i])]
\* The new_order of collection_resort_sequence: the old index of each row
NewOrder(old, new) == [i \in DOMAIN new |-> Position(old, new[i])]

\* collection_resort_sequence
RECURSIVE Resort(_, _, _)
Resort(m, p, s) ==
    LET below == FoldLeft(LAMBDA acc, o : Resort(acc, o, s), m, m.rows[p])
        new == Sorted(m.rows[p], s)
    IN  IF new = << >> THEN below
        ELSE [below EXCEPT !.rows[p] = new,
                           !.view = RowsReordered(@, PathOf(below.rows, p),
                                                  NewOrder(m.rows[p], new))]

-----------------------------------------------------------------------------
(* Rows come and go.  What items of its collections are is said with it.   *)

\* add_object_to_sequence: an object that has a row already is refused, and what is in
\* a collection gets rows under its row.
RECURSIVE AddObject(_, _, _, _)
AddObject(m, it, p, o) ==
    IF HasRow(m.rows, o) THEN m
    ELSE LET at == CHOOSE k \in Places(m.rows[p], sort, o) : TRUE
             r == [m.rows EXCEPT ![p] = InsertAt(@, at, o)]
             row == [m EXCEPT !.rows = r, !.view = RowInserted(@, PathOf(r, o), o)]
         IN  IF o \in Nested
             THEN FoldLeft(LAMBDA acc, c : AddObject(acc, it, o, c), row, SetToSeq(it[o]))
             ELSE row

\* The rows under it are left where they are.
RemoveRow(m, o) ==
    LET path == PathOf(m.rows, o)  p == ParentOf(m.rows, o)
    IN  [rows |-> [m.rows EXCEPT ![p] = Remove(@, o)],
         view |-> RowDeleted(m.view, path), selected |-> m.selected \ {o}]
\* remove_object_from_sequence: the rows under it go first.
RECURSIVE RemoveObject(_, _)
RemoveObject(m, o) ==
    LET path == PathOf(m.rows, o)  p == ParentOf(m.rows, o)
        below == FoldLeft(LAMBDA acc, c : RemoveObject(acc, c), m, m.rows[o])
    IN  [rows |-> [below.rows EXCEPT ![p] = Remove(@, o)],
         view |-> RowDeleted(below.view, path), selected |-> below.selected \ {o}]

\* on_collection_added and on_collection_removed, for the rows under p
Hear(m, it, p, signals) ==
    FoldLeft(LAMBDA acc, s :
                 IF s.signal = "added" THEN AddObject(acc, it, p, s.object)
                 ELSE IF HasRow(acc.rows, s.object) THEN RemoveObject(acc, s.object)
                 ELSE acc,
             m, signals)

ItemsOf(c) == IF c = None THEN {} ELSE IF c = FilterOf THEN filtered ELSE items[c]

-----------------------------------------------------------------------------
(* The operations of collections, and the model that hears of them.        *)

\* An object is in one place of the tree only: the model warns of others.
MayAdd(c, o) ==
    IF c \in Nested THEN o \notin Nested /\ \A b \in Base : o \notin items[b]
    ELSE \A b \in Nested : o \notin items[b]

ModelHears(c, signals) ==
    LET root == IF shown = FilterOf THEN FilterEmits(Heard(c, signals))
                ELSE IF shown = c THEN signals ELSE << >>
        m == Hear(Model, items', Root, root)
    IN  Become(IF c \in Nested /\ HasRow(m.rows, c) THEN Hear(m, items', c, signals) ELSE m)

ChangeCollection(c, signals) ==
    /\ Emitted(c, signals)
    /\ ModelHears(c, signals)
    /\ UNCHANGED <<shown, sort, moved>>

SimpleOperation(c, o) ==
    /\ o \in items[c] \/ MayAdd(c, o)
    /\ ChangeCollection(c, SimpleChange(c, o))

SingleOperation(c, new) ==
    /\ new # items[c] /\ \A o \in new : MayAdd(c, o)
    /\ ChangeCollection(c, SingleChange(c, new))

FilterHeard(signals) ==
    /\ Become(IF shown = FilterOf THEN Hear(Model, items, Root, signals) ELSE Model)
    /\ UNCHANGED <<shown, sort, moved>>

UnionTakes(c) == Take(c) /\ FilterHeard(FilterEmits(AddedAll(items[c])))
UnionDrops(c) == Drop(c) /\ FilterHeard(FilterEmits(RemovedAll(items[c])))
Refilter(fn) == SetCallback(fn) /\ FilterHeard(RefilterSignals(fn))

\* on_object_notify: the row has changed, and stays where it is.
Notify(o, v) ==
    /\ SetLabel(o, v)
    /\ moved' = (moved \/ HasRow(rows, o))
    /\ UNCHANGED <<shown, rows, view, selected, sort>>

\* What set_collection removes: rows of the collection before that the next does not have
Removes(c) ==
    FoldLeft(LAMBDA acc, o : IF o \in ItemsOf(c) THEN acc ELSE RemoveObject(acc, o),
             Model, rows[Root])

\* gcr_collection_model_set_collection
SetCollection(c) ==
    /\ c # shown
    /\ shown' = c
    /\ Become(FoldLeft(LAMBDA acc, o : AddObject(acc, items, Root, o), Removes(c),
                       SetToSeq(ItemsOf(c))))
    /\ UNCHANGED <<collectionVars, sort, moved>>

\* gcr_collection_model_set_sort_column_id
SetSort(new) ==
    /\ sort # new
    /\ sort' = new
    /\ moved' = FALSE
    /\ Become(Resort(Model, Root, new))
    /\ UNCHANGED <<collectionVars, shown>>

\* gcr_collection_model_toggle_selected and gcr_collection_model_change_selected
ToggleSelected(o) ==
    /\ HasRow(rows, o)
    /\ selected' = SymDiff(selected, {o})
    /\ UNCHANGED <<collectionVars, shown, rows, view, sort, moved>>

Init ==
    /\ CollectionsInit
    /\ shown = None
    /\ rows = [p \in Parent |-> << >>] /\ view = [p \in Parent |-> << >>]
    /\ selected = {}
    /\ sort = [column |-> "none", reverse |-> FALSE]
    /\ moved = FALSE

Next ==
    \/ \E c \in Simple, o \in Object : o # c /\ SimpleOperation(c, o)
    \/ \E c \in Single, new \in {{}} \union {{o} : o \in Object} : SingleOperation(c, new)
    \/ \E c \in Members : UnionTakes(c) \/ UnionDrops(c)
    \/ \E fn \in {"all", "low"} : Refilter(fn)
    \/ \E o \in Changing, v \in Label : Notify(o, v)
    \/ \E c \in Simple \union {FilterOf, None} : SetCollection(c)
    \/ \E new \in Sorts : SetSort(new)
    \/ \E o \in Selecting : ToggleSelected(o)

Spec == Init /\ [][Next]_modelVars

-----------------------------------------------------------------------------
\* A view that follows the signals has the rows of the model: each path says where
\* the row was, or is, at the moment of its signal, in a tree that is only partly
\* changed by then.
ViewMirrors == view = rows

\* The tree of rows is that of the collection: a row for each object, under the row of
\* the collection that it is in, and no row and no selected object that is in neither.
RowsMirror ==
    /\ Range(rows[Root]) = ItemsOf(shown)
    /\ \A o \in Object :
          Range(rows[o]) = IF o \in Nested /\ o \in ItemsOf(shown) THEN items[o] ELSE {}
    /\ \A p \in Parent : IsInjective(rows[p])
    /\ selected \subseteq UNION {Range(rows[p]) : p \in Parent}
=============================================================================
