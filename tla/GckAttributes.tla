---------------------------- MODULE GckAttributes ----------------------------
(***************************************************************************)
(* gck/gck-attributes.c: attributes, the builders that put them together   *)
(* and the GckAttributes that hold them.  A value is a block of memory     *)
(* with a count in front of it, which is shared when an attribute is       *)
(* copied.  A program builds lists, shares them among its threads, and     *)
(* has builders filled in by a token.                                      *)
(***************************************************************************)
EXTENDS Integers, Sequences, FiniteSets, SequencesExt, Lists

CONSTANTS
    Builder, SecureBuilder,     \* those made with GCK_BUILDER_SECURE_MEMORY
    Bundle,     \* the GckAttributes, and GckAttribute of their own
    Cell,       \* the blocks of memory
    Thread, Type,
    Bytes,      \* the values callers have
    SecretByte, \* occurs in what callers keep in secure memory only
    UnsetByte,  \* what fresh memory holds
    MaxItems    \* bound: the attributes in all lists together

ASSUME BuilderAssumption == SecureBuilder \subseteq Builder /\ Builder \intersect Bundle = {}
ASSUME MemoryAssumption == Cell \subseteq Nat \ {0} /\ IsFiniteSet(Cell)
ASSUME BytesAssumption == Bytes \subseteq Seq(Nat) /\ UnsetByte \in Nat \ {SecretByte}

VARIABLES
    cells,      \* the values that are allocated: their count, memory and bytes
    items,      \* the attributes in each builder, and each bundle that exists
    refs,       \* GckAttributes.refs of the bundles that exist
    floating,   \* the bundles with STATE_FLOATING
    holders,    \* which threads hold a reference to a bundle
    reading     \* where the filling in of a builder is

vars == <<cells, items, refs, floating, holders, reading>>

Invalid == -1
NoCell == 0
Gone == <<Invalid>>     \* what a token has for a value that it lost
Secret(data) == \E i \in DOMAIN data : data[i] = SecretByte

\* memory is not in the code: it is "secure" if the value was given to a secure builder to
\* be copied, or read by one, here or where the attribute was copied from.
Attr(t, c, n, memory) == [type |-> t, cell |-> c, length |-> n, memory |-> memory]

\* What an attribute holds, as its readers see it.
Value(a) ==
    [valid |-> a.length # Invalid,
     bytes |-> IF a.length = Invalid \/ a.cell = NoCell THEN << >>
               ELSE SubSeq(cells[a.cell].data, 1, a.length)]

-----------------------------------------------------------------------------
(* The operations work on s, a list of attributes and the cells.           *)

ValueNew(cs, c, data, secure) ==
    [d \in DOMAIN cs \union {c} |->
        IF d = c THEN [refs |-> 1, secure |-> secure, data |-> data] ELSE cs[d]]

ValueRef(cs, c) == [cs EXCEPT ![c].refs = @ + 1]

\* The block is freed with its last reference.
ValueUnref(cs, c) ==
    IF c = NoCell THEN cs
    ELSE IF cs[c].refs = 1 THEN Restrict(cs, DOMAIN cs \ {c})
    ELSE [cs EXCEPT ![c].refs = @ - 1]

UnrefAll(cs, l) ==
    LET left[i \in 0 .. Len(l)] ==
            IF i = 0 THEN cs ELSE ValueUnref(left[i - 1], l[i].cell)
    IN  left[Len(l)]

\* find_attribute: the first of the type, or 0
Find(l, t) ==
    LET Of == {i \in DOMAIN l : l[i].type = t}
    IN  IF Of = {} THEN 0 ELSE CHOOSE i \in Of : \A j \in Of : i <= j

Push(s, a) == [s EXCEPT !.list = Append(@, a)]

\* The value is left where it was when the attribute gets another.
SetLeaks(s, a) ==
    LET i == Find(s.list, a.type)
    IN  IF i = 0 THEN Push(s, a) ELSE [s EXCEPT !.list[i] = a]
\* The attribute that is set is the last of its type.
SetLast(s, a) ==
    LET Of == {i \in DOMAIN s.list : s.list[i].type = a.type}
        last == CHOOSE i \in Of : \A j \in Of : i >= j
    IN  IF Of = {} THEN Push(s, a)
        ELSE [list |-> [s.list EXCEPT ![last] = a],
              cells |-> ValueUnref(s.cells, s.list[last].cell)]
\* builder_clear_or_push
Set(s, a) ==
    LET i == Find(s.list, a.type)
    IN  IF i = 0 THEN Push(s, a)
        ELSE [list |-> [s.list EXCEPT ![i] = a],
              cells |-> ValueUnref(s.cells, s.list[i].cell)]

Put(s, a, set) == IF set THEN Set(s, a) ELSE Push(s, a)

\* builder_copy
Copy(s, a, set) ==
    LET r == Put(s, IF a.length = Invalid THEN [a EXCEPT !.cell = NoCell] ELSE a, set)
    IN  IF a.length = Invalid \/ a.cell = NoCell THEN r
        ELSE [r EXCEPT !.cells = ValueRef(@, a.cell)]

CopyAll(s, l, set) ==
    LET copied[i \in 0 .. Len(l)] == IF i = 0 THEN s ELSE Copy(copied[i - 1], l[i], set)
    IN  copied[Len(l)]

\* The attributes of l whose type is in T.
Typed(l, T) == Kept(l, {a \in ToSet(l) : a.type \in T})

-----------------------------------------------------------------------------
\* Which block is taken makes no difference.
FreeCells == LET free == Cell \ DOMAIN cells
             IN  {c \in free : \A d \in free : c <= d}
Idle(b) == reading[b] = "no"
State(b) == [list |-> items[b], cells |-> cells]

ItemCount == FoldFunction(LAMBDA l, n : Len(l) + n, 0, items)

Becomes(b, s) ==
    /\ ItemCount - Len(items[b]) + Len(s.list) <= MaxItems
    /\ items' = [items EXCEPT ![b] = s.list]
    /\ cells' = s.cells

\* Only the builder says where its values are kept.
KeptAsBuilt(b, data) == b \in SecureBuilder
\* gck_builder_add_data and gck_builder_set_data: secure if the builder is, or
\* if the bytes come from secure memory
KeptSecure(b, data) == b \in SecureBuilder \/ Secret(data)

\* Where a builder is to keep what it copies or reads.
Memory(b) == IF b \in SecureBuilder THEN "secure" ELSE "any"

PutValue(b, t, data, secure, memory, set) ==
    \E c \in FreeCells :
        /\ Idle(b)
        /\ Becomes(b, Put([State(b) EXCEPT !.cells = ValueNew(@, c, data, secure)],
                          Attr(t, c, Len(data), memory), set))
        /\ UNCHANGED <<refs, floating, holders, reading>>

\* gck_builder_add_data and _set_data, and the typed functions over them
PutData(b, t, data, set) ==
    PutValue(b, t, data, KeptSecure(b, data), Memory(b), set)

\* gck_builder_take_data makes the caller's own block the value, where it is: the
\* builder's flag makes no difference.
TakeData(b, t, data) == PutValue(b, t, data, Secret(data), "any", FALSE)

\* gck_builder_add_empty, _set_empty, _add_invalid and _set_invalid
PutNone(b, t, length, set) ==
    /\ Idle(b)
    /\ Becomes(b, Put(State(b), Attr(t, NoCell, length, "any"), set))
    /\ UNCHANGED <<refs, floating, holders, reading>>

\* gck_builder_add_all, _add_only, _add_except and _add_attribute
AddPart(b, x, T) ==
    /\ Idle(b)
    /\ Becomes(b, CopyAll(State(b), Typed(items[x], T), FALSE))
    /\ UNCHANGED <<refs, floating, holders, reading>>

\* gck_builder_set_all
SetAll(b, x) ==
    /\ Idle(b)
    /\ Becomes(b, CopyAll(State(b), items[x], TRUE))
    /\ UNCHANGED <<refs, floating, holders, reading>>

\* gck_builder_copy, to a builder that has nothing yet
BuilderCopy(b, c) ==
    /\ b # c /\ Idle(b) /\ Idle(c) /\ items[b] = << >>
    /\ Becomes(b, CopyAll(State(b), items[c], FALSE))
    /\ UNCHANGED <<refs, floating, holders, reading>>

\* gck_builder_clear
Clear(b) ==
    /\ reading[b] # "asked"
    /\ Becomes(b, [list |-> << >>, cells |-> UnrefAll(cells, items[b])])
    /\ reading' = [reading EXCEPT ![b] = "no"]
    /\ UNCHANGED <<refs, floating, holders>>

\* The new bundle x has the list l; t has a reference, unless it is floating.
NewBundle(x, l, t, floats) ==
    /\ refs' = [y \in DOMAIN refs \union {x} |-> IF y = x THEN 1 ELSE refs[y]]
    /\ holders' = [holders EXCEPT ![x] = IF floats THEN {} ELSE {t}]
    /\ floating' = IF floats THEN floating \union {x} ELSE floating

\* gck_builder_end, which gives a floating reference, and gck_builder_steal
End(b, x, t, floats) ==
    /\ reading[b] # "asked" /\ x \notin DOMAIN items
    /\ items' = [y \in DOMAIN items \union {x} |->
                    IF y = x THEN items[b] ELSE IF y = b THEN << >> ELSE items[y]]
    /\ NewBundle(x, items[b], t, floats)
    /\ reading' = [reading EXCEPT ![b] = "no"]
    /\ UNCHANGED cells

-----------------------------------------------------------------------------
\* gck_attribute_init and gck_attribute_new: an attribute of its own
NewAttribute(x, ty, data, t) ==
    \E c \in FreeCells :
        /\ x \notin DOMAIN items /\ ItemCount < MaxItems
        /\ cells' = ValueNew(cells, c, data, Secret(data))
        /\ items' = [y \in DOMAIN items \union {x} |->
                        IF y = x THEN <<Attr(ty, c, Len(data), "any")>> ELSE items[y]]
        /\ NewBundle(x, items'[x], t, FALSE)
        /\ UNCHANGED reading

\* gck_attribute_init_copy and gck_attribute_dup, of an attribute of y
DupAttribute(x, y, i, t) ==
    /\ x \notin DOMAIN items /\ i \in DOMAIN items[y] /\ ItemCount < MaxItems
    /\ LET s == Copy([list |-> << >>, cells |-> cells], items[y][i], FALSE)
       IN  /\ cells' = s.cells
           /\ items' = [z \in DOMAIN items \union {x} |->
                           IF z = x THEN s.list ELSE items[z]]
           /\ NewBundle(x, s.list, t, FALSE)
    /\ UNCHANGED reading

\* A thread that holds a reference takes one for another thread.
Ref(x, u) ==
    /\ x \in DOMAIN refs /\ holders[x] # {} /\ u \notin holders[x]
    /\ refs' = [refs EXCEPT ![x] = @ + 1]
    /\ holders' = [holders EXCEPT ![x] = @ \union {u}]
    /\ UNCHANGED <<cells, items, floating, reading>>

\* gck_attributes_ref_sink: the floating reference becomes the caller's
SunkRefs(x) == IF x \in floating THEN refs[x] ELSE refs[x] + 1

\* t keeps what it was given, floating or held by somebody for the time.
RefSink(x, t) ==
    /\ x \in DOMAIN refs /\ t \notin holders[x]
    /\ x \in floating \/ holders[x] # {}
    /\ refs' = [refs EXCEPT ![x] = SunkRefs(x)]
    /\ floating' = floating \ {x}
    /\ holders' = [holders EXCEPT ![x] = @ \union {t}]
    /\ UNCHANGED <<cells, items, reading>>

\* gck_attributes_unref, gck_attribute_clear and gck_attribute_free
Unref(x, t) ==
    /\ x \in DOMAIN refs /\ t \in holders[x]
    /\ holders' = [holders EXCEPT ![x] = @ \ {t}]
    /\ IF refs[x] = 1
       THEN /\ cells' = UnrefAll(cells, items[x])
            /\ items' = Restrict(items, DOMAIN items \ {x})
            /\ refs' = Restrict(refs, DOMAIN refs \ {x})
       ELSE refs' = [refs EXCEPT ![x] = @ - 1] /\ UNCHANGED <<cells, items>>
    /\ UNCHANGED <<floating, reading>>

-----------------------------------------------------------------------------
\* _gck_builder_prepare_in and the first C_GetAttributeValue, which gives sizes
PreparedIn(l, lengths) == [i \in DOMAIN l |-> Attr(l[i].type, NoCell, lengths[i], "any")]

PrepareIn(b, lengths) ==
    /\ Idle(b) /\ DOMAIN lengths = DOMAIN items[b]
    /\ items' = [items EXCEPT ![b] = PreparedIn(@, lengths)]
    /\ cells' = UnrefAll(cells, items[b])
    /\ reading' = [reading EXCEPT ![b] = "asked"]
    /\ UNCHANGED <<refs, floating, holders>>

Unset(n) == [i \in 1 .. n |-> UnsetByte]

\* _gck_builder_commit_in: each attribute of some length gets blank memory of its
\* size.  These are the ways to place it.
Sized(b) == {i \in DOMAIN items[b] : items[b][i].length \notin {0, Invalid}}
Placings(b) == {f \in [Sized(b) -> Cell \ DOMAIN cells] : IsInjective(f)}

Committed(b, place) ==
    [list |-> [i \in DOMAIN items[b] |->
                  [items[b][i] EXCEPT !.cell = IF i \in Sized(b) THEN place[i] ELSE NoCell,
                                      !.memory = Memory(b)]],
     cells |-> [c \in DOMAIN cells \union Range(place) |->
                   IF c \in DOMAIN cells THEN cells[c]
                   ELSE LET i == CHOOSE j \in Sized(b) : place[j] = c
                        IN  [refs |-> 1, secure |-> b \in SecureBuilder,
                             data |-> Unset(items[b][i].length)]]]

\* C_GetAttributeValue writes the value of an attribute a into its block, or finds that
\* it has no value any more.  The value may have changed since its size was asked for,
\* and the call fails when it does not fit any more.
Fits(a, data) == data = Gone \/ a.length = Invalid \/ Len(data) <= a.length

WrittenLength(a, data) == IF data = Gone \/ a.length = Invalid THEN Invalid ELSE Len(data)

WrittenBlock(block, data) ==
    IF data = Gone THEN block ELSE data \o SubSeq(block, Len(data) + 1, Len(block))

Received(s, values) ==
    LET into(c) == {i \in DOMAIN s.list : s.list[i].cell = c}
    IN  [list |-> [i \in DOMAIN s.list |->
                      [s.list[i] EXCEPT !.length = WrittenLength(s.list[i], values[i])]],
         cells |-> [c \in DOMAIN s.cells |->
                       IF into(c) = {} THEN s.cells[c]
                       ELSE LET i == CHOOSE j \in into(c) : TRUE
                            IN  [s.cells[c] EXCEPT
                                    !.data = WrittenBlock(@, values[i])]]]

\* The second C_GetAttributeValue, after which perform_get_attributes has done
CommitIn(b, values) ==
    /\ reading[b] = "asked" /\ DOMAIN values = DOMAIN items[b]
    /\ \A i \in DOMAIN values : Fits(items[b][i], values[i])
    /\ Placings(b) # {}
    /\ LET place == CHOOSE f \in Placings(b) : TRUE
       IN  Becomes(b, Received(Committed(b, place), values))
    /\ reading' = [reading EXCEPT ![b] = "read"]
    /\ UNCHANGED <<refs, floating, holders>>

\* Either C_GetAttributeValue failed, and free_get_attributes clears the builder, with
\* the blocks that it may have been given for the second.
ReadFails(b) ==
    /\ reading[b] = "asked"
    /\ items' = [items EXCEPT ![b] = << >>]
    /\ reading' = [reading EXCEPT ![b] = "no"]
    /\ UNCHANGED <<cells, refs, floating, holders>>

-----------------------------------------------------------------------------
Init ==
    /\ cells = << >>
    /\ items = [b \in Builder |-> << >>]
    /\ refs = << >> /\ floating = {}
    /\ holders = [x \in Bundle |-> {}]
    /\ reading = [b \in Builder |-> "no"]

\* Somebody has the bundle in hand.
Usable(x) == x \in DOMAIN refs /\ (x \in floating \/ holders[x] # {})

Build(b) ==
    \/ \E t \in Type, set \in BOOLEAN :
          \/ \E data \in Bytes : PutData(b, t, data, set) \/ TakeData(b, t, data)
          \/ \E length \in {0, Invalid} : PutNone(b, t, length, set)
    \/ \E x \in Bundle :
          /\ Usable(x)
          /\ SetAll(b, x) \/ \E T \in SUBSET Type : AddPart(b, x, T)
    \/ \E c \in Builder : BuilderCopy(b, c)
    \/ Clear(b)
    \/ \E x \in Bundle, t \in Thread, floats \in BOOLEAN : End(b, x, t, floats)

Own(t) ==
    \E x \in Bundle :
        \/ \E ty \in Type, data \in Bytes : NewAttribute(x, ty, data, t)
        \/ \E y \in Bundle, i \in 1 .. MaxItems : Usable(y) /\ DupAttribute(x, y, i, t)
        \/ Ref(x, t) \/ RefSink(x, t) \/ Unref(x, t)

Fill(b) ==
    \/ \E lengths \in [DOMAIN items[b] -> {Invalid} \union {Len(d) : d \in Bytes}] :
          PrepareIn(b, lengths)
    \/ \E values \in [DOMAIN items[b] -> {Gone} \union {d \in Bytes : ~Secret(d)}] :
          CommitIn(b, values)
    \/ ReadFails(b)

Next ==
    \/ \E b \in Builder : Build(b) \/ Fill(b)
    \/ \E t \in Thread : Own(t)

Spec == Init /\ [][Next]_vars

-----------------------------------------------------------------------------
\* The places where the value c is: a list, and where it is in the list.
Places(c) == UNION {{<<p, i>> : i \in {j \in DOMAIN items[p] : items[p][j].cell = c}} :
                        p \in DOMAIN items}

\* The count in front of a value is the number of attributes that have it, in
\* builders and in bundles, and the count of a bundle is the number of those who
\* hold it: nothing is freed under a reader, and nothing stays for nobody.
CountsAreHolders ==
    /\ \A c \in DOMAIN cells :
          /\ cells[c].refs > 0
          /\ cells[c].refs = Cardinality(Places(c))
    /\ \A p \in DOMAIN items : \A i \in DOMAIN items[p] :
          items[p][i].cell \in DOMAIN cells \union {NoCell}
    /\ \A x \in DOMAIN refs :
          /\ refs[x] > 0
          /\ refs[x] = Cardinality(holders[x]) + IF x \in floating THEN 1 ELSE 0

\* A value that came from secure memory is in secure memory, and so is what was copied
\* into a builder made with GCK_BUILDER_SECURE_MEMORY by gck_builder_add_data and
\* _set_data, and what such a builder read from a token, in every list that comes to
\* have it.  What gck_builder_take_data was given, and what a secure builder shares
\* with the list it was copied from, stays where it was: the builder moves neither.
SecretsStaySecure ==
    /\ \A c \in DOMAIN cells : Secret(cells[c].data) => cells[c].secure
    /\ \A p \in DOMAIN items : \A i \in DOMAIN items[p] :
          items[p][i].memory = "secure" /\ items[p][i].cell # NoCell =>
              cells[items[p][i].cell].secure

\* However values are shared, lists do not disturb each other: a bundle keeps
\* what the builder had, and a builder changes only as it is told.
Contents == [p \in DOMAIN items |-> [i \in DOMAIN items[p] |->
                 [type |-> items[p][i].type, value |-> Value(items[p][i])]]]
Lists == INSTANCE AttributeLists WITH
            lists <- Contents, busy <- {b \in Builder : reading[b] # "no"},
            Content <- {[valid |-> FALSE, bytes |-> << >>], [valid |-> TRUE, bytes |-> << >>]}
                       \union {[valid |-> TRUE, bytes |-> d] : d \in Bytes}
ImplementsLists == Lists!Spec
=============================================================================
