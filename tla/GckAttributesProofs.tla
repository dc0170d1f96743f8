------------------------ MODULE GckAttributesProofs ------------------------
(***************************************************************************)
(* Proofs about attributes, builders and bundles: for any number of them,  *)
(* and of threads, types and values, the counts are those of the holders,  *)
(* and secrets stay in secure memory.                                      *)
(*                                                                         *)
(* The operations of a builder work on a list and the blocks of memory.    *)
(* What is shown of each is how it changes Spare, by how much the count of *)
(* a block exceeds its uses in the list: it must be the number of uses in  *)
(* all other lists.                                                        *)
(***************************************************************************)
EXTENDS GckAttributes, ListLemmas

-----------------------------------------------------------------------------
(* Types.                                                                  *)

BlockRecord == [refs : Nat \ {0}, secure : BOOLEAN, data : Seq(Nat)]
AttrRecord == [type : Type, cell : Cell \union {NoCell}, length : Nat \union {Invalid},
               memory : {"secure", "any"}]
List == Seq(AttrRecord)

BlocksOK(cs) == DOMAIN cs \subseteq Cell /\ cs \in [DOMAIN cs -> BlockRecord]

Bit(b) == IF b THEN 1 ELSE 0

-----------------------------------------------------------------------------
(* Counting the uses of a block.                                           *)

Uses(l, c) == {i \in DOMAIN l : l[i].cell = c}
UseCount(l, c) == Cardinality(Uses(l, c))
RefCount(cs, c) == IF c \in DOMAIN cs THEN cs[c].refs ELSE 0
Spare(s, c) == RefCount(s.cells, c) - UseCount(s.list, c)

StateOK(s) ==
    /\ s = [list |-> s.list, cells |-> s.cells]
    /\ s.list \in List /\ BlocksOK(s.cells)
    /\ \A c \in Cell : Spare(s, c) \in Nat

LEMMA UsesFinite ==
    ASSUME NEW l \in List, NEW c
    PROVE  /\ IsFiniteSet(Uses(l, c)) /\ UseCount(l, c) \in Nat
           /\ \A i \in DOMAIN l : l[i].cell = c => UseCount(l, c) > 0
  <1>1. IsFiniteSet(1 .. Len(l))
    BY FS_Interval
  <1>2. Uses(l, c) \in SUBSET (1 .. Len(l))
    BY DEF Uses
  <1>3. IsFiniteSet(Uses(l, c))
    BY <1>1, <1>2, FS_Subset
  <1>4. UseCount(l, c) \in Nat
    BY <1>3, FS_CardinalityType DEF UseCount
  <1>5. ASSUME NEW i \in DOMAIN l, l[i].cell = c PROVE UseCount(l, c) > 0
    <2>1. Uses(l, c) # {}
      BY <1>5 DEF Uses
    <2>2. QED
      BY <1>3, <1>4, <2>1, FS_EmptySet DEF UseCount
  <1>6. QED
    BY <1>3, <1>4, <1>5

LEMMA UsesEmpty == \A c : UseCount(<< >>, c) = 0
  <1> TAKE c
  <1>1. Uses(<< >>, c) = {}
    BY DEF Uses
  <1>2. QED
    BY <1>1, FS_EmptySet DEF UseCount

LEMMA UsesAppend ==
    ASSUME NEW l \in List, NEW a \in AttrRecord, NEW c
    PROVE  UseCount(Append(l, a), c) = UseCount(l, c) + Bit(a.cell = c)
  <1> DEFINE n == Len(l)
             m == Append(l, a)
  <1>1. n \in Nat /\ DOMAIN l = 1 .. n /\ DOMAIN m = 1 .. n + 1
    OBVIOUS
  <1>2. \A i \in 1 .. n : m[i] = l[i]
    OBVIOUS
  <1>3. m[n + 1] = a
    OBVIOUS
  <1> HIDE DEF m
  <1>4. \A i : i \in 1 .. n + 1 <=> i \in 1 .. n \/ i = n + 1
    BY <1>1
  <1>5. n + 1 \notin 1 .. n
    BY <1>1
  <1>6. IsFiniteSet(Uses(l, c)) /\ UseCount(l, c) \in Nat
    BY UsesFinite
  <1>7. CASE a.cell = c
    <2>1. Uses(m, c) = Uses(l, c) \union {n + 1} /\ n + 1 \notin Uses(l, c)
      BY <1>1, <1>2, <1>3, <1>4, <1>5, <1>7 DEF Uses
    <2>2. QED
      BY ZenonT(60), <1>6, <1>7, <2>1, FS_AddElement DEF UseCount, Bit, m
  <1>8. CASE a.cell # c
    <2>1. Uses(m, c) = Uses(l, c)
      BY <1>1, <1>2, <1>3, <1>4, <1>5, <1>8 DEF Uses
    <2>2. QED
      BY <1>6, <1>8, <2>1 DEF UseCount, Bit, m
  <1>9. QED
    BY <1>7, <1>8

LEMMA UsesExcept ==
    ASSUME NEW l \in List, NEW j \in DOMAIN l, NEW a \in AttrRecord, NEW c
    PROVE  UseCount([l EXCEPT ![j] = a], c) =
               UseCount(l, c) - Bit(l[j].cell = c) + Bit(a.cell = c)
  <1> DEFINE m == [l EXCEPT ![j] = a]
  <1>1. DOMAIN m = DOMAIN l /\ m[j] = a /\ \A i \in DOMAIN l : i # j => m[i] = l[i]
    OBVIOUS
  <1> HIDE DEF m
  <1>2. IsFiniteSet(Uses(l, c)) /\ UseCount(l, c) \in Nat
    BY UsesFinite
  <1>3. IsFiniteSet(Uses(l, c) \ {j}) /\ Cardinality(Uses(l, c) \ {j}) = UseCount(l, c) - Bit(l[j].cell = c)
    <2>1. j \in Uses(l, c) <=> l[j].cell = c
      BY DEF Uses
    <2>2. QED
      BY <1>2, <2>1, FS_RemoveElement DEF Bit, UseCount
  <1>4. CASE a.cell = c
    <2>1. Uses(m, c) = (Uses(l, c) \ {j}) \union {j}
      BY <1>1, <1>4 DEF Uses
    <2>2. Cardinality(Uses(m, c)) = Cardinality(Uses(l, c) \ {j}) + 1
      BY <1>3, <2>1, FS_AddElement
    <2>3. QED
      BY <1>2, <1>3, <1>4, <2>2 DEF UseCount, Bit, m
  <1>5. CASE a.cell # c
    <2>1. Uses(m, c) = Uses(l, c) \ {j}
      BY <1>1, <1>5 DEF Uses
    <2>2. UseCount(m, c) = UseCount(l, c) - Bit(l[j].cell = c) /\ Bit(a.cell = c) = 0
      BY <1>3, <1>5, <2>1 DEF UseCount, Bit
    <2>3. UseCount(m, c) = UseCount(l, c) - Bit(l[j].cell = c) + Bit(a.cell = c)
      BY <1>2, <2>2 DEF Bit
    <2>4. QED
      BY <2>3 DEF m
  <1>6. QED
    BY <1>4, <1>5

-----------------------------------------------------------------------------
(* Counting the uses of a block in all lists.                              *)

PlacesIn(it, P, c) == UNION {{p} \X Uses(it[p], c) : p \in P}
Rest(it, p, c) == Cardinality(PlacesIn(it, DOMAIN it \ {p}, c))

Counted(it, cs) ==
    \A c \in Cell : /\ IsFiniteSet(PlacesIn(it, DOMAIN it, c))
                    /\ RefCount(cs, c) = Cardinality(PlacesIn(it, DOMAIN it, c))

LEMMA PlacesAreIn == \A c : Places(c) = PlacesIn(items, DOMAIN items, c)
  <1> TAKE c
  <1>1. \A p : {<<p, i>> : i \in {j \in DOMAIN items[p] : items[p][j].cell = c}}
                  = {p} \X Uses(items[p], c)
    BY DEF Uses
  <1>2. QED
    BY <1>1 DEF Places, PlacesIn

\* What counts are the lists, not where they are kept.
LEMMA PlacesSame ==
    ASSUME NEW it, NEW jt, NEW P, \A p \in P : it[p] = jt[p], NEW c
    PROVE  PlacesIn(it, P, c) = PlacesIn(jt, P, c)
  BY DEF PlacesIn

\* One list apart from the others.
LEMMA PlacesSplit ==
    ASSUME NEW it, NEW P, NEW p \in P, it[p] \in List, NEW c
    PROVE  /\ IsFiniteSet(PlacesIn(it, P, c)) <=> IsFiniteSet(PlacesIn(it, P \ {p}, c))
           /\ IsFiniteSet(PlacesIn(it, P, c)) =>
                 Cardinality(PlacesIn(it, P, c)) =
                     Cardinality(PlacesIn(it, P \ {p}, c)) + UseCount(it[p], c)
  <1> DEFINE A == PlacesIn(it, P, c)
             B == PlacesIn(it, P \ {p}, c)
             S == {p} \X Uses(it[p], c)
  <1>1. A = B \union S
    BY DEF PlacesIn
  <1>2. B \intersect S = {}
    BY DEF PlacesIn
  <1>3. IsFiniteSet(Uses(it[p], c))
    BY UsesFinite
  <1>4. IsFiniteSet({p}) /\ Cardinality({p}) = 1
    BY FS_Singleton
  <1>5. IsFiniteSet(S) /\ Cardinality(S) = 1 * UseCount(it[p], c)
    BY <1>3, <1>4, FS_Product DEF UseCount
  <1>6. UseCount(it[p], c) \in Nat
    BY UsesFinite
  <1> HIDE DEF A, B, S
  <1>7. Cardinality(S) = UseCount(it[p], c)
    BY <1>5, <1>6
  <1>8. IsFiniteSet(B) => IsFiniteSet(A) /\ Cardinality(A) = Cardinality(B) + Cardinality(S)
    <2> HAVE IsFiniteSet(B)
    <2>1. /\ IsFiniteSet(B \union S)
          /\ Cardinality(B \union S) = Cardinality(B) + Cardinality(S) - Cardinality({})
      BY <1>2, <1>5, FS_Union
    <2>2. Cardinality(B) \in Nat /\ Cardinality(S) \in Nat /\ Cardinality({}) = 0
      BY <1>5, FS_CardinalityType, FS_EmptySet
    <2>3. QED
      BY <1>1, <2>1, <2>2
  <1>9. IsFiniteSet(A) => IsFiniteSet(B)
    BY <1>1, FS_Subset
  <1>10. QED
    BY <1>7, <1>8, <1>9 DEF A, B

\* The uses of l and those of the lists other than p are all that there are.
Accounts(it, p, l, cs) ==
    \A c \in Cell : /\ IsFiniteSet(PlacesIn(it, DOMAIN it \ {p}, c))
                    /\ RefCount(cs, c) = Rest(it, p, c) + UseCount(l, c)

\* A list is taken from those that are counted, ...
LEMMA TakeOut ==
    ASSUME NEW it, NEW cs, Counted(it, cs), NEW p \in DOMAIN it, it[p] \in List
    PROVE  Accounts(it, p, it[p], cs)
  <1> SUFFICES ASSUME NEW c \in Cell
               PROVE  /\ IsFiniteSet(PlacesIn(it, DOMAIN it \ {p}, c))
                      /\ RefCount(cs, c) = Rest(it, p, c) + UseCount(it[p], c)
    BY DEF Accounts
  <1>1. QED
    BY PlacesSplit, FS_CardinalityType DEF Counted, Rest

LEMMA TakeNone ==
    ASSUME NEW it, NEW cs, Counted(it, cs), NEW p, p \notin DOMAIN it
    PROVE  Accounts(it, p, << >>, cs)
  <1> SUFFICES ASSUME NEW c \in Cell
               PROVE  /\ IsFiniteSet(PlacesIn(it, DOMAIN it \ {p}, c))
                      /\ RefCount(cs, c) = Rest(it, p, c) + UseCount(<< >>, c)
    BY DEF Accounts
  <1>1. DOMAIN it \ {p} = DOMAIN it
    OBVIOUS
  <1>2. UseCount(<< >>, c) = 0
    BY UsesEmpty
  <1>3. QED
    BY <1>1, <1>2, FS_CardinalityType DEF Counted, Rest

\* ... and put among them.
LEMMA PutIn ==
    ASSUME NEW it, NEW jt, NEW cs, NEW p \in DOMAIN jt, jt[p] \in List,
           DOMAIN it \ {p} = DOMAIN jt \ {p}, \A q \in DOMAIN jt \ {p} : it[q] = jt[q],
           Accounts(it, p, jt[p], cs)
    PROVE  Counted(jt, cs)
  <1> SUFFICES ASSUME NEW c \in Cell
               PROVE  /\ IsFiniteSet(PlacesIn(jt, DOMAIN jt, c))
                      /\ RefCount(cs, c) = Cardinality(PlacesIn(jt, DOMAIN jt, c))
    BY DEF Counted
  <1>1. PlacesIn(it, DOMAIN jt \ {p}, c) = PlacesIn(jt, DOMAIN jt \ {p}, c)
    BY PlacesSame
  <1>2. QED
    BY <1>1, PlacesSplit DEF Rest, Accounts

LEMMA LeaveOut ==
    ASSUME NEW it, NEW jt, NEW cs, NEW p,
           DOMAIN it \ {p} = DOMAIN jt, \A q \in DOMAIN jt : it[q] = jt[q],
           Accounts(it, p, << >>, cs)
    PROVE  Counted(jt, cs)
  <1> SUFFICES ASSUME NEW c \in Cell
               PROVE  /\ IsFiniteSet(PlacesIn(jt, DOMAIN jt, c))
                      /\ RefCount(cs, c) = Cardinality(PlacesIn(jt, DOMAIN jt, c))
    BY DEF Counted
  <1>1. PlacesIn(it, DOMAIN jt, c) = PlacesIn(jt, DOMAIN jt, c)
    BY PlacesSame
  <1>2. UseCount(<< >>, c) = 0
    BY UsesEmpty
  <1>3. /\ IsFiniteSet(PlacesIn(it, DOMAIN jt, c))
        /\ RefCount(cs, c) = Cardinality(PlacesIn(it, DOMAIN jt, c)) + UseCount(<< >>, c)
    BY DEF Rest, Accounts
  <1>4. Cardinality(PlacesIn(it, DOMAIN jt, c)) \in Nat
    BY <1>3, FS_CardinalityType
  <1>5. QED
    BY <1>1, <1>2, <1>3, <1>4

\* A list that is given to another place leaves the counts alone.
LEMMA Handed ==
    ASSUME NEW it, NEW jt, NEW cs, Counted(it, cs), NEW b \in DOMAIN it, NEW x,
           x \notin DOMAIN it, DOMAIN jt = DOMAIN it \union {x}, it[b] \in List,
           jt[b] = << >>, jt[x] = it[b], \A q \in DOMAIN it \ {b} : jt[q] = it[q]
    PROVE  Counted(jt, cs)
  <1> DEFINE kt == [q \in DOMAIN it |-> IF q = b THEN << >> ELSE it[q]]
  <1>1. DOMAIN kt = DOMAIN it /\ kt[b] = << >> /\ \A q \in DOMAIN it \ {b} : kt[q] = it[q]
    OBVIOUS
  <1>2. << >> \in List
    BY DEF List
  <1> HIDE DEF kt
  <1>3. x # b /\ x \notin DOMAIN kt
    BY <1>1
  <1>4. Accounts(it, b, it[b], cs)
    BY TakeOut
  <1>5. Accounts(kt, x, jt[x], cs)
    <2> SUFFICES ASSUME NEW c \in Cell
                 PROVE  /\ IsFiniteSet(PlacesIn(kt, DOMAIN kt \ {x}, c))
                        /\ RefCount(cs, c) = Rest(kt, x, c) + UseCount(jt[x], c)
      BY DEF Accounts
    <2>1. /\ IsFiniteSet(PlacesIn(it, DOMAIN it \ {b}, c))
          /\ RefCount(cs, c) = Rest(it, b, c) + UseCount(it[b], c)
      BY <1>4 DEF Accounts
    <2>2. PlacesIn(it, DOMAIN it \ {b}, c) = PlacesIn(kt, DOMAIN it \ {b}, c)
      BY <1>1, PlacesSame
    <2>3. /\ IsFiniteSet(PlacesIn(kt, DOMAIN it, c))
          /\ Cardinality(PlacesIn(kt, DOMAIN it, c)) = Rest(it, b, c) + UseCount(<< >>, c)
      BY <1>1, <1>2, <2>1, <2>2, PlacesSplit DEF Rest
    <2>4. DOMAIN kt \ {x} = DOMAIN it
      BY <1>1
    <2>5. UseCount(<< >>, c) = 0 /\ Rest(it, b, c) \in Nat
      BY <2>1, UsesEmpty, FS_CardinalityType DEF Rest
    <2>6. Rest(kt, x, c) = Rest(it, b, c)
      BY <2>3, <2>4, <2>5 DEF Rest
    <2>7. QED
      BY <2>1, <2>3, <2>4, <2>6
  <1>6. DOMAIN kt \ {x} = DOMAIN jt \ {x} /\ \A q \in DOMAIN jt \ {x} : kt[q] = jt[q]
    BY <1>1
  <1>7. x \in DOMAIN jt /\ jt[x] \in List
    OBVIOUS
  <1>8. QED
    BY <1>5, <1>6, <1>7, PutIn


-----------------------------------------------------------------------------
(* What the operations do with the counts.                                 *)

\* Blocks may go, and those that stay have what they had.
Remains(cs, r) ==
    /\ DOMAIN r \subseteq DOMAIN cs
    /\ \A c \in DOMAIN r : r[c].data = cs[c].data /\ r[c].secure = cs[c].secure

LEMMA RefCountType ==
    ASSUME NEW cs, BlocksOK(cs), NEW c
    PROVE  RefCount(cs, c) \in Nat /\ (c \in DOMAIN cs <=> RefCount(cs, c) > 0)
  <1>1. CASE c \in DOMAIN cs
    <2>1. cs[c] \in BlockRecord
      BY <1>1 DEF BlocksOK
    <2>2. cs[c].refs \in Nat \ {0}
      BY <2>1 DEF BlockRecord
    <2>3. QED
      BY <1>1, <2>2 DEF RefCount
  <1>2. CASE c \notin DOMAIN cs
    BY <1>2 DEF RefCount
  <1>3. QED
    BY <1>1, <1>2

\* Every value of a list is there.
LEMMA ListIsHeld ==
    ASSUME NEW s, StateOK(s)
    PROVE  \A i \in DOMAIN s.list : s.list[i].cell \in DOMAIN s.cells \union {NoCell}
  <1> SUFFICES ASSUME NEW i \in DOMAIN s.list, s.list[i].cell # NoCell
               PROVE  s.list[i].cell \in DOMAIN s.cells
    OBVIOUS
  <1> DEFINE c == s.list[i].cell
  <1>1. s.list[i] \in AttrRecord
    BY DEF StateOK, List
  <1>2. c \in Cell
    BY <1>1 DEF AttrRecord
  <1>3. UseCount(s.list, c) \in Nat /\ UseCount(s.list, c) > 0
    BY UsesFinite DEF StateOK
  <1>4. RefCount(s.cells, c) - UseCount(s.list, c) \in Nat /\ RefCount(s.cells, c) \in Nat
    BY <1>2, RefCountType DEF StateOK, Spare
  <1>5. RefCount(s.cells, c) > 0
    BY <1>3, <1>4
  <1>6. QED
    BY <1>5, RefCountType DEF StateOK

LEMMA UnrefKeeps ==
    ASSUME NEW cs, BlocksOK(cs), NEW c \in DOMAIN cs \union {NoCell}
    PROVE  /\ BlocksOK(ValueUnref(cs, c)) /\ Remains(cs, ValueUnref(cs, c))
           /\ \A d \in Cell : RefCount(ValueUnref(cs, c), d) = RefCount(cs, d) - Bit(c = d)
  <1> DEFINE r == ValueUnref(cs, c)
  <1>0. \A d \in DOMAIN cs : cs[d] \in BlockRecord
    BY DEF BlocksOK
  <1>1. CASE c = NoCell
    <2>1. r = cs
      BY <1>1 DEF ValueUnref
    <2>2. \A d \in Cell : Bit(c = d) = 0
      BY <1>1, MemoryAssumption DEF NoCell, Bit
    <2>3. \A d \in Cell : RefCount(cs, d) \in Nat
      BY RefCountType
    <2>4. QED
      BY <2>1, <2>2, <2>3 DEF Remains
  <1>2. CASE c # NoCell /\ cs[c].refs = 1
    <2>1. DOMAIN r = DOMAIN cs \ {c} /\ \A d \in DOMAIN r : r[d] = cs[d]
      BY <1>2 DEF ValueUnref, Restrict
    <2>2. r = [d \in DOMAIN cs \ {c} |-> cs[d]]
      BY <1>2 DEF ValueUnref, Restrict
    <2> HIDE DEF r
    <2>3. BlocksOK(r) /\ Remains(cs, r)
      BY <1>0, <2>1, <2>2 DEF BlocksOK, Remains
    <2>4. ASSUME NEW d \in Cell PROVE RefCount(r, d) = RefCount(cs, d) - Bit(c = d)
      <3>1. RefCount(cs, d) \in Nat
        BY RefCountType
      <3>2. CASE d = c
        BY <1>2, <2>1, <3>2 DEF RefCount, Bit
      <3>3. CASE d # c
        BY <2>1, <3>1, <3>3 DEF RefCount, Bit
      <3>4. QED
        BY <3>2, <3>3
    <2>5. QED
      BY <2>3, <2>4 DEF r
  <1>3. CASE c # NoCell /\ cs[c].refs # 1
    <2>1. r = [cs EXCEPT ![c].refs = @ - 1] /\ c \in DOMAIN cs
      BY <1>3 DEF ValueUnref
    <2>2. cs[c] \in BlockRecord /\ cs[c].refs \in Nat \ {0, 1}
      BY <1>0, <1>3, <2>1 DEF BlockRecord
    <2>3. /\ DOMAIN r = DOMAIN cs /\ \A d \in DOMAIN cs \ {c} : r[d] = cs[d]
          /\ r[c] = [cs[c] EXCEPT !.refs = @ - 1]
      BY <2>1
    <2>4. r = [d \in DOMAIN cs |-> r[d]]
      BY <2>1
    <2> HIDE DEF r
    <2>5. /\ r[c] \in BlockRecord /\ r[c].refs = cs[c].refs - 1
          /\ r[c].data = cs[c].data /\ r[c].secure = cs[c].secure
      BY <2>2, <2>3 DEF BlockRecord
    <2>6. \A d \in DOMAIN cs : r[d] \in BlockRecord
      BY <1>0, <2>3, <2>5
    <2>7. BlocksOK(r) /\ Remains(cs, r)
      BY <2>3, <2>4, <2>5, <2>6 DEF BlocksOK, Remains
    <2>8. ASSUME NEW d \in Cell PROVE RefCount(r, d) = RefCount(cs, d) - Bit(c = d)
      <3>1. RefCount(cs, d) \in Nat
        BY RefCountType
      <3>2. CASE d = c
        BY <2>1, <2>3, <2>5, <3>2 DEF RefCount, Bit
      <3>3. CASE d # c
        BY <2>1, <2>3, <3>1, <3>3 DEF RefCount, Bit
      <3>4. QED
        BY <3>2, <3>3
    <2>9. QED
      BY <2>7, <2>8 DEF r
  <1>4. QED
    BY <1>1, <1>2, <1>3

LEMMA RefKeeps ==
    ASSUME NEW cs, BlocksOK(cs), NEW c \in DOMAIN cs
    PROVE  /\ BlocksOK(ValueRef(cs, c)) /\ Remains(cs, ValueRef(cs, c))
           /\ DOMAIN ValueRef(cs, c) = DOMAIN cs
           /\ \A d \in Cell : RefCount(ValueRef(cs, c), d) = RefCount(cs, d) + Bit(c = d)
  <1> DEFINE r == ValueRef(cs, c)
  <1>0. \A d \in DOMAIN cs : cs[d] \in BlockRecord
    BY DEF BlocksOK
  <1>1. r = [cs EXCEPT ![c].refs = @ + 1] /\ c \in DOMAIN cs
    BY DEF ValueRef
  <1>2. cs[c] \in BlockRecord /\ cs[c].refs \in Nat \ {0}
    BY <1>0, <1>1 DEF BlockRecord
  <1>3. /\ DOMAIN r = DOMAIN cs /\ \A d \in DOMAIN cs \ {c} : r[d] = cs[d]
        /\ r[c] = [cs[c] EXCEPT !.refs = @ + 1]
    BY <1>1
  <1>4. r = [d \in DOMAIN cs |-> r[d]]
    BY <1>1
  <1> HIDE DEF r
  <1>5. /\ r[c] \in BlockRecord /\ r[c].refs = cs[c].refs + 1
        /\ r[c].data = cs[c].data /\ r[c].secure = cs[c].secure
    BY <1>2, <1>3 DEF BlockRecord
  <1>6. \A d \in DOMAIN cs : r[d] \in BlockRecord
    BY <1>0, <1>3, <1>5
  <1>7. BlocksOK(r) /\ Remains(cs, r)
    BY <1>3, <1>4, <1>5, <1>6 DEF BlocksOK, Remains
  <1>8. ASSUME NEW d \in Cell PROVE RefCount(r, d) = RefCount(cs, d) + Bit(c = d)
    <2>1. RefCount(cs, d) \in Nat
      BY RefCountType
    <2>2. CASE d = c
      BY <1>1, <1>3, <1>5, <2>2 DEF RefCount, Bit
    <2>3. CASE d # c
      BY <1>1, <1>3, <2>1, <2>3 DEF RefCount, Bit
    <2>4. QED
      BY <2>2, <2>3
  <1>9. QED
    BY <1>3, <1>7, <1>8 DEF r

LEMMA FindIndex ==
    ASSUME NEW l \in List, NEW t
    PROVE  /\ Find(l, t) = 0 \/ Find(l, t) \in DOMAIN l
           /\ Find(l, t) # 0 => l[Find(l, t)].type = t
           /\ Find(l, t) = 0 => \A i \in DOMAIN l : l[i].type # t
  <1> DEFINE Of == {i \in DOMAIN l : l[i].type = t}
  <1>1. Find(l, t) = IF Of = {} THEN 0 ELSE CHOOSE i \in Of : \A j \in Of : i <= j
    BY DEF Find
  <1>2. Of \subseteq Nat \ {0} /\ Of \subseteq DOMAIN l /\ \A i \in Of : l[i].type = t
    BY DEF List
  <1>3. CASE Of = {}
    BY <1>1, <1>3
  <1>4. CASE Of # {}
    <2>1. \E i \in Of : \A j \in Of : i <= j
      BY <1>2, <1>4, LeastNumber
    <2>2. (CHOOSE i \in Of : \A j \in Of : i <= j) \in Of
      BY <2>1
    <2>3. QED
      BY <1>1, <1>2, <1>4, <2>2
  <1>5. QED
    BY <1>3, <1>4

LEMMA PushKeeps ==
    ASSUME NEW s, StateOK(s), NEW a \in AttrRecord,
           \A c \in Cell : Spare(s, c) >= Bit(a.cell = c)
    PROVE  /\ StateOK(Push(s, a)) /\ Push(s, a).cells = s.cells
           /\ \A c \in Cell : Spare(Push(s, a), c) = Spare(s, c) - Bit(a.cell = c)
           /\ \E i \in DOMAIN Push(s, a).list : Push(s, a).list[i] = a
  <1> DEFINE r == Push(s, a)
  <1>1. s = [list |-> s.list, cells |-> s.cells] /\ s.list \in List /\ BlocksOK(s.cells)
    BY DEF StateOK
  <1>2. r = [list |-> Append(s.list, a), cells |-> s.cells]
    BY <1>1 DEF Push
  <1>3. Append(s.list, a) \in List
    BY <1>1 DEF List
  <1>4. r.list = Append(s.list, a) /\ r.cells = s.cells /\ r = [list |-> r.list, cells |-> r.cells]
    BY <1>2
  <1> HIDE DEF r
  <1>5. ASSUME NEW c \in Cell
        PROVE  Spare(r, c) = Spare(s, c) - Bit(a.cell = c) /\ Spare(r, c) \in Nat
    <2>1. UseCount(r.list, c) = UseCount(s.list, c) + Bit(a.cell = c)
      BY <1>1, <1>4, UsesAppend
    <2>2. UseCount(s.list, c) \in Nat /\ RefCount(s.cells, c) \in Nat /\ Bit(a.cell = c) \in Nat
      BY <1>1, UsesFinite, RefCountType DEF Bit
    <2>3. Spare(s, c) \in Nat /\ Spare(s, c) >= Bit(a.cell = c)
      BY DEF StateOK
    <2>4. Spare(r, c) = Spare(s, c) - Bit(a.cell = c)
      BY <1>4, <2>1, <2>2 DEF Spare
    <2>5. QED
      BY <2>2, <2>3, <2>4
  <1>6. StateOK(r)
    BY <1>1, <1>3, <1>4, <1>5 DEF StateOK
  <1>7. \E i \in DOMAIN Append(s.list, a) : Append(s.list, a)[i] = a
    <2>1. Len(s.list) + 1 \in DOMAIN Append(s.list, a) /\ Append(s.list, a)[Len(s.list) + 1] = a
      BY <1>1 DEF List
    <2>2. QED
      BY <2>1
  <1>8. QED
    BY <1>4, <1>5, <1>6, <1>7 DEF r

\* An attribute is replaced, and its value lost.
Replaced(s, i, a) ==
    [list |-> [s.list EXCEPT ![i] = a], cells |-> ValueUnref(s.cells, s.list[i].cell)]

LEMMA ReplacedKeeps ==
    ASSUME NEW s, StateOK(s), NEW i \in DOMAIN s.list, NEW a \in AttrRecord,
           \A c \in Cell : Spare(s, c) >= Bit(a.cell = c)
    PROVE  /\ StateOK(Replaced(s, i, a)) /\ Remains(s.cells, Replaced(s, i, a).cells)
           /\ \A c \in Cell : Spare(Replaced(s, i, a), c) = Spare(s, c) - Bit(a.cell = c)
           /\ \E j \in DOMAIN Replaced(s, i, a).list : Replaced(s, i, a).list[j] = a
  <1> DEFINE r == Replaced(s, i, a)
             m == [s.list EXCEPT ![i] = a]
             cs == ValueUnref(s.cells, s.list[i].cell)
  <1>1. s.list \in List /\ BlocksOK(s.cells)
    BY DEF StateOK
  <1>2. m \in List
    BY <1>1 DEF List
  <1>3. r.list = m /\ r.cells = cs /\ r = [list |-> r.list, cells |-> r.cells]
    BY DEF Replaced
  <1>4. s.list[i].cell \in DOMAIN s.cells \union {NoCell}
    BY ListIsHeld
  <1> HIDE DEF r
  <1>5. /\ BlocksOK(cs) /\ Remains(s.cells, cs)
        /\ \A d \in Cell : RefCount(cs, d) = RefCount(s.cells, d) - Bit(s.list[i].cell = d)
    BY <1>1, <1>4, UnrefKeeps
  <1>6. ASSUME NEW c \in Cell
        PROVE  Spare(r, c) = Spare(s, c) - Bit(a.cell = c) /\ Spare(r, c) \in Nat
    <2>1. UseCount(m, c) = UseCount(s.list, c) - Bit(s.list[i].cell = c) + Bit(a.cell = c)
      BY <1>1, UsesExcept
    <2> HIDE DEF m, cs
    <2>2. /\ UseCount(s.list, c) \in Nat /\ RefCount(s.cells, c) \in Nat
          /\ Bit(a.cell = c) \in Nat /\ Bit(s.list[i].cell = c) \in Nat
      BY <1>1, UsesFinite, RefCountType DEF Bit
    <2>3. Spare(s, c) \in Nat /\ Spare(s, c) >= Bit(a.cell = c)
      BY DEF StateOK
    <2>4. RefCount(cs, c) = RefCount(s.cells, c) - Bit(s.list[i].cell = c)
      BY <1>5
    <2>5. Spare(r, c) = Spare(s, c) - Bit(a.cell = c)
      BY <1>3, <2>1, <2>2, <2>4 DEF Spare
    <2>6. QED
      BY <2>2, <2>3, <2>5
  <1>7. StateOK(r)
    BY <1>2, <1>3, <1>5, <1>6 DEF StateOK
  <1>8. i \in DOMAIN m /\ m[i] = a
    BY <1>1
  <1>9. \E j \in DOMAIN r.list : r.list[j] = a
    BY <1>3, <1>8
  <1>10. QED
    BY <1>3, <1>5, <1>6, <1>7, <1>9 DEF r

LEMMA SetKeeps ==
    ASSUME NEW s, StateOK(s), NEW a \in AttrRecord,
           \A c \in Cell : Spare(s, c) >= Bit(a.cell = c)
    PROVE  /\ StateOK(Set(s, a)) /\ Remains(s.cells, Set(s, a).cells)
           /\ \A c \in Cell : Spare(Set(s, a), c) = Spare(s, c) - Bit(a.cell = c)
           /\ \E i \in DOMAIN Set(s, a).list : Set(s, a).list[i] = a
  <1> DEFINE i == Find(s.list, a.type)
  <1>1. CASE i = 0
    <2>1. Set(s, a) = Push(s, a)
      BY <1>1 DEF Set
    <2>2. Remains(s.cells, s.cells)
      BY DEF Remains
    <2>3. QED
      BY <2>1, <2>2, PushKeeps
  <1>2. CASE i # 0
    <2>1. s.list \in List
      BY DEF StateOK
    <2>2. i \in DOMAIN s.list
      BY <1>2, <2>1, FindIndex
    <2>3. Set(s, a) = Replaced(s, i, a)
      BY <1>2 DEF Set, Replaced
    <2> HIDE DEF i
    <2>4. QED
      BY <2>2, <2>3, ReplacedKeeps
  <1>3. QED
    BY <1>1, <1>2

LEMMA PutKeeps ==
    ASSUME NEW s, StateOK(s), NEW a \in AttrRecord, NEW set \in BOOLEAN,
           \A c \in Cell : Spare(s, c) >= Bit(a.cell = c)
    PROVE  /\ StateOK(Put(s, a, set)) /\ Remains(s.cells, Put(s, a, set).cells)
           /\ \A c \in Cell : Spare(Put(s, a, set), c) = Spare(s, c) - Bit(a.cell = c)
           /\ \E i \in DOMAIN Put(s, a, set).list : Put(s, a, set).list[i] = a
  <1>1. Remains(s.cells, s.cells)
    BY DEF Remains
  <1>2. CASE set
    BY <1>2, SetKeeps DEF Put
  <1>3. CASE ~set
    BY <1>1, <1>3, PushKeeps DEF Put
  <1>4. QED
    BY <1>2, <1>3

\* The list gets the use of the value that its count goes up for.
LEMMA CopyKeeps ==
    ASSUME NEW s, StateOK(s), NEW a \in AttrRecord, NEW set \in BOOLEAN,
           a.cell # NoCell => Spare(s, a.cell) > 0
    PROVE  /\ StateOK(Copy(s, a, set)) /\ Remains(s.cells, Copy(s, a, set).cells)
           /\ \A c \in Cell : Spare(Copy(s, a, set), c) = Spare(s, c)
  <1> DEFINE b == IF a.length = Invalid THEN [a EXCEPT !.cell = NoCell] ELSE a
             r == Put(s, b, set)
             q == Copy(s, a, set)
  <1>1. b \in AttrRecord /\ (a.length = Invalid => b.cell = NoCell) /\ (a.length # Invalid => b = a)
    BY DEF AttrRecord
  <1>2. a.cell \in Cell \union {NoCell} /\ NoCell \notin Cell
    BY MemoryAssumption DEF AttrRecord, NoCell
  <1>3. q = IF a.length = Invalid \/ a.cell = NoCell THEN r
            ELSE [r EXCEPT !.cells = ValueRef(@, a.cell)]
    BY DEF Copy
  <1> HIDE DEF b
  <1>4. ASSUME NEW c \in Cell PROVE Spare(s, c) >= Bit(b.cell = c)
    <2>1. Spare(s, c) \in Nat
      BY DEF StateOK
    <2>2. CASE b.cell = c
      <3>1. b = a
        BY <1>1, <1>2, <2>2
      <3>2. Spare(s, c) > 0
        BY <1>2, <2>2, <3>1
      <3>3. QED
        BY <2>1, <2>2, <3>2 DEF Bit
    <2>3. CASE b.cell # c
      BY <2>1, <2>3 DEF Bit
    <2>4. QED
      BY <2>2, <2>3
  <1>5. /\ StateOK(r) /\ Remains(s.cells, r.cells)
        /\ \A c \in Cell : Spare(r, c) = Spare(s, c) - Bit(b.cell = c)
        /\ \E i \in DOMAIN r.list : r.list[i] = b
    BY <1>1, <1>4, PutKeeps
  <1> HIDE DEF r, q
  <1>6. CASE a.length = Invalid \/ a.cell = NoCell
    <2>1. q = r /\ b.cell = NoCell
      BY <1>1, <1>3, <1>6
    <2>2. ASSUME NEW c \in Cell PROVE Spare(r, c) = Spare(s, c)
      <3>1. Bit(b.cell = c) = 0
        BY <1>2, <2>1 DEF Bit
      <3>2. Spare(s, c) \in Nat
        BY DEF StateOK
      <3>3. QED
        BY <1>5, <3>1, <3>2
    <2>3. QED
      BY <1>5, <2>1, <2>2 DEF q
  <1>7. CASE ~(a.length = Invalid \/ a.cell = NoCell)
    <2>1. b = a /\ a.cell \in Cell /\ q = [r EXCEPT !.cells = ValueRef(@, a.cell)]
      BY <1>1, <1>2, <1>3, <1>7
    <2>2. r = [list |-> r.list, cells |-> r.cells] /\ r.list \in List /\ BlocksOK(r.cells)
      BY <1>5 DEF StateOK
    <2>3. /\ q.list = r.list /\ q.cells = ValueRef(r.cells, a.cell)
          /\ q = [list |-> q.list, cells |-> q.cells]
      BY <2>1, <2>2
    <2>4. a.cell \in DOMAIN r.cells
      <3>1. PICK i \in DOMAIN r.list : r.list[i] = a
        BY <1>5, <2>1
      <3>2. r.list[i].cell \in DOMAIN r.cells \union {NoCell}
        BY <1>5, ListIsHeld
      <3>3. QED
        BY <1>7, <3>1, <3>2
    <2>5. /\ BlocksOK(q.cells) /\ Remains(r.cells, q.cells) /\ DOMAIN q.cells = DOMAIN r.cells
          /\ \A d \in Cell : RefCount(q.cells, d) = RefCount(r.cells, d) + Bit(a.cell = d)
      BY <2>2, <2>3, <2>4, RefKeeps
    <2>6. ASSUME NEW c \in Cell PROVE Spare(q, c) = Spare(s, c)
      <3>1. /\ UseCount(r.list, c) \in Nat /\ RefCount(r.cells, c) \in Nat
            /\ Bit(a.cell = c) \in Nat /\ Spare(s, c) \in Nat
        BY <2>2, UsesFinite, RefCountType DEF Bit, StateOK
      <3>2. Spare(r, c) = Spare(s, c) - Bit(a.cell = c)
        BY <1>5, <2>1
      <3>3. RefCount(q.cells, c) = RefCount(r.cells, c) + Bit(a.cell = c)
        BY <2>5
      <3>4. QED
        BY <2>3, <3>1, <3>2, <3>3 DEF Spare
    <2>7. Remains(s.cells, q.cells)
      BY <1>5, <2>5 DEF Remains
    <2>8. StateOK(q)
      BY <2>2, <2>3, <2>5, <2>6 DEF StateOK
    <2>9. QED
      BY <2>6, <2>7, <2>8 DEF q
  <1>8. QED
    BY <1>6, <1>7

-----------------------------------------------------------------------------
(* The loops over a list.                                                  *)

States == [list : List, cells : UNION {[D -> BlockRecord] : D \in SUBSET Cell}]

\* r can be used for s: no block is held by more or by fewer, and none was written to.
Follows(s, r) ==
    /\ StateOK(r) /\ Remains(s.cells, r.cells)
    /\ \A c \in Cell : Spare(r, c) = Spare(s, c)

LEMMA StatesAre == ASSUME NEW s, StateOK(s) PROVE s \in States
  <1>1. s = [list |-> s.list, cells |-> s.cells] /\ s.list \in List
    BY DEF StateOK
  <1>2. s.cells \in UNION {[D -> BlockRecord] : D \in SUBSET Cell}
    BY DEF StateOK, BlocksOK
  <1>3. QED
    BY <1>1, <1>2 DEF States

\* The values of l are also used by lists other than that of s.
Lent(s, l) == \A i \in DOMAIN l : l[i].cell # NoCell => Spare(s, l[i].cell) > 0

LEMMA CopyFollows ==
    ASSUME NEW s, StateOK(s), NEW r, Follows(s, r), NEW a \in AttrRecord, NEW set \in BOOLEAN,
           a.cell # NoCell => Spare(s, a.cell) > 0
    PROVE  Follows(s, Copy(r, a, set))
  <1> DEFINE q == Copy(r, a, set)
  <1>1. a.cell \in Cell \union {NoCell}
    BY DEF AttrRecord
  <1>2. a.cell # NoCell => Spare(r, a.cell) > 0
    BY <1>1 DEF Follows
  <1>3. StateOK(r)
    BY DEF Follows
  <1>4. /\ StateOK(q) /\ Remains(r.cells, q.cells)
        /\ \A c \in Cell : Spare(q, c) = Spare(r, c)
    BY <1>2, <1>3, CopyKeeps
  <1> HIDE DEF q
  <1>5. Remains(s.cells, q.cells)
    BY <1>4 DEF Follows, Remains
  <1>6. Follows(s, q)
    BY <1>4, <1>5 DEF Follows
  <1>7. QED
    BY <1>6 DEF q

LEMMA CopyAllSteps ==
    ASSUME NEW s, StateOK(s), NEW l \in List, Lent(s, l), NEW set \in BOOLEAN
    PROVE  \E copied : /\ copied[0] = s /\ CopyAll(s, l, set) = copied[Len(l)]
                       /\ \A i \in 1 .. Len(l) : copied[i] = Copy(copied[i - 1], l[i], set)
                       /\ \A i \in 0 .. Len(l) : Follows(s, copied[i])
  <1> DEFINE n == Len(l)
             X == {r \in States : Follows(s, r)}
             step == [i \in 1 .. n |-> [r \in X |-> Copy(r, l[i], set)]]
             G == [i \in 0 .. n |-> X]
             Equation(f) == f = [i \in 0 .. Len(l) |->
                                    IF i = 0 THEN s ELSE Copy(f[i - 1], l[i], set)]
             copied == CHOOSE f : Equation(f)
  <1>1. n \in Nat /\ DOMAIN l = 1 .. n /\ \A i \in 1 .. n : l[i] \in AttrRecord
    BY DEF List
  <1>2. s \in X
    <2>1. Follows(s, s)
      BY DEF Follows, Remains
    <2>2. QED
      BY <2>1, StatesAre
  <1>3. ASSUME NEW i \in 1 .. n, NEW r \in X PROVE Copy(r, l[i], set) \in X
    <2>1. Follows(s, r)
      OBVIOUS
    <2>2. l[i] \in AttrRecord /\ (l[i].cell # NoCell => Spare(s, l[i].cell) > 0)
      BY <1>1 DEF Lent
    <2>3. Follows(s, Copy(r, l[i], set))
      BY <2>1, <2>2, CopyFollows
    <2>4. QED
      BY <2>3, StatesAre DEF Follows
  <1>4. \A i \in 1 .. n : \A r \in G[i - 1] : step[i][r] \in G[i]
    <2> SUFFICES ASSUME NEW i \in 1 .. n, NEW r \in G[i - 1] PROVE step[i][r] \in G[i]
      OBVIOUS
    <2>1. i - 1 \in 0 .. n /\ i \in 0 .. n
      BY <1>1
    <2>2. r \in X
      BY <2>1
    <2>3. step[i][r] = Copy(r, l[i], set)
      BY <2>2
    <2>4. QED
      BY <1>3, <2>1, <2>2, <2>3
  <1>5. PICK g : /\ g = [i \in 0 .. n |-> g[i]]
                 /\ g[0] = s /\ \A i \in 1 .. n : g[i] = step[i][g[i - 1]]
                 /\ \A i \in 0 .. n : g[i] \in G[i]
    <2>1. s \in G[0]
      BY <1>1, <1>2
    <2> HIDE DEF n, step, G, X
    <2>2. \E g : Guided(g, n, G, s, step)
      BY <1>1, <1>4, <2>1, GuidedRecursion
    <2>3. QED
      BY <2>2 DEF Guided
  <1>6. \A i \in 1 .. n : g[i - 1] \in X /\ g[i] = Copy(g[i - 1], l[i], set)
    <2> SUFFICES ASSUME NEW i \in 1 .. n
                 PROVE  g[i - 1] \in X /\ g[i] = Copy(g[i - 1], l[i], set)
      OBVIOUS
    <2>1. i - 1 \in 0 .. n
      BY <1>1
    <2>2. g[i - 1] \in X
      BY <1>5, <2>1
    <2> HIDE DEF X
    <2>3. step[i][g[i - 1]] = Copy(g[i - 1], l[i], set)
      BY <2>2
    <2>4. QED
      BY <1>5, <2>2, <2>3
  <1>7. Equation(g)
    <2>1. \A i \in 0 .. n : i # 0 => i \in 1 .. n
      BY <1>1
    <2> HIDE DEF X, step
    <2>2. \A i \in 0 .. n : g[i] = IF i = 0 THEN s ELSE Copy(g[i - 1], l[i], set)
      BY <1>5, <1>6, <2>1
    <2>3. QED
      BY <1>5, <2>2
  <1>8. Equation(copied)
    <2> HIDE DEF Equation
    <2>1. QED
      BY <1>7
  <1>9. copied[0] = s /\ \A i \in 1 .. n : copied[i] = Copy(copied[i - 1], l[i], set)
    <2> HIDE DEF copied
    <2>1. 0 \in 0 .. n /\ \A i \in 1 .. n : i \in 0 .. n /\ i # 0
      BY <1>1
    <2>2. QED
      BY <1>8, <2>1
  <1>10. CopyAll(s, l, set) = copied[n]
    BY DEF CopyAll
  <1> HIDE DEF copied, Equation
  <1>11. \A i \in 0 .. n : copied[i] \in X
    <2> DEFINE S == {i \in 0 .. n : copied[i] \in X}
    <2>1. 0 \in S
      BY <1>1, <1>2, <1>9
    <2>2. ASSUME NEW i \in 1 .. n, i - 1 \in S PROVE i \in S
      <3>1. i \in 0 .. n
        BY <1>1
      <3>2. copied[i - 1] \in X
        BY <2>2
      <3> HIDE DEF X
      <3>3. QED
        BY <1>3, <1>9, <3>1, <3>2
    <2> HIDE DEF S
    <2>3. \A i \in 0 .. n : i \in S
      BY <1>1, <2>1, <2>2, Induction
    <2>4. QED
      BY <2>3 DEF S
  <1>12. \A i \in 0 .. n : Follows(s, copied[i])
    BY <1>11
  <1>13. QED
    BY <1>9, <1>10, <1>12

LEMMA CopyAllFollows ==
    ASSUME NEW s, StateOK(s), NEW l \in List, Lent(s, l), NEW set \in BOOLEAN
    PROVE  Follows(s, CopyAll(s, l, set))
  <1>1. Len(l) \in Nat
    BY DEF List
  <1>2. QED
    BY <1>1, CopyAllSteps


\* The values of l that are to be in secure memory are in the blocks S.
Guards(S, l) == \A i \in DOMAIN l : l[i].memory = "secure" /\ l[i].cell # NoCell => l[i].cell \in S
GuardsOne(S, a) == a.memory = "secure" /\ a.cell # NoCell => a.cell \in S

LEMMA PutGuards ==
    ASSUME NEW S, NEW s, StateOK(s), Guards(S, s.list), NEW a \in AttrRecord, GuardsOne(S, a),
           NEW set \in BOOLEAN
    PROVE  Guards(S, Put(s, a, set).list)
  <1> DEFINE l == s.list
             r == Put(s, a, set)
  <1>1. s = [list |-> l, cells |-> s.cells] /\ l \in List
    BY DEF StateOK
  <1>2. \/ r.list = Append(l, a)
        \/ \E i \in DOMAIN l : r.list = [l EXCEPT ![i] = a]
    <2>1. Push(s, a).list = Append(l, a)
      BY <1>1 DEF Push
    <2>2. CASE set
      <3>1. CASE Find(l, a.type) = 0
        BY <2>1, <2>2, <3>1 DEF Put, Set
      <3>2. CASE Find(l, a.type) # 0
        <4>1. Find(l, a.type) \in DOMAIN l
          BY <1>1, <3>2, FindIndex
        <4>2. Set(s, a).list = [l EXCEPT ![Find(l, a.type)] = a]
          BY <3>2 DEF Set
        <4>3. QED
          BY <2>2, <4>1, <4>2 DEF Put
      <3>3. QED
        BY <3>1, <3>2
    <2>3. CASE ~set
      BY <2>1, <2>3 DEF Put
    <2>4. QED
      BY <2>2, <2>3
  <1> HIDE DEF l, r
  <1>3. Guards(S, l)
    BY DEF l
  <1>4. CASE r.list = Append(l, a)
    <2>1. \A i \in DOMAIN Append(l, a) :
              \/ Append(l, a)[i] = a
              \/ i \in DOMAIN l /\ Append(l, a)[i] = l[i]
      BY <1>1 DEF List
    <2>2. Guards(S, Append(l, a))
      BY <1>3, <2>1 DEF Guards, GuardsOne
    <2>3. QED
      BY <1>4, <2>2 DEF r
  <1>5. ASSUME NEW i \in DOMAIN l, r.list = [l EXCEPT ![i] = a] PROVE Guards(S, r.list)
    <2>1. DOMAIN r.list = DOMAIN l /\ \A j \in DOMAIN l : r.list[j] = IF j = i THEN a ELSE l[j]
      BY <1>5
    <2>2. QED
      BY <1>3, <2>1 DEF Guards, GuardsOne
  <1>6. QED
    BY <1>2, <1>4, <1>5 DEF r

LEMMA CopyGuards ==
    ASSUME NEW S, NEW s, StateOK(s), Guards(S, s.list), NEW a \in AttrRecord, GuardsOne(S, a),
           NEW set \in BOOLEAN
    PROVE  Guards(S, Copy(s, a, set).list)
  <1> DEFINE b == IF a.length = Invalid THEN [a EXCEPT !.cell = NoCell] ELSE a
             r == Put(s, b, set)
  <1>1. b \in AttrRecord /\ GuardsOne(S, b)
    BY DEF AttrRecord, GuardsOne
  <1> HIDE DEF b
  <1>2. Guards(S, r.list)
    BY <1>1, PutGuards
  <1>3. Copy(s, a, set).list = r.list
    BY DEF Copy, b
  <1>4. QED
    BY <1>2, <1>3

LEMMA CopyAllGuards ==
    ASSUME NEW S, NEW s, StateOK(s), NEW l \in List, Lent(s, l), NEW set \in BOOLEAN,
           Guards(S, s.list), Guards(S, l)
    PROVE  Guards(S, CopyAll(s, l, set).list)
  <1> DEFINE n == Len(l)
  <1>1. n \in Nat /\ DOMAIN l = 1 .. n /\ \A i \in 1 .. n : l[i] \in AttrRecord
    BY DEF List
  <1>2. PICK copied :
            /\ copied[0] = s /\ CopyAll(s, l, set) = copied[n]
            /\ \A i \in 1 .. n : copied[i] = Copy(copied[i - 1], l[i], set)
            /\ \A i \in 0 .. n : Follows(s, copied[i])
    BY CopyAllSteps
  <1> DEFINE G == {i \in 0 .. n : Guards(S, copied[i].list)}
  <1>3. 0 \in G
    BY <1>1, <1>2
  <1>4. ASSUME NEW i \in 1 .. n, i - 1 \in G PROVE i \in G
    <2>1. i - 1 \in 0 .. n /\ i \in 0 .. n
      BY <1>1
    <2>2. StateOK(copied[i - 1]) /\ Guards(S, copied[i - 1].list)
      BY <1>2, <1>4, <2>1 DEF Follows
    <2>3. l[i] \in AttrRecord /\ GuardsOne(S, l[i])
      BY <1>1 DEF Guards, GuardsOne
    <2>4. Guards(S, Copy(copied[i - 1], l[i], set).list)
      BY <2>2, <2>3, CopyGuards
    <2>5. QED
      BY <1>2, <2>1, <2>4
  <1> HIDE DEF G, n
  <1>5. \A i \in 0 .. n : i \in G
    BY <1>1, <1>3, <1>4, Induction
  <1>6. n \in 0 .. n
    BY <1>1
  <1>7. QED
    BY <1>2, <1>5, <1>6 DEF G

\* The list, when the values of the first i are gone.
Blank(a) == [a EXCEPT !.cell = NoCell]
Blanked(l, i) == [j \in DOMAIN l |-> IF j <= i THEN Blank(l[j]) ELSE l[j]]

LEMMA BlankedList ==
    ASSUME NEW l \in List, NEW i \in 1 .. Len(l)
    PROVE  /\ Blanked(l, i - 1) \in List /\ i \in DOMAIN Blanked(l, i - 1)
           /\ Blanked(l, i - 1)[i] = l[i] /\ Blank(l[i]) \in AttrRecord
           /\ Blanked(l, i) = [Blanked(l, i - 1) EXCEPT ![i] = Blank(l[i])]
  <1>1. DOMAIN l = 1 .. Len(l) /\ Len(l) \in Nat /\ \A j \in DOMAIN l : l[j] \in AttrRecord
    BY DEF List
  <1>2. \A j \in DOMAIN l : Blank(l[j]) \in AttrRecord
    <2> SUFFICES ASSUME NEW j \in DOMAIN l PROVE Blank(l[j]) \in AttrRecord
      OBVIOUS
    <2>1. l[j] \in AttrRecord
      BY <1>1
    <2>2. QED
      BY <2>1 DEF Blank, AttrRecord
  <1> DEFINE m == Blanked(l, i - 1)
  <1>3. m \in [1 .. Len(l) -> AttrRecord]
    BY <1>1, <1>2 DEF Blanked
  <1>4. m \in List
    BY <1>1, <1>3 DEF List
  <1>5. \A j \in DOMAIN l : j <= i - 1 <=> j < i
    BY <1>1
  <1>6. DOMAIN m = DOMAIN l /\ \A j \in DOMAIN l : m[j] = IF j < i THEN Blank(l[j]) ELSE l[j]
    BY <1>5 DEF Blanked
  <1>7. DOMAIN Blanked(l, i) = DOMAIN l
        /\ \A j \in DOMAIN l : Blanked(l, i)[j] = IF j <= i THEN Blank(l[j]) ELSE l[j]
    BY DEF Blanked
  <1>8. i \in DOMAIN l /\ m[i] = l[i]
    BY <1>1, <1>6
  <1> DEFINE q == Blanked(l, i)
             r == [m EXCEPT ![i] = Blank(l[i])]
  <1>9. q = r
    <2>1. q = [j \in DOMAIN l |-> q[j]] /\ DOMAIN r = DOMAIN m /\ r = [j \in DOMAIN m |-> r[j]]
      BY DEF Blanked
    <2>2. r[i] = Blank(l[i]) /\ \A j \in DOMAIN l : j # i => r[j] = m[j]
      BY <1>6, <1>8
    <2> HIDE DEF q, r, m
    <2>3. \A j \in DOMAIN l : q[j] = r[j]
      <3> SUFFICES ASSUME NEW j \in DOMAIN l PROVE q[j] = r[j]
        OBVIOUS
      <3>1. j \in Int /\ i \in Int
        BY <1>1
      <3>2. CASE j = i
        BY <1>7, <2>2, <3>2 DEF q
      <3>3. CASE j # i
        BY <1>6, <1>7, <2>2, <3>1, <3>3 DEF q
      <3>4. QED
        BY <3>2, <3>3
    <2>4. QED
      BY <1>6, <2>1, <2>3
  <1>10. QED
    BY <1>2, <1>4, <1>6, <1>8, <1>9

\* Each value of the list loses one use.
LEMMA UnrefAllKeeps ==
    ASSUME NEW l, NEW cs, StateOK([list |-> l, cells |-> cs])
    PROVE  /\ BlocksOK(UnrefAll(cs, l)) /\ Remains(cs, UnrefAll(cs, l))
           /\ \A c \in Cell : RefCount(UnrefAll(cs, l), c) = Spare([list |-> l, cells |-> cs], c)
  <1> DEFINE n == Len(l)
             s == [list |-> l, cells |-> cs]
             Blocks == UNION {[D -> BlockRecord] : D \in SUBSET Cell}
             At(i, r) == [list |-> Blanked(l, i), cells |-> r]
             X(i) == {r \in Blocks : Follows(s, At(i, r))}
             step == [i \in 1 .. n |-> [r \in X(i - 1) |-> ValueUnref(r, l[i].cell)]]
             G == [i \in 0 .. n |-> X(i)]
             Equation(f) == f = [i \in 0 .. Len(l) |->
                                    IF i = 0 THEN cs ELSE ValueUnref(f[i - 1], l[i].cell)]
             left == CHOOSE f : Equation(f)
  <1>1. /\ l \in List /\ n \in Nat /\ DOMAIN l = 1 .. n
        /\ \A i \in 1 .. n : l[i] \in AttrRecord
    BY DEF StateOK, List
  <1>2. cs \in X(0)
    <2>1. DOMAIN l = 1 .. n /\ ~\E i \in 1 .. n : i <= 0
      BY <1>1
    <2>2. Blanked(l, 0) = [j \in DOMAIN l |-> l[j]]
      BY <2>1 DEF Blanked
    <2>3. l = [j \in DOMAIN l |-> l[j]]
      BY <1>1 DEF List
    <2>4. At(0, cs) = s
      BY <2>2, <2>3
    <2>5. Follows(s, s)
      BY DEF Follows, Remains
    <2>6. cs \in Blocks
      BY DEF StateOK, BlocksOK
    <2>7. QED
      BY <2>4, <2>5, <2>6
  <1>3. ASSUME NEW i \in 1 .. n, NEW r \in X(i - 1) PROVE ValueUnref(r, l[i].cell) \in X(i)
    <2> DEFINE u == At(i - 1, r)
               v == At(i, ValueUnref(r, l[i].cell))
               a == Blank(l[i])
    <2>1. Follows(s, u) /\ StateOK(u)
      BY DEF Follows
    <2>2. /\ Blanked(l, i - 1) \in List /\ i \in DOMAIN Blanked(l, i - 1)
          /\ Blanked(l, i - 1)[i] = l[i] /\ a \in AttrRecord
          /\ Blanked(l, i) = [Blanked(l, i - 1) EXCEPT ![i] = a]
      BY <1>1, BlankedList
    <2>3. v = Replaced(u, i, a)
      BY <2>2 DEF Replaced
    <2>4. a.cell = NoCell
      BY <1>1 DEF Blank, AttrRecord
    <2>5. i \in DOMAIN u.list
      BY <2>2
    <2> HIDE DEF u, v, a
    <2>6. ASSUME NEW c \in Cell
          PROVE  Bit(a.cell = c) = 0 /\ Spare(u, c) \in Nat
      BY <2>1, <2>4, MemoryAssumption DEF Bit, NoCell, StateOK
    <2>7. \A c \in Cell : Spare(u, c) >= Bit(a.cell = c)
      BY <2>6
    <2>8. /\ StateOK(v) /\ Remains(u.cells, v.cells)
          /\ \A c \in Cell : Spare(v, c) = Spare(u, c) - Bit(a.cell = c)
      BY <2>1, <2>2, <2>3, <2>5, <2>7, ReplacedKeeps
    <2>9. \A c \in Cell : Spare(v, c) = Spare(u, c)
      BY <2>6, <2>8
    <2>10. Follows(s, v)
      BY <2>1, <2>8, <2>9 DEF Follows, Remains
    <2>11. v.cells = ValueUnref(r, l[i].cell)
      BY DEF v
    <2>12. ValueUnref(r, l[i].cell) \in Blocks
      BY <2>8, <2>11 DEF StateOK, BlocksOK
    <2>13. QED
      BY <2>10, <2>12 DEF v
  <1>4. \A i \in 1 .. n : \A r \in G[i - 1] : step[i][r] \in G[i]
    <2> SUFFICES ASSUME NEW i \in 1 .. n, NEW r \in G[i - 1] PROVE step[i][r] \in G[i]
      OBVIOUS
    <2> HIDE DEF X
    <2>1. i - 1 \in 0 .. n /\ i \in 0 .. n
      BY <1>1
    <2>2. r \in X(i - 1)
      BY <2>1
    <2>3. step[i][r] = ValueUnref(r, l[i].cell)
      BY <2>2
    <2>4. QED
      BY <1>3, <2>1, <2>2, <2>3
  <1>5. PICK g : /\ g = [i \in 0 .. n |-> g[i]]
                 /\ g[0] = cs /\ \A i \in 1 .. n : g[i] = step[i][g[i - 1]]
                 /\ \A i \in 0 .. n : g[i] \in G[i]
    <2> HIDE DEF X
    <2>1. cs \in G[0]
      BY <1>1, <1>2
    <2> HIDE DEF n, step, G
    <2>2. \E g : Guided(g, n, G, cs, step)
      BY <1>1, <1>4, <2>1, GuidedRecursion
    <2>3. QED
      BY <2>2 DEF Guided
  <1>6. \A i \in 1 .. n : g[i] = ValueUnref(g[i - 1], l[i].cell)
    <2> SUFFICES ASSUME NEW i \in 1 .. n PROVE g[i] = ValueUnref(g[i - 1], l[i].cell)
      OBVIOUS
    <2> HIDE DEF X
    <2>1. i - 1 \in 0 .. n
      BY <1>1
    <2>2. g[i - 1] \in X(i - 1)
      BY <1>5, <2>1
    <2>3. step[i][g[i - 1]] = ValueUnref(g[i - 1], l[i].cell)
      BY <2>2
    <2>4. QED
      BY <1>5, <2>3
  <1> HIDE DEF step, G
  <1>7. Equation(g)
    <2>1. \A i \in 0 .. n : i # 0 => i \in 1 .. n
      BY <1>1
    <2>2. \A i \in 0 .. n : g[i] = IF i = 0 THEN cs ELSE ValueUnref(g[i - 1], l[i].cell)
      BY <1>5, <1>6, <2>1
    <2>3. QED
      BY <1>5, <2>2
  <1>8. Equation(left)
    <2> HIDE DEF Equation
    <2>1. QED
      BY <1>7
  <1>9. left[0] = cs /\ \A i \in 1 .. n : left[i] = ValueUnref(left[i - 1], l[i].cell)
    <2> HIDE DEF left
    <2>1. 0 \in 0 .. n /\ \A i \in 1 .. n : i \in 0 .. n /\ i # 0
      BY <1>1
    <2>2. QED
      BY <1>8, <2>1
  <1>10. UnrefAll(cs, l) = left[n]
    BY DEF UnrefAll
  <1> HIDE DEF left, Equation, X
  <1>11. left[n] \in X(n)
    <2> DEFINE S == {i \in 0 .. n : left[i] \in X(i)}
    <2>1. 0 \in S
      BY <1>1, <1>2, <1>9
    <2>2. ASSUME NEW i \in 1 .. n, i - 1 \in S PROVE i \in S
      <3>1. i \in 0 .. n
        BY <1>1
      <3>2. left[i - 1] \in X(i - 1)
        BY <2>2
      <3>3. QED
        BY <1>3, <1>9, <3>1, <3>2
    <2> HIDE DEF S
    <2>3. \A i \in 0 .. n : i \in S
      BY <1>1, <2>1, <2>2, Induction
    <2>4. n \in 0 .. n
      BY <1>1
    <2>5. QED
      BY <2>3, <2>4 DEF S
  <1> DEFINE last == At(n, left[n])
  <1>12. Follows(s, last)
    BY <1>11 DEF X
  <1>13. last.list = Blanked(l, n) /\ last.cells = left[n]
    OBVIOUS
  <1>14. ASSUME NEW c \in Cell PROVE UseCount(Blanked(l, n), c) = 0
    <2>1. \A i \in DOMAIN l : i <= n /\ Blank(l[i]).cell = NoCell
      BY <1>1 DEF Blank, AttrRecord
    <2>2. Uses(Blanked(l, n), c) = {}
      BY <2>1, MemoryAssumption DEF Uses, Blanked, NoCell
    <2>3. QED
      BY <2>2, FS_EmptySet DEF UseCount
  <1> HIDE DEF last
  <1>15. ASSUME NEW c \in Cell PROVE RefCount(left[n], c) = Spare(s, c)
    <2>1. Spare(last, c) = Spare(s, c) /\ RefCount(last.cells, c) \in Nat
      BY <1>12, RefCountType DEF Follows, StateOK
    <2>2. QED
      BY <1>13, <1>14, <2>1 DEF Spare
  <1>16. BlocksOK(left[n]) /\ Remains(cs, left[n])
    BY <1>12, <1>13 DEF Follows, StateOK
  <1>17. QED
    BY <1>10, <1>15, <1>16


-----------------------------------------------------------------------------
(* The invariant.                                                          *)

ListsInv ==
    /\ BlocksOK(cells)
    /\ items \in [DOMAIN items -> List]
    /\ Builder \subseteq DOMAIN items /\ DOMAIN items \subseteq Builder \union Bundle
    /\ Counted(items, cells)

BundlesInv ==
    /\ refs \in [DOMAIN items \ Builder -> Nat \ {0}]
    /\ floating \subseteq DOMAIN refs
    /\ holders \in [Bundle -> SUBSET Thread]
    /\ \A x \in Bundle :
          /\ IsFiniteSet(holders[x])
          /\ x \notin DOMAIN refs => holders[x] = {}
    /\ \A x \in DOMAIN refs : refs[x] = Cardinality(holders[x]) + Bit(x \in floating)

\* A list whose values were asked for has none yet.
ReadingInv ==
    /\ reading \in [Builder -> {"no", "asked", "read"}]
    /\ \A b \in Builder : reading[b] = "asked" =>
          \A i \in DOMAIN items[b] : items[b][i].cell = NoCell

AttributesInv == ListsInv /\ BundlesInv /\ ReadingInv /\ SecretsStaySecure


-----------------------------------------------------------------------------
(* One list and the others.                                                *)

LEMMA ListState ==
    ASSUME ListsInv, NEW b \in DOMAIN items
    PROVE  /\ items[b] \in List /\ StateOK(State(b)) /\ Accounts(items, b, items[b], cells)
           /\ \A c \in Cell : Spare(State(b), c) = Rest(items, b, c)
  <1> DEFINE s == State(b)
  <1>1. s.list = items[b] /\ s.cells = cells /\ s = [list |-> s.list, cells |-> s.cells]
    BY DEF State
  <1>2. items[b] \in List /\ BlocksOK(cells)
    BY DEF ListsInv
  <1>3. Accounts(items, b, items[b], cells)
    BY <1>2, TakeOut DEF ListsInv
  <1> HIDE DEF s
  <1>4. ASSUME NEW c \in Cell
        PROVE  Spare(s, c) = Rest(items, b, c) /\ Spare(s, c) \in Nat
    <2>1. UseCount(items[b], c) \in Nat
      BY <1>2, UsesFinite
    <2>2. /\ IsFiniteSet(PlacesIn(items, DOMAIN items \ {b}, c))
          /\ RefCount(cells, c) = Rest(items, b, c) + UseCount(items[b], c)
      BY <1>3 DEF Accounts
    <2>3. Rest(items, b, c) \in Nat
      BY <2>2, FS_CardinalityType DEF Rest
    <2>4. QED
      BY <1>1, <2>1, <2>2, <2>3 DEF Spare
  <1>5. StateOK(s)
    BY <1>1, <1>2, <1>4 DEF StateOK
  <1>6. QED
    BY <1>2, <1>3, <1>4, <1>5 DEF s

\* What is in another list can be copied.
LEMMA OthersLend ==
    ASSUME NEW it, NEW cs, NEW b, NEW l, Accounts(it, b, l, cs),
           NEW x \in DOMAIN it \ {b}, NEW i \in DOMAIN it[x], it[x][i].cell \in Cell
    PROVE  Rest(it, b, it[x][i].cell) > 0
  <1> DEFINE c == it[x][i].cell
             P == PlacesIn(it, DOMAIN it \ {b}, c)
  <1>1. IsFiniteSet(P)
    BY DEF Accounts
  <1>2. i \in Uses(it[x], c)
    BY DEF Uses
  <1>3. P # {}
    <2>1. <<x, i>> \in {x} \X Uses(it[x], c)
      BY <1>2
    <2>2. QED
      BY <2>1 DEF PlacesIn
  <1>4. Cardinality(P) \in Nat /\ Cardinality(P) # 0
    BY <1>1, <1>3, FS_CardinalityType, FS_EmptySet
  <1>5. QED
    BY <1>4 DEF Rest

LEMMA BundleLends ==
    ASSUME ListsInv, NEW b \in DOMAIN items, NEW x \in DOMAIN items \ {b}
    PROVE  Lent(State(b), items[x])
  <1> SUFFICES ASSUME NEW i \in DOMAIN items[x], items[x][i].cell # NoCell
               PROVE  Spare(State(b), items[x][i].cell) > 0
    BY DEF Lent
  <1>1. items[x] \in List
    BY ListState
  <1>2. items[x][i] \in AttrRecord
    BY <1>1 DEF List
  <1>3. items[x][i].cell \in Cell
    BY <1>2 DEF AttrRecord
  <1>4. items[b] \in List /\ Accounts(items, b, items[b], cells)
    BY ListState
  <1>5. Rest(items, b, items[x][i].cell) > 0
    BY <1>3, <1>4, OthersLend
  <1>6. QED
    BY <1>3, <1>5, ListState

LEMMA ListChanged ==
    ASSUME ListsInv, NEW b \in DOMAIN items, NEW r, StateOK(r),
           \A c \in Cell : Spare(r, c) = Spare(State(b), c),
           items' = [items EXCEPT ![b] = r.list], cells' = r.cells
    PROVE  ListsInv' /\ DOMAIN items' = DOMAIN items
  <1>1. r.list \in List /\ BlocksOK(r.cells)
    BY DEF StateOK
  <1>2. /\ DOMAIN items' = DOMAIN items /\ items'[b] = r.list
        /\ \A p \in DOMAIN items \ {b} : items'[p] = items[p]
    OBVIOUS
  <1>3. items \in [DOMAIN items -> List]
    BY DEF ListsInv
  <1>4. items' \in [DOMAIN items -> List]
    BY <1>1, <1>3
  <1>5. Accounts(items, b, items[b], cells)
    BY ListState
  <1>6. Accounts(items, b, items'[b], cells')
    <2> SUFFICES ASSUME NEW c \in Cell
                 PROVE  /\ IsFiniteSet(PlacesIn(items, DOMAIN items \ {b}, c))
                        /\ RefCount(cells', c) = Rest(items, b, c) + UseCount(items'[b], c)
      BY DEF Accounts
    <2>1. IsFiniteSet(PlacesIn(items, DOMAIN items \ {b}, c))
      BY <1>5 DEF Accounts
    <2>2. Rest(items, b, c) \in Nat
      BY <2>1, FS_CardinalityType DEF Rest
    <2>3. Spare(r, c) = Rest(items, b, c)
      BY ListState
    <2>4. RefCount(r.cells, c) \in Nat /\ UseCount(r.list, c) \in Nat
      BY <1>1, RefCountType, UsesFinite
    <2>5. QED
      BY <1>2, <2>1, <2>2, <2>3, <2>4 DEF Spare
  <1>7. Counted(items', cells')
    BY <1>1, <1>2, <1>6, PutIn
  <1>8. BlocksOK(cells')
    BY <1>1
  <1>9. QED
    BY <1>2, <1>4, <1>7, <1>8 DEF ListsInv


-----------------------------------------------------------------------------
(* The steps.                                                              *)

LEMMA BundlesStay ==
    ASSUME BundlesInv, DOMAIN items' = DOMAIN items, UNCHANGED <<refs, floating, holders>>
    PROVE  BundlesInv'
  BY DEF BundlesInv

\* What blocks there were are as they were, and those that are new are secure if
\* they must be.
BlocksStay(cs, r) ==
    /\ \A c \in DOMAIN r : c \in DOMAIN cs => r[c].data = cs[c].data /\ r[c].secure = cs[c].secure
    /\ \A c \in DOMAIN r : c \notin DOMAIN cs /\ Secret(r[c].data) => r[c].secure

LEMMA RemainsStays == ASSUME NEW cs, NEW r, Remains(cs, r) PROVE BlocksStay(cs, r)
  BY DEF Remains, BlocksStay

\* A value of a list is in memory.
LEMMA ValueIsThere ==
    ASSUME NEW it, NEW cs, Counted(it, cs), BlocksOK(cs), it \in [DOMAIN it -> List],
           NEW p \in DOMAIN it, NEW i \in DOMAIN it[p], it[p][i].cell # NoCell
    PROVE  it[p][i].cell \in DOMAIN cs
  <1> DEFINE c == it[p][i].cell
  <1>1. it[p] \in List
    OBVIOUS
  <1>2. it[p][i] \in AttrRecord
    BY <1>1 DEF List
  <1>3. c \in Cell
    BY <1>2 DEF AttrRecord
  <1>4. Accounts(it, p, it[p], cs)
    BY <1>1, TakeOut
  <1>5. UseCount(it[p], c) \in Nat /\ UseCount(it[p], c) > 0
    BY <1>1, UsesFinite
  <1>6. /\ IsFiniteSet(PlacesIn(it, DOMAIN it \ {p}, c))
        /\ RefCount(cs, c) = Rest(it, p, c) + UseCount(it[p], c)
    BY <1>3, <1>4 DEF Accounts
  <1>7. Rest(it, p, c) \in Nat
    BY <1>6, FS_CardinalityType DEF Rest
  <1>8. RefCount(cs, c) > 0
    BY <1>5, <1>6, <1>7
  <1>9. QED
    BY <1>8, RefCountType

SecureOf(cs) == {c \in DOMAIN cs : cs[c].secure}
Safe(cs) == {c \in Cell : c \in DOMAIN cs => cs[c].secure}

LEMMA ListsGuard ==
    ASSUME SecretsStaySecure, ListsInv, NEW p \in DOMAIN items
    PROVE  Guards(SecureOf(cells), items[p])
  BY ValueIsThere DEF Guards, SecureOf, SecretsStaySecure, ListsInv

\* Blocks that were secure are so, if they are there.
LEMMA SecureIsSafe ==
    ASSUME NEW cs, DOMAIN cs \subseteq Cell, NEW r, BlocksStay(cs, r), NEW l,
           Guards(SecureOf(cs), l)
    PROVE  Guards(Safe(r), l)
  BY DEF Guards, SecureOf, Safe, BlocksStay

LEMMA ListGuards ==
    ASSUME SecretsStaySecure, ListsInv, NEW r, BlocksStay(cells, r), NEW p \in DOMAIN items
    PROVE  Guards(Safe(r), items[p])
  <1>1. DOMAIN cells \subseteq Cell
    BY DEF ListsInv, BlocksOK
  <1>2. Guards(SecureOf(cells), items[p])
    BY ListsGuard
  <1>3. QED
    BY <1>1, <1>2, SecureIsSafe

LEMMA SecretsKept ==
    ASSUME SecretsStaySecure, ListsInv, ListsInv', BlocksStay(cells, cells'),
           \A p \in DOMAIN items' : \/ p \in DOMAIN items /\ items'[p] = items[p]
                                    \/ Guards(Safe(cells'), items'[p])
    PROVE  SecretsStaySecure'
  <1>1. ASSUME NEW c \in DOMAIN cells', Secret(cells'[c].data) PROVE cells'[c].secure
    <2>1. CASE c \in DOMAIN cells
      <3>1. cells'[c].data = cells[c].data /\ cells'[c].secure = cells[c].secure
        BY <2>1 DEF BlocksStay
      <3>2. QED
        BY <1>1, <2>1, <3>1 DEF SecretsStaySecure
    <2>2. CASE c \notin DOMAIN cells
      BY <1>1, <2>2 DEF BlocksStay
    <2>3. QED
      BY <2>1, <2>2
  <1>2. ASSUME NEW p \in DOMAIN items', NEW i \in DOMAIN items'[p], items'[p][i].memory = "secure",
               items'[p][i].cell # NoCell
        PROVE  cells'[items'[p][i].cell].secure
    <2>1. Guards(Safe(cells'), items'[p])
      <3>1. CASE p \in DOMAIN items /\ items'[p] = items[p]
        <4>1. PICK r : r = cells'
          OBVIOUS
        <4>2. Guards(Safe(r), items[p])
          BY <3>1, <4>1, ListGuards
        <4>3. QED
          BY <3>1, <4>1, <4>2
      <3>2. QED
        BY <3>1
    <2>2. items'[p][i].cell \in DOMAIN cells'
      BY <1>2, ValueIsThere DEF ListsInv
    <2>3. QED
      BY <1>2, <2>1, <2>2 DEF Guards, Safe
  <1>3. QED
    BY <1>1, <1>2 DEF SecretsStaySecure

LEMMA BuilderStep ==
    ASSUME AttributesInv, NEW b \in Builder, Idle(b), NEW r, StateOK(r),
           \A c \in Cell : Spare(r, c) = Spare(State(b), c),
           Becomes(b, r), BlocksStay(cells, r.cells), Guards(Safe(r.cells), r.list),
           UNCHANGED <<refs, floating, holders, reading>>
    PROVE  AttributesInv' /\ BlocksStay(cells, cells')
  <1>1. b \in DOMAIN items /\ reading[b] = "no"
    BY DEF AttributesInv, ListsInv, Idle
  <1>2. items' = [items EXCEPT ![b] = r.list] /\ cells' = r.cells
    BY DEF Becomes
  <1>3. ListsInv' /\ DOMAIN items' = DOMAIN items
    BY <1>1, <1>2, ListChanged DEF AttributesInv
  <1>4. BundlesInv'
    BY <1>3, BundlesStay DEF AttributesInv
  <1>5. \A p \in DOMAIN items \ {b} : items'[p] = items[p]
    BY <1>2
  <1>6. \A p \in Builder : p \in DOMAIN items
    BY DEF AttributesInv, ListsInv
  <1>7. ReadingInv'
    BY <1>1, <1>5, <1>6 DEF AttributesInv, ReadingInv
  <1>8. SecretsStaySecure'
    <2>1. \A p \in DOMAIN items' : \/ p \in DOMAIN items /\ items'[p] = items[p]
                                   \/ Guards(Safe(cells'), items'[p])
      BY <1>1, <1>2, <1>3, <1>5
    <2>2. BlocksStay(cells, cells')
      BY <1>2
    <2>3. QED
      BY <1>3, <2>1, <2>2, SecretsKept DEF AttributesInv
  <1>9. QED
    BY <1>2, <1>3, <1>4, <1>7, <1>8 DEF AttributesInv


\* A new block can be put in a list.
LEMMA WithNew ==
    ASSUME NEW s, StateOK(s), NEW c \in Cell \ DOMAIN s.cells, NEW data \in Seq(Nat),
           NEW secure \in BOOLEAN, NEW r,
           r = [list |-> s.list, cells |-> ValueNew(s.cells, c, data, secure)]
    PROVE  /\ StateOK(r) /\ \A d \in Cell : Spare(r, d) = Spare(s, d) + Bit(c = d)
           /\ (Secret(data) => secure) => BlocksStay(s.cells, r.cells)
  <1>1. BlocksOK(s.cells) /\ s.list \in List
    BY DEF StateOK
  <1>2. /\ BlocksOK(r.cells) /\ DOMAIN r.cells = DOMAIN s.cells \union {c}
        /\ \A d \in DOMAIN s.cells : r.cells[d] = s.cells[d]
        /\ r.cells[c] = [refs |-> 1, secure |-> secure, data |-> data]
        /\ \A d \in Cell : RefCount(r.cells, d) = RefCount(s.cells, d) + Bit(c = d)
    <2> DEFINE block == [refs |-> 1, secure |-> secure, data |-> data]
               cs == s.cells
               q == r.cells
    <2>0. BlocksOK(cs) /\ c \in Cell \ DOMAIN cs
      BY <1>1
    <2>1. block \in BlockRecord /\ block.refs = 1
      BY DEF BlockRecord
    <2>2. q = [d \in DOMAIN cs \union {c} |-> IF d = c THEN block ELSE cs[d]]
      BY DEF ValueNew
    <2> HIDE DEF q, block, cs
    <2>3. \A d \in DOMAIN cs : cs[d] \in BlockRecord
      BY <2>0 DEF BlocksOK
    <2>4. /\ DOMAIN q = DOMAIN cs \union {c} /\ q[c] = block
          /\ \A d \in DOMAIN cs : q[d] = cs[d]
      BY <2>0, <2>2
    <2>5. q \in [DOMAIN cs \union {c} -> BlockRecord]
      BY <2>1, <2>2, <2>3
    <2>6. BlocksOK(q)
      BY <2>0, <2>4, <2>5 DEF BlocksOK
    <2>7. ASSUME NEW d \in Cell PROVE RefCount(q, d) = RefCount(cs, d) + Bit(c = d)
      <3>1. RefCount(cs, d) \in Nat
        BY <2>0, RefCountType
      <3>2. CASE d = c
        BY <2>0, <2>1, <2>4, <3>2 DEF RefCount, Bit
      <3>3. CASE d # c
        BY <2>4, <3>1, <3>3 DEF RefCount, Bit
      <3>4. QED
        BY <3>2, <3>3
    <2>8. QED
      BY <2>4, <2>6, <2>7 DEF q, block, cs
  <1>3. ASSUME NEW d \in Cell
        PROVE  Spare(r, d) = Spare(s, d) + Bit(c = d) /\ Spare(r, d) \in Nat
    <2>1. RefCount(s.cells, d) \in Nat /\ UseCount(s.list, d) \in Nat /\ Bit(c = d) \in Nat
      BY <1>1, RefCountType, UsesFinite DEF Bit
    <2>2. Spare(s, d) \in Nat
      BY DEF StateOK
    <2>3. Spare(r, d) = Spare(s, d) + Bit(c = d)
      BY <1>2, <2>1 DEF Spare
    <2>4. QED
      BY <2>1, <2>2, <2>3
  <1>4. r.list = s.list /\ r = [list |-> r.list, cells |-> r.cells]
    OBVIOUS
  <1>5. StateOK(r)
    BY <1>1, <1>2, <1>3, <1>4 DEF StateOK
  <1>6. (Secret(data) => secure) => BlocksStay(s.cells, r.cells)
    BY <1>2 DEF BlocksStay
  <1>7. QED
    BY <1>3, <1>5, <1>6

\* What stays of what stayed has stayed.
LEMMA StaysOn ==
    ASSUME NEW cs, NEW q, NEW r, BlocksStay(cs, q), Remains(q, r)
    PROVE  BlocksStay(cs, r)
  <1>1. \A c \in DOMAIN r : c \in DOMAIN q /\ r[c].data = q[c].data /\ r[c].secure = q[c].secure
    BY DEF Remains
  <1>2. QED
    BY <1>1 DEF BlocksStay

LEMMA AttrFields ==
    ASSUME NEW t, NEW c, NEW n, NEW memory
    PROVE  LET a == Attr(t, c, n, memory)
           IN  a.type = t /\ a.cell = c /\ a.length = n /\ a.memory = memory
  BY DEF Attr

LEMMA AttrType ==
    ASSUME NEW t \in Type, NEW c \in Cell \union {NoCell}, NEW n \in Nat \union {Invalid},
           NEW memory \in {"secure", "any"}
    PROVE  /\ Attr(t, c, n, memory) \in AttrRecord /\ Attr(t, c, n, memory).cell = c
           /\ Attr(t, c, n, memory).memory = memory
  BY DEF Attr, AttrRecord

LEMMA PlainAttrType ==
    ASSUME NEW t \in Type, NEW c \in Cell \union {NoCell}, NEW n \in Nat \union {Invalid}
    PROVE  /\ Attr(t, c, n, "any") \in AttrRecord /\ Attr(t, c, n, "any").cell = c
           /\ Attr(t, c, n, "any").memory = "any"
  BY AttrType

LEMMA PutValueStep ==
    ASSUME AttributesInv, NEW b \in Builder, NEW t \in Type, NEW data \in Bytes,
           NEW secure \in BOOLEAN, NEW memory \in {"secure", "any"}, NEW set \in BOOLEAN,
           Secret(data) => secure, memory = "secure" => secure,
           PutValue(b, t, data, secure, memory, set)
    PROVE  AttributesInv' /\ BlocksStay(cells, cells')
  <1>1. b \in DOMAIN items /\ data \in Seq(Nat)
    BY BytesAssumption DEF AttributesInv, ListsInv
  <1> DEFINE s == State(b)
             a(c) == Attr(t, c, Len(data), memory)
             q(c) == [s EXCEPT !.cells = ValueNew(@, c, data, secure)]
  <1>2. PICK c \in FreeCells : /\ Idle(b) /\ Becomes(b, Put(q(c), a(c), set))
                               /\ UNCHANGED <<refs, floating, holders, reading>>
    BY DEF PutValue
  <1>3. s.cells = cells /\ q(c) = [list |-> s.list, cells |-> ValueNew(s.cells, c, data, secure)]
    BY DEF State
  <1>4. c \in Cell \ DOMAIN s.cells
    BY <1>3 DEF FreeCells
  <1>5. StateOK(s)
    BY <1>1, ListState DEF AttributesInv
  <1>7. a(c) \in AttrRecord /\ a(c).cell = c /\ a(c).memory = memory
    BY <1>1, <1>4, AttrType
  <1> DEFINE qc == q(c)
             ac == a(c)
             r == Put(qc, ac, set)
  <1> HIDE DEF s, q, a
  <1>8. /\ StateOK(qc) /\ BlocksStay(s.cells, qc.cells)
        /\ \A d \in Cell : Spare(qc, d) = Spare(s, d) + Bit(c = d)
    BY <1>1, <1>3, <1>4, <1>5, WithNew
  <1>16. c \in Safe(qc.cells) \/ ~secure
    <2>1. qc.cells = ValueNew(s.cells, c, data, secure)
      BY <1>3
    <2>2. qc.cells[c].secure = secure
      BY <2>1 DEF ValueNew
    <2>3. QED
      BY <1>4, <2>2 DEF Safe
  <1> HIDE DEF qc, ac
  <1>9. ASSUME NEW d \in Cell
        PROVE  Spare(s, d) \in Nat /\ Bit(ac.cell = d) \in Nat /\ Bit(c = d) = Bit(ac.cell = d)
    BY <1>5, <1>7 DEF StateOK, Bit, ac
  <1>10. \A d \in Cell : Spare(qc, d) >= Bit(ac.cell = d)
    BY <1>8, <1>9
  <1>11. /\ StateOK(r) /\ Remains(qc.cells, r.cells)
         /\ \A d \in Cell : Spare(r, d) = Spare(qc, d) - Bit(ac.cell = d)
    BY <1>7, <1>8, <1>10, PutKeeps DEF ac
  <1>12. \A d \in Cell : Spare(r, d) = Spare(s, d)
    BY <1>8, <1>9, <1>11
  <1>13. BlocksStay(cells, r.cells)
    BY <1>3, <1>8, <1>11, StaysOn
  <1>14. Becomes(b, r)
    BY <1>2 DEF qc, ac
  <1>17. Guards(Safe(r.cells), r.list)
    <2>1. Guards(Safe(qc.cells), s.list) /\ s.list = qc.list
      <3>1. s.list = items[b] /\ s.cells = cells
        BY DEF s, State
      <3>2. Guards(Safe(qc.cells), items[b])
        BY <1>1, <1>8, <3>1, ListGuards DEF AttributesInv
      <3>3. QED
        BY <1>3, <3>1, <3>2 DEF qc
    <2>2. GuardsOne(Safe(qc.cells), ac)
      BY <1>7, <1>16 DEF GuardsOne, ac
    <2>3. Guards(Safe(qc.cells), r.list)
      BY <1>7, <1>8, <2>1, <2>2, PutGuards DEF ac
    <2>4. \A d \in Safe(qc.cells) : d \in Safe(r.cells)
      BY <1>11 DEF Safe, Remains
    <2> HIDE DEF r
    <2>5. QED
      BY <2>3, <2>4 DEF Guards
  <1> HIDE DEF r
  <1>15. QED
    BY <1>2, <1>11, <1>12, <1>13, <1>14, <1>17, BuilderStep DEF s

LEMMA PutDataStep ==
    ASSUME AttributesInv, NEW b \in Builder, NEW t \in Type, NEW data \in Bytes,
           NEW set \in BOOLEAN, PutData(b, t, data, set)
    PROVE  AttributesInv' /\ BlocksStay(cells, cells')
  <1> DEFINE secure == KeptSecure(b, data)
             memory == Memory(b)
  <1>1. /\ secure \in BOOLEAN /\ memory \in {"secure", "any"}
        /\ Secret(data) => secure
        /\ memory = "secure" => secure
    BY DEF KeptSecure, Secret, Memory
  <1>2. PutValue(b, t, data, secure, memory, set)
    BY DEF PutData
  <1> HIDE DEF secure, memory
  <1>3. QED
    BY <1>1, <1>2, PutValueStep

LEMMA TakeDataStep ==
    ASSUME AttributesInv, NEW b \in Builder, NEW t \in Type, NEW data \in Bytes,
           TakeData(b, t, data)
    PROVE  AttributesInv' /\ BlocksStay(cells, cells')
  <1> DEFINE secure == Secret(data)
  <1>1. secure \in BOOLEAN /\ (Secret(data) => secure)
    BY DEF Secret
  <1>2. PutValue(b, t, data, secure, "any", FALSE)
    BY DEF TakeData
  <1> HIDE DEF secure
  <1>3. QED
    BY <1>1, <1>2, PutValueStep

LEMMA PutNoneStep ==
    ASSUME AttributesInv, NEW b \in Builder, NEW t \in Type, NEW length \in {0, Invalid},
           NEW set \in BOOLEAN, PutNone(b, t, length, set)
    PROVE  AttributesInv' /\ BlocksStay(cells, cells')
  <1>1. b \in DOMAIN items
    BY DEF AttributesInv, ListsInv
  <1> DEFINE s == State(b)
             a == Attr(t, NoCell, length, "any")
             r == Put(s, a, set)
  <1>2. s.cells = cells
    BY DEF State
  <1>3. StateOK(s)
    BY <1>1, ListState DEF AttributesInv
  <1>4. a \in AttrRecord /\ a.cell = NoCell /\ a.memory = "any"
    BY PlainAttrType DEF Invalid
  <1> HIDE DEF s, a
  <1>5. ASSUME NEW d \in Cell PROVE Spare(s, d) \in Nat /\ Bit(a.cell = d) = 0
    BY <1>3, <1>4, MemoryAssumption DEF StateOK, Bit, NoCell
  <1>6. \A d \in Cell : Spare(s, d) >= Bit(a.cell = d)
    BY <1>5
  <1>7. /\ StateOK(r) /\ Remains(s.cells, r.cells)
        /\ \A d \in Cell : Spare(r, d) = Spare(s, d) - Bit(a.cell = d)
    BY <1>3, <1>4, <1>6, PutKeeps
  <1>8. \A d \in Cell : Spare(r, d) = Spare(s, d)
    BY <1>5, <1>7
  <1>9. BlocksStay(cells, r.cells)
    BY <1>2, <1>7, RemainsStays
  <1>10. Idle(b) /\ Becomes(b, r) /\ UNCHANGED <<refs, floating, holders, reading>>
    BY DEF PutNone, a, s
  <1>12. Guards(Safe(r.cells), r.list)
    <2>1. PICK S : S = Safe(r.cells)
      OBVIOUS
    <2>2. Guards(S, items[b]) /\ s.list = items[b]
      BY <1>1, <1>9, <2>1, ListGuards DEF AttributesInv, s, State
    <2>3. Guards(S, r.list)
      BY <1>3, <1>4, <2>2, PutGuards DEF GuardsOne
    <2>4. QED
      BY <2>1, <2>3
  <1> HIDE DEF r
  <1>11. QED
    BY <1>7, <1>8, <1>9, <1>10, <1>12, BuilderStep DEF s

\* What is copied to a builder comes from another list.
LEMMA CopyStep ==
    ASSUME AttributesInv, NEW b \in Builder, Idle(b), NEW x \in DOMAIN items \ {b},
           NEW l \in List, Range(l) \subseteq Range(items[x]), NEW set \in BOOLEAN,
           Becomes(b, CopyAll(State(b), l, set)),
           UNCHANGED <<refs, floating, holders, reading>>
    PROVE  AttributesInv' /\ BlocksStay(cells, cells')
  <1>1. b \in DOMAIN items
    BY DEF AttributesInv, ListsInv
  <1> DEFINE s == State(b)
             r == CopyAll(s, l, set)
  <1>2. s.cells = cells
    BY DEF State
  <1>3. StateOK(s) /\ Lent(s, items[x])
    BY <1>1, ListState, BundleLends DEF AttributesInv
  <1> HIDE DEF s
  <1>4. Lent(s, l)
    <2> SUFFICES ASSUME NEW i \in DOMAIN l, l[i].cell # NoCell PROVE Spare(s, l[i].cell) > 0
      BY DEF Lent
    <2>1. l[i] \in Range(items[x])
      BY DEF Range
    <2>2. PICK j \in DOMAIN items[x] : items[x][j] = l[i]
      BY <2>1 DEF Range
    <2>3. QED
      BY <1>3, <2>2 DEF Lent
  <1>5. Follows(s, r)
    BY <1>3, <1>4, CopyAllFollows
  <1>6. Becomes(b, r)
    BY DEF s
  <1> HIDE DEF r
  <1>7. BlocksStay(cells, r.cells)
    BY <1>2, <1>5, RemainsStays DEF Follows
  <1>8. Guards(Safe(r.cells), r.list)
    <2>1. PICK S : S = Safe(r.cells)
      OBVIOUS
    <2>2. Guards(S, items[b]) /\ Guards(S, items[x]) /\ s.list = items[b]
      BY <1>1, <1>7, <2>1, ListGuards DEF AttributesInv, s, State
    <2>3. Guards(S, l)
      BY <2>2 DEF Guards, Range
    <2>4. Guards(S, CopyAll(s, l, set).list)
      BY <1>3, <1>4, <2>2, <2>3, CopyAllGuards
    <2>5. QED
      BY <2>1, <2>4 DEF r
  <1>9. QED
    BY <1>5, <1>6, <1>7, <1>8, BuilderStep DEF Follows, s


LEMMA UsableBundle ==
    ASSUME AttributesInv, NEW x, x \in DOMAIN refs
    PROVE  x \in DOMAIN items \ Builder /\ x \in Bundle /\ items[x] \in List
  <1>1. DOMAIN refs = DOMAIN items \ Builder
    BY DEF AttributesInv, BundlesInv
  <1>2. QED
    BY <1>1 DEF AttributesInv, ListsInv

LEMMA AddPartStep ==
    ASSUME AttributesInv, NEW b \in Builder, NEW x, Usable(x), NEW T, AddPart(b, x, T)
    PROVE  AttributesInv' /\ BlocksStay(cells, cells')
  <1>1. x \in DOMAIN items \ {b} /\ items[x] \in List
    BY UsableBundle DEF Usable
  <1> DEFINE l == Typed(items[x], T)
             S == {a \in ToSet(items[x]) : a.type \in T}
  <1>2. l = Kept(items[x], S)
    BY DEF Typed
  <1> HIDE DEF l, S
  <1>3. l \in List /\ Range(l) \subseteq Range(items[x])
    BY <1>1, <1>2, KeptKeeps DEF List
  <1>4. /\ Idle(b) /\ Becomes(b, CopyAll(State(b), l, FALSE))
        /\ UNCHANGED <<refs, floating, holders, reading>>
    BY DEF AddPart, l
  <1>5. QED
    BY <1>1, <1>3, <1>4, CopyStep

LEMMA SetAllStep ==
    ASSUME AttributesInv, NEW b \in Builder, NEW x, Usable(x), SetAll(b, x)
    PROVE  AttributesInv' /\ BlocksStay(cells, cells')
  <1>1. x \in DOMAIN items \ {b} /\ items[x] \in List
    BY UsableBundle DEF Usable
  <1>2. /\ Idle(b) /\ Becomes(b, CopyAll(State(b), items[x], TRUE))
        /\ UNCHANGED <<refs, floating, holders, reading>>
    BY DEF SetAll
  <1>3. QED
    BY <1>1, <1>2, CopyStep

LEMMA BuilderCopyStep ==
    ASSUME AttributesInv, NEW b \in Builder, NEW c \in Builder, BuilderCopy(b, c)
    PROVE  AttributesInv' /\ BlocksStay(cells, cells')
  <1>1. c \in DOMAIN items \ {b} /\ items[c] \in List
    BY DEF AttributesInv, ListsInv, BuilderCopy
  <1>2. /\ Idle(b) /\ Becomes(b, CopyAll(State(b), items[c], FALSE))
        /\ UNCHANGED <<refs, floating, holders, reading>>
    BY DEF BuilderCopy
  <1>3. QED
    BY <1>1, <1>2, CopyStep

\* A list that loses its values.
LEMMA Emptied ==
    ASSUME ListsInv, NEW b \in DOMAIN items, NEW l \in List,
           \A i \in DOMAIN l : l[i].cell = NoCell, NEW r,
           r = [list |-> l, cells |-> UnrefAll(cells, items[b])]
    PROVE  /\ StateOK(r) /\ Remains(cells, r.cells)
           /\ \A c \in Cell : Spare(r, c) = Spare(State(b), c)
  <1> DEFINE s == [list |-> items[b], cells |-> cells]
  <1>1. StateOK(s) /\ s = State(b)
    BY ListState DEF State
  <1>2. r.list = l /\ r.cells = UnrefAll(cells, items[b]) /\ r = [list |-> r.list, cells |-> r.cells]
    OBVIOUS
  <1>3. /\ BlocksOK(r.cells) /\ Remains(cells, r.cells)
        /\ \A c \in Cell : RefCount(r.cells, c) = Spare(s, c)
    BY <1>1, <1>2, UnrefAllKeeps
  <1> HIDE DEF s
  <1>4. ASSUME NEW c \in Cell PROVE Spare(r, c) = Spare(s, c) /\ Spare(r, c) \in Nat
    <2>1. Uses(l, c) = {}
      BY MemoryAssumption DEF Uses, NoCell
    <2>2. UseCount(l, c) = 0
      BY <2>1, FS_EmptySet DEF UseCount
    <2>3. Spare(s, c) \in Nat
      BY <1>1 DEF StateOK
    <2>4. QED
      BY <1>2, <1>3, <2>2, <2>3 DEF Spare
  <1>5. StateOK(r)
    BY <1>2, <1>3, <1>4 DEF StateOK
  <1>6. QED
    BY <1>1, <1>3, <1>4, <1>5

LEMMA ClearStep ==
    ASSUME AttributesInv, NEW b \in Builder, Clear(b)
    PROVE  AttributesInv' /\ BlocksStay(cells, cells')
  <1> DEFINE r == [list |-> << >>, cells |-> UnrefAll(cells, items[b])]
  <1>1. b \in DOMAIN items
    BY DEF AttributesInv, ListsInv
  <1>2. /\ reading' = [reading EXCEPT ![b] = "no"] /\ reading[b] # "asked"
        /\ UNCHANGED <<refs, floating, holders>> /\ Becomes(b, r)
    BY DEF Clear
  <1>3. items' = [items EXCEPT ![b] = r.list] /\ cells' = r.cells
    BY <1>2 DEF Becomes
  <1>4. << >> \in List /\ \A i \in DOMAIN << >> : << >>[i].cell = NoCell
    BY DEF List
  <1>5. /\ StateOK(r) /\ Remains(cells, r.cells)
        /\ \A c \in Cell : Spare(r, c) = Spare(State(b), c)
    BY <1>1, <1>4, Emptied DEF AttributesInv
  <1> HIDE DEF r
  <1>6. ListsInv' /\ DOMAIN items' = DOMAIN items
    BY <1>1, <1>3, <1>5, ListChanged DEF AttributesInv
  <1>7. BundlesInv'
    BY <1>2, <1>6, BundlesStay DEF AttributesInv
  <1>8. /\ \A p \in DOMAIN items \ {b} : items'[p] = items[p]
        /\ \A p \in Builder : p \in DOMAIN items
    BY <1>3 DEF AttributesInv, ListsInv
  <1>9. reading \in [Builder -> {"no", "asked", "read"}]
    BY DEF AttributesInv, ReadingInv
  <1>10. /\ reading' \in [Builder -> {"no", "asked", "read"}] /\ reading'[b] = "no"
         /\ \A p \in Builder \ {b} : reading'[p] = reading[p]
    BY <1>2, <1>9
  <1>11. ReadingInv'
    BY <1>8, <1>10 DEF AttributesInv, ReadingInv
  <1>12. SecretsStaySecure'
    <2>1. \A p \in DOMAIN items' : \/ p \in DOMAIN items /\ items'[p] = items[p]
                                   \/ Guards(Safe(cells'), items'[p])
      <3>1. items'[b] = << >> /\ DOMAIN items' = DOMAIN items
        BY <1>1, <1>3, <1>6 DEF r
      <3>2. \A S : Guards(S, << >>)
        BY DEF Guards
      <3>3. QED
        BY <1>8, <3>1, <3>2
    <2>2. BlocksStay(cells, cells')
      BY <1>3, <1>5, RemainsStays
    <2>3. QED
      BY <1>6, <2>1, <2>2, SecretsKept DEF AttributesInv
  <1>13. BlocksStay(cells, cells')
    BY <1>3, <1>5, RemainsStays
  <1>14. QED
    BY <1>6, <1>7, <1>11, <1>12, <1>13 DEF AttributesInv


\* A bundle is added.
LEMMA BundleAdded ==
    ASSUME BundlesInv, ListsInv, NEW x \in Bundle, x \notin DOMAIN items,
           DOMAIN items' = DOMAIN items \union {x}, NEW l, NEW t \in Thread,
           NEW floats \in BOOLEAN, NewBundle(x, l, t, floats)
    PROVE  BundlesInv'
  <1>1. /\ refs' = [y \in DOMAIN refs \union {x} |-> IF y = x THEN 1 ELSE refs[y]]
        /\ holders' = [holders EXCEPT ![x] = IF floats THEN {} ELSE {t}]
        /\ floating' = IF floats THEN floating \union {x} ELSE floating
    BY DEF NewBundle
  <1>2. /\ refs \in [DOMAIN items \ Builder -> Nat \ {0}] /\ floating \subseteq DOMAIN refs
        /\ DOMAIN refs = DOMAIN items \ Builder /\ holders \in [Bundle -> SUBSET Thread]
    BY DEF BundlesInv
  <1>3. x \notin Builder /\ x \notin DOMAIN refs /\ x \notin floating
    BY <1>2, BuilderAssumption
  <1>4. DOMAIN refs' = DOMAIN items' \ Builder /\ DOMAIN refs' = DOMAIN refs \union {x}
    BY <1>1, <1>2, <1>3
  <1>5. refs'[x] = 1 /\ \A y \in DOMAIN refs : refs'[y] = refs[y]
    BY <1>1, <1>3
  <1>6. refs' \in [DOMAIN items' \ Builder -> Nat \ {0}]
    BY <1>1, <1>2, <1>4
  <1>7. floating' \subseteq DOMAIN refs'
    BY <1>1, <1>2, <1>4
  <1>8. /\ holders'[x] = IF floats THEN {} ELSE {t}
        /\ \A y \in Bundle \ {x} : holders'[y] = holders[y]
        /\ holders' \in [Bundle -> SUBSET Thread]
    BY <1>1, <1>2
  <1>9. /\ IsFiniteSet({}) /\ Cardinality({}) = 0
        /\ IsFiniteSet({t}) /\ Cardinality({t}) = 1
    BY FS_EmptySet, FS_Singleton
  <1>10. ASSUME NEW y \in Bundle
         PROVE  IsFiniteSet(holders'[y]) /\ (y \notin DOMAIN refs' => holders'[y] = {})
    <2>1. CASE y = x
      <3>1. IsFiniteSet(holders'[x])
        BY <1>8, <1>9
      <3>2. QED
        BY <1>4, <2>1, <3>1
    <2>2. CASE y # x
      <3>1. IsFiniteSet(holders[y]) /\ (y \notin DOMAIN refs => holders[y] = {})
        BY DEF BundlesInv
      <3>2. QED
        BY <1>4, <1>8, <2>2, <3>1
    <2>3. QED
      BY <2>1, <2>2
  <1>11. ASSUME NEW y \in DOMAIN refs'
         PROVE  refs'[y] = Cardinality(holders'[y]) + Bit(y \in floating')
    <2>1. CASE y = x /\ floats
      <3>1. x \in floating' /\ Cardinality(holders'[x]) = 0
        BY <1>1, <1>8, <1>9, <2>1
      <3>2. QED
        BY <1>5, <2>1, <3>1 DEF Bit
    <2>2. CASE y = x /\ ~floats
      <3>1. x \notin floating' /\ Cardinality(holders'[x]) = 1
        BY <1>1, <1>3, <1>8, <1>9, <2>2
      <3>2. QED
        BY <1>5, <2>2, <3>1 DEF Bit
    <2>3. CASE y # x
      <3>1. y \in DOMAIN refs /\ y \in Bundle
        BY <1>2, <1>4, <2>3 DEF ListsInv
      <3>2. y \in floating' <=> y \in floating
        BY <1>1, <2>3
      <3>3. refs[y] = Cardinality(holders[y]) + Bit(y \in floating)
        BY <3>1 DEF BundlesInv
      <3>4. QED
        BY <1>5, <1>8, <2>3, <3>1, <3>2, <3>3 DEF Bit
    <2>4. QED
      BY <2>1, <2>2, <2>3
  <1>12. QED
    BY <1>6, <1>7, <1>8, <1>10, <1>11 DEF BundlesInv

LEMMA EndStep ==
    ASSUME AttributesInv, NEW b \in Builder, NEW x \in Bundle, NEW t \in Thread,
           NEW floats \in BOOLEAN, End(b, x, t, floats)
    PROVE  AttributesInv' /\ BlocksStay(cells, cells')
  <1>1. /\ x \notin DOMAIN items /\ NewBundle(x, items[b], t, floats)
        /\ items' = [y \in DOMAIN items \union {x} |->
                        IF y = x THEN items[b] ELSE IF y = b THEN << >> ELSE items[y]]
        /\ reading' = [reading EXCEPT ![b] = "no"] /\ cells' = cells
    BY DEF End
  <1>2. /\ b \in DOMAIN items /\ b # x /\ items[b] \in List /\ << >> \in List
        /\ items \in [DOMAIN items -> List]
    BY <1>1, BuilderAssumption DEF AttributesInv, ListsInv, List
  <1>3. /\ DOMAIN items' = DOMAIN items \union {x} /\ items'[x] = items[b] /\ items'[b] = << >>
        /\ \A y \in DOMAIN items \ {b} : items'[y] = items[y]
    BY <1>1, <1>2
  <1>4. items' \in [DOMAIN items' -> List]
    <2>1. \A y \in DOMAIN items : items[y] \in List
      BY <1>2
    <2>2. QED
      BY <1>1, <1>2, <2>1
  <1>5. Counted(items', cells')
    <2>1. Counted(items, cells)
      BY DEF AttributesInv, ListsInv
    <2>2. Counted(items', cells)
      BY <1>1, <1>2, <1>3, <2>1, Handed
    <2>3. QED
      BY <1>1, <2>2
  <1>6. ListsInv'
    BY <1>1, <1>3, <1>4, <1>5 DEF AttributesInv, ListsInv
  <1>7. BundlesInv'
    BY <1>1, <1>3, BundleAdded DEF AttributesInv
  <1>8. /\ \A p \in Builder \ {b} : items'[p] = items[p]
        /\ \A p \in Builder : p \in DOMAIN items
    BY <1>3 DEF AttributesInv, ListsInv
  <1>9. reading \in [Builder -> {"no", "asked", "read"}]
    BY DEF AttributesInv, ReadingInv
  <1>10. /\ reading' \in [Builder -> {"no", "asked", "read"}] /\ reading'[b] = "no"
         /\ \A p \in Builder \ {b} : reading'[p] = reading[p]
    BY <1>1, <1>9
  <1>11. ReadingInv'
    BY <1>8, <1>10 DEF AttributesInv, ReadingInv
  <1>12. SecretsStaySecure'
    <2>1. \A p \in DOMAIN items' : \/ p \in DOMAIN items /\ items'[p] = items[p]
                                   \/ Guards(Safe(cells'), items'[p])
      <3>1. Guards(Safe(cells), items[b])
        <4>1. BlocksStay(cells, cells)
          BY <1>1 DEF BlocksStay
        <4>2. QED
          BY <1>2, <4>1, ListGuards DEF AttributesInv
      <3>2. \A S : Guards(S, << >>)
        BY DEF Guards
      <3>3. QED
        BY <1>1, <1>3, <3>1, <3>2
    <2>2. BlocksStay(cells, cells')
      BY <1>1 DEF BlocksStay
    <2>3. QED
      BY <1>6, <2>1, <2>2, SecretsKept DEF AttributesInv
  <1>13. BlocksStay(cells, cells')
    BY <1>1 DEF BlocksStay
  <1>14. QED
    BY <1>6, <1>7, <1>11, <1>12, <1>13 DEF AttributesInv

\* A bundle of its own is made by what a builder would do with an empty list.
LEMMA OwnStep ==
    ASSUME AttributesInv, NEW x \in Bundle, x \notin DOMAIN items, NEW t \in Thread,
           NEW s, s = [list |-> << >>, cells |-> cells], NEW r, StateOK(r),
           \A c \in Cell : Spare(r, c) = Spare(s, c), BlocksStay(cells, r.cells),
           Guards(Safe(r.cells), r.list),
           cells' = r.cells, NEW l, NewBundle(x, l, t, FALSE), UNCHANGED reading,
           items' = [y \in DOMAIN items \union {x} |-> IF y = x THEN r.list ELSE items[y]]
    PROVE  AttributesInv' /\ BlocksStay(cells, cells')
  <1>1. r.list \in List /\ BlocksOK(r.cells)
    BY DEF StateOK
  <1>2. items \in [DOMAIN items -> List]
    BY DEF AttributesInv, ListsInv
  <1>3. /\ DOMAIN items' = DOMAIN items \union {x} /\ items'[x] = r.list
        /\ \A y \in DOMAIN items : items'[y] = items[y]
    OBVIOUS
  <1>4. items' \in [DOMAIN items' -> List]
    BY <1>1, <1>2
  <1>5. Accounts(items, x, << >>, cells)
    BY TakeNone DEF AttributesInv, ListsInv
  <1>6. Accounts(items, x, items'[x], cells')
    <2> SUFFICES ASSUME NEW c \in Cell
                 PROVE  /\ IsFiniteSet(PlacesIn(items, DOMAIN items \ {x}, c))
                        /\ RefCount(cells', c) = Rest(items, x, c) + UseCount(items'[x], c)
      BY DEF Accounts
    <2>1. /\ IsFiniteSet(PlacesIn(items, DOMAIN items \ {x}, c))
          /\ RefCount(cells, c) = Rest(items, x, c) + UseCount(<< >>, c)
      BY <1>5 DEF Accounts
    <2>2. Rest(items, x, c) \in Nat /\ UseCount(<< >>, c) = 0
      BY <2>1, FS_CardinalityType, UsesEmpty DEF Rest
    <2>3. s.list = << >> /\ s.cells = cells
      OBVIOUS
    <2>4. Spare(s, c) = Rest(items, x, c)
      BY <2>1, <2>2, <2>3 DEF Spare
    <2>5. RefCount(r.cells, c) \in Nat /\ UseCount(r.list, c) \in Nat
      BY <1>1, RefCountType, UsesFinite
    <2>6. Spare(r, c) = Rest(items, x, c)
      BY <2>4
    <2>7. QED
      BY <1>3, <2>1, <2>2, <2>5, <2>6 DEF Spare
  <1>7. Counted(items', cells')
    <2>1. DOMAIN items \ {x} = DOMAIN items' \ {x} /\ x \in DOMAIN items'
      BY <1>3
    <2>2. items'[x] \in List
      BY <1>1, <1>3
    <2>3. \A q \in DOMAIN items' \ {x} : items[q] = items'[q]
      BY <1>3
    <2>4. QED
      BY <1>6, <2>1, <2>2, <2>3, PutIn
  <1>8. ListsInv'
    BY <1>1, <1>3, <1>4, <1>7 DEF AttributesInv, ListsInv
  <1>9. BundlesInv'
    <2>1. FALSE \in BOOLEAN
      OBVIOUS
    <2>2. QED
      BY <1>3, <2>1, BundleAdded DEF AttributesInv
  <1>10. \A p \in Builder : p \in DOMAIN items /\ items'[p] = items[p]
    BY <1>3 DEF AttributesInv, ListsInv
  <1>11. ReadingInv'
    BY <1>10 DEF AttributesInv, ReadingInv
  <1>12. SecretsStaySecure'
    <2>1. \A p \in DOMAIN items' : \/ p \in DOMAIN items /\ items'[p] = items[p]
                                   \/ Guards(Safe(cells'), items'[p])
      BY <1>3
    <2>2. BlocksStay(cells, cells')
      OBVIOUS
    <2>3. QED
      BY <1>8, <2>1, <2>2, SecretsKept DEF AttributesInv
  <1>13. QED
    BY <1>8, <1>9, <1>11, <1>12 DEF AttributesInv


LEMMA EmptyState ==
    ASSUME ListsInv, NEW s, s = [list |-> << >>, cells |-> cells]
    PROVE  StateOK(s)
  <1>1. s.list = << >> /\ s.cells = cells /\ s = [list |-> s.list, cells |-> s.cells]
    OBVIOUS
  <1>2. s.list \in List /\ BlocksOK(s.cells)
    BY <1>1 DEF List, ListsInv
  <1>3. ASSUME NEW c \in Cell PROVE Spare(s, c) \in Nat
    <2>1. RefCount(s.cells, c) \in Nat /\ UseCount(<< >>, c) = 0
      BY <1>2, RefCountType, UsesEmpty
    <2>2. QED
      BY <1>1, <2>1 DEF Spare
  <1>4. QED
    BY <1>1, <1>2, <1>3 DEF StateOK

LEMMA NewAttributeStep ==
    ASSUME AttributesInv, NEW x \in Bundle, NEW ty \in Type, NEW data \in Bytes,
           NEW t \in Thread, NewAttribute(x, ty, data, t)
    PROVE  AttributesInv' /\ BlocksStay(cells, cells')
  <1> DEFINE s == [list |-> << >>, cells |-> cells]
             a(c) == Attr(ty, c, Len(data), "any")
             it(c) == [y \in DOMAIN items \union {x} |-> IF y = x THEN <<a(c)>> ELSE items[y]]
  <1>1. PICK c \in FreeCells :
            /\ x \notin DOMAIN items /\ cells' = ValueNew(cells, c, data, Secret(data))
            /\ items' = it(c) /\ NewBundle(x, items'[x], t, FALSE) /\ UNCHANGED reading
    BY DEF NewAttribute
  <1>2. c \in Cell \ DOMAIN s.cells /\ s.cells = cells /\ s.list = << >>
    BY DEF FreeCells
  <1>3. data \in Seq(Nat)
    BY BytesAssumption
  <1>4. StateOK(s)
    BY EmptyState DEF AttributesInv
  <1> DEFINE ac == a(c)
             secure == Secret(data)
             q == [list |-> s.list, cells |-> ValueNew(s.cells, c, data, secure)]
             r == Push(q, ac)
  <1>5. ac \in AttrRecord /\ ac.cell = c /\ ac.memory = "any"
    BY <1>2, <1>3, PlainAttrType
  <1>6. secure \in BOOLEAN /\ (Secret(data) => secure)
    BY DEF Secret
  <1>7. q.cells = cells' /\ q.list = << >>
    BY <1>1, <1>2
  <1>8. items' = [y \in DOMAIN items \union {x} |-> IF y = x THEN <<ac>> ELSE items[y]]
    BY <1>1
  <1> HIDE DEF ac, a, secure
  <1>9. /\ StateOK(q) /\ \A d \in Cell : Spare(q, d) = Spare(s, d) + Bit(c = d)
        /\ BlocksStay(s.cells, q.cells)
    <2> HIDE DEF s
    <2>1. QED
      BY <1>2, <1>3, <1>4, <1>6, WithNew
  <1>10. r.list = <<ac>> /\ r.cells = q.cells
    <2>1. Append(<< >>, ac) = <<ac>>
      BY Appended
    <2> HIDE DEF q
    <2>2. q = [list |-> q.list, cells |-> q.cells]
      BY <1>9 DEF StateOK
    <2>3. r.list = Append(q.list, ac) /\ r.cells = q.cells
      BY <2>2 DEF Push
    <2>4. QED
      BY <1>7, <2>1, <2>3
  <1>11. BlocksStay(cells, q.cells)
    BY <1>2, <1>9
  <1> HIDE DEF q, s
  <1>12. ASSUME NEW d \in Cell
         PROVE  Spare(s, d) \in Nat /\ Bit(ac.cell = d) \in Nat /\ Bit(c = d) = Bit(ac.cell = d)
    BY <1>4, <1>5 DEF StateOK, Bit
  <1>13. \A d \in Cell : Spare(q, d) >= Bit(ac.cell = d)
    BY <1>9, <1>12
  <1>14. StateOK(r) /\ \A d \in Cell : Spare(r, d) = Spare(q, d) - Bit(ac.cell = d)
    BY <1>5, <1>9, <1>13, PushKeeps
  <1> HIDE DEF r
  <1>15. \A d \in Cell : Spare(r, d) = Spare(s, d)
    BY <1>9, <1>12, <1>14
  <1>16. cells' = r.cells /\ BlocksStay(cells, r.cells)
    BY <1>7, <1>10, <1>11
  <1>17. items' = [y \in DOMAIN items \union {x} |-> IF y = x THEN r.list ELSE items[y]]
    BY <1>8, <1>10
  <1>18. s = [list |-> << >>, cells |-> cells]
    BY DEF s
  <1>24. Guards(Safe(r.cells), r.list)
    <2>1. r.list = <<ac>> /\ DOMAIN <<ac>> = {1} /\ <<ac>>[1] = ac
      BY <1>10
    <2>2. QED
      BY <1>5, <2>1 DEF Guards
  <1> DEFINE l == r.list
  <1>19. NewBundle(x, l, t, FALSE) /\ UNCHANGED reading /\ x \notin DOMAIN items
    <2>1. items'[x] = l
      BY <1>17
    <2>2. QED
      BY <1>1, <2>1
  <1> HIDE DEF l
  <1>20. StateOK(r) /\ BlocksStay(cells, r.cells)
    BY <1>14, <1>16
  <1>21. cells' = r.cells
    BY <1>16
  <1>22. x \notin DOMAIN items /\ NewBundle(x, l, t, FALSE) /\ UNCHANGED reading
    BY <1>19
  <1>23. QED
    BY <1>15, <1>17, <1>18, <1>20, <1>21, <1>22, <1>24, OwnStep

LEMMA DupAttributeStep ==
    ASSUME AttributesInv, NEW x \in Bundle, NEW y, Usable(y), NEW i, NEW t \in Thread,
           DupAttribute(x, y, i, t)
    PROVE  AttributesInv' /\ BlocksStay(cells, cells')
  <1> DEFINE s == [list |-> << >>, cells |-> cells]
             a == items[y][i]
             r == Copy(s, a, FALSE)
  <1>1. /\ x \notin DOMAIN items /\ i \in DOMAIN items[y] /\ cells' = r.cells
        /\ items' = [z \in DOMAIN items \union {x} |-> IF z = x THEN r.list ELSE items[z]]
        /\ NewBundle(x, r.list, t, FALSE) /\ UNCHANGED reading
    BY DEF DupAttribute
  <1>2. y \in DOMAIN items \ {x} /\ items[y] \in List
    BY <1>1, UsableBundle DEF Usable
  <1>3. a \in AttrRecord
    BY <1>1, <1>2 DEF List
  <1>4. StateOK(s) /\ s.cells = cells /\ s.list = << >>
    BY EmptyState DEF AttributesInv
  <1>5. s = [list |-> << >>, cells |-> cells]
    OBVIOUS
  <1> HIDE DEF s
  <1>6. a.cell # NoCell => Spare(s, a.cell) > 0
    <2> HAVE a.cell # NoCell
    <2>1. a.cell \in Cell
      BY <1>3 DEF AttrRecord
    <2>2. Accounts(items, x, << >>, cells)
      BY <1>1, TakeNone DEF AttributesInv, ListsInv
    <2>3. Rest(items, x, a.cell) > 0
      BY <1>1, <1>2, <2>1, <2>2, OthersLend
    <2>4. /\ IsFiniteSet(PlacesIn(items, DOMAIN items \ {x}, a.cell))
          /\ RefCount(cells, a.cell) = Rest(items, x, a.cell) + UseCount(<< >>, a.cell)
      BY <2>1, <2>2 DEF Accounts
    <2>5. Rest(items, x, a.cell) \in Nat /\ UseCount(<< >>, a.cell) = 0
      BY <2>4, FS_CardinalityType, UsesEmpty DEF Rest
    <2>6. QED
      BY <1>4, <2>3, <2>4, <2>5 DEF Spare
  <1> HIDE DEF a
  <1>7. /\ StateOK(r) /\ Remains(s.cells, r.cells)
        /\ \A c \in Cell : Spare(r, c) = Spare(s, c)
    BY <1>3, <1>4, <1>6, CopyKeeps
  <1> HIDE DEF r
  <1>8. BlocksStay(cells, r.cells)
    BY <1>4, <1>7, RemainsStays
  <1>11. Guards(Safe(r.cells), r.list)
    <2>1. PICK S : S = Safe(r.cells)
      OBVIOUS
    <2>2. Guards(S, items[y])
      BY <1>2, <1>8, <2>1, ListGuards DEF AttributesInv
    <2>3. GuardsOne(S, a)
      BY <1>1, <2>2 DEF Guards, GuardsOne, a
    <2>4. Guards(S, s.list)
      BY <1>4 DEF Guards
    <2>5. Guards(S, Copy(s, a, FALSE).list)
      BY <1>3, <1>4, <2>3, <2>4, CopyGuards
    <2>6. QED
      BY <2>1, <2>5 DEF r
  <1> DEFINE l == r.list
  <1>9. NewBundle(x, l, t, FALSE)
    BY <1>1
  <1> HIDE DEF l
  <1>10. QED
    BY <1>1, <1>5, <1>7, <1>8, <1>9, <1>11, OwnStep

-----------------------------------------------------------------------------
(* References to bundles.                                                  *)

\* A step on one bundle that leaves the lists and the values alone.
LEMMA BundleStep ==
    ASSUME AttributesInv, NEW x \in DOMAIN refs, NEW n \in Nat \ {0}, NEW H \in SUBSET Thread,
           IsFiniteSet(H), refs' = [refs EXCEPT ![x] = n], holders' = [holders EXCEPT ![x] = H],
           floating' \in {floating, floating \ {x}},
           n = Cardinality(H) + Bit(x \in floating'), UNCHANGED <<cells, items, reading>>
    PROVE  AttributesInv' /\ BlocksStay(cells, cells')
  <1>1. /\ refs \in [DOMAIN items \ Builder -> Nat \ {0}] /\ floating \subseteq DOMAIN refs
        /\ holders \in [Bundle -> SUBSET Thread] /\ x \in Bundle
        /\ DOMAIN refs \subseteq Bundle
    BY UsableBundle DEF AttributesInv, BundlesInv
  <1>2. /\ refs' \in [DOMAIN items' \ Builder -> Nat \ {0}] /\ floating' \subseteq DOMAIN refs'
        /\ holders' \in [Bundle -> SUBSET Thread] /\ DOMAIN refs' = DOMAIN refs
    BY <1>1
  <1>3. ASSUME NEW y \in Bundle
        PROVE  IsFiniteSet(holders'[y]) /\ (y \notin DOMAIN refs' => holders'[y] = {})
    BY <1>1, <1>2 DEF AttributesInv, BundlesInv
  <1>4. ASSUME NEW y \in DOMAIN refs'
        PROVE  refs'[y] = Cardinality(holders'[y]) + Bit(y \in floating')
    <2>1. CASE y = x
      <3>1. refs'[x] = n /\ holders'[x] = H
        BY <1>1
      <3>2. QED
        BY <2>1, <3>1
    <2>2. CASE y # x
      <3>1. refs'[y] = refs[y] /\ holders'[y] = holders[y] /\ (y \in floating' <=> y \in floating)
        BY <1>1, <1>2, <2>2
      <3>2. refs[y] = Cardinality(holders[y]) + Bit(y \in floating)
        BY <1>2 DEF AttributesInv, BundlesInv
      <3>3. QED
        BY <3>1, <3>2 DEF Bit
    <2>3. QED
      BY <2>1, <2>2
  <1>5. BundlesInv'
    BY <1>2, <1>3, <1>4 DEF BundlesInv
  <1>6. ListsInv' /\ ReadingInv' /\ SecretsStaySecure'
    BY DEF AttributesInv, ListsInv, ReadingInv, SecretsStaySecure
  <1>7. BlocksStay(cells, cells')
    BY DEF BlocksStay
  <1>8. QED
    BY <1>5, <1>6, <1>7 DEF AttributesInv

LEMMA CountOfBundle ==
    ASSUME AttributesInv, NEW x \in DOMAIN refs
    PROVE  /\ refs[x] \in Nat \ {0} /\ IsFiniteSet(holders[x]) /\ holders[x] \in SUBSET Thread
           /\ refs[x] = Cardinality(holders[x]) + Bit(x \in floating)
  BY UsableBundle DEF AttributesInv, BundlesInv

LEMMA RefStep ==
    ASSUME AttributesInv, NEW x, NEW u \in Thread, Ref(x, u)
    PROVE  AttributesInv' /\ BlocksStay(cells, cells')
  <1> DEFINE H == holders[x] \union {u}
             n == refs[x] + 1
  <1>1. /\ x \in DOMAIN refs /\ u \notin holders[x] /\ refs' = [refs EXCEPT ![x] = n]
        /\ holders' = [holders EXCEPT ![x] = H] /\ floating' = floating
        /\ UNCHANGED <<cells, items, reading>>
    BY DEF Ref
  <1>2. /\ refs[x] \in Nat \ {0} /\ IsFiniteSet(holders[x]) /\ holders[x] \in SUBSET Thread
        /\ refs[x] = Cardinality(holders[x]) + Bit(x \in floating)
    BY <1>1, CountOfBundle
  <1>3. IsFiniteSet(H) /\ Cardinality(H) = Cardinality(holders[x]) + 1
    BY <1>1, <1>2, FS_AddElement
  <1>4. Cardinality(holders[x]) \in Nat
    BY <1>2, FS_CardinalityType
  <1>5. n \in Nat \ {0} /\ n = Cardinality(H) + Bit(x \in floating')
    BY <1>1, <1>2, <1>3, <1>4 DEF Bit
  <1>6. H \in SUBSET Thread
    BY <1>2
  <1> HIDE DEF H, n
  <1>7. QED
    BY <1>1, <1>3, <1>5, <1>6, BundleStep

LEMMA RefSinkStep ==
    ASSUME AttributesInv, NEW x, NEW t \in Thread, RefSink(x, t)
    PROVE  AttributesInv' /\ BlocksStay(cells, cells')
  <1> DEFINE H == holders[x] \union {t}
             n == SunkRefs(x)
  <1>1. /\ x \in DOMAIN refs /\ t \notin holders[x] /\ refs' = [refs EXCEPT ![x] = n]
        /\ holders' = [holders EXCEPT ![x] = H] /\ floating' = floating \ {x}
        /\ UNCHANGED <<cells, items, reading>>
    BY DEF RefSink
  <1>2. /\ refs[x] \in Nat \ {0} /\ IsFiniteSet(holders[x]) /\ holders[x] \in SUBSET Thread
        /\ refs[x] = Cardinality(holders[x]) + Bit(x \in floating)
    BY <1>1, CountOfBundle
  <1>3. IsFiniteSet(H) /\ Cardinality(H) = Cardinality(holders[x]) + 1
    BY <1>1, <1>2, FS_AddElement
  <1>4. Cardinality(holders[x]) \in Nat
    BY <1>2, FS_CardinalityType
  <1>5. x \notin floating'
    BY <1>1
  <1>6. n = IF x \in floating THEN refs[x] ELSE refs[x] + 1
    BY DEF SunkRefs
  <1> HIDE DEF n, H
  <1>7. n \in Nat \ {0} /\ n = Cardinality(H) + Bit(x \in floating')
    BY <1>2, <1>3, <1>4, <1>5, <1>6 DEF Bit
  <1>8. H \in SUBSET Thread
    BY <1>2 DEF H
  <1>9. QED
    BY <1>1, <1>3, <1>7, <1>8, BundleStep


LEMMA UnrefStep ==
    ASSUME AttributesInv, NEW x, NEW t \in Thread, Unref(x, t), refs[x] # 1
    PROVE  AttributesInv' /\ BlocksStay(cells, cells')
  <1> DEFINE H == holders[x] \ {t}
             n == refs[x] - 1
  <1>1. /\ x \in DOMAIN refs /\ t \in holders[x] /\ refs' = [refs EXCEPT ![x] = n]
        /\ holders' = [holders EXCEPT ![x] = H] /\ floating' = floating
        /\ UNCHANGED <<cells, items, reading>>
    BY DEF Unref
  <1>2. /\ refs[x] \in Nat \ {0} /\ IsFiniteSet(holders[x]) /\ holders[x] \in SUBSET Thread
        /\ refs[x] = Cardinality(holders[x]) + Bit(x \in floating)
    BY <1>1, CountOfBundle
  <1>3. IsFiniteSet(H) /\ Cardinality(H) = Cardinality(holders[x]) - 1
    BY <1>1, <1>2, FS_RemoveElement
  <1>4. Cardinality(holders[x]) \in Nat
    BY <1>2, FS_CardinalityType
  <1>5. n \in Nat \ {0} /\ n = Cardinality(H) + Bit(x \in floating')
    BY <1>1, <1>2, <1>3, <1>4 DEF Bit
  <1>6. H \in SUBSET Thread
    BY <1>2
  <1> HIDE DEF H, n
  <1>7. QED
    BY <1>1, <1>3, <1>5, <1>6, BundleStep

\* The last who holds a bundle frees what is in it.
LEMMA LastUnrefStep ==
    ASSUME AttributesInv, NEW x, NEW t \in Thread, Unref(x, t), refs[x] = 1
    PROVE  AttributesInv' /\ BlocksStay(cells, cells')
  <1>1. /\ x \in DOMAIN refs /\ t \in holders[x]
        /\ holders' = [holders EXCEPT ![x] = holders[x] \ {t}]
        /\ cells' = UnrefAll(cells, items[x])
        /\ items' = Restrict(items, DOMAIN items \ {x})
        /\ refs' = Restrict(refs, DOMAIN refs \ {x})
        /\ UNCHANGED <<floating, reading>>
    BY DEF Unref
  <1>2. /\ x \in DOMAIN items \ Builder /\ x \in Bundle /\ items[x] \in List
        /\ items \in [DOMAIN items -> List]
    BY <1>1, UsableBundle DEF AttributesInv, ListsInv
  <1>3. holders[x] = {t} /\ x \notin floating
    <2>1. /\ IsFiniteSet(holders[x]) /\ 1 = Cardinality(holders[x]) + Bit(x \in floating)
      BY <1>1, CountOfBundle
    <2>2. IsFiniteSet(holders[x] \ {t}) /\ Cardinality(holders[x] \ {t}) = Cardinality(holders[x]) - 1
      BY <1>1, <2>1, FS_RemoveElement
    <2>3. Cardinality(holders[x]) \in Nat /\ Cardinality(holders[x] \ {t}) \in Nat
      BY <2>1, <2>2, FS_CardinalityType
    <2>4. Cardinality(holders[x] \ {t}) = 0 /\ x \notin floating
      BY <2>1, <2>2, <2>3 DEF Bit
    <2>5. holders[x] \ {t} = {}
      BY <2>2, <2>4, FS_EmptySet
    <2>6. QED
      BY <1>1, <2>4, <2>5
  <1>4. /\ DOMAIN items' = DOMAIN items \ {x} /\ \A y \in DOMAIN items' : items'[y] = items[y]
        /\ items' = [y \in DOMAIN items \ {x} |-> items[y]]
    BY <1>1 DEF Restrict
  <1>5. /\ DOMAIN refs' = DOMAIN refs \ {x} /\ \A y \in DOMAIN refs' : refs'[y] = refs[y]
        /\ refs' = [y \in DOMAIN refs \ {x} |-> refs[y]]
    BY <1>1 DEF Restrict
  <1> DEFINE s == State(x)
             e == [list |-> << >>, cells |-> UnrefAll(cells, items[x])]
  <1>6. /\ StateOK(e) /\ Remains(cells, e.cells)
        /\ \A c \in Cell : Spare(e, c) = Spare(s, c)
    <2>1. << >> \in List /\ \A i \in DOMAIN << >> : << >>[i].cell = NoCell
      BY DEF List
    <2>2. QED
      BY <1>2, <2>1, Emptied DEF AttributesInv
  <1>7. e.cells = cells' /\ e.list = << >>
    BY <1>1
  <1> HIDE DEF e, s
  <1>8. Accounts(items, x, << >>, cells')
    <2> SUFFICES ASSUME NEW c \in Cell
                 PROVE  /\ IsFiniteSet(PlacesIn(items, DOMAIN items \ {x}, c))
                        /\ RefCount(cells', c) = Rest(items, x, c) + UseCount(<< >>, c)
      BY DEF Accounts
    <2>1. /\ Accounts(items, x, items[x], cells) /\ Spare(s, c) = Rest(items, x, c)
      BY <1>2, ListState DEF AttributesInv, s
    <2>2. IsFiniteSet(PlacesIn(items, DOMAIN items \ {x}, c))
      BY <2>1 DEF Accounts
    <2>3. Rest(items, x, c) \in Nat /\ UseCount(<< >>, c) = 0
      BY <2>2, FS_CardinalityType, UsesEmpty DEF Rest
    <2>4. RefCount(e.cells, c) \in Nat
      BY <1>6, RefCountType DEF StateOK
    <2>5. QED
      BY <1>6, <1>7, <2>1, <2>2, <2>3, <2>4 DEF Spare
  <1>9. Counted(items', cells')
    BY <1>4, <1>8, LeaveOut
  <1>10. BlocksOK(cells')
    BY <1>6, <1>7 DEF StateOK
  <1>11. ListsInv'
    <2>1. items' \in [DOMAIN items' -> List]
      BY <1>2, <1>4
    <2>2. Builder \subseteq DOMAIN items' /\ DOMAIN items' \subseteq Builder \union Bundle
      BY <1>2, <1>4 DEF AttributesInv, ListsInv
    <2>3. QED
      BY <1>9, <1>10, <2>1, <2>2 DEF ListsInv
  <1>12. BundlesInv'
    <2>1. /\ refs \in [DOMAIN items \ Builder -> Nat \ {0}] /\ floating \subseteq DOMAIN refs
          /\ holders \in [Bundle -> SUBSET Thread] /\ DOMAIN refs \subseteq Bundle
      BY UsableBundle DEF AttributesInv, BundlesInv
    <2>2. refs' \in [DOMAIN items' \ Builder -> Nat \ {0}] /\ floating' \subseteq DOMAIN refs'
      <3>1. DOMAIN refs' = DOMAIN items' \ Builder
        BY <1>4, <1>5, <2>1
      <3>2. \A y \in DOMAIN refs' : refs'[y] \in Nat \ {0}
        BY <1>5, <2>1
      <3>3. refs' = [y \in DOMAIN refs' |-> refs'[y]]
        BY <1>5
      <3>4. floating' \subseteq DOMAIN refs'
        BY <1>1, <1>3, <1>5, <2>1
      <3>5. QED
        BY <3>1, <3>2, <3>3, <3>4
    <2>3. /\ holders'[x] = {} /\ \A y \in Bundle \ {x} : holders'[y] = holders[y]
          /\ holders' \in [Bundle -> SUBSET Thread]
      BY <1>1, <1>2, <1>3, <2>1
    <2>4. ASSUME NEW y \in Bundle
          PROVE  IsFiniteSet(holders'[y]) /\ (y \notin DOMAIN refs' => holders'[y] = {})
      <3>1. CASE y = x
        BY <2>3, <3>1, FS_EmptySet
      <3>2. CASE y # x
        BY <1>5, <2>3, <3>2 DEF AttributesInv, BundlesInv
      <3>3. QED
        BY <3>1, <3>2
    <2>5. ASSUME NEW y \in DOMAIN refs'
          PROVE  refs'[y] = Cardinality(holders'[y]) + Bit(y \in floating')
      <3>1. y \in DOMAIN refs /\ y # x /\ y \in Bundle
        BY <1>5, <2>1
      <3>2. refs[y] = Cardinality(holders[y]) + Bit(y \in floating)
        BY <3>1 DEF AttributesInv, BundlesInv
      <3>3. QED
        BY <1>1, <1>5, <2>3, <3>1, <3>2
    <2>6. QED
      BY <2>2, <2>3, <2>4, <2>5 DEF BundlesInv
  <1>13. \A p \in Builder : p \in DOMAIN items /\ items'[p] = items[p]
    BY <1>2, <1>4 DEF AttributesInv, ListsInv
  <1>14. ReadingInv'
    BY <1>1, <1>13 DEF AttributesInv, ReadingInv
  <1>15. SecretsStaySecure'
    <2>1. \A p \in DOMAIN items' : \/ p \in DOMAIN items /\ items'[p] = items[p]
                                   \/ Guards(Safe(cells'), items'[p])
      BY <1>4
    <2>2. BlocksStay(cells, cells')
      BY <1>6, <1>7, RemainsStays
    <2>3. QED
      BY <1>11, <2>1, <2>2, SecretsKept DEF AttributesInv
  <1>16. BlocksStay(cells, cells')
    BY <1>6, <1>7, RemainsStays
  <1>17. QED
    BY <1>11, <1>12, <1>14, <1>15, <1>16 DEF AttributesInv

-----------------------------------------------------------------------------
(* What a token writes.                                                    *)

Lengths == {Invalid} \union {Len(d) : d \in Bytes}

LEMMA PrepareInStep ==
    ASSUME AttributesInv, NEW b \in Builder, NEW lengths \in [DOMAIN items[b] -> Lengths],
           PrepareIn(b, lengths)
    PROVE  AttributesInv' /\ BlocksStay(cells, cells')
  <1> DEFINE l == PreparedIn(items[b], lengths)
             r == [list |-> l, cells |-> UnrefAll(cells, items[b])]
  <1>1. b \in DOMAIN items /\ items[b] \in List
    BY DEF AttributesInv, ListsInv
  <1>2. /\ Idle(b) /\ items' = [items EXCEPT ![b] = l] /\ cells' = UnrefAll(cells, items[b])
        /\ reading' = [reading EXCEPT ![b] = "asked"] /\ UNCHANGED <<refs, floating, holders>>
    BY DEF PrepareIn
  <1>3. /\ DOMAIN l = DOMAIN items[b]
        /\ \A i \in DOMAIN items[b] : l[i] = Attr(items[b][i].type, NoCell, lengths[i], "any")
    BY DEF PreparedIn
  <1>4. \A i \in DOMAIN items[b] :
            Attr(items[b][i].type, NoCell, lengths[i], "any") \in AttrRecord
    <2> SUFFICES ASSUME NEW i \in DOMAIN items[b]
                 PROVE  Attr(items[b][i].type, NoCell, lengths[i], "any") \in AttrRecord
      OBVIOUS
    <2>1. items[b][i] \in AttrRecord
      BY <1>1 DEF List
    <2>2. items[b][i].type \in Type
      BY <2>1 DEF AttrRecord
    <2>3. lengths[i] \in Nat \union {Invalid}
      BY BytesAssumption DEF Lengths
    <2>4. QED
      BY <2>2, <2>3, PlainAttrType
  <1>5. l \in List
    <2>1. DOMAIN items[b] = 1 .. Len(items[b]) /\ Len(items[b]) \in Nat
      BY <1>1 DEF List
    <2>2. l = [i \in 1 .. Len(items[b]) |-> l[i]]
      BY <2>1 DEF PreparedIn
    <2> HIDE DEF l
    <2>3. \A i \in 1 .. Len(items[b]) : l[i] \in AttrRecord
      BY <1>3, <1>4, <2>1
    <2>4. l \in [1 .. Len(items[b]) -> AttrRecord]
      BY <2>2, <2>3
    <2>5. QED
      BY <2>1, <2>4 DEF List
  <1>6. \A i \in DOMAIN l : l[i].cell = NoCell
    <2> HIDE DEF l
    <2>1. \A u, n : Attr(u, NoCell, n, "any").cell = NoCell
      BY AttrFields
    <2>2. QED
      BY <1>3, <2>1
  <1> HIDE DEF l
  <1>7. items' = [items EXCEPT ![b] = r.list] /\ cells' = r.cells
    BY <1>2
  <1>8. /\ StateOK(r) /\ Remains(cells, r.cells)
        /\ \A c \in Cell : Spare(r, c) = Spare(State(b), c)
    BY <1>1, <1>5, <1>6, Emptied DEF AttributesInv
  <1> HIDE DEF r
  <1>9. ListsInv' /\ DOMAIN items' = DOMAIN items
    BY <1>1, <1>7, <1>8, ListChanged DEF AttributesInv
  <1>10. BundlesInv'
    BY <1>2, <1>9, BundlesStay DEF AttributesInv
  <1>11. /\ items'[b] = l /\ \A p \in DOMAIN items \ {b} : items'[p] = items[p]
         /\ \A p \in Builder : p \in DOMAIN items
    BY <1>1, <1>2 DEF AttributesInv, ListsInv
  <1>12. reading \in [Builder -> {"no", "asked", "read"}]
    BY DEF AttributesInv, ReadingInv
  <1>13. /\ reading' \in [Builder -> {"no", "asked", "read"}] /\ reading'[b] = "asked"
         /\ \A p \in Builder \ {b} : reading'[p] = reading[p]
    BY <1>2, <1>12
  <1>14. ReadingInv'
    BY <1>6, <1>11, <1>13 DEF AttributesInv, ReadingInv
  <1>15. SecretsStaySecure'
    <2>1. \A p \in DOMAIN items' : \/ p \in DOMAIN items /\ items'[p] = items[p]
                                   \/ Guards(Safe(cells'), items'[p])
      <3>1. \A S : Guards(S, l)
        BY <1>6 DEF Guards
      <3>2. QED
        BY <1>9, <1>11, <3>1
    <2>2. BlocksStay(cells, cells')
      BY <1>7, <1>8, RemainsStays
    <2>3. QED
      BY <1>9, <2>1, <2>2, SecretsKept DEF AttributesInv
  <1>16. BlocksStay(cells, cells')
    BY <1>7, <1>8, RemainsStays
  <1>17. QED
    BY <1>9, <1>10, <1>14, <1>15, <1>16 DEF AttributesInv


\* Bytes that anybody may see.
Plain == Nat \ {SecretByte}

LEMMA PlainBytes ==
    /\ \A d \in Seq(Plain) : d \in Seq(Nat) /\ ~Secret(d)
    /\ \A d \in Bytes : ~Secret(d) => d \in Seq(Plain)
    /\ \A n \in Nat : Unset(n) \in Seq(Plain) /\ Len(Unset(n)) = n
  <1>1. ASSUME NEW d \in Seq(Plain) PROVE d \in Seq(Nat) /\ ~Secret(d)
    <2>1. \A i \in DOMAIN d : d[i] \in Nat /\ d[i] # SecretByte
      BY DEF Plain
    <2>2. d \in Seq(Nat)
      BY DEF Plain
    <2>3. QED
      BY <2>1, <2>2 DEF Secret
  <1>2. ASSUME NEW d \in Bytes, ~Secret(d) PROVE d \in Seq(Plain)
    <2>1. d \in Seq(Nat) /\ \A i \in DOMAIN d : d[i] # SecretByte
      BY <1>2, BytesAssumption DEF Secret
    <2>2. d \in [1 .. Len(d) -> Plain] /\ Len(d) \in Nat
      BY <2>1 DEF Plain
    <2>3. QED
      BY <2>2
  <1>3. ASSUME NEW n \in Nat PROVE Unset(n) \in Seq(Plain) /\ Len(Unset(n)) = n
    <2>1. UnsetByte \in Plain
      BY BytesAssumption DEF Plain
    <2>2. QED
      BY <2>1 DEF Unset
  <1>4. QED
    BY <1>1, <1>2, <1>3

Answers == {Gone} \union {d \in Bytes : ~Secret(d)}

LEMMA WrittenPlain ==
    ASSUME NEW n \in Nat, NEW v \in Answers
    PROVE  WrittenBlock(Unset(n), v) \in Seq(Plain)
  <1> DEFINE u == Unset(n)
  <1>1. u \in Seq(Plain)
    BY PlainBytes
  <1> HIDE DEF u
  <1>2. CASE v = Gone
    BY <1>1, <1>2 DEF WrittenBlock, u
  <1>3. CASE v # Gone
    <2>1. v \in Bytes /\ ~Secret(v)
      BY <1>3 DEF Answers
    <2>2. v \in Seq(Plain)
      BY <2>1, PlainBytes
    <2> DEFINE w == SubSeq(u, Len(v) + 1, Len(u))
    <2>3. w \in Seq(Plain)
      <3>1. Len(v) \in Nat /\ Len(u) \in Nat /\ DOMAIN u = 1 .. Len(u)
        BY <1>1, <2>2
      <3>2. \A i \in Len(v) + 1 .. Len(u) : u[i] \in Plain
        BY <1>1, <3>1
      <3>3. QED
        BY <3>1, <3>2, SubSeqProperties
    <2> HIDE DEF w
    <2>4. v \o w \in Seq(Plain)
      BY <2>2, <2>3, ConcatProperties
    <2>5. WrittenBlock(u, v) = v \o w
      BY <1>3 DEF WrittenBlock, w
    <2>6. QED
      BY <2>4, <2>5 DEF u
  <1>4. QED
    BY <1>2, <1>3

LEMMA WrittenLengths ==
    ASSUME NEW a \in AttrRecord, NEW v \in Answers
    PROVE  WrittenLength(a, v) \in Nat \union {Invalid}
  <1>1. a.length \in Nat \union {Invalid}
    BY DEF AttrRecord
  <1>2. v # Gone => Len(v) \in Nat
    BY SMTT(30), BytesAssumption DEF Answers
  <1>3. QED
    BY <1>1, <1>2 DEF WrittenLength

\* What the list and the blocks are, after the values were received.
LEMMA ReceivedIs ==
    ASSUME AttributesInv, NEW b \in Builder, reading[b] = "asked", NEW place \in Placings(b),
           NEW values \in [DOMAIN items[b] -> Answers],
           NEW r, r = Received(Committed(b, place), values)
    PROVE  /\ r = [list |-> r.list, cells |-> r.cells]
           /\ r.list \in List /\ DOMAIN r.list = DOMAIN items[b]
           /\ \A i \in DOMAIN items[b] : r.list[i].memory = "secure" => b \in SecureBuilder
           /\ \A i \in DOMAIN items[b] :
                 r.list[i].cell = IF i \in Sized(b) THEN place[i] ELSE NoCell
           /\ DOMAIN r.cells = DOMAIN cells \union Range(place)
           /\ r.cells = [c \in DOMAIN r.cells |-> r.cells[c]]
           /\ \A c \in DOMAIN cells : r.cells[c] = cells[c]
           /\ \A i \in Sized(b) :
                 /\ r.cells[place[i]] \in BlockRecord /\ r.cells[place[i]].refs = 1
                 /\ ~Secret(r.cells[place[i]].data)
                 /\ b \in SecureBuilder => r.cells[place[i]].secure
  <1> DEFINE l == items[b]
             s == Committed(b, place)
             into(c) == {i \in DOMAIN s.list : s.list[i].cell = c}
             new(c) == LET i == CHOOSE j \in Sized(b) : place[j] = c
                       IN  [refs |-> 1, secure |-> b \in SecureBuilder,
                            data |-> Unset(items[b][i].length)]
             written(c) == LET i == CHOOSE j \in into(c) : TRUE
                           IN  [s.cells[c] EXCEPT
                                   !.data = WrittenBlock(@, values[i])]
  <1>1. /\ b \in DOMAIN items /\ l \in List /\ DOMAIN l = 1 .. Len(l) /\ Len(l) \in Nat
        /\ \A i \in DOMAIN l : l[i] \in AttrRecord
    BY DEF AttributesInv, ListsInv, List
  <1>2. /\ place \in [Sized(b) -> Cell \ DOMAIN cells] /\ DOMAIN place = Sized(b)
        /\ \A i \in Sized(b), j \in Sized(b) : place[i] = place[j] => i = j
        /\ Sized(b) \subseteq DOMAIN l
    BY DEF Placings, Sized, IsInjective
  <1>3. /\ s.list = [i \in DOMAIN l |->
                        [l[i] EXCEPT !.cell = IF i \in Sized(b) THEN place[i] ELSE NoCell,
                                     !.memory = Memory(b)]]
        /\ s.cells = [c \in DOMAIN cells \union Range(place) |->
                         IF c \in DOMAIN cells THEN cells[c] ELSE new(c)]
    BY DEF Committed
  <1>4. /\ r.list = [i \in DOMAIN s.list |->
                        [s.list[i] EXCEPT !.length = WrittenLength(s.list[i], values[i])]]
        /\ r.cells = [c \in DOMAIN s.cells |->
                         IF into(c) = {} THEN s.cells[c] ELSE written(c)]
        /\ r = [list |-> r.list, cells |-> r.cells]
    BY DEF Received
  <1> HIDE DEF s
  <1>5. /\ DOMAIN s.list = DOMAIN l
        /\ \A i \in DOMAIN l : /\ s.list[i] \in AttrRecord
                               /\ s.list[i].memory = "secure" => b \in SecureBuilder
                               /\ s.list[i].cell = IF i \in Sized(b) THEN place[i] ELSE NoCell
    <2>1. ASSUME NEW i \in DOMAIN l
          PROVE  /\ s.list[i] \in AttrRecord
                 /\ s.list[i].memory = "secure" => b \in SecureBuilder
                 /\ s.list[i].cell = IF i \in Sized(b) THEN place[i] ELSE NoCell
      <3>1. s.list[i] = [l[i] EXCEPT !.cell = IF i \in Sized(b) THEN place[i] ELSE NoCell,
                                     !.memory = Memory(b)]
        BY <1>3
      <3>2. l[i] \in AttrRecord /\ (IF i \in Sized(b) THEN place[i] ELSE NoCell) \in Cell \union {NoCell}
        BY <1>1, <1>2
      <3>3. Memory(b) \in {"secure", "any"} /\ (Memory(b) = "secure" => b \in SecureBuilder)
        BY DEF Memory
      <3>4. QED
        BY <3>1, <3>2, <3>3 DEF AttrRecord
    <2>2. QED
      BY <1>3, <2>1
  <1>6. /\ DOMAIN r.list = DOMAIN l
        /\ \A i \in DOMAIN l : /\ r.list[i] \in AttrRecord /\ r.list[i].cell = s.list[i].cell
                               /\ r.list[i].memory = s.list[i].memory
    <2>1. ASSUME NEW i \in DOMAIN l
          PROVE  /\ r.list[i] \in AttrRecord /\ r.list[i].cell = s.list[i].cell
                 /\ r.list[i].memory = s.list[i].memory
      <3>1. r.list[i] = [s.list[i] EXCEPT !.length = WrittenLength(s.list[i], values[i])]
        BY <1>4, <1>5
      <3>2. s.list[i] \in AttrRecord
        BY <1>5
      <3>3. WrittenLength(s.list[i], values[i]) \in Nat \union {Invalid}
        BY <3>2, WrittenLengths
      <3>4. QED
        BY <3>1, <3>2, <3>3 DEF AttrRecord
    <2>2. QED
      BY <1>4, <1>5, <2>1
  <1>7. r.list \in List
    <2>1. r.list = [i \in 1 .. Len(l) |-> r.list[i]]
      BY <1>1, <1>4, <1>5
    <2>2. r.list \in [1 .. Len(l) -> AttrRecord]
      BY SMTT(30), <1>1, <1>6, <2>1
    <2>3. QED
      BY <1>1, <2>2 DEF List
  <1>8. DOMAIN s.cells = DOMAIN cells \union Range(place) /\ DOMAIN r.cells = DOMAIN s.cells
    BY <1>3, <1>4
  <1>9. NoCell \notin DOMAIN cells
    BY MemoryAssumption DEF AttributesInv, ListsInv, BlocksOK, NoCell
  <1>10. ASSUME NEW c \in DOMAIN cells PROVE r.cells[c] = cells[c]
    <2>1. into(c) = {}
      BY <1>2, <1>5, <1>9
    <2>2. s.cells[c] = cells[c]
      BY <1>3
    <2>3. QED
      BY <1>4, <1>8, <2>1, <2>2
  <1>11. ASSUME NEW i \in Sized(b)
         PROVE  /\ r.cells[place[i]] \in BlockRecord /\ r.cells[place[i]].refs = 1
                /\ ~Secret(r.cells[place[i]].data)
                /\ b \in SecureBuilder => r.cells[place[i]].secure
    <2> DEFINE c == place[i]
               n == items[b][i].length
               w == WrittenBlock(Unset(n), values[i])
    <2>1. c \in Range(place) /\ c \notin DOMAIN cells /\ c \in Cell
      BY <1>2 DEF Range
    <2>2. (CHOOSE j \in Sized(b) : place[j] = c) = i
      BY <1>2
    <2>3. s.cells[c] = [refs |-> 1, secure |-> b \in SecureBuilder, data |-> Unset(n)]
      BY <1>3, <2>1, <2>2
    <2>4. NoCell # c
      BY <2>1, MemoryAssumption DEF NoCell
    <2>5. i \in DOMAIN l
      BY <1>2
    <2>6. into(c) = {i}
      BY <1>2, <1>5, <2>4, <2>5
    <2>7. (CHOOSE j \in into(c) : TRUE) = i
      BY <2>6
    <2>8. r.cells[c] = [s.cells[c] EXCEPT !.data = WrittenBlock(@, values[i])]
      <3>1. written(c) = [s.cells[c] EXCEPT !.data = WrittenBlock(@, values[i])]
        <4> HIDE DEF into
        <4>1. QED
          BY <2>7
      <3> HIDE DEF written
      <3>2. r.cells[c] = written(c)
        BY <1>4, <1>8, <2>1, <2>6
      <3>3. QED
        BY <3>1, <3>2
    <2>9. n \in Nat
      <3>1. l[i] \in AttrRecord /\ l[i].length \notin {0, Invalid}
        BY <1>1, <1>2 DEF Sized
      <3>2. QED
        BY <3>1 DEF AttrRecord
    <2>10. values[i] \in Answers
      BY <2>5
    <2> HIDE DEF c, n
    <2>11. w \in Seq(Plain)
      BY <2>9, <2>10, WrittenPlain
    <2> DEFINE secure == b \in SecureBuilder
    <2>12. r.cells[c] = [refs |-> 1, secure |-> secure, data |-> w]
      BY <2>3, <2>8
    <2> HIDE DEF w
    <2>13. w \in Seq(Nat) /\ ~Secret(w) /\ secure \in BOOLEAN
      BY <2>11, PlainBytes
    <2> HIDE DEF secure
    <2>14. /\ r.cells[c] \in BlockRecord /\ r.cells[c].refs = 1 /\ r.cells[c].data = w
           /\ r.cells[c].secure = secure
      BY <2>12, <2>13 DEF BlockRecord
    <2>15. QED
      BY <2>13, <2>14 DEF c, secure
  <1>12. r.cells = [c \in DOMAIN r.cells |-> r.cells[c]]
    BY <1>4
  <1>13. \A i \in DOMAIN items[b] :
            r.list[i].cell = IF i \in Sized(b) THEN place[i] ELSE NoCell
    BY <1>5, <1>6
  <1>15. \A i \in DOMAIN items[b] : r.list[i].memory = "secure" => b \in SecureBuilder
    BY <1>5, <1>6
  <1>14. QED
    BY <1>4, <1>6, <1>7, <1>8, <1>10, <1>11, <1>12, <1>13, <1>15


LEMMA CommitInStep ==
    ASSUME AttributesInv, NEW b \in Builder, NEW values \in [DOMAIN items[b] -> Answers],
           CommitIn(b, values)
    PROVE  AttributesInv' /\ BlocksStay(cells, cells')
  <1> DEFINE place == CHOOSE f \in Placings(b) : TRUE
             s == State(b)
             r == Received(Committed(b, place), values)
  <1>1. /\ reading[b] = "asked" /\ Becomes(b, r)
        /\ reading' = [reading EXCEPT ![b] = "read"] /\ UNCHANGED <<refs, floating, holders>>
    BY DEF CommitIn
  <1>2. place \in Placings(b)
    BY DEF CommitIn
  <1> HIDE DEF place
  <1>4. /\ r = [list |-> r.list, cells |-> r.cells]
        /\ r.list \in List /\ DOMAIN r.list = DOMAIN items[b]
        /\ \A i \in DOMAIN items[b] : r.list[i].memory = "secure" => b \in SecureBuilder
        /\ \A i \in DOMAIN items[b] :
              r.list[i].cell = IF i \in Sized(b) THEN place[i] ELSE NoCell
        /\ DOMAIN r.cells = DOMAIN cells \union Range(place)
        /\ r.cells = [c \in DOMAIN r.cells |-> r.cells[c]]
        /\ \A c \in DOMAIN cells : r.cells[c] = cells[c]
        /\ \A i \in Sized(b) :
              /\ r.cells[place[i]] \in BlockRecord /\ r.cells[place[i]].refs = 1
              /\ ~Secret(r.cells[place[i]].data)
              /\ b \in SecureBuilder => r.cells[place[i]].secure
    BY <1>1, <1>2, ReceivedIs
  <1>5. items' = [items EXCEPT ![b] = r.list] /\ cells' = r.cells
    BY <1>1 DEF Becomes
  <1> HIDE DEF r
  <1>6. /\ place \in [Sized(b) -> Cell \ DOMAIN cells] /\ DOMAIN place = Sized(b)
        /\ \A i \in Sized(b), j \in Sized(b) : place[i] = place[j] => i = j
        /\ Sized(b) \subseteq DOMAIN items[b]
    BY <1>2 DEF Placings, Sized, IsInjective
  <1>7. /\ b \in DOMAIN items /\ items[b] \in List /\ BlocksOK(cells)
        /\ \A i \in DOMAIN items[b] : items[b][i].cell = NoCell
    BY <1>1 DEF AttributesInv, ListsInv, ReadingInv
  <1>8. \A c \in Range(place) : \E i \in Sized(b) : c = place[i]
    BY <1>6 DEF Range
  <1>9. BlocksOK(r.cells)
    <2>1. \A c \in DOMAIN cells : cells[c] \in BlockRecord /\ c \in Cell
      BY <1>7 DEF BlocksOK
    <2>2. ASSUME NEW c \in DOMAIN r.cells PROVE r.cells[c] \in BlockRecord /\ c \in Cell
      <3>1. CASE c \in DOMAIN cells
        BY <1>4, <2>1, <3>1
      <3>2. CASE c \notin DOMAIN cells
        <4>1. PICK i \in Sized(b) : c = place[i]
          BY <1>4, <1>8, <3>2
        <4>2. QED
          BY <1>4, <1>6, <4>1
      <3>3. QED
        BY <3>1, <3>2
    <2>3. QED
      BY <1>4, <2>2 DEF BlocksOK
  <1>10. StateOK(s) /\ s.list = items[b] /\ s.cells = cells
    BY <1>7, ListState DEF AttributesInv, State
  <1> HIDE DEF s
  <1>11. ASSUME NEW c \in Cell PROVE Spare(r, c) = Spare(s, c) /\ Spare(r, c) \in Nat
    <2>1. c # NoCell
      BY MemoryAssumption DEF NoCell
    <2>2. Uses(items[b], c) = {}
      BY <1>7, <2>1 DEF Uses
    <2>3. UseCount(items[b], c) = 0
      BY <2>2, FS_EmptySet DEF UseCount
    <2>4. Spare(s, c) \in Nat /\ RefCount(cells, c) \in Nat
      BY <1>7, <1>10, RefCountType DEF StateOK
    <2>5. CASE c \in Range(place)
      <3>1. PICK i \in Sized(b) : c = place[i]
        BY <1>8, <2>5
      <3>2. Uses(r.list, c) = {i}
        BY <1>4, <1>6, <2>1, <3>1 DEF Uses
      <3>3. UseCount(r.list, c) = 1
        BY <3>2, FS_Singleton DEF UseCount
      <3>4. c \notin DOMAIN cells /\ c \in DOMAIN r.cells /\ r.cells[c].refs = 1
        BY <1>4, <1>6, <2>5, <3>1
      <3>5. RefCount(cells, c) = 0 /\ RefCount(r.cells, c) = 1
        BY <3>4 DEF RefCount
      <3>6. QED
        BY <1>10, <2>3, <3>3, <3>5 DEF Spare
    <2>6. CASE c \notin Range(place)
      <3>1. Uses(r.list, c) = {}
        <4>1. ASSUME NEW i \in DOMAIN r.list, r.list[i].cell = c PROVE FALSE
          <5>1. i \in Sized(b) /\ place[i] = c
            BY <1>4, <2>1, <4>1
          <5>2. QED
            BY <1>6, <2>6, <5>1 DEF Range
        <4>2. QED
          BY <4>1 DEF Uses
      <3>2. UseCount(r.list, c) = 0
        BY <3>1, FS_EmptySet DEF UseCount
      <3>3. RefCount(r.cells, c) = RefCount(cells, c)
        BY <1>4, <2>6 DEF RefCount
      <3>4. QED
        BY <1>10, <2>3, <2>4, <3>2, <3>3 DEF Spare
    <2>7. QED
      BY <2>5, <2>6
  <1>12. StateOK(r)
    BY <1>4, <1>9, <1>11 DEF StateOK
  <1>13. ListsInv' /\ DOMAIN items' = DOMAIN items
    <2>1. \A c \in Cell : Spare(r, c) = Spare(State(b), c)
      BY <1>11 DEF s
    <2>2. QED
      BY <1>5, <1>7, <1>12, <2>1, ListChanged DEF AttributesInv
  <1>14. BundlesInv'
    BY <1>1, <1>13, BundlesStay DEF AttributesInv
  <1>15. /\ items'[b] = r.list /\ \A p \in DOMAIN items \ {b} : items'[p] = items[p]
         /\ \A p \in Builder : p \in DOMAIN items
    BY <1>5, <1>7 DEF AttributesInv, ListsInv
  <1>16. reading \in [Builder -> {"no", "asked", "read"}]
    BY DEF AttributesInv, ReadingInv
  <1>17. /\ reading' \in [Builder -> {"no", "asked", "read"}] /\ reading'[b] = "read"
         /\ \A p \in Builder \ {b} : reading'[p] = reading[p]
    BY <1>1, <1>16
  <1>18. ReadingInv'
    BY <1>15, <1>17 DEF AttributesInv, ReadingInv
  <1>19. BlocksStay(cells, cells')
    <2>1. \A c \in DOMAIN cells' : c \in DOMAIN cells =>
              cells'[c].data = cells[c].data /\ cells'[c].secure = cells[c].secure
      BY <1>4, <1>5
    <2>2. \A c \in DOMAIN cells' : c \notin DOMAIN cells => ~Secret(cells'[c].data)
      BY <1>4, <1>5, <1>8
    <2>3. QED
      BY <2>1, <2>2 DEF BlocksStay
  <1>20. SecretsStaySecure'
    <2>1. ASSUME NEW i \in DOMAIN r.list, r.list[i].memory = "secure", r.list[i].cell # NoCell
          PROVE  r.list[i].cell \in Safe(cells')
      <3>1. i \in Sized(b) /\ r.list[i].cell = place[i] /\ b \in SecureBuilder
        BY <1>4, <2>1
      <3>2. cells'[place[i]].secure /\ place[i] \in Cell
        BY <1>4, <1>5, <1>6, <3>1
      <3>3. QED
        BY <3>1, <3>2 DEF Safe
    <2>2. Guards(Safe(cells'), items'[b])
      BY <1>15, <2>1 DEF Guards
    <2>3. \A p \in DOMAIN items' : \/ p \in DOMAIN items /\ items'[p] = items[p]
                                   \/ Guards(Safe(cells'), items'[p])
      BY <1>13, <1>15, <2>2
    <2>4. QED
      BY <1>13, <1>19, <2>3, SecretsKept DEF AttributesInv
  <1>21. QED
    BY <1>13, <1>14, <1>18, <1>19, <1>20 DEF AttributesInv

LEMMA ReadFailsStep ==
    ASSUME AttributesInv, NEW b \in Builder, ReadFails(b)
    PROVE  AttributesInv' /\ BlocksStay(cells, cells')
  <1> DEFINE r == [list |-> << >>, cells |-> cells]
  <1>1. /\ b \in DOMAIN items /\ items[b] \in List /\ BlocksOK(cells)
        /\ reading[b] = "asked" /\ \A i \in DOMAIN items[b] : items[b][i].cell = NoCell
        /\ items' = [items EXCEPT ![b] = r.list] /\ cells' = r.cells
        /\ reading' = [reading EXCEPT ![b] = "no"] /\ UNCHANGED <<refs, floating, holders>>
    BY DEF ReadFails, AttributesInv, ListsInv, ReadingInv
  <1>2. StateOK(r)
    BY EmptyState DEF AttributesInv
  <1>3. ASSUME NEW c \in Cell PROVE Spare(r, c) = Spare(State(b), c)
    <2>1. Uses(items[b], c) = {} /\ Uses(<< >>, c) = {}
      BY <1>1, MemoryAssumption DEF Uses, NoCell
    <2>2. UseCount(items[b], c) = UseCount(<< >>, c)
      BY <2>1 DEF UseCount
    <2>3. QED
      BY <2>2 DEF Spare, State
  <1>4. r.list = << >>
    OBVIOUS
  <1> HIDE DEF r
  <1>5. ListsInv' /\ DOMAIN items' = DOMAIN items
    BY <1>1, <1>2, <1>3, ListChanged DEF AttributesInv
  <1>6. BundlesInv'
    BY <1>1, <1>5, BundlesStay DEF AttributesInv
  <1>7. /\ items'[b] = << >> /\ \A p \in DOMAIN items \ {b} : items'[p] = items[p]
        /\ \A p \in Builder : p \in DOMAIN items
    BY <1>1, <1>4 DEF AttributesInv, ListsInv
  <1>8. reading \in [Builder -> {"no", "asked", "read"}]
    BY DEF AttributesInv, ReadingInv
  <1>9. /\ reading' \in [Builder -> {"no", "asked", "read"}] /\ reading'[b] = "no"
        /\ \A p \in Builder \ {b} : reading'[p] = reading[p]
    BY <1>1, <1>8
  <1>10. ReadingInv'
    BY <1>7, <1>9 DEF AttributesInv, ReadingInv
  <1>11. BlocksStay(cells, cells')
    <2>1. cells' = cells
      BY DEF ReadFails
    <2>2. QED
      BY <2>1 DEF BlocksStay
  <1>12. SecretsStaySecure'
    <2>1. Guards(Safe(cells'), items'[b])
      BY <1>7 DEF Guards
    <2>2. \A p \in DOMAIN items' : \/ p \in DOMAIN items /\ items'[p] = items[p]
                                   \/ Guards(Safe(cells'), items'[p])
      BY <1>5, <1>7, <2>1
    <2>3. QED
      BY <1>5, <1>11, <2>2, SecretsKept DEF AttributesInv
  <1>13. QED
    BY <1>5, <1>6, <1>10, <1>11, <1>12 DEF AttributesInv

-----------------------------------------------------------------------------
(* The theorems.                                                           *)

LEMMA AttributesInit == Init => AttributesInv
  <1> SUFFICES ASSUME Init PROVE AttributesInv
    OBVIOUS
  <1>1. /\ cells = << >> /\ items = [b \in Builder |-> << >>] /\ refs = << >> /\ floating = {}
        /\ holders = [x \in Bundle |-> {}] /\ reading = [b \in Builder |-> "no"]
    BY DEF Init
  <1>2. DOMAIN cells = {} /\ DOMAIN refs = {} /\ DOMAIN items = Builder
    BY <1>1
  <1>3. BlocksOK(cells)
    BY <1>1, <1>2 DEF BlocksOK
  <1>4. Counted(items, cells)
    <2> SUFFICES ASSUME NEW c \in Cell
                 PROVE  /\ IsFiniteSet(PlacesIn(items, DOMAIN items, c))
                        /\ RefCount(cells, c) = Cardinality(PlacesIn(items, DOMAIN items, c))
      BY DEF Counted
    <2>1. \A p \in DOMAIN items : Uses(items[p], c) = {}
      BY <1>1 DEF Uses
    <2>2. PlacesIn(items, DOMAIN items, c) = {}
      BY <2>1 DEF PlacesIn
    <2>3. RefCount(cells, c) = 0
      BY <1>2 DEF RefCount
    <2>4. QED
      BY <2>2, <2>3, FS_EmptySet
  <1>5. ListsInv
    <2>1. << >> \in List
      BY DEF List
    <2>2. QED
      BY <1>1, <1>2, <1>3, <1>4, <2>1 DEF ListsInv
  <1>6. BundlesInv
    <2>1. DOMAIN items \ Builder = {}
      BY <1>2
    <2>2. refs \in [DOMAIN items \ Builder -> Nat \ {0}]
      BY <1>1, <1>2, <2>1
    <2>3. QED
      BY <1>1, <1>2, <2>2, FS_EmptySet DEF BundlesInv
  <1>7. ReadingInv
    BY <1>1 DEF ReadingInv
  <1>8. SecretsStaySecure
    BY <1>1, <1>2, BuilderAssumption DEF SecretsStaySecure
  <1>9. QED
    BY <1>5, <1>6, <1>7, <1>8 DEF AttributesInv

LEMMA AttributesNext == AttributesInv /\ [Next]_vars => AttributesInv'
  <1> SUFFICES ASSUME AttributesInv, [Next]_vars PROVE AttributesInv'
    OBVIOUS
  <1>1. ASSUME NEW b \in Builder, Build(b) PROVE AttributesInv'
    <2>1. ASSUME NEW t \in Type, NEW set \in BOOLEAN, NEW data \in Bytes, PutData(b, t, data, set)
          PROVE  AttributesInv'
      BY <2>1, PutDataStep
    <2>9. ASSUME NEW t \in Type, NEW data \in Bytes, TakeData(b, t, data)
          PROVE  AttributesInv'
      BY <2>9, TakeDataStep
    <2>2. ASSUME NEW t \in Type, NEW set \in BOOLEAN, NEW length \in {0, Invalid},
                 PutNone(b, t, length, set)
          PROVE  AttributesInv'
      BY <2>2, PutNoneStep
    <2>3. ASSUME NEW x \in Bundle, Usable(x), SetAll(b, x)
          PROVE  AttributesInv'
      BY <2>3, SetAllStep
    <2>4. ASSUME NEW x \in Bundle, Usable(x), NEW T \in SUBSET Type, AddPart(b, x, T)
          PROVE  AttributesInv'
      BY <2>4, AddPartStep
    <2>5. ASSUME NEW c \in Builder, BuilderCopy(b, c)
          PROVE  AttributesInv'
      BY <2>5, BuilderCopyStep
    <2>6. ASSUME Clear(b)
          PROVE  AttributesInv'
      BY <2>6, ClearStep
    <2>7. ASSUME NEW x \in Bundle, NEW t \in Thread, NEW floats \in BOOLEAN, End(b, x, t, floats)
          PROVE  AttributesInv'
      BY <2>7, EndStep
    <2>8. QED
      BY <1>1, <2>1, <2>2, <2>3, <2>4, <2>5, <2>6, <2>7, <2>9 DEF Build
  <1>2. ASSUME NEW b \in Builder, Fill(b) PROVE AttributesInv'
    <2>1. ASSUME NEW lengths \in [DOMAIN items[b] -> Lengths], PrepareIn(b, lengths)
          PROVE  AttributesInv'
      BY <2>1, PrepareInStep
    <2>2. ASSUME NEW values \in [DOMAIN items[b] -> Answers], CommitIn(b, values)
          PROVE  AttributesInv'
      BY <2>2, CommitInStep
    <2>3. ASSUME ReadFails(b) PROVE AttributesInv'
      BY <2>3, ReadFailsStep
    <2>4. QED
      BY <1>2, <2>1, <2>2, <2>3 DEF Fill, Lengths, Answers
  <1>3. ASSUME NEW t \in Thread, Own(t) PROVE AttributesInv'
    <2>1. ASSUME NEW x \in Bundle, NEW ty \in Type, NEW data \in Bytes, NewAttribute(x, ty, data, t)
          PROVE  AttributesInv'
      BY <2>1, NewAttributeStep
    <2>2. ASSUME NEW x \in Bundle, NEW y \in Bundle, NEW i \in 1 .. MaxItems, Usable(y),
                 DupAttribute(x, y, i, t)
          PROVE  AttributesInv'
      BY <2>2, DupAttributeStep
    <2>3. ASSUME NEW x \in Bundle, Ref(x, t)
          PROVE  AttributesInv'
      BY <2>3, RefStep
    <2>4. ASSUME NEW x \in Bundle, RefSink(x, t)
          PROVE  AttributesInv'
      BY <2>4, RefSinkStep
    <2>5. ASSUME NEW x \in Bundle, Unref(x, t)
          PROVE  AttributesInv'
      BY <2>5, UnrefStep, LastUnrefStep
    <2>6. QED
      BY <1>3, <2>1, <2>2, <2>3, <2>4, <2>5 DEF Own
  <1>4. CASE UNCHANGED vars
    BY <1>4 DEF vars, AttributesInv, ListsInv, BundlesInv, ReadingInv, SecretsStaySecure
  <1>5. QED
    BY <1>1, <1>2, <1>3, <1>4 DEF Next

LEMMA AttributesAlways == Spec => []AttributesInv
  BY AttributesInit, AttributesNext, PTL DEF Spec

LEMMA CountsFollow == AttributesInv => CountsAreHolders
  <1> SUFFICES ASSUME AttributesInv PROVE CountsAreHolders
    OBVIOUS
  <1>1. ASSUME NEW c \in DOMAIN cells
        PROVE  cells[c].refs > 0 /\ cells[c].refs = Cardinality(Places(c))
    <2>1. c \in Cell /\ cells[c] \in BlockRecord
      BY DEF AttributesInv, ListsInv, BlocksOK
    <2>2. cells[c].refs \in Nat \ {0}
      BY <2>1 DEF BlockRecord
    <2>3. RefCount(cells, c) = Cardinality(PlacesIn(items, DOMAIN items, c))
      BY <2>1 DEF AttributesInv, ListsInv, Counted
    <2>4. Places(c) = PlacesIn(items, DOMAIN items, c)
      BY PlacesAreIn
    <2>5. QED
      BY <2>2, <2>3, <2>4 DEF RefCount
  <1>2. ASSUME NEW p \in DOMAIN items, NEW i \in DOMAIN items[p]
        PROVE  items[p][i].cell \in DOMAIN cells \union {NoCell}
    BY ValueIsThere DEF AttributesInv, ListsInv
  <1>3. ASSUME NEW x \in DOMAIN refs
        PROVE  /\ refs[x] > 0
               /\ refs[x] = Cardinality(holders[x]) + IF x \in floating THEN 1 ELSE 0
    BY CountOfBundle DEF Bit
  <1>4. QED
    BY <1>1, <1>2, <1>3 DEF CountsAreHolders

\* The count in front of a value is the number of attributes that have it, and the count
\* of a GckAttributes is the number of those who hold it, however values are copied, set,
\* taken, read from a token and given from builders to bundles: gck_builder_clear and
\* gck_attributes_unref free what nobody has any more, and nothing else.
THEOREM CountsOfHolders == Spec => []CountsAreHolders
  BY AttributesAlways, CountsFollow, PTL

\* A value that came from secure memory is in secure memory, and so are the values that
\* gck_builder_add_data and _set_data copied into a builder made with
\* GCK_BUILDER_SECURE_MEMORY and those that such a builder read from a token, in every
\* list that shares them.  gck_builder_take_data is not covered: it keeps the caller's
\* own block wherever that is.
THEOREM SecretsSecure == Spec => []SecretsStaySecure
  <1>1. AttributesInv => SecretsStaySecure
    BY DEF AttributesInv
  <1>2. QED
    BY <1>1, AttributesAlways, PTL


-----------------------------------------------------------------------------
(* What readers see.                                                       *)

Val(cs, a) ==
    [valid |-> a.length # Invalid,
     bytes |-> IF a.length = Invalid \/ a.cell = NoCell THEN << >>
               ELSE SubSeq(cs[a.cell].data, 1, a.length)]
Shown(cs, a) == [type |-> a.type, value |-> Val(cs, a)]
ListOf(cs, l) == [i \in DOMAIN l |-> Shown(cs, l[i])]
Seen(s) == ListOf(s.cells, s.list)

\* The block of an attribute is there.
Has(cs, a) == a.cell \in DOMAIN cs \union {NoCell}

LEMMA ContentsAre ==
    /\ Contents = [p \in DOMAIN items |-> ListOf(cells, items[p])]
    /\ Contents' = [p \in DOMAIN items' |-> ListOf(cells', items'[p])]
  BY DEF Contents, ListOf, Shown, Val, Value

LEMMA ShownSame ==
    ASSUME NEW cs, NEW r, BlocksStay(cs, r), NEW a, Has(cs, a), Has(r, a)
    PROVE  Shown(r, a) = Shown(cs, a)
  <1>1. CASE a.cell = NoCell
    BY <1>1 DEF Shown, Val
  <1>2. CASE a.cell # NoCell
    <2>1. r[a.cell].data = cs[a.cell].data
      BY <1>2 DEF BlocksStay, Has
    <2>2. QED
      BY <2>1 DEF Shown, Val
  <1>3. QED
    BY <1>1, <1>2

LEMMA ListSame ==
    ASSUME NEW cs, NEW r, BlocksStay(cs, r), NEW l,
           \A i \in DOMAIN l : Has(cs, l[i]) /\ Has(r, l[i])
    PROVE  ListOf(r, l) = ListOf(cs, l)
  <1>1. \A i \in DOMAIN l : Shown(r, l[i]) = Shown(cs, l[i])
    BY ShownSame
  <1>2. QED
    BY <1>1 DEF ListOf

ShownBy(cs) == {Shown(cs, a) : a \in AttrRecord}

LEMMA ListOfType ==
    ASSUME NEW cs, NEW l \in List
    PROVE  ListOf(cs, l) \in Seq(ShownBy(cs)) /\ Len(ListOf(cs, l)) = Len(l)
  <1>1. /\ Len(l) \in Nat /\ DOMAIN l = 1 .. Len(l)
        /\ \A i \in DOMAIN l : Shown(cs, l[i]) \in ShownBy(cs)
    BY DEF List, ShownBy
  <1>2. ListOf(cs, l) = [i \in 1 .. Len(l) |-> Shown(cs, l[i])]
    BY <1>1 DEF ListOf
  <1>3. ListOf(cs, l) \in [1 .. Len(l) -> ShownBy(cs)]
    BY <1>1, <1>2
  <1>4. QED
    BY <1>1, <1>3

LEMMA ListOfAppend ==
    ASSUME NEW cs, NEW l \in List, NEW a \in AttrRecord
    PROVE  ListOf(cs, Append(l, a)) = Append(ListOf(cs, l), Shown(cs, a))
  <1> DEFINE m == Append(l, a)
             x == ListOf(cs, m)
             u == ListOf(cs, l)
             v == Shown(cs, a)
             y == Append(u, v)
  <1>1. m \in List /\ Len(m) = Len(l) + 1 /\ m[Len(l) + 1] = a /\ \A i \in 1 .. Len(l) : m[i] = l[i]
    BY DEF List
  <1>2. Len(l) \in Nat /\ DOMAIN l = 1 .. Len(l)
    BY DEF List
  <1> HIDE DEF m
  <1>3. DOMAIN m = 1 .. Len(l) + 1
    BY <1>1, <1>2 DEF List
  <1>4. /\ x \in Seq(ShownBy(cs)) /\ Len(x) = Len(l) + 1
        /\ u \in Seq(ShownBy(cs)) /\ Len(u) = Len(l) /\ v \in ShownBy(cs)
    BY <1>1, ListOfType DEF ShownBy
  <1>5. \A i \in 1 .. Len(l) + 1 : x[i] = Shown(cs, m[i])
    BY <1>3 DEF ListOf
  <1>6. \A i \in 1 .. Len(l) : u[i] = Shown(cs, l[i])
    BY <1>2 DEF ListOf
  <1> HIDE DEF x, u
  <1>7. /\ y \in Seq(ShownBy(cs)) /\ Len(y) = Len(l) + 1 /\ y[Len(l) + 1] = v
        /\ \A i \in 1 .. Len(l) : y[i] = u[i]
    BY <1>4, AppendProperties
  <1> HIDE DEF y
  <1>8. \A i \in 1 .. Len(x) : x[i] = y[i]
    <2>1. \A i \in 1 .. Len(l) + 1 : i \in 1 .. Len(l) \/ i = Len(l) + 1
      BY <1>2
    <2>2. QED
      BY <1>1, <1>4, <1>5, <1>6, <1>7, <2>1
  <1>9. x = y
    BY <1>4, <1>7, <1>8, SeqEqual
  <1>10. QED
    BY <1>9 DEF x, y, u, m

LEMMA ListOfExcept ==
    ASSUME NEW cs, NEW l \in List, NEW i \in DOMAIN l, NEW a
    PROVE  ListOf(cs, [l EXCEPT ![i] = a]) = [ListOf(cs, l) EXCEPT ![i] = Shown(cs, a)]
  <1> DEFINE m == [l EXCEPT ![i] = a]
             u == ListOf(cs, l)
             x == ListOf(cs, m)
             y == [u EXCEPT ![i] = Shown(cs, a)]
  <1>1. DOMAIN m = DOMAIN l /\ m[i] = a /\ \A j \in DOMAIN l : j # i => m[j] = l[j]
    OBVIOUS
  <1> HIDE DEF m
  <1>2. x = [j \in DOMAIN l |-> Shown(cs, m[j])]
    BY <1>1 DEF ListOf
  <1>3. u = [j \in DOMAIN l |-> Shown(cs, l[j])]
    BY DEF ListOf
  <1>4. y = [j \in DOMAIN l |-> IF j = i THEN Shown(cs, a) ELSE Shown(cs, l[j])]
    BY <1>3
  <1>5. \A j \in DOMAIN l : Shown(cs, m[j]) = IF j = i THEN Shown(cs, a) ELSE Shown(cs, l[j])
    BY <1>1
  <1> HIDE DEF x, y
  <1>6. x = y
    BY <1>2, <1>4, <1>5
  <1>7. QED
    BY <1>6 DEF x, y, m


\* The attribute that is set is the same one in both.
LEMMA SetAsSeen ==
    ASSUME NEW cs, NEW l \in List, NEW a \in AttrRecord
    PROVE  Lists!Set(ListOf(cs, l), Shown(cs, a)) =
               IF Find(l, a.type) = 0 THEN ListOf(cs, Append(l, a))
               ELSE ListOf(cs, [l EXCEPT ![Find(l, a.type)] = a])
  <1> DEFINE u == ListOf(cs, l)
             v == Shown(cs, a)
             Of == {i \in DOMAIN l : l[i].type = a.type}
             Same == {i \in DOMAIN u : u[i].type = v.type}
             first == CHOOSE i \in Of : \A j \in Of : i <= j
  <1>1. DOMAIN u = DOMAIN l /\ v.type = a.type /\ \A i \in DOMAIN l : u[i].type = l[i].type
    BY DEF ListOf, Shown
  <1>2. Find(l, a.type) = IF Of = {} THEN 0 ELSE first
    BY DEF Find
  <1>3. Lists!Set(u, v) = IF Same = {} THEN Append(u, v)
                          ELSE [u EXCEPT ![CHOOSE i \in Same : \A j \in Same : i <= j] = v]
    BY DEF Lists!Set
  <1>4. Same = Of
    <2> HIDE DEF u, v
    <2>1. QED
      BY <1>1
  <1> DEFINE f == Find(l, a.type)
  <1>5. Of = {} <=> f = 0
    <2>1. f = 0 \/ f \in DOMAIN l
      BY FindIndex
    <2>2. f = 0 => Of = {}
      BY FindIndex
    <2>3. QED
      BY <1>2, <2>2
  <1>6. Lists!Set(u, v) = IF Of = {} THEN Append(u, v) ELSE [u EXCEPT ![first] = v]
    <2> HIDE DEF Same, Of, u, v
    <2>1. QED
      BY <1>3, <1>4
  <1> HIDE DEF Of, first, Same
  <1>7. CASE f = 0
    <2>1. Lists!Set(u, v) = Append(u, v)
      BY <1>5, <1>6, <1>7
    <2>2. QED
      BY <1>7, <2>1, ListOfAppend
  <1>8. CASE f # 0
    <2>1. f = first
      BY <1>2, <1>5, <1>8
    <2>2. Lists!Set(u, v) = [u EXCEPT ![f] = v]
      BY <1>5, <1>6, <1>8, <2>1
    <2>3. f \in DOMAIN l
      BY <1>8, FindIndex
    <2>4. ListOf(cs, [l EXCEPT ![f] = a]) = [u EXCEPT ![f] = v]
      <3> HIDE DEF f
      <3>1. QED
        BY <2>3, ListOfExcept
    <2> HIDE DEF u, v
    <2>5. QED
      BY <1>8, <2>2, <2>4 DEF u, v
  <1>9. QED
    BY <1>7, <1>8

LEMMA PutSeen ==
    ASSUME NEW s, StateOK(s), NEW a \in AttrRecord, Has(s.cells, a), NEW set \in BOOLEAN,
           \A c \in Cell : Spare(s, c) >= Bit(a.cell = c)
    PROVE  Seen(Put(s, a, set)) =
               IF set THEN Lists!Set(Seen(s), Shown(s.cells, a))
               ELSE Append(Seen(s), Shown(s.cells, a))
  <1> DEFINE r == Put(s, a, set)
             l == s.list
             f == Find(l, a.type)
             m == IF set /\ f # 0 THEN [l EXCEPT ![f] = a] ELSE Append(l, a)
  <1>1. StateOK(r) /\ Remains(s.cells, r.cells)
    BY PutKeeps
  <1>2. l \in List /\ s = [list |-> l, cells |-> s.cells]
    BY DEF StateOK
  <1>3. r.list = m
    BY <1>2 DEF Put, Set, Push
  <1>4. \A i \in DOMAIN l : Has(s.cells, l[i])
    BY ListIsHeld DEF Has
  <1>5. \A i \in DOMAIN r.list : Has(r.cells, r.list[i])
    BY <1>1, ListIsHeld DEF Has
  <1>6. \A i \in DOMAIN m : Has(s.cells, m[i])
    <2>1. CASE set /\ f # 0
      <3>1. m = [l EXCEPT ![f] = a]
        BY <2>1
      <3> HIDE DEF m, f
      <3>2. \A i \in DOMAIN m : i \in DOMAIN l /\ m[i] \in {a, l[i]}
        BY <3>1
      <3>3. QED
        BY <1>4, <3>2
    <2>2. CASE ~(set /\ f # 0)
      <3>1. m = Append(l, a)
        BY <2>2
      <3> HIDE DEF m
      <3>2. ASSUME NEW i \in DOMAIN m PROVE Has(s.cells, m[i])
        <4>1. Len(l) \in Nat /\ DOMAIN l = 1 .. Len(l) /\ DOMAIN m = 1 .. Len(l) + 1
          BY <1>2, <3>1 DEF List
        <4>2. m[Len(l) + 1] = a /\ \A j \in 1 .. Len(l) : m[j] = l[j]
          BY <1>2, <3>1 DEF List
        <4>3. i \in 1 .. Len(l) \/ i = Len(l) + 1
          BY <4>1
        <4>4. QED
          BY <1>4, <4>1, <4>2, <4>3
      <3>3. QED
        BY <3>2
    <2>3. QED
      BY <2>1, <2>2
  <1> HIDE DEF r
  <1>7. ListOf(r.cells, m) = ListOf(s.cells, m)
    <2> HIDE DEF m
    <2>1. BlocksStay(s.cells, r.cells)
      BY <1>1, RemainsStays
    <2>2. QED
      BY <1>3, <1>5, <1>6, <2>1, ListSame
  <1>8. Seen(r) = ListOf(s.cells, m)
    BY <1>3, <1>7 DEF Seen
  <1>9. CASE set
    <2>1. Lists!Set(ListOf(s.cells, l), Shown(s.cells, a)) = ListOf(s.cells, m)
      BY <1>2, <1>9, SetAsSeen
    <2>2. QED
      BY <1>8, <1>9, <2>1 DEF Seen, r
  <1>10. CASE ~set
    <2>1. ListOf(s.cells, m) = Append(ListOf(s.cells, l), Shown(s.cells, a))
      BY <1>2, <1>10, ListOfAppend
    <2>2. QED
      BY <1>8, <1>10, <2>1 DEF Seen, r
  <1>11. QED
    BY <1>9, <1>10

LEMMA CopySeen ==
    ASSUME NEW s, StateOK(s), NEW a \in AttrRecord, NEW set \in BOOLEAN,
           a.cell # NoCell => Spare(s, a.cell) > 0
    PROVE  Seen(Copy(s, a, set)) =
               IF set THEN Lists!Set(Seen(s), Shown(s.cells, a))
               ELSE Append(Seen(s), Shown(s.cells, a))
  <1> DEFINE b == IF a.length = Invalid THEN [a EXCEPT !.cell = NoCell] ELSE a
             r == Put(s, b, set)
             q == Copy(s, a, set)
  <1>1. /\ b \in AttrRecord /\ (a.length = Invalid => b.cell = NoCell /\ b.length = Invalid)
        /\ (a.length # Invalid => b = a) /\ b.type = a.type
    BY DEF AttrRecord
  <1>2. a.cell \in Cell \union {NoCell} /\ NoCell \notin Cell
    BY MemoryAssumption DEF AttrRecord, NoCell
  <1>3. q = IF a.length = Invalid \/ a.cell = NoCell THEN r
            ELSE [r EXCEPT !.cells = ValueRef(@, a.cell)]
    BY DEF Copy
  <1> HIDE DEF b
  <1>4. Shown(s.cells, b) = Shown(s.cells, a)
    BY <1>1 DEF Shown, Val
  <1>5. ASSUME NEW c \in Cell PROVE Spare(s, c) >= Bit(b.cell = c)
    <2>1. Spare(s, c) \in Nat
      BY DEF StateOK
    <2>2. CASE b.cell = c
      <3>1. b = a
        BY <1>1, <1>2, <2>2
      <3>2. Spare(s, c) > 0
        BY <1>2, <2>2, <3>1
      <3>3. QED
        BY <2>1, <2>2, <3>2 DEF Bit
    <2>3. CASE b.cell # c
      BY <2>1, <2>3 DEF Bit
    <2>4. QED
      BY <2>2, <2>3
  <1>6. Has(s.cells, b)
    <2>1. CASE b.cell = NoCell
      BY <2>1 DEF Has
    <2>2. CASE b.cell # NoCell
      <3>1. b = a /\ b.cell \in Cell /\ Spare(s, b.cell) > 0
        BY <1>1, <1>2, <2>2
      <3>2. /\ UseCount(s.list, b.cell) \in Nat /\ RefCount(s.cells, b.cell) \in Nat
            /\ (RefCount(s.cells, b.cell) > 0 => b.cell \in DOMAIN s.cells)
        BY UsesFinite, RefCountType DEF StateOK
      <3>3. RefCount(s.cells, b.cell) > 0
        BY <3>1, <3>2 DEF Spare
      <3>4. QED
        BY <3>2, <3>3 DEF Has
    <2>3. QED
      BY <2>1, <2>2
  <1>7. Seen(r) = IF set THEN Lists!Set(Seen(s), Shown(s.cells, a))
                  ELSE Append(Seen(s), Shown(s.cells, a))
    BY <1>1, <1>4, <1>5, <1>6, PutSeen
  <1>8. StateOK(r) /\ \E i \in DOMAIN r.list : r.list[i] = b
    BY <1>1, <1>5, PutKeeps
  <1> HIDE DEF r, q
  <1>9. Seen(q) = Seen(r)
    <2>1. CASE a.length = Invalid \/ a.cell = NoCell
      BY <1>3, <2>1
    <2>2. CASE ~(a.length = Invalid \/ a.cell = NoCell)
      <3>1. b = a /\ q = [r EXCEPT !.cells = ValueRef(@, a.cell)]
        BY <1>1, <1>3, <2>2
      <3>2. r = [list |-> r.list, cells |-> r.cells] /\ r.list \in List /\ BlocksOK(r.cells)
        BY <1>8 DEF StateOK
      <3>3. q.list = r.list /\ q.cells = ValueRef(r.cells, a.cell)
        BY <3>1, <3>2
      <3>4. \A i \in DOMAIN r.list : Has(r.cells, r.list[i])
        BY <1>8, ListIsHeld DEF Has
      <3>5. a.cell \in DOMAIN r.cells
        BY <1>8, <2>2, <3>1, <3>4 DEF Has
      <3>6. Remains(r.cells, q.cells) /\ DOMAIN q.cells = DOMAIN r.cells
        BY <3>2, <3>3, <3>5, RefKeeps
      <3>7. \A i \in DOMAIN r.list : Has(q.cells, r.list[i])
        BY <3>4, <3>6 DEF Has
      <3>8. BlocksStay(r.cells, q.cells)
        BY <3>6, RemainsStays
      <3>9. ListOf(q.cells, r.list) = ListOf(r.cells, r.list)
        BY <3>4, <3>7, <3>8, ListSame
      <3>10. QED
        BY <3>3, <3>9 DEF Seen
    <2>3. QED
      BY <2>1, <2>2
  <1>10. QED
    BY <1>7, <1>9 DEF q


\* The values that other lists lend are there.
LEMMA LentAreThere ==
    ASSUME NEW s, StateOK(s), NEW a \in AttrRecord, a.cell # NoCell => Spare(s, a.cell) > 0
    PROVE  Has(s.cells, a)
  <1>1. CASE a.cell = NoCell
    BY <1>1 DEF Has
  <1>2. CASE a.cell # NoCell
    <2>1. a.cell \in Cell /\ Spare(s, a.cell) > 0
      BY <1>2 DEF AttrRecord
    <2>2. /\ UseCount(s.list, a.cell) \in Nat /\ RefCount(s.cells, a.cell) \in Nat
          /\ (RefCount(s.cells, a.cell) > 0 => a.cell \in DOMAIN s.cells)
      BY UsesFinite, RefCountType DEF StateOK
    <2>3. RefCount(s.cells, a.cell) > 0
      BY <2>1, <2>2 DEF Spare
    <2>4. QED
      BY <2>2, <2>3 DEF Has
  <1>3. QED
    BY <1>1, <1>2

\* What is seen of a list to which those of l are added, or in which they are set.
SeenAfter(seen, set, v) == IF set THEN Lists!Set(seen, v) ELSE Append(seen, v)

LEMMA CopyAllSeen ==
    ASSUME NEW s, StateOK(s), NEW l \in List, Lent(s, l), NEW set \in BOOLEAN
    PROVE  \E seen : /\ seen = [i \in 0 .. Len(l) |-> seen[i]]
                     /\ seen[0] = Seen(s) /\ seen[Len(l)] = Seen(CopyAll(s, l, set))
                     /\ \A i \in 1 .. Len(l) :
                           seen[i] = SeenAfter(seen[i - 1], set, Shown(s.cells, l[i]))
  <1>1. PICK copied : /\ copied[0] = s /\ CopyAll(s, l, set) = copied[Len(l)]
                      /\ \A i \in 1 .. Len(l) : copied[i] = Copy(copied[i - 1], l[i], set)
                      /\ \A i \in 0 .. Len(l) : Follows(s, copied[i])
    BY CopyAllSteps
  <1> DEFINE seen == [i \in 0 .. Len(l) |-> Seen(copied[i])]
  <1>2. Len(l) \in Nat /\ DOMAIN l = 1 .. Len(l) /\ \A i \in 1 .. Len(l) : l[i] \in AttrRecord
    BY DEF List
  <1>3. ASSUME NEW i \in 1 .. Len(l)
        PROVE  seen[i] = SeenAfter(seen[i - 1], set, Shown(s.cells, l[i]))
    <2> DEFINE r == copied[i - 1]
               a == l[i]
    <2>1. i \in 0 .. Len(l) /\ i - 1 \in 0 .. Len(l)
      BY <1>2
    <2>2. Follows(s, r)
      BY <1>1, <2>1
    <2>3. a \in AttrRecord /\ (a.cell # NoCell => Spare(s, a.cell) > 0)
      BY <1>2 DEF Lent
    <2>4. a.cell # NoCell => a.cell \in Cell
      BY <2>3 DEF AttrRecord
    <2>5. copied[i] = Copy(r, a, set)
      BY <1>1
    <2>6. seen[i] = Seen(copied[i]) /\ seen[i - 1] = Seen(r)
      BY <2>1
    <2> HIDE DEF seen, r, a
    <2>7. StateOK(r) /\ Remains(s.cells, r.cells) /\ (a.cell # NoCell => Spare(r, a.cell) > 0)
      BY <2>2, <2>3, <2>4 DEF Follows
    <2>8. Has(s.cells, a) /\ Has(r.cells, a)
      BY <2>3, <2>7, LentAreThere
    <2>9. Shown(r.cells, a) = Shown(s.cells, a)
      BY <2>7, <2>8, RemainsStays, ShownSame
    <2>10. Seen(Copy(r, a, set)) = SeenAfter(Seen(r), set, Shown(r.cells, a))
      BY <2>3, <2>7, CopySeen DEF SeenAfter
    <2>11. QED
      BY <2>5, <2>6, <2>9, <2>10 DEF a
  <1>4. seen = [i \in 0 .. Len(l) |-> seen[i]]
    OBVIOUS
  <1>5. seen[0] = Seen(s) /\ seen[Len(l)] = Seen(CopyAll(s, l, set))
    BY <1>1, <1>2
  <1> HIDE DEF seen
  <1>6. QED
    BY <1>3, <1>4, <1>5

\* The attributes of l are added as they are seen.
LEMMA AddedAsSeen ==
    ASSUME NEW s, StateOK(s), NEW l \in List, Lent(s, l)
    PROVE  Seen(CopyAll(s, l, FALSE)) = Seen(s) \o ListOf(s.cells, l)
  <1> DEFINE X == ShownBy(s.cells)
             u == Seen(s)
             v == ListOf(s.cells, l)
             n == Len(l)
  <1>1. PICK seen : /\ seen[0] = Seen(s) /\ seen[n] = Seen(CopyAll(s, l, FALSE))
                    /\ \A i \in 1 .. n :
                          seen[i] = SeenAfter(seen[i - 1], FALSE, Shown(s.cells, l[i]))
    <2> DEFINE set == FALSE
    <2>1. set \in BOOLEAN
      OBVIOUS
    <2> HIDE DEF set
    <2>2. \E seen : /\ seen = [i \in 0 .. Len(l) |-> seen[i]]
                    /\ seen[0] = Seen(s) /\ seen[Len(l)] = Seen(CopyAll(s, l, set))
                    /\ \A i \in 1 .. Len(l) :
                          seen[i] = SeenAfter(seen[i - 1], set, Shown(s.cells, l[i]))
      BY <2>1, CopyAllSeen
    <2>3. QED
      BY <2>2 DEF set
  <1>2. n \in Nat /\ DOMAIN l = 1 .. n
    BY DEF List
  <1>3. u \in Seq(X) /\ v \in Seq(X) /\ Len(v) = n
    <2>1. s.list \in List
      BY DEF StateOK
    <2>2. QED
      BY <2>1, ListOfType DEF Seen
  <1>4. \A i \in 1 .. n : seen[i] = Append(seen[i - 1], v[i])
    BY <1>1, <1>2 DEF SeenAfter, ListOf
  <1>5. seen[0] = u /\ seen[n] = Seen(CopyAll(s, l, FALSE))
    BY <1>1
  <1> HIDE DEF X, u, v
  <1>6. \A i \in 1 .. n : v[i] \in X
    BY <1>3
  <1> DEFINE Upto(i) == /\ seen[i] \in Seq(X) /\ Len(seen[i]) = Len(u) + i
                        /\ \A j \in 1 .. Len(u) : seen[i][j] = u[j]
                        /\ \A j \in 1 .. i : seen[i][Len(u) + j] = v[j]
             S == {i \in 0 .. n : Upto(i)}
  <1>7. 0 \in S
    BY <1>2, <1>3, <1>5
  <1>8. ASSUME NEW i \in 1 .. n, i - 1 \in S PROVE i \in S
    <2> DEFINE p == seen[i - 1]
    <2>1. /\ p \in Seq(X) /\ Len(p) = Len(u) + (i - 1) /\ Len(u) \in Nat
          /\ \A j \in 1 .. Len(u) : p[j] = u[j]
          /\ \A j \in 1 .. i - 1 : p[Len(u) + j] = v[j]
      BY <1>3, <1>8
    <2>2. seen[i] = Append(p, v[i]) /\ v[i] \in X /\ i \in 0 .. n
      BY <1>2, <1>4, <1>6
    <2> HIDE DEF p
    <2> DEFINE q == Append(p, v[i])
    <2>3. /\ q \in Seq(X) /\ Len(q) = Len(p) + 1 /\ q[Len(p) + 1] = v[i]
          /\ \A j \in 1 .. Len(p) : q[j] = p[j]
      BY <2>1, <2>2, AppendProperties
    <2> HIDE DEF q
    <2>4. Len(q) = Len(u) + i
      BY <2>1, <2>2, <2>3
    <2>5. \A j \in 1 .. Len(u) : q[j] = u[j]
      BY <2>1, <2>2, <2>3
    <2>6. \A j \in 1 .. i : q[Len(u) + j] = v[j]
      <3> SUFFICES ASSUME NEW j \in 1 .. i PROVE q[Len(u) + j] = v[j]
        OBVIOUS
      <3>1. CASE j = i
        <4>1. Len(u) + j = Len(p) + 1
          BY <2>1, <3>1
        <4>2. QED
          BY <2>3, <3>1, <4>1
      <3>2. CASE j # i
        <4>1. j \in 1 .. i - 1 /\ Len(u) + j \in 1 .. Len(p)
          BY <2>1, <3>2
        <4>2. QED
          BY <2>1, <2>3, <4>1
      <3>3. QED
        BY <3>1, <3>2
    <2>7. seen[i] = q
      BY <2>2 DEF q
    <2>8. QED
      BY <2>2, <2>3, <2>4, <2>5, <2>6, <2>7
  <1> HIDE DEF S
  <1>9. n \in S
    BY SMTT(30), <1>2, <1>7, <1>8, Induction
  <1>10. Upto(n)
    BY <1>9 DEF S
  <1> DEFINE x == seen[n]
             y == u \o v
  <1>11. /\ x \in Seq(X) /\ Len(x) = Len(u) + n
         /\ \A j \in 1 .. Len(u) : x[j] = u[j]
         /\ \A j \in 1 .. n : x[Len(u) + j] = v[j]
    BY <1>10
  <1>12. /\ y \in Seq(X) /\ Len(y) = Len(u) + n
         /\ \A j \in 1 .. Len(u) + n :
               y[j] = IF j <= Len(u) THEN u[j] ELSE v[j - Len(u)]
    BY SMTT(30), <1>3, ConcatProperties
  <1> HIDE DEF x, y
  <1>13. \A j \in 1 .. Len(x) : x[j] = y[j]
    <2> SUFFICES ASSUME NEW j \in 1 .. Len(u) + n PROVE x[j] = y[j]
      BY <1>11
    <2>1. Len(u) \in Nat
      BY <1>3
    <2>2. CASE j <= Len(u)
      BY <1>11, <1>12, <2>1, <2>2
    <2>3. CASE ~(j <= Len(u))
      <3>1. j - Len(u) \in 1 .. n /\ Len(u) + (j - Len(u)) = j
        BY <1>2, <2>1, <2>3
      <3>2. QED
        BY <1>11, <1>12, <2>3, <3>1
    <2>4. QED
      BY <2>2, <2>3
  <1>14. x = y
    BY <1>11, <1>12, <1>13, SeqEqual
  <1>15. QED
    BY <1>5, <1>14 DEF x, y, u, v

\* What the abstract lists get, when a list is set in another.
AllSet(u, v) ==
    LET all[i \in 0 .. Len(v)] == IF i = 0 THEN u ELSE Lists!Set(all[i - 1], v[i])
    IN  all[Len(v)]

LEMMA SetAllAsSeen ==
    ASSUME NEW s, StateOK(s), NEW l \in List, Lent(s, l)
    PROVE  Seen(CopyAll(s, l, TRUE)) = AllSet(Seen(s), ListOf(s.cells, l))
  <1> DEFINE u == Seen(s)
             v == ListOf(s.cells, l)
             n == Len(v)
             Equation(f) == f = [i \in 0 .. Len(v) |->
                                    IF i = 0 THEN u ELSE Lists!Set(f[i - 1], v[i])]
             all == CHOOSE f : Equation(f)
  <1>1. PICK seen : /\ seen = [i \in 0 .. Len(l) |-> seen[i]]
                    /\ seen[0] = Seen(s) /\ seen[Len(l)] = Seen(CopyAll(s, l, TRUE))
                    /\ \A i \in 1 .. Len(l) :
                          seen[i] = SeenAfter(seen[i - 1], TRUE, Shown(s.cells, l[i]))
    <2> DEFINE set == TRUE
    <2>1. set \in BOOLEAN
      OBVIOUS
    <2> HIDE DEF set
    <2>2. \E seen : /\ seen = [i \in 0 .. Len(l) |-> seen[i]]
                    /\ seen[0] = Seen(s) /\ seen[Len(l)] = Seen(CopyAll(s, l, set))
                    /\ \A i \in 1 .. Len(l) :
                          seen[i] = SeenAfter(seen[i - 1], set, Shown(s.cells, l[i]))
      BY <2>1, CopyAllSeen
    <2>3. QED
      BY <2>2 DEF set
  <1>2. n = Len(l) /\ n \in Nat /\ DOMAIN l = 1 .. n
    BY ListOfType DEF List
  <1>3. \A i \in 1 .. n : seen[i] = Lists!Set(seen[i - 1], v[i])
    BY <1>1, <1>2 DEF SeenAfter, ListOf
  <1>4. seen = [i \in 0 .. n |-> seen[i]] /\ seen[0] = u /\ seen[n] = Seen(CopyAll(s, l, TRUE))
    BY <1>1, <1>2
  <1> HIDE DEF u, v
  <1>5. Equation(seen)
    <2>1. \A i \in 0 .. n : i # 0 => i \in 1 .. n
      BY <1>2
    <2>2. \A i \in 0 .. n : seen[i] = IF i = 0 THEN u ELSE Lists!Set(seen[i - 1], v[i])
      BY <1>3, <1>4, <2>1
    <2>3. QED
      BY <1>4, <2>2
  <1>6. Equation(all)
    <2> HIDE DEF Equation
    <2>1. QED
      BY <1>5
  <1>7. all[0] = u /\ \A i \in 1 .. n : all[i] = Lists!Set(all[i - 1], v[i])
    <2> HIDE DEF all
    <2>1. 0 \in 0 .. n /\ \A i \in 1 .. n : i \in 0 .. n /\ i # 0
      BY <1>2
    <2>2. QED
      BY <1>6, <2>1
  <1>8. AllSet(u, v) = all[n]
    BY DEF AllSet
  <1> HIDE DEF all, Equation
  <1> DEFINE S == {i \in 0 .. n : all[i] = seen[i]}
  <1>9. 0 \in S
    BY <1>2, <1>4, <1>7
  <1>10. ASSUME NEW i \in 1 .. n, i - 1 \in S PROVE i \in S
    <2>1. all[i - 1] = seen[i - 1] /\ i \in 0 .. n
      BY <1>2, <1>10
    <2>2. QED
      BY <1>3, <1>7, <2>1
  <1> HIDE DEF S
  <1>11. \A i \in 0 .. n : i \in S
    <2> HIDE DEF n
    <2>1. QED
      BY <1>2, <1>9, <1>10, Induction
  <1>12. all[n] = seen[n]
    BY <1>2, <1>11 DEF S
  <1>13. QED
    BY <1>4, <1>8, <1>12 DEF u, v


\* A part of a list is seen as the same part of what is seen.
LEMMA PartAsSeen ==
    ASSUME NEW cs, NEW l \in List, NEW T
    PROVE  Typed(l, T) \in List /\ ListOf(cs, Typed(l, T)) = Lists!Part(ListOf(cs, l), T)
  <1> DEFINE n == Len(l)
             u == ListOf(cs, l)
             A == {a \in ToSet(l) : a.type \in T}
             B == {a \in ToSet(u) : a.type \in T}
  <1>1. n \in Nat /\ DOMAIN l = 1 .. n /\ \A i \in 1 .. n : l[i] \in AttrRecord
    BY DEF List
  <1>2. u \in Seq(ShownBy(cs)) /\ Len(u) = n
    BY ListOfType
  <1>3. \A i \in 1 .. n : u[i] = Shown(cs, l[i]) /\ u[i].type = l[i].type
    BY <1>1 DEF ListOf, Shown
  <1>4. PICK kept : /\ kept[0] = << >> /\ Kept(l, A) = kept[n]
                    /\ \A i \in 1 .. n :
                          kept[i] = IF l[i] \in A THEN Append(kept[i - 1], l[i])
                                                  ELSE kept[i - 1]
    <2> HIDE DEF A
    <2>1. l \in Seq(AttrRecord)
      BY DEF List
    <2>2. QED
      BY <2>1, KeptSteps
  <1>5. PICK part : /\ part[0] = << >> /\ Kept(u, B) = part[n]
                    /\ \A i \in 1 .. n :
                          part[i] = IF u[i] \in B THEN Append(part[i - 1], u[i])
                                                  ELSE part[i - 1]
    <2> HIDE DEF B, u
    <2>1. \E f : /\ f[0] = << >> /\ Kept(u, B) = f[Len(u)]
                 /\ \A i \in 1 .. Len(u) :
                       f[i] = IF u[i] \in B THEN Append(f[i - 1], u[i]) ELSE f[i - 1]
      BY <1>2, KeptSteps
    <2>2. QED
      BY <1>2, <2>1
  <1>6. \A i \in 1 .. n : l[i] \in A <=> l[i].type \in T
    BY <1>1 DEF ToSet
  <1>7. DOMAIN u = 1 .. n
    BY <1>1 DEF ListOf
  <1>8. \A i \in 1 .. n : u[i] \in B <=> l[i].type \in T
    <2> HIDE DEF u
    <2>1. QED
      BY <1>3, <1>7 DEF ToSet
  <1> HIDE DEF A, B, u
  <1> DEFINE S == {i \in 0 .. n : kept[i] \in List /\ part[i] = ListOf(cs, kept[i])}
  <1>9. 0 \in S
    <2>1. << >> \in List /\ ListOf(cs, << >>) = << >>
      BY DEF List, ListOf
    <2>2. QED
      BY <1>1, <1>4, <1>5, <2>1
  <1>10. ASSUME NEW i \in 1 .. n, i - 1 \in S PROVE i \in S
    <2> DEFINE k == kept[i - 1]
    <2>1. k \in List /\ part[i - 1] = ListOf(cs, k) /\ i \in 0 .. n
      BY <1>1, <1>10
    <2> HIDE DEF k
    <2>2. CASE l[i].type \in T
      <3>1. kept[i] = Append(k, l[i]) /\ part[i] = Append(ListOf(cs, k), Shown(cs, l[i]))
        BY <1>3, <1>4, <1>5, <1>6, <1>8, <2>1, <2>2 DEF k
      <3>2. l[i] \in AttrRecord
        BY <1>1
      <3>3. Append(k, l[i]) \in List
        BY <2>1, <3>2 DEF List
      <3>4. ListOf(cs, Append(k, l[i])) = Append(ListOf(cs, k), Shown(cs, l[i]))
        BY <2>1, <3>2, ListOfAppend
      <3>5. QED
        BY <2>1, <3>1, <3>3, <3>4
    <2>3. CASE l[i].type \notin T
      <3>1. kept[i] = k /\ part[i] = ListOf(cs, k)
        BY <1>4, <1>5, <1>6, <1>8, <2>1, <2>3 DEF k
      <3>2. QED
        BY <2>1, <3>1
    <2>4. QED
      BY <2>2, <2>3
  <1> HIDE DEF S
  <1>11. n \in S
    BY <1>1, <1>9, <1>10, Induction
  <1>12. kept[n] \in List /\ part[n] = ListOf(cs, kept[n])
    BY <1>11 DEF S
  <1>13. Typed(l, T) = kept[n]
    BY <1>4 DEF Typed, A
  <1>14. Lists!Part(u, T) = part[n]
    BY <1>5 DEF Lists!Part, Lists!Kept, Lists!ToSet, Kept, ToSet, B
  <1>15. QED
    BY <1>12, <1>13, <1>14 DEF u


-----------------------------------------------------------------------------
(* The steps, as readers see them.                                         *)



\* A list that is left alone keeps what it has.
LEMMA ListStays ==
    ASSUME ListsInv, ListsInv', BlocksStay(cells, cells'), NEW p \in DOMAIN items,
           p \in DOMAIN items', items'[p] = items[p]
    PROVE  Contents'[p] = Contents[p]
  <1> DEFINE l == items[p]
  <1>1. ASSUME NEW i \in DOMAIN l PROVE Has(cells, l[i]) /\ Has(cells', l[i])
    <2>1. Has(cells, l[i])
      BY ValueIsThere DEF ListsInv, Has
    <2>2. i \in DOMAIN items'[p] /\ items'[p][i] = l[i]
      OBVIOUS
    <2>3. items'[p][i].cell # NoCell => items'[p][i].cell \in DOMAIN cells'
      BY <2>2, ValueIsThere DEF ListsInv
    <2>4. QED
      BY <2>1, <2>2, <2>3 DEF Has
  <1>2. ListOf(cells', l) = ListOf(cells, l)
    <2> HIDE DEF l
    <2>1. QED
      BY <1>1, ListSame
  <1>3. QED
    BY <1>2, ContentsAre

LEMMA OthersStay ==
    ASSUME ListsInv, ListsInv', BlocksStay(cells, cells'), NEW P,
           DOMAIN items \ P = DOMAIN items' \ P, \A p \in DOMAIN items \ P : items'[p] = items[p]
    PROVE  Lists!Others(Contents, Contents', P)
  <1>1. DOMAIN Contents = DOMAIN items /\ DOMAIN Contents' = DOMAIN items'
    BY ContentsAre
  <1>2. \A p \in DOMAIN items \ P : Contents'[p] = Contents[p]
    BY ListStays
  <1>3. QED
    BY <1>1, <1>2 DEF Lists!Others

LEMMA BuilderSeen ==
    ASSUME AttributesInv, AttributesInv', BlocksStay(cells, cells'), NEW b \in Builder, NEW r,
           Becomes(b, r)
    PROVE  /\ Lists!Others(Contents, Contents', {b})
           /\ Contents[b] = Seen(State(b)) /\ Contents'[b] = Seen(r)
  <1>1. b \in DOMAIN items
    BY DEF AttributesInv, ListsInv
  <1>2. items' = [items EXCEPT ![b] = r.list] /\ cells' = r.cells
    BY DEF Becomes
  <1>3. /\ DOMAIN items' = DOMAIN items /\ items'[b] = r.list
        /\ \A p \in DOMAIN items \ {b} : items'[p] = items[p]
    BY <1>1, <1>2
  <1>4. Lists!Others(Contents, Contents', {b})
    BY <1>3, OthersStay DEF AttributesInv
  <1>5. Contents[b] = Seen(State(b)) /\ Contents'[b] = Seen(r)
    BY <1>1, <1>2, <1>3, ContentsAre DEF Seen, State
  <1>6. QED
    BY <1>4, <1>5

LEMMA DataShown ==
    ASSUME NEW cs, NEW c, c # NoCell, NEW data \in Bytes, cs[c].data = data, NEW t \in Type
    PROVE  \A memory \in {"secure", "any"} :
               Shown(cs, Attr(t, c, Len(data), memory)) \in Lists!Attribute
  <1> DEFINE v == [valid |-> TRUE, bytes |-> data]
  <1>1. data \in Seq(Nat) /\ Len(data) \in Nat
    BY BytesAssumption
  <1>2. Len(data) # Invalid /\ SubSeq(data, 1, Len(data)) = data
    BY <1>1, SubSeqFull DEF Invalid
  <1>3. \A memory : Shown(cs, Attr(t, c, Len(data), memory)) = [type |-> t, value |-> v]
    BY <1>2 DEF Shown, Val, Attr
  <1>4. [type |-> t, value |-> v] \in Lists!Attribute
    BY DEF Lists!Attribute
  <1>5. QED
    BY <1>3, <1>4

LEMMA NothingShown ==
    ASSUME NEW cs, NEW t \in Type, NEW n \in {0, Invalid}
    PROVE  Shown(cs, Attr(t, NoCell, n, "any")) \in Lists!Attribute
  <1> DEFINE a == Attr(t, NoCell, n, "any")
  <1>1. a.type = t /\ a.cell = NoCell /\ a.length = n
    BY AttrFields
  <1> HIDE DEF a
  <1>2. Val(cs, a) = [valid |-> a.length # Invalid, bytes |-> << >>]
    BY <1>1 DEF Val
  <1> DEFINE Empty == {[valid |-> FALSE, bytes |-> << >>], [valid |-> TRUE, bytes |-> << >>]}
             v == Val(cs, a)
  <1>3. v \in Empty
    <2>1. CASE (a.length # Invalid) = TRUE
      BY <1>2, <2>1
    <2>2. CASE (a.length # Invalid) = FALSE
      BY <1>2, <2>2
    <2>3. QED
      BY <2>1, <2>2
  <1>4. Shown(cs, a) = [type |-> t, value |-> v]
    BY <1>1 DEF Shown
  <1> HIDE DEF v
  <1>5. [type |-> t, value |-> v] \in Lists!Attribute
    BY <1>3 DEF Lists!Attribute
  <1>6. QED
    BY <1>4, <1>5 DEF a

LEMMA PutValueSeen ==
    ASSUME AttributesInv, NEW b \in Builder, NEW t \in Type, NEW data \in Bytes,
           NEW secure \in BOOLEAN, NEW memory \in {"secure", "any"}, NEW set \in BOOLEAN,
           Secret(data) => secure, memory = "secure" => secure,
           PutValue(b, t, data, secure, memory, set)
    PROVE  Lists!Put(Contents, Contents')
  <1>1. b \in DOMAIN items /\ data \in Seq(Nat)
    BY BytesAssumption DEF AttributesInv, ListsInv
  <1> DEFINE s == State(b)
             a(c) == Attr(t, c, Len(data), memory)
             q(c) == [s EXCEPT !.cells = ValueNew(@, c, data, secure)]
  <1>2. PICK c \in FreeCells : Becomes(b, Put(q(c), a(c), set))
    BY DEF PutValue
  <1>3. s.cells = cells /\ q(c) = [list |-> s.list, cells |-> ValueNew(s.cells, c, data, secure)]
    BY DEF State
  <1>4. c \in Cell \ DOMAIN s.cells
    BY <1>3 DEF FreeCells
  <1>5. StateOK(s)
    BY <1>1, ListState DEF AttributesInv
  <1>7. a(c) \in AttrRecord /\ a(c).cell = c
    BY <1>1, <1>4, AttrType
  <1> DEFINE qc == q(c)
             ac == a(c)
             r == Put(qc, ac, set)
             v == Shown(qc.cells, ac)
  <1>8. qc.list = s.list /\ c \in DOMAIN qc.cells /\ qc.cells[c].data = data
    BY <1>3 DEF ValueNew
  <1>9. v \in Lists!Attribute
    <2>1. c # NoCell
      BY <1>4, MemoryAssumption DEF NoCell
    <2> HIDE DEF qc
    <2>2. QED
      BY <1>8, <2>1, DataShown
  <1> HIDE DEF s, q, a
  <1>10. /\ StateOK(qc) /\ BlocksStay(s.cells, qc.cells)
         /\ \A d \in Cell : Spare(qc, d) = Spare(s, d) + Bit(c = d)
    BY <1>1, <1>3, <1>4, <1>5, WithNew
  <1>11. Becomes(b, r)
    BY <1>2
  <1> HIDE DEF qc, ac
  <1>12. ASSUME NEW d \in Cell
         PROVE  Spare(s, d) \in Nat /\ Bit(ac.cell = d) \in Nat /\ Bit(c = d) = Bit(ac.cell = d)
    BY <1>5, <1>7 DEF StateOK, Bit, ac
  <1>13. \A d \in Cell : Spare(qc, d) >= Bit(ac.cell = d)
    BY <1>10, <1>12
  <1>14. ac \in AttrRecord /\ Has(qc.cells, ac)
    BY <1>7, <1>8 DEF Has, ac
  <1>15. Seen(r) = IF set THEN Lists!Set(Seen(qc), v) ELSE Append(Seen(qc), v)
    BY <1>10, <1>13, <1>14, PutSeen
  <1>16. Seen(qc) = Seen(s)
    <2>1. \A i \in DOMAIN s.list : Has(s.cells, s.list[i]) /\ Has(qc.cells, s.list[i])
      BY <1>5, <1>8, <1>10, ListIsHeld DEF Has
    <2>2. ListOf(qc.cells, s.list) = ListOf(s.cells, s.list)
      BY <1>10, <2>1, ListSame
    <2>3. QED
      BY <1>8, <2>2 DEF Seen
  <1> HIDE DEF r, v
  <1>17. AttributesInv' /\ BlocksStay(cells, cells')
    BY PutValueStep
  <1>18. /\ Lists!Others(Contents, Contents', {b})
         /\ Contents[b] = Seen(s) /\ Contents'[b] = Seen(r)
    BY <1>11, <1>17, BuilderSeen DEF s
  <1>19. Contents'[b] \in {Append(Contents[b], v), Lists!Set(Contents[b], v)}
    BY <1>15, <1>16, <1>18
  <1>20. QED
    BY <1>9, <1>18, <1>19 DEF Lists!Put

LEMMA PutDataSeen ==
    ASSUME AttributesInv, NEW b \in Builder, NEW t \in Type, NEW data \in Bytes,
           NEW set \in BOOLEAN, PutData(b, t, data, set)
    PROVE  Lists!Put(Contents, Contents')
  <1> DEFINE secure == KeptSecure(b, data)
             memory == Memory(b)
  <1>1. /\ secure \in BOOLEAN /\ memory \in {"secure", "any"}
        /\ Secret(data) => secure
        /\ memory = "secure" => secure
    BY DEF KeptSecure, Secret, Memory
  <1>2. PutValue(b, t, data, secure, memory, set)
    BY DEF PutData
  <1> HIDE DEF secure, memory
  <1>3. QED
    BY <1>1, <1>2, PutValueSeen

LEMMA TakeDataSeen ==
    ASSUME AttributesInv, NEW b \in Builder, NEW t \in Type, NEW data \in Bytes,
           TakeData(b, t, data)
    PROVE  Lists!Put(Contents, Contents')
  <1> DEFINE secure == Secret(data)
  <1>1. secure \in BOOLEAN /\ (Secret(data) => secure)
    BY DEF Secret
  <1>2. PutValue(b, t, data, secure, "any", FALSE)
    BY DEF TakeData
  <1> HIDE DEF secure
  <1>3. QED
    BY <1>1, <1>2, PutValueSeen

LEMMA PutNoneSeen ==
    ASSUME AttributesInv, NEW b \in Builder, NEW t \in Type, NEW length \in {0, Invalid},
           NEW set \in BOOLEAN, PutNone(b, t, length, set)
    PROVE  Lists!Put(Contents, Contents')
  <1>1. b \in DOMAIN items
    BY DEF AttributesInv, ListsInv
  <1> DEFINE s == State(b)
             a == Attr(t, NoCell, length, "any")
             r == Put(s, a, set)
             v == Shown(s.cells, a)
  <1>2. StateOK(s)
    BY <1>1, ListState DEF AttributesInv
  <1>3. a \in AttrRecord /\ a.cell = NoCell
    BY PlainAttrType DEF Invalid
  <1>4. v \in Lists!Attribute
    BY NothingShown
  <1>5. Becomes(b, r)
    BY DEF PutNone
  <1> HIDE DEF s, a
  <1>6. ASSUME NEW d \in Cell PROVE Spare(s, d) \in Nat /\ Bit(a.cell = d) = 0
    BY <1>2, <1>3, MemoryAssumption DEF StateOK, Bit, NoCell
  <1>7. \A d \in Cell : Spare(s, d) >= Bit(a.cell = d)
    BY <1>6
  <1>8. Has(s.cells, a)
    BY <1>3 DEF Has
  <1>9. Seen(r) = IF set THEN Lists!Set(Seen(s), v) ELSE Append(Seen(s), v)
    BY <1>2, <1>3, <1>7, <1>8, PutSeen
  <1> HIDE DEF r, v
  <1>10. AttributesInv' /\ BlocksStay(cells, cells')
    BY PutNoneStep
  <1>11. /\ Lists!Others(Contents, Contents', {b})
         /\ Contents[b] = Seen(s) /\ Contents'[b] = Seen(r)
    BY <1>5, <1>10, BuilderSeen DEF s
  <1>12. Contents'[b] \in {Append(Contents[b], v), Lists!Set(Contents[b], v)}
    BY <1>9, <1>11
  <1>13. QED
    BY <1>4, <1>11, <1>12 DEF Lists!Put


LEMMA AddPartSeen ==
    ASSUME AttributesInv, NEW b \in Builder, NEW x, Usable(x), NEW T \in SUBSET Type,
           AddPart(b, x, T)
    PROVE  Lists!Put(Contents, Contents')
  <1> DEFINE s == State(b)
             l == Typed(items[x], T)
             r == CopyAll(s, l, FALSE)
             S == {a \in ToSet(items[x]) : a.type \in T}
  <1>1. /\ x \in DOMAIN items \ {b} /\ x \in DOMAIN items \ Builder /\ items[x] \in List
        /\ b \in DOMAIN items
    BY UsableBundle DEF Usable, AttributesInv, ListsInv
  <1>2. s.cells = cells
    BY DEF State
  <1>3. StateOK(s) /\ Lent(s, items[x])
    BY <1>1, ListState, BundleLends DEF AttributesInv
  <1>4. Becomes(b, r)
    BY DEF AddPart
  <1>5. l = Kept(items[x], S)
    BY DEF Typed
  <1>6. l \in List /\ ListOf(cells, l) = Lists!Part(ListOf(cells, items[x]), T)
    BY <1>1, PartAsSeen
  <1> HIDE DEF l, s, S
  <1>7. Range(l) \subseteq Range(items[x])
    BY <1>1, <1>5, KeptKeeps DEF List
  <1>8. Lent(s, l)
    <2> SUFFICES ASSUME NEW i \in DOMAIN l, l[i].cell # NoCell PROVE Spare(s, l[i].cell) > 0
      BY DEF Lent
    <2>1. l[i] \in Range(items[x])
      BY <1>7 DEF Range
    <2>2. PICK j \in DOMAIN items[x] : items[x][j] = l[i]
      BY <2>1 DEF Range
    <2>3. QED
      BY <1>3, <2>2 DEF Lent
  <1>9. Seen(r) = Seen(s) \o ListOf(cells, l)
    BY <1>2, <1>3, <1>6, <1>8, AddedAsSeen
  <1>10. AttributesInv' /\ BlocksStay(cells, cells')
    BY AddPartStep
  <1> HIDE DEF r
  <1>11. /\ Lists!Others(Contents, Contents', {b})
         /\ Contents[b] = Seen(s) /\ Contents'[b] = Seen(r)
    BY <1>4, <1>10, BuilderSeen DEF s
  <1>12. Contents[x] = ListOf(cells, items[x]) /\ x \in DOMAIN Contents \ Builder
    BY <1>1, ContentsAre
  <1>13. Contents'[b] = Contents[b] \o Lists!Part(Contents[x], T)
    BY <1>6, <1>9, <1>11, <1>12
  <1>14. QED
    BY <1>11, <1>12, <1>13 DEF Lists!Put

LEMMA SetAllSeen ==
    ASSUME AttributesInv, NEW b \in Builder, NEW x, Usable(x), SetAll(b, x)
    PROVE  Lists!Put(Contents, Contents')
  <1> DEFINE s == State(b)
             l == items[x]
             r == CopyAll(s, l, TRUE)
  <1>1. /\ x \in DOMAIN items \ {b} /\ x \in DOMAIN items \ Builder /\ l \in List
        /\ b \in DOMAIN items
    BY UsableBundle DEF Usable, AttributesInv, ListsInv
  <1>2. s.cells = cells
    BY DEF State
  <1>3. StateOK(s) /\ Lent(s, l)
    BY <1>1, ListState, BundleLends DEF AttributesInv
  <1>4. Becomes(b, r)
    BY DEF SetAll
  <1>5. Contents[x] = ListOf(cells, l) /\ x \in DOMAIN Contents \ Builder
    BY <1>1, ContentsAre
  <1> HIDE DEF s, l
  <1>6. Seen(r) = AllSet(Seen(s), ListOf(cells, l))
    BY <1>1, <1>2, <1>3, SetAllAsSeen
  <1>7. AttributesInv' /\ BlocksStay(cells, cells')
    BY SetAllStep
  <1> HIDE DEF r
  <1>8. /\ Lists!Others(Contents, Contents', {b})
        /\ Contents[b] = Seen(s) /\ Contents'[b] = Seen(r)
    BY <1>4, <1>7, BuilderSeen DEF s
  <1>9. Contents'[b] = AllSet(Contents[b], Contents[x])
    BY <1>5, <1>6, <1>8
  <1>10. Contents'[b] = LET all[i \in 0 .. Len(Contents[x])] ==
                              IF i = 0 THEN Contents[b]
                              ELSE Lists!Set(all[i - 1], Contents[x][i])
                        IN  all[Len(Contents[x])]
    BY <1>9 DEF AllSet
  <1>11. QED
    BY <1>5, <1>8, <1>10 DEF Lists!Put

LEMMA BuilderCopySeen ==
    ASSUME AttributesInv, NEW b \in Builder, NEW c \in Builder, BuilderCopy(b, c)
    PROVE  Lists!Reset(Contents, Contents')
  <1> DEFINE s == State(b)
             l == items[c]
             r == CopyAll(s, l, FALSE)
             u == ListOf(cells, l)
  <1>1. c \in DOMAIN items \ {b} /\ l \in List /\ b \in DOMAIN items /\ items[b] = << >>
    BY DEF AttributesInv, ListsInv, BuilderCopy
  <1>2. s.cells = cells /\ s.list = << >>
    BY <1>1 DEF State
  <1>3. StateOK(s) /\ Lent(s, l)
    BY <1>1, ListState, BundleLends DEF AttributesInv
  <1>4. Becomes(b, r)
    BY DEF BuilderCopy
  <1>5. Contents[c] = u
    BY <1>1, ContentsAre
  <1>6. u \in Seq(ShownBy(cells))
    BY <1>1, ListOfType
  <1> HIDE DEF s, l
  <1>7. Seen(r) = Seen(s) \o u
    BY <1>1, <1>2, <1>3, AddedAsSeen
  <1>8. Seen(s) = << >>
    BY <1>2 DEF Seen, ListOf
  <1>9. << >> \o u = u
    <2> HIDE DEF u
    <2>1. QED
      BY <1>6, ConcatEmptySeq
  <1> HIDE DEF u
  <1>10. AttributesInv' /\ BlocksStay(cells, cells')
    BY BuilderCopyStep
  <1> HIDE DEF r
  <1>11. Lists!Others(Contents, Contents', {b}) /\ Contents'[b] = Seen(r)
    BY <1>4, <1>10, BuilderSeen
  <1>12. Contents'[b] = Contents[c]
    BY <1>5, <1>7, <1>8, <1>9, <1>11
  <1>13. QED
    BY <1>11, <1>12 DEF Lists!Reset

LEMMA ClearSeen ==
    ASSUME AttributesInv, NEW b \in Builder, Clear(b)
    PROVE  Lists!Reset(Contents, Contents')
  <1> DEFINE r == [list |-> << >>, cells |-> UnrefAll(cells, items[b])]
  <1>1. Becomes(b, r)
    BY DEF Clear
  <1>2. AttributesInv' /\ BlocksStay(cells, cells')
    BY ClearStep
  <1>3. Seen(r) = << >>
    BY DEF Seen, ListOf
  <1> HIDE DEF r
  <1>4. Lists!Others(Contents, Contents', {b}) /\ Contents'[b] = Seen(r)
    BY <1>1, <1>2, BuilderSeen
  <1>5. Contents'[b] = << >>
    BY <1>3, <1>4
  <1>6. QED
    BY <1>4, <1>5 DEF Lists!Reset

LEMMA EndSeen ==
    ASSUME AttributesInv, NEW b \in Builder, NEW x \in Bundle, NEW t \in Thread,
           NEW floats \in BOOLEAN, End(b, x, t, floats)
    PROVE  Lists!End(Contents, Contents')
  <1>1. /\ x \notin DOMAIN items /\ cells' = cells
        /\ items' = [y \in DOMAIN items \union {x} |->
                        IF y = x THEN items[b] ELSE IF y = b THEN << >> ELSE items[y]]
    BY DEF End
  <1>2. b \in DOMAIN items /\ b # x
    BY <1>1 DEF AttributesInv, ListsInv
  <1>3. /\ DOMAIN items' = DOMAIN items \union {x} /\ items'[x] = items[b] /\ items'[b] = << >>
        /\ \A y \in DOMAIN items \ {b, x} : items'[y] = items[y]
    BY <1>1, <1>2
  <1>4. AttributesInv' /\ BlocksStay(cells, cells')
    BY EndStep
  <1>5. DOMAIN items \ {b, x} = DOMAIN items' \ {b, x}
    BY <1>3
  <1>6. Lists!Others(Contents, Contents', {b, x})
    BY <1>3, <1>4, <1>5, OthersStay DEF AttributesInv
  <1>7. Contents'[x] = ListOf(cells, items[b]) /\ Contents'[b] = ListOf(cells', << >>)
    BY <1>1, <1>2, <1>3, ContentsAre
  <1>8. Contents[b] = ListOf(cells, items[b]) /\ x \in DOMAIN Contents' /\ x \notin DOMAIN Contents
    BY <1>1, <1>2, <1>3, ContentsAre
  <1>9. Contents'[b] = << >>
    BY <1>7 DEF ListOf
  <1>10. QED
    BY <1>6, <1>7, <1>8, <1>9 DEF Lists!End

\* A bundle that is added has one attribute.
LEMMA MadeSeen ==
    ASSUME AttributesInv, AttributesInv', BlocksStay(cells, cells'), NEW x \in Bundle,
           x \notin DOMAIN items, NEW l,
           items' = [y \in DOMAIN items \union {x} |-> IF y = x THEN l ELSE items[y]],
           l \in List, Len(l) = 1
    PROVE  Lists!Make(Contents, Contents')
  <1>1. /\ DOMAIN items' = DOMAIN items \union {x} /\ items'[x] = l
        /\ \A y \in DOMAIN items \ {x} : items'[y] = items[y]
    OBVIOUS
  <1>2. DOMAIN items \ {x} = DOMAIN items' \ {x}
    BY <1>1
  <1>3. Lists!Others(Contents, Contents', {x})
    BY <1>1, <1>2, OthersStay DEF AttributesInv
  <1>4. Contents'[x] = ListOf(cells', l) /\ x \in DOMAIN Contents' /\ x \notin DOMAIN Contents
    BY <1>1, ContentsAre
  <1>5. Len(ListOf(cells', l)) = 1
    BY ListOfType
  <1>6. QED
    BY <1>3, <1>4, <1>5 DEF Lists!Make

LEMMA NewAttributeSeen ==
    ASSUME AttributesInv, NEW x \in Bundle, NEW ty \in Type, NEW data \in Bytes,
           NEW t \in Thread, NewAttribute(x, ty, data, t)
    PROVE  Lists!Make(Contents, Contents')
  <1> DEFINE a(c) == Attr(ty, c, Len(data), "any")
  <1>1. PICK c \in FreeCells :
            /\ x \notin DOMAIN items
            /\ items' = [y \in DOMAIN items \union {x} |-> IF y = x THEN <<a(c)>> ELSE items[y]]
    BY DEF NewAttribute
  <1>2. c \in Cell /\ data \in Seq(Nat)
    BY BytesAssumption DEF FreeCells
  <1>3. a(c) \in AttrRecord
    BY <1>2, PlainAttrType
  <1> DEFINE ac == a(c)
             l == <<ac>>
  <1>4. items' = [y \in DOMAIN items \union {x} |-> IF y = x THEN l ELSE items[y]]
    BY <1>1
  <1>5. ac \in AttrRecord
    BY <1>3
  <1> HIDE DEF ac, a
  <1>6. l \in List /\ Len(l) = 1
    BY <1>5 DEF List
  <1> HIDE DEF l
  <1>7. AttributesInv' /\ BlocksStay(cells, cells')
    BY NewAttributeStep
  <1>8. QED
    BY <1>1, <1>4, <1>6, <1>7, MadeSeen

LEMMA DupAttributeSeen ==
    ASSUME AttributesInv, NEW x \in Bundle, NEW y, Usable(y), NEW i, NEW t \in Thread,
           DupAttribute(x, y, i, t)
    PROVE  Lists!Make(Contents, Contents')
  <1> DEFINE s == [list |-> << >>, cells |-> cells]
             a == items[y][i]
             b == IF a.length = Invalid THEN [a EXCEPT !.cell = NoCell] ELSE a
             r == Copy(s, a, FALSE)
             l == r.list
  <1>1. /\ x \notin DOMAIN items /\ i \in DOMAIN items[y]
        /\ items' = [z \in DOMAIN items \union {x} |-> IF z = x THEN l ELSE items[z]]
    BY DEF DupAttribute
  <1>2. items[y] \in List
    BY <1>1, UsableBundle DEF Usable
  <1>3. a \in AttrRecord
    BY <1>1, <1>2 DEF List
  <1> HIDE DEF a
  <1>4. b \in AttrRecord
    BY <1>3 DEF AttrRecord
  <1> HIDE DEF b
  <1>5. l = <<b>>
    <2>1. Push(s, b).list = <<b>>
      BY Appended DEF Push
    <2>2. l = Push(s, b).list
      BY DEF Copy, Put, b
    <2>3. QED
      BY <2>1, <2>2
  <1> HIDE DEF l
  <1>6. l \in List /\ Len(l) = 1
    BY <1>4, <1>5 DEF List
  <1>7. AttributesInv' /\ BlocksStay(cells, cells')
    BY DupAttributeStep
  <1>8. QED
    BY <1>1, <1>6, <1>7, MadeSeen

LEMMA LastUnrefSeen ==
    ASSUME AttributesInv, NEW x, NEW t \in Thread, Unref(x, t), refs[x] = 1
    PROVE  Lists!Release(Contents, Contents')
  <1>1. x \in DOMAIN refs /\ items' = Restrict(items, DOMAIN items \ {x})
    BY DEF Unref
  <1>2. x \in Bundle
    BY <1>1, UsableBundle
  <1>3. DOMAIN items' = DOMAIN items \ {x} /\ \A p \in DOMAIN items \ {x} : items'[p] = items[p]
    BY <1>1 DEF Restrict
  <1>4. AttributesInv' /\ BlocksStay(cells, cells')
    BY LastUnrefStep
  <1>5. DOMAIN items \ {x} = DOMAIN items' \ {x}
    BY <1>3
  <1>6. Lists!Others(Contents, Contents', {x})
    BY <1>3, <1>4, <1>5, OthersStay DEF AttributesInv
  <1>7. x \notin DOMAIN Contents'
    BY <1>3, ContentsAre
  <1>8. QED
    BY <1>2, <1>6, <1>7 DEF Lists!Release


\* The values of a builder are being read: only they change.
LEMMA ReadSeen ==
    ASSUME AttributesInv, AttributesInv', BlocksStay(cells, cells'), NEW b \in Builder,
           reading'[b] # "no",
           DOMAIN items' = DOMAIN items, \A p \in DOMAIN items \ {b} : items'[p] = items[p],
           DOMAIN items'[b] = DOMAIN items[b],
           \A i \in DOMAIN items[b] : items'[b][i].type = items[b][i].type
    PROVE  Lists!Read(Contents, Contents')
  <1>1. b \in DOMAIN items
    BY DEF AttributesInv, ListsInv
  <1>2. Lists!Others(Contents, Contents', {b})
    BY OthersStay DEF AttributesInv
  <1>3. Contents'[b] = ListOf(cells', items'[b]) /\ Contents[b] = ListOf(cells, items[b])
    BY <1>1, ContentsAre
  <1>4. /\ DOMAIN Contents'[b] = DOMAIN Contents[b]
        /\ \A i \in DOMAIN Contents'[b] : Contents'[b][i].type = Contents[b][i].type
    BY <1>3 DEF ListOf, Shown
  <1>5. b \in {c \in Builder : reading'[c] # "no"}
    OBVIOUS
  <1>6. QED
    BY <1>2, <1>4, <1>5 DEF Lists!Read

LEMMA PrepareInSeen ==
    ASSUME AttributesInv, NEW b \in Builder, NEW lengths \in [DOMAIN items[b] -> Lengths],
           PrepareIn(b, lengths)
    PROVE  Lists!Read(Contents, Contents')
  <1> DEFINE l == PreparedIn(items[b], lengths)
  <1>1. items' = [items EXCEPT ![b] = l] /\ reading' = [reading EXCEPT ![b] = "asked"]
    BY DEF PrepareIn
  <1>2. reading'[b] # "no"
    BY <1>1 DEF AttributesInv, ReadingInv
  <1>3. DOMAIN l = DOMAIN items[b] /\ \A i \in DOMAIN l : l[i].type = items[b][i].type
    BY DEF PreparedIn, Attr
  <1> HIDE DEF l
  <1>4. AttributesInv' /\ BlocksStay(cells, cells')
    BY PrepareInStep
  <1>5. /\ DOMAIN items' = DOMAIN items /\ items'[b] = l
        /\ \A p \in DOMAIN items \ {b} : items'[p] = items[p]
    BY <1>1 DEF AttributesInv, ListsInv
  <1>6. /\ DOMAIN items'[b] = DOMAIN items[b]
        /\ \A i \in DOMAIN items[b] : items'[b][i].type = items[b][i].type
    BY <1>3, <1>5
  <1>7. QED
    BY <1>2, <1>4, <1>5, <1>6, ReadSeen

LEMMA CommitInSeen ==
    ASSUME AttributesInv, NEW b \in Builder, NEW values \in [DOMAIN items[b] -> Answers],
           CommitIn(b, values)
    PROVE  Lists!Read(Contents, Contents')
  <1> DEFINE place == CHOOSE f \in Placings(b) : TRUE
             s == Committed(b, place)
             r == Received(s, values)
             l == r.list
  <1>1. items' = [items EXCEPT ![b] = l] /\ reading' = [reading EXCEPT ![b] = "read"]
    BY DEF CommitIn, Becomes
  <1>3. items[b] \in List
    BY DEF AttributesInv, ListsInv
  <1>12. place \in Placings(b)
    BY DEF CommitIn
  <1> HIDE DEF place
  <1>4. /\ DOMAIN s.list = DOMAIN items[b]
        /\ \A i \in DOMAIN items[b] : s.list[i].type = items[b][i].type
        /\ \A i \in DOMAIN s.list : s.list[i] = [s.list[i] EXCEPT !.type = items[b][i].type]
    <2>1. s.list = [i \in DOMAIN items[b] |->
                       [items[b][i] EXCEPT !.cell = IF i \in Sized(b) THEN place[i] ELSE NoCell,
                                           !.memory = Memory(b)]]
      BY DEF Committed
    <2>2. \A i \in DOMAIN items[b] : items[b][i] \in AttrRecord
      BY <1>3 DEF List
    <2>3. \A i \in Sized(b) : place[i] \in Cell
      BY <1>12 DEF Placings
    <2>4. Memory(b) \in {"secure", "any"}
      BY DEF Memory
    <2> HIDE DEF s
    <2>5. ASSUME NEW i \in DOMAIN items[b]
          PROVE  /\ s.list[i].type = items[b][i].type
                 /\ s.list[i] = [s.list[i] EXCEPT !.type = items[b][i].type]
      <3>1. PICK c \in Cell \union {NoCell} : c = (IF i \in Sized(b) THEN place[i] ELSE NoCell)
        BY <2>3
      <3>2. s.list[i] = [items[b][i] EXCEPT !.cell = c, !.memory = Memory(b)]
        BY <2>1, <3>1
      <3>3. QED
        BY <2>2, <2>4, <3>2 DEF AttrRecord
    <2>6. QED
      BY <2>1, <2>5
  <1>6. DOMAIN l = DOMAIN items[b] /\ \A i \in DOMAIN l : l[i].type = items[b][i].type
    <2>1. l = [i \in DOMAIN s.list |->
                  [s.list[i] EXCEPT !.length = WrittenLength(s.list[i], values[i])]]
      BY DEF Received
    <2> HIDE DEF s, l
    <2>2. QED
      BY <1>4, <2>1
  <1> HIDE DEF l
  <1>7. AttributesInv' /\ BlocksStay(cells, cells')
    BY CommitInStep
  <1>8. reading'[b] # "no"
    BY <1>1 DEF AttributesInv, ReadingInv
  <1>9. /\ DOMAIN items' = DOMAIN items /\ items'[b] = l
        /\ \A p \in DOMAIN items \ {b} : items'[p] = items[p]
    BY <1>1 DEF AttributesInv, ListsInv
  <1>10. /\ DOMAIN items'[b] = DOMAIN items[b]
         /\ \A i \in DOMAIN items[b] : items'[b][i].type = items[b][i].type
    BY <1>6, <1>9
  <1>11. QED
    BY <1>7, <1>8, <1>9, <1>10, ReadSeen

LEMMA ReadFailsSeen ==
    ASSUME AttributesInv, NEW b \in Builder, ReadFails(b)
    PROVE  Lists!Reset(Contents, Contents')
  <1>1. items' = [items EXCEPT ![b] = << >>]
    BY DEF ReadFails
  <1>2. AttributesInv' /\ BlocksStay(cells, cells')
    BY ReadFailsStep
  <1>3. b \in DOMAIN items
    BY DEF AttributesInv, ListsInv
  <1>4. /\ DOMAIN items' = DOMAIN items /\ items'[b] = << >>
        /\ \A p \in DOMAIN items \ {b} : items'[p] = items[p]
    BY <1>1, <1>3 DEF AttributesInv, ListsInv
  <1>5. Lists!Others(Contents, Contents', {b})
    BY <1>2, <1>4, OthersStay DEF AttributesInv
  <1>6. Contents'[b] = ListOf(cells', << >>)
    BY <1>3, <1>4, ContentsAre
  <1>7. Contents'[b] = << >>
    BY <1>6 DEF ListOf
  <1>8. QED
    BY <1>5, <1>7 DEF Lists!Reset

-----------------------------------------------------------------------------
(* The refinement.                                                         *)

LEMMA ListsInit == Init => Lists!Init
  <1> SUFFICES ASSUME Init PROVE Lists!Init
    OBVIOUS
  <1>1. items = [b \in Builder |-> << >>] /\ reading = [b \in Builder |-> "no"]
    BY DEF Init
  <1>2. Contents = [b \in Builder |-> << >>]
    BY <1>1, ContentsAre DEF ListOf
  <1>3. {b \in Builder : reading[b] # "no"} = {}
    BY <1>1
  <1>4. QED
    BY <1>2, <1>3 DEF Lists!Init

ListsStutter == UNCHANGED <<Contents, {b \in Builder : reading[b] # "no"}>>

LEMMA Unseen == UNCHANGED <<cells, items, reading>> => ListsStutter
  BY ContentsAre DEF ListsStutter

LEMMA ListsNext == AttributesInv /\ [Next]_vars => Lists!Next \/ ListsStutter
  <1> SUFFICES ASSUME AttributesInv, [Next]_vars PROVE Lists!Next \/ ListsStutter
    OBVIOUS
  <1>1. ASSUME NEW b \in Builder, Build(b) PROVE Lists!Next
    <2>1. ASSUME NEW t \in Type, NEW set \in BOOLEAN, NEW data \in Bytes, PutData(b, t, data, set)
          PROVE  Lists!Put(Contents, Contents')
      BY <2>1, PutDataSeen
    <2>10. ASSUME NEW t \in Type, NEW data \in Bytes, TakeData(b, t, data)
           PROVE  Lists!Put(Contents, Contents')
      BY <2>10, TakeDataSeen
    <2>2. ASSUME NEW t \in Type, NEW set \in BOOLEAN, NEW length \in {0, Invalid},
                 PutNone(b, t, length, set)
          PROVE  Lists!Put(Contents, Contents')
      BY <2>2, PutNoneSeen
    <2>3. ASSUME NEW x \in Bundle, Usable(x), SetAll(b, x)
          PROVE  Lists!Put(Contents, Contents')
      BY <2>3, SetAllSeen
    <2>4. ASSUME NEW x \in Bundle, Usable(x), NEW T \in SUBSET Type, AddPart(b, x, T)
          PROVE  Lists!Put(Contents, Contents')
      BY <2>4, AddPartSeen
    <2>5. ASSUME NEW c \in Builder, BuilderCopy(b, c)
          PROVE  Lists!Reset(Contents, Contents')
      BY <2>5, BuilderCopySeen
    <2>6. ASSUME Clear(b)
          PROVE  Lists!Reset(Contents, Contents')
      BY <2>6, ClearSeen
    <2>7. ASSUME NEW x \in Bundle, NEW t \in Thread, NEW floats \in BOOLEAN, End(b, x, t, floats)
          PROVE  Lists!End(Contents, Contents')
      BY <2>7, EndSeen
    <2>8. \/ Lists!Put(Contents, Contents') \/ Lists!Reset(Contents, Contents')
          \/ Lists!End(Contents, Contents')
      BY <1>1, <2>1, <2>2, <2>3, <2>4, <2>5, <2>6, <2>7, <2>10 DEF Build
    <2>9. QED
      BY <2>8 DEF Lists!Next
  <1>2. ASSUME NEW b \in Builder, Fill(b) PROVE Lists!Next
    <2>1. ASSUME NEW lengths \in [DOMAIN items[b] -> Lengths], PrepareIn(b, lengths)
          PROVE  Lists!Read(Contents, Contents')
      BY <2>1, PrepareInSeen
    <2>2. ASSUME NEW values \in [DOMAIN items[b] -> Answers], CommitIn(b, values)
          PROVE  Lists!Read(Contents, Contents')
      BY <2>2, CommitInSeen
    <2>3. ASSUME ReadFails(b) PROVE Lists!Reset(Contents, Contents')
      BY <2>3, ReadFailsSeen
    <2>4. Lists!Read(Contents, Contents') \/ Lists!Reset(Contents, Contents')
      BY <1>2, <2>1, <2>2, <2>3 DEF Fill, Lengths, Answers
    <2>5. QED
      BY <2>4 DEF Lists!Next
  <1>3. ASSUME NEW t \in Thread, Own(t) PROVE Lists!Next \/ ListsStutter
    <2>1. ASSUME NEW x \in Bundle, NEW ty \in Type, NEW data \in Bytes, NewAttribute(x, ty, data, t)
          PROVE  Lists!Make(Contents, Contents')
      BY <2>1, NewAttributeSeen
    <2>2. ASSUME NEW x \in Bundle, NEW y \in Bundle, NEW i \in 1 .. MaxItems, Usable(y),
                 DupAttribute(x, y, i, t)
          PROVE  Lists!Make(Contents, Contents')
      BY <2>2, DupAttributeSeen
    <2>3. ASSUME NEW x \in Bundle, Ref(x, t) \/ RefSink(x, t)
          PROVE  ListsStutter
      BY <2>3, Unseen DEF Ref, RefSink
    <2>4. ASSUME NEW x \in Bundle, Unref(x, t), refs[x] = 1
          PROVE  Lists!Release(Contents, Contents')
      BY <2>4, LastUnrefSeen
    <2>5. ASSUME NEW x \in Bundle, Unref(x, t), refs[x] # 1
          PROVE  ListsStutter
      BY <2>5, Unseen DEF Unref
    <2>6. \/ Lists!Make(Contents, Contents') \/ Lists!Release(Contents, Contents')
          \/ ListsStutter
      BY <1>3, <2>1, <2>2, <2>3, <2>4, <2>5 DEF Own
    <2>7. QED
      BY <2>6 DEF Lists!Next
  <1>4. CASE UNCHANGED vars
    BY <1>4, Unseen DEF vars
  <1>5. QED
    BY <1>1, <1>2, <1>3, <1>4 DEF Next

\* However values are shared, nobody sees it: builders and bundles behave as lists that
\* hold their values themselves.  What gck_builder_end and the others give out keeps
\* what the builder had until the last reference to it is gone, and a builder changes
\* only as its own calls say.
THEOREM AttributesAreLists == Spec => ImplementsLists
  <1>1. AttributesInv /\ [Next]_vars =>
            [Lists!Next]_<<Contents, {b \in Builder : reading[b] # "no"}>>
    BY ListsNext DEF ListsStutter
  <1>2. QED
    BY <1>1, ListsInit, AttributesAlways, PTL DEF Spec, ImplementsLists, Lists!Spec
=============================================================================
