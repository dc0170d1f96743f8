---------------------------- MODULE SecureMemory ----------------------------
(***************************************************************************)
(* The allocator of egg/egg-secure-memory.c.  Memory that is not swapped   *)
(* comes in blocks of whole pages.  A block is divided into cells; the     *)
(* first and the last word of a cell point to its meta data, which is kept *)
(* in pools of its own.  The cells in use and the unused ones of a block   *)
(* are rings; a ring is a sequence here that begins where block->used_cells*)
(* or block->unused_cells points.                                          *)
(*                                                                         *)
(* All functions but one hold the lock from their first step to their last *)
(* and are one action here; egg_secure_realloc_full lets go of it before   *)
(* it moves memory to another block.  Tags and the hooks for valgrind are  *)
(* left out.                                                               *)
(***************************************************************************)
EXTENDS Integers, Sequences, FiniteSets

CONSTANTS
    WordSize,       \* bytes in a word
    PageWords,      \* words in a page
    DefaultWords,   \* words in a block of DEFAULT_BLOCK_SIZE, more than its guards
    Waste,          \* the words that a cell may have to spare
    Slots,          \* blocks that the kernel has room for
    SlotWords,      \* words that it has for each
    PoolItems,      \* the Cells and Blocks that one pool holds
    PoolCount,      \* pools that the kernel has room for
    Length,         \* the lengths that are asked for, in bytes
    Threads         \* the threads that may be moving memory at one time

SizeAssumption ==
    /\ {WordSize, PageWords, DefaultWords, Slots, PoolItems, PoolCount, Threads} \subseteq Nat \ {0}
    /\ Waste \in Nat \ {0, 1} /\ DefaultWords > 2
    /\ SlotWords \in Nat /\ SlotWords >= DefaultWords
    /\ Length \subseteq Nat \ {0}

VARIABLES
    heap,       \* blocks, cells and pools, and the memory itself
    moving      \* pointers that are being moved: the lengths wanted and where to

vars == <<heap, moving>>

Slot == 1 .. Slots
Item == 1 .. PoolItems * PoolCount
Pool == 1 .. PoolCount
Null == <<0, 0>>

\* The value of a byte: of the program, or part of a guard (an Item).
Zero == 0
Data == -1
Byte == {Zero, Data} \union Item

\* requested is 0 for a cell that is not in use.
Cell == [block : Slot \union {0}, words : 0 .. SlotWords, n_words : 0 .. SlotWords,
         requested : Length \union {0}]
NoCell == [block |-> 0, words |-> 0, n_words |-> 0, requested |-> 0]

Heap ==
    [blocks : Seq(Slot),                    \* all_blocks
     n_words : [Slot -> 0 .. SlotWords],
     header : [Slot -> Item \union {0}],    \* the Block
     used : [Slot -> Seq(Item)],            \* used_cells
     unused : [Slot -> Seq(Item)],          \* unused_cells
     cell : [Item -> Cell],
     pools : Seq(Pool),                     \* pool_data
     taken : SUBSET Item,                   \* items that pool_alloc has given out
     mem : [Slot -> [0 .. SlotWords * WordSize - 1 -> Byte]]]

Init ==
    /\ heap = [blocks |-> <<>>,
               n_words |-> [k \in Slot |-> 0],
               header |-> [k \in Slot |-> 0],
               used |-> [k \in Slot |-> <<>>],
               unused |-> [k \in Slot |-> <<>>],
               cell |-> [i \in Item |-> NoCell],
               pools |-> <<>>,
               taken |-> {},
               mem |-> [k \in Slot |-> [b \in 0 .. SlotWords * WordSize - 1 |-> Zero]]]
    /\ moving = << >>

Least(S) == CHOOSE x \in S : \A y \in S : x <= y
Members(s) == {s[i] : i \in 1 .. Len(s)}
\* s without x, which it has only once.
Drop(s, x) ==
    LET at == Least({i \in 1 .. Len(s) : s[i] = x})
    IN  IF x \in Members(s)
        THEN [i \in 1 .. Len(s) - 1 |-> IF i < at THEN s[i] ELSE s[i + 1]] ELSE s

-----------------------------------------------------------------------------
(* Pools of meta data.                                                     *)

ItemsOf(p) == (p - 1) * PoolItems + 1 .. p * PoolItems
PoolOf(x) == CHOOSE p \in Pool : x \in ItemsOf(p)

\* pool_alloc: the heap after it and an item, or 0.  Which of the unused items of a
\* pool it is does not matter.
PoolAlloc(h) ==
    LET with == {i \in 1 .. Len(h.pools) : ItemsOf(h.pools[i]) \ h.taken # {}}
        fresh == Pool \ Members(h.pools)
        take(g, p) == LET x == Least(ItemsOf(p) \ h.taken)
                      IN  [h |-> [g EXCEPT !.taken = @ \union {x}, !.cell[x] = NoCell], item |-> x]
    IN  IF with # {} THEN take(h, h.pools[Least(with)])
        ELSE IF fresh # {}
        THEN take([h EXCEPT !.pools = <<Least(fresh)>> \o @], Least(fresh))
        ELSE [h |-> h, item |-> 0]

\* pool_free, which unmaps the pool with its last item.
PoolFree(h, x) ==
    [h EXCEPT !.taken = @ \ {x}, !.cell[x] = NoCell,
              !.pools = IF h.taken \intersect ItemsOf(PoolOf(x)) = {x}
                        THEN Drop(@, PoolOf(x)) ELSE @]

-----------------------------------------------------------------------------
(* Words, guards and rings.                                                *)

\* sec_size_to_words
ToWords(length) == length \div WordSize + (IF length % WordSize # 0 THEN 1 ELSE 0)

\* The bytes of block k from one offset up to another.
Fill(h, k, from, to, v) ==
    [h EXCEPT !.mem[k] = [b \in DOMAIN @ |-> IF from <= b /\ b < to THEN v ELSE @[b]]]

\* The first byte of what the program gets of cell c (sec_cell_to_memory).
First(h, c) == (h.cell[c].words + 1) * WordSize

WordAt(h, k, w) == {h.mem[k][w * WordSize + i] : i \in 0 .. WordSize - 1}

\* sec_write_guards
WriteGuards(h, c) ==
    LET x == h.cell[c]
        last == x.words + x.n_words - 1
        g == Fill(h, x.block, x.words * WordSize, (x.words + 1) * WordSize, c)
    IN  Fill(g, x.block, last * WordSize, (last + 1) * WordSize, c)

\* sec_check_guards
Guarded(h, c) ==
    LET x == h.cell[c]
    IN  /\ WordAt(h, x.block, x.words) = {c}
        /\ WordAt(h, x.block, x.words + x.n_words - 1) = {c}

\* sec_insert_cell_ring: the new cell is the one that the ring points to.
Insert(ring, c) == IF ring = <<>> THEN <<c>> ELSE <<c>> \o Tail(ring) \o <<Head(ring)>>

\* sec_is_valid_word and the guard that the word holds.
CellAt(h, k, w) ==
    IF w < 0 \/ w >= h.n_words[k] THEN 0 ELSE h.mem[k][w * WordSize]

\* sec_neighbor_before, sec_neighbor_after
Before(h, c) == CellAt(h, h.cell[c].block, h.cell[c].words - 1)
After(h, c) == CellAt(h, h.cell[c].block, h.cell[c].words + h.cell[c].n_words)

IsUnused(h, c) == c # 0 /\ h.cell[c].requested = 0

-----------------------------------------------------------------------------
(* Cells.                                                                  *)

\* Cell c is used for so many bytes.
Use(h, c, length) ==
    LET k == h.cell[c].block
        g == [h EXCEPT !.used[k] = Insert(@, c), !.cell[c].requested = length]
    IN  Fill(g, k, First(g, c), First(g, c) + length, Zero)

\* The words of cell c that are too many stay behind in it, and o gets the others.
SplitOff(h, c, o, n) ==
    LET g == [h EXCEPT !.cell[o] = [block |-> h.cell[c].block, words |-> h.cell[c].words,
                                    n_words |-> n, requested |-> 0],
                       !.cell[c].words = @ + n,
                       !.cell[c].n_words = @ - n]
    IN  WriteGuards(WriteGuards(g, o), c)

\* sec_alloc: the first cell of the ring that is large enough.
SecAlloc(h, k, length) ==
    LET n == ToWords(length) + 2
        ring == h.unused[k]
        fits == {i \in 1 .. Len(ring) : h.cell[ring[i]].n_words >= n}
        c == ring[Least(fits)]
        fresh == PoolAlloc(h)
        result(g, x) == [h |-> Use(g, x, length), ptr |-> <<k, g.cell[x].words + 1>>]
    IN  IF fits = {} THEN [h |-> h, ptr |-> Null]
        ELSE IF h.cell[c].n_words <= n + Waste
        THEN result([h EXCEPT !.unused[k] = Drop(@, c)], c)
        ELSE IF fresh.item = 0 THEN [h |-> fresh.h, ptr |-> Null]
        ELSE result(SplitOff(fresh.h, c, fresh.item, n), fresh.item)

\* The cell of a pointer of the program.
CellOf(h, p) == CellAt(h, p[1], p[2] - 1)

\* The unused cell before c takes c over.
JoinBefore(h, c) ==
    LET o == Before(h, c)
        g == [h EXCEPT !.cell[o].n_words = @ + h.cell[c].n_words]
    IN  IF IsUnused(h, o) THEN [h |-> PoolFree(WriteGuards(g, o), c), c |-> o]
        ELSE [h |-> h, c |-> c]

\* The cell that takes over keeps its place.
JoinAfterInPlace(h, c) ==
    LET o == After(h, c)
        g == [h EXCEPT !.cell[o].n_words = @ + h.cell[c].n_words,
                       !.unused[h.cell[c].block] = Drop(@, c)]
    IN  IF IsUnused(h, o) THEN [h |-> PoolFree(WriteGuards(g, o), c), c |-> o]
        ELSE [h |-> h, c |-> c]
\* The unused cell after c takes c over.
JoinAfter(h, c) ==
    LET o == After(h, c)
        k == h.cell[c].block
        g == [h EXCEPT !.cell[o].n_words = @ + h.cell[c].n_words,
                       !.cell[o].words = h.cell[c].words,
                       !.unused[k] = Drop(@, c)]
    IN  IF IsUnused(h, o) THEN [h |-> PoolFree(WriteGuards(g, o), c), c |-> o]
        ELSE [h |-> h, c |-> c]

\* sec_free
SecFree(h, p) ==
    LET c == CellOf(h, p)
        k == p[1]
        cleared == Fill(h, k, First(h, c), First(h, c) + h.cell[c].requested, Zero)
        merged == LET b == JoinBefore([cleared EXCEPT !.used[k] = Drop(@, c)], c)
                  IN  JoinAfter(b.h, b.c)
    IN  [merged.h EXCEPT
            !.unused[k] = IF merged.c \in Members(@) THEN @ ELSE Insert(@, merged.c),
            !.cell[merged.c].requested = 0]

\* One round of the loop of sec_realloc: the unused cell after c is eaten up, or
\* what c still needs is stolen from it.
Eat(h, c, n) ==
    LET o == After(h, c)
        k == h.cell[c].block
        more == n - h.cell[c].n_words
        whole == [h EXCEPT !.cell[c].n_words = @ + h.cell[o].n_words, !.unused[k] = Drop(@, o)]
        part == [h EXCEPT !.cell[o].words = @ + more, !.cell[o].n_words = @ - more,
                          !.cell[c].n_words = n]
    IN  IF more <= 0 \/ ~IsUnused(h, o) THEN h
        ELSE IF more + Waste >= h.cell[o].n_words THEN PoolFree(WriteGuards(whole, c), o)
        ELSE WriteGuards(WriteGuards(part, o), c)

\* The loop, which ends when no round can change anything.
Grown(h, c, n) ==
    LET rounds[i \in 0 .. SlotWords] == IF i = 0 THEN h ELSE Eat(rounds[i - 1], c, n)
    IN  rounds[SlotWords]

\* memcpy of the bytes that both have
Copied(h, p, q, length) ==
    LET from(b) == b - q[2] * WordSize + p[2] * WordSize
    IN  [h EXCEPT !.mem[q[1]] =
            [b \in DOMAIN @ |->
                IF q[2] * WordSize <= b /\ b < q[2] * WordSize + length
                THEN h.mem[p[1]][from(b)] ELSE @[b]]]

\* Less than the cell has, or more than was asked for but not more than it has.
Shrink(h, p, length) ==
    LET c == CellOf(h, p)
        g == [h EXCEPT !.cell[c].requested = length]
    IN  Fill(g, p[1], First(h, c) + length, First(h, c) + h.cell[c].requested, Zero)

\* What moves to another cell is not copied there.
SecReallocBlank(h, p, length) ==
    LET c == CellOf(h, p)
        g == Grown(h, c, ToWords(length) + 2)
        other == SecAlloc(g, p[1], length)
    IN  IF ToWords(length) + 2 <= g.cell[c].n_words
        THEN [h |-> [g EXCEPT !.cell[c].requested = length], ptr |-> p]
        ELSE IF other.ptr = Null THEN other
        ELSE [h |-> SecFree(other.h, p), ptr |-> other.ptr]
\* sec_realloc
SecRealloc(h, p, length) ==
    LET c == CellOf(h, p)
        valid == h.cell[c].requested
        n == ToWords(length) + 2
        g == Grown(h, c, n)
        other == SecAlloc(g, p[1], length)
    IN  IF n <= h.cell[c].n_words THEN [h |-> Shrink(h, p, length), ptr |-> p]
        ELSE IF g.cell[c].n_words >= n
        THEN [h |-> Fill([g EXCEPT !.cell[c].requested = length],
                         p[1], First(g, c) + valid, First(g, c) + length, Zero),
              ptr |-> p]
        ELSE IF other.ptr = Null THEN other
        ELSE [h |-> SecFree(Copied(other.h, p, other.ptr, valid), p), ptr |-> other.ptr]

-----------------------------------------------------------------------------
(* Blocks.                                                                 *)

\* sec_acquire_pages rounds up to whole pages.
Pages(words) == ((words + PageWords - 1) \div PageWords) * PageWords

\* sec_block_create.  The size is that of the bytes asked for: there may be no
\* room for the guards.
BlockCreate(h, length) ==
    LET b == PoolAlloc(h)
        c == PoolAlloc(b.h)
        least == ToWords(length)
        size == Pages(IF least < DefaultWords THEN DefaultWords ELSE least)
        free == Slot \ Members(h.blocks)
        k == Least(free)
        g == [c.h EXCEPT
                 !.n_words[k] = size, !.header[k] = b.item, !.unused[k] = <<c.item>>,
                 !.cell[c.item] = [block |-> k, words |-> 0, n_words |-> size, requested |-> 0],
                 !.blocks = <<k>> \o @]
    IN  IF b.item = 0 THEN [h |-> b.h, block |-> 0]
        ELSE IF c.item = 0 THEN [h |-> PoolFree(c.h, b.item), block |-> 0]
        ELSE IF free # {} /\ size <= SlotWords
        THEN [h |-> WriteGuards(g, c.item), block |-> k]
        ELSE [h |-> PoolFree(PoolFree(c.h, b.item), c.item), block |-> 0]

\* sec_block_destroy
BlockDestroy(h, k) ==
    LET cells == h.unused[k]
        freed[i \in 0 .. Len(cells)] ==
            IF i = 0 THEN h ELSE PoolFree(freed[i - 1], cells[i])
        g == PoolFree(freed[Len(cells)], h.header[k])
    IN  [g EXCEPT !.blocks = Drop(@, k), !.n_words[k] = 0, !.header[k] = 0, !.unused[k] = <<>>,
                  !.mem[k] = [b \in DOMAIN @ |-> Zero]]

\* What egg_secure_free_full and egg_secure_realloc_full do with an empty block.
DestroyIfUnused(h, k) == IF h.used[k] = <<>> THEN BlockDestroy(h, k) ELSE h

\* egg_secure_alloc_full: the first block with room, or a new one.
AllocFull(h, length) ==
    LET tries[i \in 0 .. Len(h.blocks)] ==
            IF i = 0 THEN [h |-> h, ptr |-> Null]
            ELSE IF tries[i - 1].ptr # Null THEN tries[i - 1]
            ELSE SecAlloc(tries[i - 1].h, h.blocks[i], length)
        old == tries[Len(h.blocks)]
        new == BlockCreate(old.h, length)
    IN  IF old.ptr # Null THEN old
        ELSE IF new.block = 0 THEN [h |-> new.h, ptr |-> Null]
        ELSE SecAlloc(new.h, new.block, length)

-----------------------------------------------------------------------------
(* The program.                                                            *)

\* The pointers that the program has.
Pointers(h) ==
    UNION {{<<k, h.cell[c].words + 1>> : c \in Members(h.used[k])} : k \in Members(h.blocks)}

Requested(h, p) == h.cell[CellOf(h, p)].requested

\* What it sees there.
Contents(h, p) ==
    [i \in 1 .. Requested(h, p) |-> h.mem[p[1]][p[2] * WordSize + i - 1]]

\* A pointer that nobody moves.
Settled(p) == \A q \in DOMAIN moving : p # q /\ p # moving[q].to

\* egg_secure_alloc_full.  If there is no memory, NULL or memory of another kind
\* is returned.
Alloc(length) ==
    /\ heap' = AllocFull(heap, length).h
    /\ UNCHANGED moving

\* egg_secure_free_full
Free(p) ==
    /\ Settled(p)
    /\ heap' = DestroyIfUnused(SecFree(heap, p), p[1])
    /\ UNCHANGED moving

\* egg_secure_realloc_full, up to the end of its first part that holds the lock.
Realloc(p, length) ==
    LET r == SecRealloc(heap, p, length)
    IN  /\ Settled(p) /\ Cardinality(DOMAIN moving) < Threads
        /\ heap' = DestroyIfUnused(r.h, p[1])
        /\ moving' = IF r.ptr = Null
                     THEN [q \in DOMAIN moving \union {p} |->
                              IF q = p THEN [length |-> length, to |-> Null] ELSE moving[q]]
                     ELSE moving

\* The parts that follow: other memory is allocated and the bytes copied, ...
MoveAlloc(p) ==
    LET r == AllocFull(heap, moving[p].length)
    IN  /\ p \in DOMAIN moving /\ moving[p].to = Null
        /\ \/ /\ r.ptr # Null
              /\ heap' = Copied(r.h, p, r.ptr, Requested(heap, p))
              /\ moving' = [moving EXCEPT ![p].to = r.ptr]
           \/ /\ r.ptr = Null
              /\ heap' = r.h
              \* NULL is returned, or the fallback's memory, outside of all blocks
              /\ \/ moving' = [q \in DOMAIN moving \ {p} |-> moving[q]]
                 \/ moving' = [moving EXCEPT ![p].to = p]

\* ... and the old memory is freed.
MoveFree(p) ==
    /\ p \in DOMAIN moving /\ moving[p].to # Null
    /\ heap' = DestroyIfUnused(SecFree(heap, p), p[1])
    /\ moving' = [q \in DOMAIN moving \ {p} |-> moving[q]]

\* The program writes to its memory.
WriteMemory(p) ==
    /\ Settled(p)
    /\ heap' = Fill(heap, p[1], p[2] * WordSize, p[2] * WordSize + Requested(heap, p), Data)
    /\ UNCHANGED moving

Next ==
    \/ \E length \in Length : Alloc(length)
    \/ \E p \in Pointers(heap) :
          \/ Free(p)
          \/ \E length \in Length : Realloc(p, length)
          \/ MoveAlloc(p)
          \/ MoveFree(p)
          \/ WriteMemory(p)

Spec == Init /\ [][Next]_vars

-----------------------------------------------------------------------------
TypeOK ==
    /\ heap \in Heap
    /\ DOMAIN moving \subseteq Pointers(heap)

CellsOf(k) == Members(heap.used[k]) \union Members(heap.unused[k])
Words(c) == heap.cell[c].words .. heap.cell[c].words + heap.cell[c].n_words - 1

\* The cells of a block, in the two rings, share all of its words out among them,
\* each between its guards and with room for what was asked for; cells and blocks
\* have meta data of their own.  egg_secure_validate and egg_secure_records assert
\* parts of this, which a wrong step of a long sequence of allocations would upset.
CellsTile ==
    /\ \A k \in Members(heap.blocks) :
          /\ UNION {Words(c) : c \in CellsOf(k)} = 0 .. heap.n_words[k] - 1
          /\ \A c, d \in CellsOf(k) : c # d => Words(c) \intersect Words(d) = {}
          /\ Cardinality(CellsOf(k)) = Len(heap.used[k]) + Len(heap.unused[k])
          /\ \A c \in CellsOf(k) :
                /\ heap.cell[c].block = k /\ heap.cell[c].n_words > 2 /\ Guarded(heap, c)
                /\ heap.cell[c].requested <= (heap.cell[c].n_words - 2) * WordSize
                /\ heap.cell[c].requested > 0 <=> c \in Members(heap.used[k])
    /\ heap.taken = UNION {CellsOf(k) \union {heap.header[k]} : k \in Members(heap.blocks)}

\* The memory of the program is its own, zeroed when it gets it and kept when it
\* is resized or moved, whatever the cells go through.
Promise == INSTANCE SecureHeap WITH
    objects <- [p \in Pointers(heap) |-> Contents(heap, p)]

ImplementsHeap == Promise!Spec
=============================================================================
