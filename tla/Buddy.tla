------------------------------- MODULE Buddy -------------------------------
(***************************************************************************)
(* The buddy allocator (buddy.c, list.c).  Addresses are in LEAF_SIZE      *)
(* units from bd_base; every call runs under the allocator's lock, so it   *)
(* is one step.  The loops of bd_malloc and bd_free touch one block per    *)
(* size, the one that holds p, so they are functions of the size.          *)
(***************************************************************************)
EXTENDS Integers, Sequences, FiniteSets, FiniteSetsExt

CONSTANTS NSizes,       \* nsizes
          MetaSizes,    \* leaves bd_init may use for bd_sizes and the bit vectors
          Unavailables, \* leaves at the end that are past [base, end)
          Requests      \* arguments of bd_malloc, in bytes of LEAF_SIZE
CONSTANT LEAF_SIZE

MAXSIZE == NSizes - 1
Sizes == 0 .. MAXSIZE
BLK_SIZE(k) == 2 ^ k
NBLK(k) == 2 ^ (MAXSIZE - k)
Heap == BLK_SIZE(MAXSIZE)

\* The metadata is a small part of the heap, and less than half is past its end.
ASSUME BuddyAssumption ==
    /\ NSizes \in Nat /\ NSizes > 2 /\ LEAF_SIZE \in Nat \ {0}
    /\ \A m \in MetaSizes : m \in 1 .. Heap \div 4
    /\ \A u \in Unavailables : u \in 0 .. (Heap \div 2) - 1

VARIABLES bdMeta, bdEnd,  \* [0, bdMeta) and [bdEnd, Heap) are marked by bd_init
          bdPanic,        \* did bd_init panic?
          alloc, split,   \* per size: the indices whose bit is set
          bdFree,         \* per size: the free list, most recently pushed first
          bdLive          \* the blocks bd_malloc has returned, and their nbytes

bdVars == <<bdMeta, bdEnd, bdPanic, alloc, split, bdFree, bdLive>>

blk_index(k, p) == p \div BLK_SIZE(k)
blk_index_next(k, p) == (p + BLK_SIZE(k) - 1) \div BLK_SIZE(k)
addr(k, bi) == bi * BLK_SIZE(k)
buddyOf(bi) == IF bi % 2 = 0 THEN bi + 1 ELSE bi - 1

\* Mutant of firstk: rounds n down to a power of two.
firstk_Down(n) == Min({k \in 0 .. NSizes : BLK_SIZE(k + 1) * LEAF_SIZE > n})

\* The first k whose blocks hold n bytes.
firstk(n) == Min({k \in 0 .. NSizes : BLK_SIZE(k) * LEAF_SIZE >= n})

lst_push(lst, p) == <<p>> \o lst
lst_remove(lst, p) == SelectSeq(lst, LAMBDA e : e # p)

-----------------------------------------------------------------------------
\* The blocks of size k that touch [start, stop).
bd_mark(k, start, stop) == blk_index(k, start) .. blk_index_next(k, stop) - 1

\* The vectors al[k] are whole bytes one after the other.  Behind the last bit of
\* one is the rest of its byte, clear, or the first byte of the next.
bit_isset(al, k, i) ==
    CASE i < NBLK(k)                -> i \in al[k]
      [] i >= NBLK(k) /\ NBLK(k) < 8 -> FALSE
      [] OTHER                      -> i - NBLK(k) \in al[k + 1]

\* For the pair behind the last block, bi = NBLK(k), both bits are read behind.
bd_initfree_pair(al, k, bi) ==
    IF bit_isset(al, k, bi) = bit_isset(al, k, buddyOf(bi)) THEN <<>>
    ELSE <<addr(k, IF bit_isset(al, k, bi) THEN buddyOf(bi) ELSE bi)>>

bd_initfree(al, meta, end) ==
    [k \in Sizes |->
       LET left  == blk_index_next(k, meta)
           right == blk_index(k, end)
       IN  IF k = MAXSIZE THEN <<>>
           ELSE IF right <= left THEN bd_initfree_pair(al, k, left)
           ELSE bd_initfree_pair(al, k, right) \o bd_initfree_pair(al, k, left)]

\* The bytes that bd_initfree returns, as leaves.
freed(f) == MapThenSumSet(LAMBDA k : BLK_SIZE(k) * Len(f[k]), Sizes)

Marked == [k \in Sizes |-> bd_mark(k, 0, bdMeta) \cup bd_mark(k, bdEnd, Heap)]

\* bd_init; bd_mark_data_structures and bd_mark_unavailable mark both ends.  It
\* panics when what is free is not what is neither metadata nor unavailable.
BuddyInit ==
    /\ bdMeta \in MetaSizes
    /\ bdEnd \in {Heap - u : u \in Unavailables}
    /\ alloc = Marked
    /\ split = [k \in Sizes |-> IF k = 0 THEN {} ELSE alloc[k]]
    /\ bdFree = bd_initfree(alloc, bdMeta, bdEnd)
    /\ bdPanic = (freed(bdFree) # bdEnd - bdMeta)
    /\ bdLive = {}

\* bd_malloc: pop a block of the smallest size that has one, and split it down.
bd_malloc(n) ==
    LET fk == firstk(n)
        ks == {k \in fk .. MAXSIZE : bdFree[k] # <<>>}
        k0 == Min(ks)
        p  == Head(bdFree[k0])
    IN  /\ ks # {}
        /\ alloc' = [k \in Sizes |-> IF k \in fk .. k0
                       THEN alloc[k] \cup {blk_index(k, p)} ELSE alloc[k]]
        /\ split' = [k \in Sizes |-> IF k \in fk + 1 .. k0
                       THEN split[k] \cup {blk_index(k, p)} ELSE split[k]]
        /\ bdFree' = [k \in Sizes |->
                       CASE k = k0            -> Tail(bdFree[k])
                         [] k \in fk .. k0 - 1 -> lst_push(bdFree[k], p + BLK_SIZE(k))
                         [] OTHER             -> bdFree[k]]
        /\ bdLive' = bdLive \cup {[at |-> p, len |-> BLK_SIZE(fk), req |-> n]}
        /\ UNCHANGED <<bdMeta, bdEnd, bdPanic>>

\* bd_malloc finds no block and returns 0.
bd_malloc_fails(n) ==
    /\ \A k \in firstk(n) .. MAXSIZE : bdFree[k] = <<>>
    /\ UNCHANGED bdVars

\* Mutant of size: looks at the block's own split bit, not its parent's.
size_OwnBit(p) == Min({k \in 1 .. MAXSIZE : blk_index(k, p) \in split[k]} \cup {NSizes})

\* size(): the first k whose parent block is split.  The loop goes on to
\* bd_sizes[nsizes], past the array, if none is.
size(p) == Min({k \in 0 .. MAXSIZE - 1 : blk_index(k + 1, p) \in split[k + 1]} \cup {NSizes})

\* bd_free: merge p with its buddy while that is free, then list the result.
bd_free(p) ==
    LET k0 == size(p)
        buddy(k) == buddyOf(blk_index(k, p))
        top == Min({k \in k0 .. MAXSIZE : k = MAXSIZE \/ buddy(k) \in alloc[k]})
    IN  /\ \E b \in bdLive : b.at = p /\ bdLive' = bdLive \ {b}
        /\ alloc' = [k \in Sizes |-> IF k \in k0 .. Min({top, MAXSIZE - 1})
                       THEN alloc[k] \ {blk_index(k, p)} ELSE alloc[k]]
        /\ split' = [k \in Sizes |-> IF k \in k0 + 1 .. top
                       THEN split[k] \ {blk_index(k, p)} ELSE split[k]]
        /\ bdFree' = [k \in Sizes |->
                       CASE k \in k0 .. top - 1 -> lst_remove(bdFree[k], addr(k, buddy(k)))
                         [] k = top  -> lst_push(bdFree[k], addr(k, blk_index(k, p)))
                         [] OTHER    -> bdFree[k]]
        /\ UNCHANGED <<bdMeta, bdEnd, bdPanic>>

BuddyNext ==
    /\ ~bdPanic
    /\ \/ \E n \in Requests : bd_malloc(n) \/ bd_malloc_fails(n)
       \/ \E p \in 0 .. Heap - 1 : bd_free(p)

BuddySpec == BuddyInit /\ [][BuddyNext]_bdVars

-----------------------------------------------------------------------------
FreeBlocks == UNION {{[at |-> bdFree[k][i], len |-> BLK_SIZE(k)] : i \in DOMAIN bdFree[k]}
                     : k \in Sizes}
Cover(b) == b.at .. b.at + b.len - 1

\* Type invariant.
BuddyTypeOK ==
    /\ \A k \in Sizes : alloc[k] \cup split[k] \subseteq 0 .. NBLK(k) - 1
    /\ ~bdPanic => \A k \in Sizes : bdFree[k] \in Seq(0 .. Heap - 1)

\* Nothing is lost and nothing overlaps: every leaf of [base, end) outside the
\* metadata is in exactly one block, free or handed out (bd_init's own check,
\* "bd_init: free mem", kept up by every bd_malloc and bd_free).
BuddyPartition ==
    /\ \A b, c \in FreeBlocks \cup bdLive : b # c => Cover(b) \cap Cover(c) = {}
    /\ \A k \in Sizes : Cardinality({bdFree[k][i] : i \in DOMAIN bdFree[k]}) = Len(bdFree[k])
    /\ UNION {Cover(b) : b \in FreeBlocks \cup bdLive} = bdMeta .. bdEnd - 1

\* bd_free is given only a pointer: size() finds the size the block was
\* allocated with, never running off the end of bd_sizes.
SizeRecovered == \A b \in bdLive : size(b.at) < MAXSIZE /\ BLK_SIZE(size(b.at)) = b.len

\* Free buddies are always merged, so when everything has been given back the
\* free lists hold what bd_init put there.
BuddyMerged ==
    /\ \A k \in 0 .. MAXSIZE - 1, b, c \in FreeBlocks :
          b.len = BLK_SIZE(k) /\ c.len = b.len =>
             blk_index(k, c.at) # buddyOf(blk_index(k, b.at))
    /\ bdLive = {} => \A k \in Sizes :
          {bdFree[k][i] : i \in DOMAIN bdFree[k]} =
             LET f == bd_initfree(Marked, bdMeta, bdEnd)[k] IN {f[i] : i \in DOMAIN f}

BuddyAlloc == INSTANCE Allocator WITH Cells <- Heap, CellSize <- LEAF_SIZE, held <- bdLive
\* The buddy allocator keeps an allocator's promise to its callers: firstk() chooses
\* blocks that hold the bytes asked for, and no two that are in use overlap.
BuddyRefines == BuddyAlloc!AllocSpec

\* bd_init's check ("bd_init: free mem") fails only for a heap that fills a power of
\* two, for which bd_initfree looks at bits behind the end of a vector.
BuddyInitChecks == bdPanic => bdEnd = Heap

\* The bits and free lists of bd_malloc and bd_free describe the heap that bd_init
\* accepts: a partition, with the sizes of what was handed out, and as coarse as it
\* can be.
BuddySound ==
    /\ BuddyTypeOK /\ BuddyInitChecks
    /\ bdPanic \/ (BuddyPartition /\ SizeRecovered /\ BuddyMerged)
=============================================================================
