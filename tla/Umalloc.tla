------------------------------ MODULE Umalloc ------------------------------
(***************************************************************************)
(* The user-level malloc and free (umalloc.c).  Addresses and sizes are in *)
(* Header units; base, the list's empty head, lies below the heap at 0.    *)
(* A process is single threaded, so a call is one step; the program may    *)
(* call sbrk itself between calls, which leaves gaps malloc must not use.  *)
(***************************************************************************)
EXTENDS Integers, FiniteSets

CONSTANTS HeapMax,       \* sbrk fails beyond this many units
          MinCore,       \* the least number of units morecore asks for (4096)
          HdrSize,       \* sizeof(Header)
          MallocArgs     \* nbytes

ASSUME UmAssumption == /\ HeapMax \in Nat /\ MinCore \in Nat \ {0} /\ HdrSize \in Nat \ {0}
                       /\ MallocArgs \subseteq Nat

VARIABLES hdr,     \* s.ptr and s.size of every header, by address
          freep,   \* 0 is &base; -1 before the first malloc
          brk,     \* end of the process's memory
          umGaps,  \* units the program took with sbrk itself
          umLive   \* blocks malloc has returned, with their headers, and their nbytes

umVars == <<hdr, freep, brk, umGaps, umLive>>

base == 0
NoHdr == [ptr |-> -1, size |-> 0]
UmInit ==
    /\ hdr = [a \in 0 .. HeapMax |-> NoHdr]
    /\ freep = -1 /\ brk = 1 /\ umGaps = {} /\ umLive = {}

\* free's loop: from p on, the block after which bp belongs.
RECURSIVE placeFor(_, _, _)
placeFor(h, bp, p) ==
    LET next == h[p].ptr
    IN  IF \/ bp > p /\ bp < next
           \/ p >= next /\ (bp > p \/ bp < next)
        THEN p ELSE placeFor(h, bp, next)

\* Mutant of freeBlock: never merges.
freeBlock_NoMerge(h, fp, bp) ==
    LET p == placeFor(h, bp, fp)
    IN  [h |-> [h EXCEPT ![bp].ptr = h[p].ptr, ![p].ptr = bp], freep |-> p]

\* free(): put bp after p, merging with the block above and the one below.
freeBlock(h, fp, bp) ==
    LET p   == placeFor(h, bp, fp)
        nxt == h[p].ptr
        h1  == IF bp + h[bp].size = nxt
               THEN [h EXCEPT ![bp] = [ptr |-> h[nxt].ptr, size |-> h[bp].size + h[nxt].size],
                              ![nxt] = IF nxt = p THEN @ ELSE NoHdr]
               ELSE [h EXCEPT ![bp].ptr = nxt]
        h2  == IF p + h1[p].size = bp
               THEN [h1 EXCEPT ![p] = [ptr |-> h1[bp].ptr, size |-> h1[p].size + h1[bp].size],
                               ![bp] = NoHdr]
               ELSE [h1 EXCEPT ![p].ptr = bp]
    IN  [h |-> h2, freep |-> p]

\* The program hands back a block malloc gave it.
free(b) ==
    LET f == freeBlock(hdr, freep, b.at)
    IN  /\ b \in umLive
        /\ hdr' = f.h /\ freep' = f.freep
        /\ umLive' = umLive \ {b}
        /\ UNCHANGED <<brk, umGaps>>

nunits(nbytes) == (nbytes + HdrSize - 1) \div HdrSize + 1

\* morecore: ask for at least MinCore units and free them into the list.
morecore(m, nu) ==
    LET n == IF nu < MinCore THEN MinCore ELSE nu
        f == freeBlock([m.h EXCEPT ![m.brk].size = n], m.freep, m.brk)
    IN  IF m.brk + n > HeapMax THEN [m EXCEPT !.p = -1]
        ELSE [m EXCEPT !.h = f.h, !.freep = f.freep, !.brk = @ + n, !.p = f.freep]

\* Mutant of take: the rest of a larger block keeps its whole size.
take_NoShrink(m, prevp, p, n) ==
    [m EXCEPT !.h = [m.h EXCEPT ![p + m.h[p].size - n].size = n],
              !.freep = prevp, !.p = p + m.h[p].size - n]

\* malloc has found a block that is large enough: unlink it, or cut its tail.
\* (The ptr of a block in use is never read; it is kept at -1.)
take(m, prevp, p, n) ==
    LET rest == m.h[p].size - n
    IN  IF rest = 0
        THEN [m EXCEPT !.h = [m.h EXCEPT ![prevp].ptr = m.h[p].ptr, ![p].ptr = -1],
                       !.freep = prevp, !.p = p]
        ELSE [m EXCEPT !.h = [m.h EXCEPT ![p].size = rest, ![p + rest] = [ptr |-> -1, size |-> n]],
                       !.freep = prevp, !.p = p + rest]

\* malloc's loop from p; m.p is the header found, -1 when morecore fails.
RECURSIVE search(_, _, _, _)
search(m, prevp, p, n) ==
    LET more == morecore(m, n)
    IN  CASE m.h[p].size >= n -> take(m, prevp, p, n)
          [] p = m.freep      -> IF more.p = -1 THEN more
                                 ELSE search(more, more.p, more.h[more.p].ptr, n)
          [] OTHER            -> search(m, p, m.h[p].ptr, n)

malloc(nbytes) ==
    LET n  == nunits(nbytes)
        m0 == IF freep = -1
              THEN [h |-> [hdr EXCEPT ![base] = [ptr |-> base, size |-> 0]], freep |-> base,
                    brk |-> brk, p |-> -1]
              ELSE [h |-> hdr, freep |-> freep, brk |-> brk, p |-> -1]
        m  == search(m0, m0.freep, m0.h[m0.freep].ptr, n)
    IN  /\ hdr' = m.h /\ freep' = m.freep /\ brk' = m.brk
        /\ umLive' = IF m.p = -1 THEN umLive ELSE umLive \cup {[at |-> m.p, len |-> n, req |-> nbytes]}
        /\ UNCHANGED umGaps

\* The program moves the break itself.
sbrkGap ==
    /\ brk < HeapMax
    /\ umGaps' = umGaps \cup {brk}
    /\ brk' = brk + 1
    /\ UNCHANGED <<hdr, freep, umLive>>

UmNext ==
    \/ \E nbytes \in MallocArgs : malloc(nbytes)
    \/ \E b \in umLive : free(b)
    \/ sbrkGap

UmSpec == UmInit /\ [][UmNext]_umVars

-----------------------------------------------------------------------------
RECURSIVE listFrom(_, _)
listFrom(p, seen) == IF p \in seen \/ p = -1 THEN seen ELSE listFrom(hdr[p].ptr, seen \cup {p})
FreeList == IF freep = -1 THEN {} ELSE listFrom(base, {})
UmSpan(a, n) == a .. a + n - 1

\* Type invariant.
UmTypeOK ==
    /\ hdr \in [0 .. HeapMax -> [ptr : -1 .. HeapMax, size : 0 .. HeapMax]]
    /\ freep \in -1 .. HeapMax /\ brk \in 1 .. HeapMax

\* The list free() searches is one ring in address order that starts at base
\* and holds freep, with no two blocks left adjacent.
RingOrdered ==
    freep # -1 =>
      /\ freep \in FreeList
      /\ \A p \in FreeList :
           LET above == {q \in FreeList : q > p}
           IN  IF above = {} THEN hdr[p].ptr = base
               ELSE /\ hdr[p].ptr \in above
                    /\ \A q \in above : hdr[p].ptr <= q
                    /\ p + hdr[p].size < hdr[p].ptr \/ p = base

\* Every unit obtained from sbrk is in exactly one block, free or live (with
\* the header that records its size), or was taken by the program itself.
UmPartition ==
    LET parts == {UmSpan(p, hdr[p].size) : p \in FreeList \ {base}} \cup
                 {UmSpan(b.at, b.len) : b \in umLive} \cup {{g} : g \in umGaps}
    IN  /\ UNION parts = 1 .. brk - 1
        /\ \A s, t \in parts : s # t => s \cap t = {}
        /\ \A b \in umLive : hdr[b.at].size = b.len

UmAlloc == INSTANCE Allocator WITH Cells <- HeapMax + 1, CellSize <- HdrSize,
              held <- {[at |-> b.at + 1, len |-> b.len - 1, req |-> b.req] : b \in umLive}
\* What malloc returns, the units behind a header, holds the bytes asked for and
\* never overlaps a block still in use.
UmRefines == UmAlloc!AllocSpec

\* The ring of free blocks that malloc and free work on is in order and complete.
RingSound == UmTypeOK /\ RingOrdered /\ UmPartition
=============================================================================
