-------------------------------- MODULE Uvm --------------------------------
(***************************************************************************)
(* User memory: the page allocator (kalloc.c), user page tables (vm.c) and *)
(* the calls that build and tear down address spaces (fork, exec, sbrk,    *)
(* and the freeproc that wait does for a zombie).  A call only shares the  *)
(* free list with other cpus, so it is one step; what the others can do to *)
(* it is make any of its kalloc() attempts find the list empty, so every   *)
(* call is given the set of its attempts that fail.                        *)
(*                                                                         *)
(* Sizes are in units of PGSIZE to a page.  All of user memory lies under  *)
(* one level-0 table ("lo"), TRAMPOLINE and TRAPFRAME under another        *)
(* ("hi"); each side needs a level-1 and a level-0 page besides the root.  *)
(* Which free page kalloc returns does not matter: the list is a set.      *)
(***************************************************************************)
EXTENDS Integers, Sequences, FiniteSets, FiniteSetsExt

CONSTANTS Procs,      \* slots of the process table
          InitProc,   \* the slot userinit takes
          NPages,     \* physical pages between end and PHYSTOP
          PGSIZE,     \* size of a page
          NVP,        \* virtual pages a process may come to have
          UintMax,    \* 2^w for the uint that growproc keeps the size in
          SbrkArgs,   \* arguments of sbrk
          Programs,   \* files exec may be given
          MaxFails,   \* failing kalloc attempts explored in one call
          MaxCalls    \* system calls in a behaviour

ASSUME UvmAssumption ==
    /\ InitProc \in Procs /\ NPages \in Nat \ {0} /\ PGSIZE \in Nat \ {0}
    /\ NVP \in Nat \ {0} /\ UintMax > NVP * PGSIZE
    /\ MaxFails \in Nat /\ MaxCalls \in Nat

VARIABLES freelist, \* kmem.freelist
          image,   \* per slot: trapframe page, page table and size
          panic,   \* message of the panic that stopped the kernel, or ""
          uvmret,  \* the last system call, its process and what it returned
          hist,    \* which failures there were, and the pages of the tables that
                   \* were given up at size 0: page-table pages and user pages
          ncalls   \* calls made, up to MaxCalls

uvmVars == <<freelist, image, panic, uvmret, hist, ncalls>>

PageNos == 1 .. NPages
VPages == 0 .. NVP - 1
NoTable == [root |-> 0, lo |-> <<>>, hi |-> <<>>, top |-> {},
            leaf |-> [v \in VPages |-> 0], user |-> {}]
NoHist == [bad |-> {}, tables |-> {}, user |-> {}]
Unused == [tf |-> 0, sz |-> 0, pt |-> NoTable]
Live(p) == image[p].tf # 0
Seqset(s) == {s[i] : i \in DOMAIN s}
TablePages(pt) == ({pt.root} \cup Seqset(pt.lo) \cup Seqset(pt.hi)) \ {0}
UserPages(pt) == {pt.leaf[v] : v \in VPages} \ {0}

PGROUNDUP(s) == ((s + PGSIZE - 1) \div PGSIZE) * PGSIZE

(***************************************************************************)
(* The operators below thread a record k through a call: the free list,    *)
(* the table being worked on, the attempts made and the ones that fail,    *)
(* the page kalloc returned last, the value returned, and the first panic. *)
(***************************************************************************)
Enter(fails) == [free |-> freelist, pt |-> NoTable, tries |-> 0, fails |-> fails,
                 mem |-> 0, ok |-> TRUE, ret |-> 0, panic |-> "", hist |-> hist]
EnterWith(fails, pt) == [Enter(fails) EXCEPT !.pt = pt]

Panics(k, s) == IF k.panic = "" THEN [k EXCEPT !.panic = s] ELSE k

kalloc(k) ==
    LET t == k.tries + 1
    IN  IF k.free = {} \/ t \in k.fails
        THEN [k EXCEPT !.tries = t, !.mem = 0, !.hist.bad = @ \cup {"nomem"}]
        ELSE [k EXCEPT !.tries = t, !.mem = Min(k.free), !.free = @ \ {Min(k.free)}]

\* A page that is put on the list twice corrupts it; the code does not notice.
kfree(k, pages) ==
    IF pages \subseteq PageNos /\ pages \cap k.free = {}
    THEN [k EXCEPT !.free = @ \cup pages]
    ELSE Panics(k, "kfree")

\* One level of walk(): a missing page-table page is allocated.
addLevel(k, side) == IF k.mem = 0 THEN [k EXCEPT !.ok = FALSE]
                     ELSE [k EXCEPT !.pt[side] = Append(@, k.mem)]
walkLevel(k, side, level) ==
    IF k.ok /\ Len(k.pt[side]) = level THEN addLevel(kalloc(k), side) ELSE k
walk(k, side) == walkLevel(walkLevel(k, side, 0), side, 1)

\* mappages() of one page, after its walk().
setPte(k, vp, pa, u) ==
    CASE ~k.ok             -> k
      [] k.pt.leaf[vp] # 0 -> Panics(k, "remap")
      [] OTHER -> [k EXCEPT !.pt.leaf[vp] = pa, !.pt.user = IF u THEN @ \cup {vp} ELSE @]
setTop(k, name) == IF k.ok THEN [k EXCEPT !.pt.top = @ \cup {name}] ELSE k
mappages(k, vp, pa, u) == setPte(walk(k, "lo"), vp, pa, u)
mapTop(k, name) == setTop(walk(k, "hi"), name)

\* With size 0 the last page is PGROUNDDOWN(va - 1): the loop runs off the end.
uvmunmap(k, va, size) ==
    LET last  == IF size = 0 THEN NVP ELSE (va + size - 1) \div PGSIZE
        pages == (va \div PGSIZE) .. last
    IN  CASE Len(k.pt.lo) < 2 -> Panics(k, "uvmunmap: walk")
          [] \E v \in pages : v \notin VPages \/ k.pt.leaf[v] = 0
                              -> Panics(k, "uvmunmap: not mapped")
          [] OTHER -> [kfree(k, {k.pt.leaf[v] : v \in pages}) EXCEPT
                          !.pt.leaf = [v \in VPages |-> IF v \in pages THEN 0 ELSE @[v]],
                          !.pt.user = @ \ pages]

unmapTop(k, name) ==
    CASE Len(k.pt.hi) < 2     -> Panics(k, "uvmunmap: walk")
      [] name \notin k.pt.top -> Panics(k, "uvmunmap: not mapped")
      [] OTHER                -> [k EXCEPT !.pt.top = @ \ {name}]

setRoot(k) == IF k.mem = 0 THEN Panics(k, "uvmcreate: out of memory")
              ELSE [k EXCEPT !.pt = [NoTable EXCEPT !.root = k.mem]]
uvmcreate(k) == setRoot(kalloc(k))

\* Mutant of uvmdealloc: rounds down.
uvmdealloc_RoundsDown(k, oldsz, newsz) ==
    IF newsz >= oldsz THEN [k EXCEPT !.ret = oldsz]
    ELSE LET new == (newsz \div PGSIZE) * PGSIZE
         IN  [uvmunmap(k, new, oldsz - new) EXCEPT !.ret = newsz]

uvmdealloc(k, oldsz, newsz) ==
    LET newup == PGROUNDUP(newsz)
    IN  CASE newsz >= oldsz            -> [k EXCEPT !.ret = oldsz]
          [] newup < PGROUNDUP(oldsz)  -> [uvmunmap(k, newup, oldsz - newup) EXCEPT !.ret = newsz]
          [] OTHER                     -> [k EXCEPT !.ret = newsz]

\* The loop of uvmalloc at address a: kalloc(), mappages() of the page pa it got,
\* and the next page.
RECURSIVE uvmallocFrom(_, _, _, _), uvmallocMap(_, _, _, _), uvmallocNext(_, _, _, _, _)
uvmallocFrom(k, a, oldsz, newsz) ==
    IF a >= newsz THEN [k EXCEPT !.ret = newsz] ELSE uvmallocMap(kalloc(k), a, oldsz, newsz)
uvmallocMap(k, a, oldsz, newsz) ==
    IF k.mem = 0 THEN [uvmdealloc(k, a, oldsz) EXCEPT !.ret = 0]
    ELSE uvmallocNext(mappages(k, a \div PGSIZE, k.mem, TRUE), a, k.mem, oldsz, newsz)
uvmallocNext(k, a, pa, oldsz, newsz) ==
    IF k.ok THEN uvmallocFrom(k, a + PGSIZE, oldsz, newsz)
    ELSE [uvmdealloc(kfree([k EXCEPT !.ok = TRUE], {pa}), a, oldsz) EXCEPT !.ret = 0]

uvmalloc(k, oldsz, newsz) ==
    IF newsz < oldsz THEN [k EXCEPT !.ret = oldsz]
    ELSE uvmallocFrom(k, PGROUNDUP(oldsz), PGROUNDUP(oldsz), newsz)

freewalk(k) ==
    IF k.pt.top # {} \/ \E v \in VPages : k.pt.leaf[v] # 0
    THEN Panics(k, "freewalk: leaf")
    ELSE [kfree(k, {k.pt.root} \cup {k.pt.lo[i] : i \in DOMAIN k.pt.lo}
                               \cup {k.pt.hi[i] : i \in DOMAIN k.pt.hi}) EXCEPT !.pt = NoTable]

uvmfree(k, sz) == freewalk(uvmunmap(k, 0, sz))

\* Mutant of uvmcopyErr: leaves the last page that was copied.
uvmcopyErr_KeepsLast(k, i) ==
    IF i < 2 * PGSIZE THEN [k EXCEPT !.ret = -1]
    ELSE [uvmunmap(k, 0, i - PGSIZE) EXCEPT !.ret = -1]

\* err: unmaps the pages copied so far; at i = 0 that is a uvmunmap() of size 0.
uvmcopyErr(k, i) ==
    [uvmunmap([k EXCEPT !.hist.bad = IF i = 0 THEN @ \cup {"first page"} ELSE @], 0, i)
        EXCEPT !.ret = -1]

RECURSIVE uvmcopyFrom(_, _, _, _), uvmcopyMap(_, _, _, _), uvmcopyNext(_, _, _, _, _)
uvmcopyFrom(k, old, i, sz) ==
    CASE i >= sz                        -> [k EXCEPT !.ret = 0]
      [] i < sz /\ old.leaf[i \div PGSIZE] = 0 -> Panics(k, "uvmcopy: page not present")
      [] OTHER                          -> uvmcopyMap(kalloc(k), old, i, sz)
uvmcopyMap(k, old, i, sz) ==
    IF k.mem = 0 THEN uvmcopyErr(k, i)
    ELSE uvmcopyNext(mappages(k, i \div PGSIZE, k.mem, i \div PGSIZE \in old.user), k.mem, old, i, sz)
uvmcopyNext(k, pa, old, i, sz) ==
    IF k.ok THEN uvmcopyFrom(k, old, i + PGSIZE, sz)
    ELSE uvmcopyErr(kfree([k EXCEPT !.ok = TRUE], {pa}), i)

uvmcopy(k, old, sz) == uvmcopyFrom(k, old, 0, sz)

uvmclear(k, va) ==
    IF Len(k.pt.lo) < 2 THEN Panics(k, "uvmclear")
    ELSE [k EXCEPT !.pt.user = @ \ {va \div PGSIZE}]

\* The two results of mappages() are not looked at.
ignored(k) ==
    IF k.ok THEN k ELSE [k EXCEPT !.ok = TRUE, !.hist.bad = @ \cup {"top not mapped"}]
proc_pagetable(k) ==
    ignored(mapTop(ignored(mapTop(uvmcreate(k), "trampoline")), "trapframe"))

\* A table that is not freed because its size is 0.
givenUp(k) == [k EXCEPT !.pt = NoTable, !.hist.tables = @ \cup TablePages(k.pt),
                        !.hist.user = @ \cup UserPages(k.pt)]

proc_freepagetable(k, sz) ==
    LET k1 == unmapTop(unmapTop(k, "trampoline"), "trapframe")
    IN  IF sz > 0 THEN uvmfree(k1, sz)
        ELSE givenUp(k1)

freeproc(k, tf, sz) == proc_freepagetable(kfree(k, {tf}), sz)

-----------------------------------------------------------------------------
(***************************************************************************)
(* exec: a program is a header that reads or not, its loadable segments    *)
(* and whether its arguments fit in the stack page.                        *)
(***************************************************************************)
loadseg(k, seg) ==
    LET pages == {(seg.vaddr + i) \div PGSIZE : i \in 0 .. seg.filesz - 1}
    IN  IF \E v \in pages : v \notin k.pt.user
        THEN Panics(k, "loadseg: address should exist")
        ELSE [k EXCEPT !.ok = seg.reads]

\* The loop over the segments: uvmalloc() for one, loadseg() into it, the next.
RECURSIVE loadSegs(_, _, _), loadGrown(_, _), loadNext(_, _)
loadSegs(k, segs, sz) ==
    CASE segs = <<>> -> [k EXCEPT !.ret = sz]
      [] segs # <<>> /\ Head(segs).memsz < Head(segs).filesz -> [k EXCEPT !.ok = FALSE, !.ret = sz]
      [] OTHER -> loadGrown(uvmalloc(k, sz, Head(segs).vaddr + Head(segs).memsz), segs)
loadGrown(k, segs) ==
    IF k.ret = 0 \/ Head(segs).vaddr % PGSIZE # 0 THEN [k EXCEPT !.ok = FALSE]
    ELSE loadNext(loadseg(k, Head(segs)), Tail(segs))
loadNext(k, segs) == IF k.ok THEN loadSegs(k, segs, k.ret) ELSE k

execGuard(k) == IF k.ret = 0 THEN [k EXCEPT !.ok = FALSE] ELSE uvmclear(k, k.ret - 2 * PGSIZE)
execStack(k) ==
    IF k.ok THEN execGuard(uvmalloc(k, PGROUNDUP(k.ret), PGROUNDUP(k.ret) + 2 * PGSIZE)) ELSE k

\* The new image, or (ok = FALSE) the bad: exit with the sz it has by then.
execArgs(k, prog) == [k EXCEPT !.ok = @ /\ prog.args]
execBuild(k, prog) == execArgs(execStack(loadSegs(proc_pagetable(k), prog.segs, 0)), prog)

-----------------------------------------------------------------------------
FailSets == {f \in SUBSET (1 .. NVP + 6) : Cardinality(f) <= MaxFails}

CanCall(p, fails) ==
    /\ panic = "" /\ Live(p) /\ ncalls < MaxCalls
    /\ fails # {} => "nomem" \notin hist.bad

\* The end of a call: a panic stops the machine where it is.
Leave(k, img, call, p, r) ==
    /\ ncalls' = ncalls + 1
    /\ panic' = k.panic
    /\ hist' = k.hist
    /\ uvmret' = [call |-> call, proc |-> p, ret |-> r]
    /\ IF k.panic = "" THEN freelist' = k.free /\ image' = img
                       ELSE UNCHANGED <<freelist, image>>

\* userinit: allocproc for the first process, then uvminit.
UvmInit ==
    /\ panic = "" /\ hist = NoHist /\ ncalls = 0
    /\ uvmret = [call |-> "userinit", proc |-> InitProc, ret |-> 0]
    /\ LET k0 == [free |-> PageNos, pt |-> NoTable, tries |-> 0, fails |-> {},
                  mem |-> 0, ok |-> TRUE, ret |-> 0, panic |-> "", hist |-> NoHist]
           t  == kalloc(k0)
           pg == kalloc(proc_pagetable(t))
           k  == mappages(pg, 0, pg.mem, TRUE)
       IN  /\ freelist = k.free
           /\ image = [p \in Procs |-> IF p = InitProc
                         THEN [tf |-> t.mem, sz |-> PGSIZE, pt |-> k.pt] ELSE Unused]

\* fork: allocproc takes the trapframe and an empty table, uvmcopy fills it.
forked(p, q, tf, k) ==
    IF k.ret = -1 THEN Leave(freeproc(k, tf, 0), image, "fork", p, -1)
    ELSE Leave(k, [image EXCEPT ![q] = [tf |-> tf, sz |-> image[p].sz, pt |-> k.pt]], "fork", p, 0)
allocproc(p, q, k) ==
    IF k.mem = 0 THEN Leave(k, image, "fork", p, -1)
    ELSE forked(p, q, k.mem, uvmcopy(proc_pagetable(k), image[p].pt, image[p].sz))
fork(p, q, fails) == /\ CanCall(p, fails) /\ ~Live(q)
                     /\ allocproc(p, q, kalloc(Enter(fails)))

\* The old image is freed once the new one is complete, else the new one.
execEnd(p, k) ==
    IF k.ok THEN Leave(proc_freepagetable([k EXCEPT !.pt = image[p].pt], image[p].sz),
                       [image EXCEPT ![p].sz = k.ret, ![p].pt = k.pt], "exec", p, 0)
    ELSE Leave(proc_freepagetable([k EXCEPT !.ok = TRUE], k.ret), image, "exec", p, -1)
exec(p, prog, fails) ==
    /\ CanCall(p, fails)
    /\ IF prog.header THEN execEnd(p, execBuild(Enter(fails), prog))
       ELSE Leave(Enter(fails), image, "exec", p, -1)

\* growproc keeps the size in a uint: sz + n wraps below zero.
growproc(k, sz, n) ==
    CASE n > 0 -> uvmalloc(k, sz, sz + n)
      [] n < 0 -> uvmdealloc(k, sz, (sz + n) % UintMax)
      [] OTHER -> [k EXCEPT !.ret = sz]

sbrkEnd(p, failed, k) ==
    Leave(k, [image EXCEPT ![p].pt = k.pt, ![p].sz = IF failed THEN @ ELSE k.ret],
          "sbrk", p, IF failed THEN -1 ELSE image[p].sz)
sbrk(p, n, k) == sbrkEnd(p, n > 0 /\ k.ret = 0, k)
sys_sbrk(p, n, fails) ==
    /\ CanCall(p, fails)
    /\ image[p].sz + n <= NVP * PGSIZE
    /\ sbrk(p, n, growproc(EnterWith(fails, image[p].pt), image[p].sz, n))

\* wait: the zombie's memory is freed by its parent.
wait(p) ==
    /\ CanCall(p, {}) /\ p # InitProc
    /\ Leave(freeproc(EnterWith({}, image[p].pt), image[p].tf, image[p].sz),
             [image EXCEPT ![p] = Unused], "wait", p, 0)

UvmStopped == (panic # "" \/ ncalls = MaxCalls) /\ UNCHANGED uvmVars

UvmNext ==
    \/ \E p \in Procs :
          \/ \E fails \in FailSets :
                \/ \E q \in Procs : fork(p, q, fails)
                \/ \E prog \in Programs : exec(p, prog, fails)
                \/ \E n \in SbrkArgs : sys_sbrk(p, n, fails)
          \/ wait(p)
    \/ UvmStopped

UvmSpec == UvmInit /\ [][UvmNext]_uvmVars

-----------------------------------------------------------------------------
(***************************************************************************)
(* copyin, copyout and copyinstr walk a range page by page.                *)
(***************************************************************************)
\* Mutant of walkaddr: PTE_U is not looked at.
walkaddr_NoUserCheck(pt, vp) == IF vp \in VPages THEN pt.leaf[vp] ELSE 0

\* walkaddr: the page behind a virtual page, 0 unless it is mapped for the user.
walkaddr(pt, vp) == IF vp \in VPages /\ vp \in pt.user THEN pt.leaf[vp] ELSE 0

\* The bytes (page, offset) a copy of len bytes at va touches, in order, and
\* its result.
RECURSIVE copyBytes(_, _, _)
copyBytes(pt, va, len) ==
    LET va0  == va \div PGSIZE
        off  == va - va0 * PGSIZE
        n    == Min({PGSIZE - off, len})
        rest == copyBytes(pt, (va0 + 1) * PGSIZE, len - n)
    IN  CASE len = 0                -> [ret |-> 0, bytes |-> <<>>]
          [] walkaddr(pt, va0) = 0  -> [ret |-> -1, bytes |-> <<>>]
          [] OTHER -> [rest EXCEPT !.bytes =
                         [i \in 1 .. n |-> <<walkaddr(pt, va0), off + i - 1>>] \o @]

\* copyinstr: stops at the first byte of nul, fails after max bytes without one.
RECURSIVE copyinstr(_, _, _, _)
copyinstr(pt, va, max, nul) ==
    LET va0 == va \div PGSIZE
        n   == Min({(va0 + 1) * PGSIZE - va, max})
    IN  CASE max = 0               -> -1
          [] walkaddr(pt, va0) = 0 -> -1
          [] \E a \in va .. va + n - 1 : a \in nul -> 0
          [] OTHER -> copyinstr(pt, (va0 + 1) * PGSIZE, max - n, nul)

-----------------------------------------------------------------------------
PagesOf(p) == ({image[p].tf} \ {0}) \cup TablePages(image[p].pt) \cup UserPages(image[p].pt)
Lost == PageNos \ (freelist \cup UNION {PagesOf(p) : p \in Procs})

\* Type invariant.
UvmTypeOK ==
    /\ freelist \subseteq PageNos /\ panic \in STRING
    /\ hist.bad \subseteq {"nomem", "first page", "top not mapped"}
    /\ \A p \in Procs : /\ image[p].tf \in 0 .. NPages /\ image[p].sz \in 0 .. NVP * PGSIZE
                        /\ image[p].pt.leaf \in [VPages -> 0 .. NPages]
                        /\ image[p].pt.user \subseteq VPages

\* No page has two owners: a page is on kmem.freelist, or it is one process's
\* trapframe, page-table page or one user page, whatever calls failed before.
OneOwner ==
    /\ \A p \in Procs : PagesOf(p) \cap freelist = {}
    /\ \A p, q \in Procs : p # q => PagesOf(p) \cap PagesOf(q) = {}
    /\ \A p \in Procs :
         LET pt == image[p].pt
         IN  Live(p) => Cardinality(PagesOf(p)) =
               2 + Len(pt.lo) + Len(pt.hi) + Cardinality({v \in VPages : pt.leaf[v] # 0})

\* p->sz is what uvmcopy and uvmfree trust: exactly the pages below it are mapped.
SizeIsMapped ==
    \A p \in Procs : Live(p) =>
        \A v \in VPages : (image[p].pt.leaf[v] # 0) <=> v * PGSIZE < image[p].sz

\* Whatever allocations failed, every page that is neither free nor owned was in a
\* table that proc_freepagetable gave up at size 0; user pages are among them only
\* after a failed allocation (exec whose uvmalloc() has set sz to 0).
NothingLost ==
    panic = "" => /\ Lost = hist.tables \cup hist.user
                  /\ hist.user # {} => "nomem" \in hist.bad

\* A panic needs a failed allocation that is not undone, and there are three: the
\* root of a page table, the first page or table of uvmcopy(), and a mapping of
\* proc_pagetable() whose failure is ignored.  Failures at any other place never
\* lead to one: no page is mapped over, freed twice, or left in a freed table.
PanicNeedsNoMemory ==
    panic # "" =>
       /\ "nomem" \in hist.bad
       /\ \/ panic = "uvmcreate: out of memory"
          \/ panic = "uvmunmap: walk" /\ hist.bad \cap {"first page", "top not mapped"} # {}
          \/ panic = "uvmunmap: not mapped" /\ "top not mapped" \in hist.bad

\* A call that fails undoes what it did: fork and exec leave every image as it was,
\* sbrk leaves the size and the user pages and loses nothing, and uvmcopy() in fork
\* "frees any allocated pages on failure": no user page is lost with the table.
FailureLeavesImage ==
    [][uvmret'.ret = -1 /\ panic' = "" =>
         /\ uvmret'.call \in {"exec", "fork"} => image' = image
         /\ \A p \in Procs : /\ image'[p].sz = image[p].sz
                             /\ image'[p].pt.leaf = image[p].pt.leaf
         /\ uvmret'.call = "sbrk" => Lost' = Lost
         /\ uvmret'.call = "fork" => hist'.user = hist.user]_uvmVars

\* copyout and copyin succeed exactly when every byte of the range is in a
\* mapped user page, then touch those bytes in order, and in no case a byte of
\* the guard page; copyinstr finds a terminator only inside such pages.
CopyRange ==
    \A p \in Procs : Live(p) =>
      LET pt == image[p].pt
          In(a) == a \div PGSIZE \in pt.user
      IN  \A va \in 0 .. NVP * PGSIZE, len \in 0 .. PGSIZE + 2 :
            LET c == copyBytes(pt, va, len)
                range == va .. va + len - 1
            IN  /\ (c.ret = 0) <=> \A a \in range : In(a)
                /\ c.ret = 0 => c.bytes = [i \in 1 .. len |->
                      <<pt.leaf[(va + i - 1) \div PGSIZE], (va + i - 1) % PGSIZE>>]
                /\ \A i \in DOMAIN c.bytes : In(va + i - 1)
                /\ \A z \in range :
                     (copyinstr(pt, va, len, {z}) = 0) <=> \A a \in va .. z : In(a)

\* Every physical page is accounted for by what the kernel relies on: one owner,
\* none lost but in a table given up at size 0, p->sz exact, and no panic of vm.c
\* but for the three failures that it does not undo.
PagesAccounted == UvmTypeOK /\ OneOwner /\ SizeIsMapped /\ NothingLost /\ PanicNeedsNoMemory
=============================================================================
