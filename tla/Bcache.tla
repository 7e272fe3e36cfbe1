------------------------------- MODULE Bcache -------------------------------
(***************************************************************************)
(* The buffer cache (bio.c) with its sleep locks (sleeplock.c).            *)
(*                                                                         *)
(* A user is one stretch of kernel code from bread() to brelse().  A       *)
(* process that holds two buffers at once, as bmap() does, is two users.   *)
(* Users treat buffers as the kernel does: changed data is handed to       *)
(* log_write(), which pins the buffer, or written at once, as write_log()  *)
(* does; install_trans() writes a pinned buffer to its place and unpins    *)
(* it.                                                                     *)
(***************************************************************************)
EXTENDS Integers, FiniteSets

CONSTANTS Users,    \* stretches of code that use a buffer
          NBUF,     \* buffers in the cache
          Blocks,   \* blocks of the disks
          Block0,   \* block 0 of ROOTDEV, which is device 0
          Values,   \* contents of a block
          LogMax,   \* blocks that the log may pin at once
          None      \* no holder, no buffer

Bufs == 1..NBUF

\* There are buffers and finitely many users and blocks; block 0 is a block of the
\* disk; None is none of the others.
ASSUME CacheAssumption ==
  /\ NBUF \in Nat \ {0}
  /\ IsFiniteSet(Users) /\ IsFiniteSet(Blocks)
  /\ Block0 \in Blocks
  /\ None \notin Users /\ None \notin Bufs /\ None \notin [block: Blocks, data: Values]

VARIABLES
  blockno, valid, data,   \* fields of struct buf
  refcnt,
  holder,                 \* b->lock: None, or the user that has it locked
  lru,                    \* the list of buffers from bcache.head.next on
  disk,                   \* contents of the disk
  logged,                 \* blocks pinned by the log
  upc, buf,               \* each user's place and its buffer
  panicked

cacheVars == <<blockno, valid, data, refcnt, holder, lru, disk, logged, upc, buf,
               panicked>>
fields == <<blockno, valid, data>>

\* Where a user holds a buffer that bread() has returned.
Using == {"use", "changed", "written"}

\* binit() puts each buffer in front of the earlier ones.  The buffers are
\* zero, so that all of them are copies of block 0, and none is valid.
CacheInit ==
  /\ blockno = [b \in Bufs |-> Block0]
  /\ valid = [b \in Bufs |-> FALSE]
  /\ disk \in [Blocks -> Values]
  /\ \E zero \in Values : data = [b \in Bufs |-> zero]
  /\ refcnt = [b \in Bufs |-> 0]
  /\ holder = [b \in Bufs |-> None]
  /\ lru = [j \in Bufs |-> NBUF + 1 - j]
  /\ logged = {}
  /\ upc = [u \in Users |-> "idle"]
  /\ buf = [u \in Users |-> None]
  /\ panicked = FALSE

UserAt(u, loc) == ~panicked /\ upc[u] = loc
UserGoto(u, loc) == upc' = [upc EXCEPT ![u] = loc]

-----------------------------------------------------------------------------
(* bget() under bcache.lock *)

Cached(k) == {j \in Bufs : blockno[lru[j]] = k}
FreeBufs == {j \in Bufs : refcnt[lru[j]] = 0}

\* Mutant: the buffer found is not referenced.
Hit_NoRef(u, k) ==
  /\ UserAt(u, "idle")
  /\ \E j \in Cached(k) :
       /\ \A h \in Cached(k) : j <= h
       /\ buf' = [buf EXCEPT ![u] = lru[j]]
  /\ UserGoto(u, "acquire")
  /\ UNCHANGED <<fields, refcnt, holder, lru, disk, logged, panicked>>

Hit(u, k) ==
  /\ UserAt(u, "idle")
  /\ \E j \in Cached(k) :
       /\ \A h \in Cached(k) : j <= h
       /\ refcnt' = [refcnt EXCEPT ![lru[j]] = @ + 1]
       /\ buf' = [buf EXCEPT ![u] = lru[j]]
  /\ UserGoto(u, "acquire")
  /\ UNCHANGED <<fields, holder, lru, disk, logged, panicked>>

\* Give u the buffer at place j of the list, for block k.
Take(u, k, j) ==
  /\ blockno' = [blockno EXCEPT ![lru[j]] = k]
  /\ refcnt' = [refcnt EXCEPT ![lru[j]] = 1]
  /\ buf' = [buf EXCEPT ![u] = lru[j]]
  /\ UserGoto(u, "acquire")
  /\ UNCHANGED <<data, holder, lru, disk, logged, panicked>>

\* Mutant: the recycled buffer stays valid.
Miss_KeepValid(u, k) ==
  /\ UserAt(u, "idle") /\ Cached(k) = {}
  /\ \E j \in FreeBufs : /\ \A h \in FreeBufs : h <= j
                     /\ Take(u, k, j)
                     /\ UNCHANGED valid

Miss(u, k) ==
  /\ UserAt(u, "idle") /\ Cached(k) = {}
  /\ \E j \in FreeBufs : /\ \A h \in FreeBufs : h <= j
                     /\ Take(u, k, j)
                     /\ valid' = [valid EXCEPT ![lru[j]] = FALSE]

NoBuffers(u, k) ==
  /\ UserAt(u, "idle") /\ Cached(k) = {} /\ FreeBufs = {}
  /\ panicked' = TRUE
  /\ UNCHANGED <<fields, refcnt, holder, lru, disk, logged, upc, buf>>

-----------------------------------------------------------------------------
(* acquiresleep() under lk->lk, and the rest of bread() *)

Acquire(u) ==
  /\ UserAt(u, "acquire")
  /\ holder[buf[u]] = None
  /\ holder' = [holder EXCEPT ![buf[u]] = u]
  /\ UserGoto(u, "locked")
  /\ UNCHANGED <<fields, refcnt, lru, disk, logged, buf, panicked>>

AcquireSleep(u) ==
  /\ UserAt(u, "acquire")
  /\ holder[buf[u]] # None
  /\ UserGoto(u, "asleep")
  /\ UNCHANGED <<fields, refcnt, holder, lru, disk, logged, buf, panicked>>

\* kill() makes a sleeper runnable; the loop in acquiresleep() looks again.
KillUser(u) ==
  /\ UserAt(u, "asleep")
  /\ UserGoto(u, "acquire")
  /\ UNCHANGED <<fields, refcnt, holder, lru, disk, logged, buf, panicked>>

ReadValid(u) ==
  /\ UserAt(u, "locked")
  /\ valid[buf[u]]
  /\ UserGoto(u, "use")
  /\ UNCHANGED <<fields, refcnt, holder, lru, disk, logged, buf, panicked>>

ReadDisk(u) ==
  /\ UserAt(u, "locked")
  /\ ~valid[buf[u]]
  /\ data' = [data EXCEPT ![buf[u]] = disk[blockno[buf[u]]]]
  /\ valid' = [valid EXCEPT ![buf[u]] = TRUE]
  /\ UserGoto(u, "use")
  /\ UNCHANGED <<blockno, refcnt, holder, lru, disk, logged, buf, panicked>>

-----------------------------------------------------------------------------
(* What callers do with a buffer *)

Change(u, v) ==
  /\ UserAt(u, "use")
  /\ data' = [data EXCEPT ![buf[u]] = v]
  /\ UserGoto(u, "changed")
  /\ UNCHANGED <<blockno, valid, refcnt, holder, lru, disk, logged, buf,
                 panicked>>

Bpin(b) == [refcnt EXCEPT ![b] = @ + 1]
Bunpin(b) == [refcnt EXCEPT ![b] = @ - 1]

\* A block that is new in the log is pinned.  Log shows that log_write() does
\* not find the log full.
LogWrite(u) ==
  LET k == blockno[buf[u]] IN
  /\ UserAt(u, "changed")
  /\ Cardinality(logged) < LogMax
  /\ refcnt' = IF k \in logged THEN refcnt ELSE Bpin(buf[u])
  /\ logged' = logged \cup {k}
  /\ UserGoto(u, "use")
  /\ UNCHANGED <<fields, holder, lru, disk, buf, panicked>>

Bwrite(u) ==
  /\ UserAt(u, "use") \/ UserAt(u, "changed")
  /\ disk' = [disk EXCEPT ![blockno[buf[u]]] = data[buf[u]]]
  /\ UserGoto(u, "written")
  /\ UNCHANGED <<fields, refcnt, holder, lru, logged, buf, panicked>>

\* install_trans() after its bwrite().
Installed(u) ==
  /\ UserAt(u, "written")
  /\ blockno[buf[u]] \in logged
  /\ refcnt' = Bunpin(buf[u])
  /\ logged' = logged \ {blockno[buf[u]]}
  /\ UserGoto(u, "use")
  /\ UNCHANGED <<fields, holder, lru, disk, buf, panicked>>

-----------------------------------------------------------------------------
(* brelse(): releasesleep(), and then the reference under bcache.lock *)

ReleaseSleep(u) ==
  /\ UserAt(u, "use") \/ UserAt(u, "written")
  /\ holder' = [holder EXCEPT ![buf[u]] = None]
  /\ upc' = [w \in Users |->
              CASE w = u -> "release"
                [] upc[w] = "asleep" /\ buf[w] = buf[u] -> "acquire"
                [] OTHER -> upc[w]]
  /\ UNCHANGED <<fields, refcnt, lru, disk, logged, buf, panicked>>

\* The list with b, at place i, moved to its head.
ToHead(b) ==
  LET i == CHOOSE i \in Bufs : lru[i] = b
  IN  [j \in Bufs |-> IF j = 1 THEN b ELSE IF j <= i THEN lru[j - 1] ELSE lru[j]]

DropRef(u) ==
  /\ UserAt(u, "release")
  /\ refcnt' = [refcnt EXCEPT ![buf[u]] = @ - 1]
  /\ lru' = IF refcnt[buf[u]] = 1 THEN ToHead(buf[u]) ELSE lru
  /\ buf' = [buf EXCEPT ![u] = None]
  /\ UserGoto(u, "idle")
  /\ UNCHANGED <<fields, holder, disk, logged, panicked>>

-----------------------------------------------------------------------------
CacheNext ==
  \E u \in Users :
    \/ \E k \in Blocks : Hit(u, k) \/ Miss(u, k) \/ NoBuffers(u, k)
    \/ Acquire(u) \/ AcquireSleep(u) \/ KillUser(u)
    \/ ReadValid(u) \/ ReadDisk(u)
    \/ \E v \in Values : Change(u, v)
    \/ LogWrite(u) \/ Bwrite(u) \/ Installed(u)
    \/ ReleaseSleep(u) \/ DropRef(u)

CacheSpec == CacheInit /\ [][CacheNext]_cacheVars

-----------------------------------------------------------------------------
(* Properties *)

\* Types; the list, relinked by brelse(), always holds every buffer once.
CacheTypeOK ==
  /\ blockno \in [Bufs -> Blocks]
  /\ valid \in [Bufs -> BOOLEAN]
  /\ data \in [Bufs -> Values]
  /\ refcnt \in [Bufs -> Nat]
  /\ holder \in [Bufs -> Users \cup {None}]
  /\ lru \in [Bufs -> Bufs]
  /\ \A j, h \in Bufs : lru[j] = lru[h] => j = h
  /\ disk \in [Blocks -> Values]
  /\ logged \subseteq Blocks
  /\ upc \in [Users -> {"idle", "acquire", "asleep", "locked", "release"}
                        \cup Using]
  /\ buf \in [Users -> Bufs \cup {None}]
  /\ panicked \in BOOLEAN

\* refcnt counts exactly the users that point at the buffer, waiting for it,
\* holding it or on their way out of brelse(), and the log's pin.
RefsAccounted ==
  \A b \in Bufs :
    refcnt[b] = Cardinality({u \in Users : buf[u] = b})
                  + (IF valid[b] /\ blockno[b] \in logged THEN 1 ELSE 0)

\* Two buffers for the same block are never in use or valid, although a user
\* of bget() gives up bcache.lock before it has the buffer locked, and although
\* binit() leaves every buffer marked as block 0.
OneCopy ==
  LET InUse(b) == valid[b] \/ refcnt[b] > 0 IN
  \A b, c \in Bufs :
    blockno[b] = blockno[c] /\ InUse(b) /\ InUse(c) => b = c

\* From bread() to brelse() a user holds the sleep lock of its buffer, so the
\* panics in bwrite() and brelse() are not reached, and a held buffer is
\* valid.
HeldWhileUsed ==
  \A u \in Users :
    /\ upc[u] \in Using \cup {"locked"} => holder[buf[u]] = u
    /\ upc[u] \in Using => valid[buf[u]]

\* Nobody sleeps on an unlocked buffer: releasesleep() clears the lock and
\* wakes in one critical section, also when kill() has made a sleeper look
\* at the lock early.
NoLostWakeup ==
  \A u \in Users : upc[u] = "asleep" => holder[buf[u]] # None

\* bget() panics for want of buffers only when that many are in demand: no
\* reference is leaked, and an absorbed log_write() takes no second one.
PanicNeedsDemand ==
  panicked =>
    Cardinality({u \in Users : upc[u] # "idle"}) + Cardinality(logged) >= NBUF

\* What a block contains, cached or not.
Content(k) ==
  IF \E b \in Bufs : blockno[b] = k /\ valid[b]
  THEN data[CHOOSE b \in Bufs : blockno[b] = k /\ valid[b]]
  ELSE disk[k]

View(u) ==
  IF upc[u] \in Using
  THEN [block |-> blockno[buf[u]], data |-> data[buf[u]]]
  ELSE None

Store == INSTANCE BlockStore WITH content <- [k \in Blocks |-> Content(k)],
                                  view <- [u \in Users |-> View(u)]

\* The cache cannot be noticed: one user at a time has a block, every bread()
\* returns what the last user left, and recycling a buffer or writing one to
\* the disk changes no block.
Transparent == Store!Spec

\* What keeps the cache transparent: exact references, one locked copy of a block
\* in use, nobody asleep on a free lock, no panic of bget() without demand.
BuffersSound ==
  /\ CacheTypeOK /\ RefsAccounted /\ OneCopy /\ HeldWhileUsed
  /\ NoLostWakeup /\ PanicNeedsDemand
=============================================================================
