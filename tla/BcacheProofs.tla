---------------------------- MODULE BcacheProofs ----------------------------
(***************************************************************************)
(* The buffer cache keeps its invariants and implements BlockStore, for    *)
(* any number of buffers, users, blocks and values.                        *)
(***************************************************************************)
EXTENDS Bcache, FiniteSetTheorems, TLAPS

InUse(b) == valid[b] \/ refcnt[b] > 0
Pointers(b) == {u \in Users : buf[u] = b}
Pin(b) == IF valid[b] /\ blockno[b] \in logged THEN 1 ELSE 0

LruOnto == \A b \in Bufs : \E j \in Bufs : lru[j] = b
BufInv == \A u \in Users : buf[u] = None <=> upc[u] = "idle"

\* bget() finds the first buffer of the list that is marked with a block.  binit()
\* marks all as block 0: the one in use comes before those never used.
FirstCopy ==
  \A i, j \in Bufs : /\ i # j
                     /\ blockno[lru[i]] = blockno[lru[j]]
                     /\ InUse(lru[i])
                     => i < j

\* Only the user that has bread() a buffer and not yet released it has it locked.
HolderInv ==
  /\ \A u \in Users :
       /\ upc[u] \in Using \cup {"locked"} => holder[buf[u]] = u
       /\ upc[u] \in Using \cup {"release"} => valid[buf[u]]
  /\ \A b \in Bufs : holder[b] # None =>
       buf[holder[b]] = b /\ upc[holder[b]] \in Using \cup {"locked"}

\* A block of the log has a valid copy.
PinInv == \A k \in logged : \E b \in Bufs : blockno[b] = k /\ valid[b]

\* A copy that differs from the disk is in the log, or its user is not done.
CleanInv ==
  /\ \A b \in Bufs : valid[b] /\ data[b] # disk[blockno[b]] =>
       blockno[b] \in logged \/ \E u \in Users : buf[u] = b /\ upc[u] = "changed"
  /\ \A u \in Users : upc[u] = "written" => data[buf[u]] = disk[blockno[buf[u]]]

CacheInv ==
  CacheTypeOK /\ LruOnto /\ BufInv /\ RefsAccounted /\ FirstCopy /\ HolderInv /\ PinInv /\ CleanInv
  /\ NoLostWakeup /\ PanicNeedsDemand

-----------------------------------------------------------------------------
(* Counting the users of a buffer.                                         *)

LEMMA FiniteUsers ==
  ASSUME NEW S \in SUBSET Users
  PROVE  IsFiniteSet(S) /\ Cardinality(S) \in Nat /\ (S # {} => Cardinality(S) >= 1)
<1>1. IsFiniteSet(S)
  BY Zenon, FS_Subset, CacheAssumption
<1>2. Cardinality(S) \in Nat
  BY Zenon, <1>1, FS_CardinalityType
<1>3. Cardinality(S) = 0 <=> S = {}
  BY Zenon, <1>1, FS_EmptySet
<1> QED BY <1>1, <1>2, <1>3

\* One user more.
LEMMA PointersAdd ==
  ASSUME NEW f \in [Users -> Bufs \cup {None}], NEW u \in Users, NEW b \in Bufs,
         f[u] # b, NEW g, g = [f EXCEPT ![u] = b]
  PROVE  Cardinality({w \in Users : g[w] = b}) = Cardinality({w \in Users : f[w] = b}) + 1
<1>1. {w \in Users : g[w] = b} = {w \in Users : f[w] = b} \cup {u}
  BY Zenon
<1>2. IsFiniteSet({w \in Users : f[w] = b})
  BY Zenon, FiniteUsers
<1> QED BY Zenon, <1>1, <1>2, FS_AddElement

\* One user fewer.
LEMMA PointersDrop ==
  ASSUME NEW f \in [Users -> Bufs \cup {None}], NEW u \in Users, NEW b \in Bufs,
         f[u] = b, NEW g, g = [f EXCEPT ![u] = None]
  PROVE  Cardinality({w \in Users : g[w] = b}) = Cardinality({w \in Users : f[w] = b}) - 1
<1>1. {w \in Users : g[w] = b} = {w \in Users : f[w] = b} \ {u}
  BY Zenon, CacheAssumption
<1>2. IsFiniteSet({w \in Users : f[w] = b})
  BY Zenon, FiniteUsers
<1> QED BY Zenon, <1>1, <1>2, FS_RemoveElement

\* refcnt is 0 only for a buffer without users and without the log's pin.
LEMMA Referenced ==
  ASSUME CacheTypeOK, RefsAccounted, NEW b \in Bufs
  PROVE  /\ refcnt[b] = 0 => Pointers(b) = {} /\ Pin(b) = 0
         /\ \A u \in Users : buf[u] = b => refcnt[b] >= 1
<1>1. refcnt[b] = Cardinality(Pointers(b)) + Pin(b)
  BY Zenon DEF RefsAccounted, Pointers, Pin
<1>2. Cardinality(Pointers(b)) \in Nat /\ (Pointers(b) # {} => Cardinality(Pointers(b)) >= 1)
  BY Zenon, FiniteUsers DEF Pointers
<1>3. Pin(b) \in {0, 1}
  BY Zenon DEF Pin
<1>4. \A u \in Users : buf[u] = b => u \in Pointers(b)
  BY Zenon DEF Pointers
<1> QED BY <1>1, <1>2, <1>3, <1>4

\* No two buffers in use are of the same block.
LEMMA Single ==
  ASSUME CacheTypeOK, LruOnto, FirstCopy, NEW b \in Bufs, NEW c \in Bufs,
         blockno[b] = blockno[c], InUse(b), InUse(c)
  PROVE  b = c
<1>1. PICK i \in Bufs, j \in Bufs : lru[i] = b /\ lru[j] = c
  BY DEF LruOnto
<1>2. i # j => i < j /\ j < i
  BY Zenon, <1>1 DEF FirstCopy
<1> QED BY <1>1, <1>2 DEF Bufs

-----------------------------------------------------------------------------
(* Steps.                                                                  *)

LEMMA InitInv ==
  ASSUME CacheInit
  PROVE  CacheInv
<1> USE DEF CacheInit
<1>a. NBUF \in Nat /\ NBUF >= 1
  BY CacheAssumption
<1>b. \A b \in Bufs : ~valid[b] /\ refcnt[b] = 0 /\ holder[b] = None
  BY Zenon
<1>1. CacheTypeOK
  <2>1. lru \in [Bufs -> Bufs] /\ \A j, h \in Bufs : lru[j] = lru[h] => j = h
    BY <1>a DEF Bufs
  <2>2. data \in [Bufs -> Values] /\ blockno \in [Bufs -> Blocks]
    BY Zenon, CacheAssumption
  <2> QED BY Zenon, <2>1, <2>2 DEF CacheTypeOK
<1>2. LruOnto
  <2> SUFFICES ASSUME NEW b \in Bufs PROVE \E j \in Bufs : lru[j] = b
    BY Zenon DEF LruOnto
  <2>1. NBUF + 1 - b \in Bufs /\ lru[NBUF + 1 - b] = b
    BY <1>a DEF Bufs
  <2> QED BY Zenon, <2>1
<1>3. BufInv /\ NoLostWakeup
  BY Zenon DEF BufInv, NoLostWakeup
<1>4. RefsAccounted
  <2>1. \A b \in Bufs : {u \in Users : buf[u] = b} = {}
    BY Zenon, CacheAssumption
  <2>2. Cardinality({}) + 0 = 0
    BY FS_EmptySet
  <2> QED BY Zenon, <1>b, <2>1, <2>2 DEF RefsAccounted
<1>5. FirstCopy
  BY <1>1, <1>b DEF FirstCopy, InUse, CacheTypeOK
<1>6. HolderInv /\ PinInv /\ PanicNeedsDemand
  BY Zenon DEF HolderInv, PinInv, PanicNeedsDemand, Using
<1>7. CleanInv
  BY Zenon DEF CleanInv
<1> QED BY Zenon, <1>1, <1>2, <1>3, <1>4, <1>5, <1>6, <1>7 DEF CacheInv

\* A user that goes to sleep, wakes or gets its buffer holds the locks it held.
LEMMA HolderMoves ==
  ASSUME HolderInv, CacheTypeOK, NEW u \in Users, NEW l,
         upc'[u] = l, \A w \in Users : w # u => upc'[w] = upc[w],
         l \in {"asleep", "acquire", "use"}, l \in Using <=> l = "use",
         l = "use" => upc[u] = "locked" /\ valid[buf[u]],
         l # "use" => upc[u] \notin Using \cup {"locked"},
         UNCHANGED <<buf, holder, valid>>
  PROVE  HolderInv'
<1>1. ASSUME NEW w \in Users
      PROVE  /\ upc'[w] \in Using \cup {"locked"} => holder'[buf'[w]] = w
             /\ upc'[w] \in Using \cup {"release"} => valid'[buf'[w]]
  <2>1. CASE w = u
    BY Zenon, <2>1 DEF HolderInv
  <2>2. CASE w # u
    BY Zenon, <2>2 DEF HolderInv
  <2> QED BY Zenon, <2>1, <2>2
<1>2. ASSUME NEW b \in Bufs, holder'[b] # None
      PROVE  buf'[holder'[b]] = b /\ upc'[holder'[b]] \in Using \cup {"locked"}
  <2>0. holder[b] # None /\ holder[b] \in Users \cup {None}
    BY Zenon, <1>2 DEF CacheTypeOK
  <2>1. buf[holder[b]] = b /\ upc[holder[b]] \in Using \cup {"locked"} /\ holder[b] \in Users
    BY Zenon, <2>0 DEF HolderInv
  <2>2. CASE holder[b] = u
    BY Zenon, <2>1, <2>2
  <2>3. CASE holder[b] # u
    BY Zenon, <2>1, <2>3
  <2> QED BY Zenon, <2>2, <2>3
<1> QED BY Zenon, <1>1, <1>2 DEF HolderInv

LEMMA SleepStepInv ==
  ASSUME CacheInv, NEW u \in Users, AcquireSleep(u) \/ KillUser(u) \/ ReadValid(u)
  PROVE  CacheInv'
<1> USE DEF CacheInv, AcquireSleep, KillUser, ReadValid, UserAt, UserGoto, fields
<1>1. CacheTypeOK'
  BY DEF CacheTypeOK, Using
<1>2. LruOnto'
  BY Zenon DEF LruOnto
<1>3. BufInv'
  BY DEF BufInv, CacheTypeOK
<1>4. RefsAccounted'
  BY DEF RefsAccounted
<1>5. FirstCopy'
  BY DEF FirstCopy, InUse
<1>6. HolderInv'
  <2>1. PICK l \in {"asleep", "acquire", "use"} :
           /\ upc' = [upc EXCEPT ![u] = l] /\ (l = "use" => upc[u] = "locked" /\ valid[buf[u]])
           /\ (l # "use" => upc[u] \notin Using \cup {"locked"})
           /\ UNCHANGED <<buf, holder, valid>>
    BY Zenon DEF Using
  <2>2. upc'[u] = l /\ \A w \in Users : w # u => upc'[w] = upc[w]
    BY Zenon, <2>1 DEF CacheTypeOK
  <2>3. l \in Using <=> l = "use"
    BY Zenon, <2>1 DEF Using
  <2> HIDE DEF CacheInv, AcquireSleep, KillUser, ReadValid
  <2> QED BY Zenon, <2>1, <2>2, <2>3, HolderMoves DEF CacheInv
<1>7. PinInv'
  BY DEF PinInv
<1>8. CleanInv'
  BY DEF CleanInv, CacheTypeOK
<1>9. NoLostWakeup'
  BY DEF NoLostWakeup, CacheTypeOK
<1>10. PanicNeedsDemand'
  BY Zenon DEF PanicNeedsDemand
<1> QED BY Zenon, <1>1, <1>2, <1>3, <1>4, <1>5, <1>6, <1>7, <1>8, <1>9, <1>10

LEMMA AcquireStepInv ==
  ASSUME CacheInv, NEW u \in Users, Acquire(u)
  PROVE  CacheInv'
<1> USE DEF CacheInv, Acquire, UserAt, UserGoto, fields
<1> DEFINE b == buf[u]
<1>0. b \in Bufs /\ None \notin Users /\ u # None
  BY CacheAssumption DEF BufInv, CacheTypeOK
<1>1. CacheTypeOK'
  BY Zenon DEF CacheTypeOK, Using
<1>2. LruOnto'
  BY Zenon DEF LruOnto
<1>3. BufInv'
  BY Zenon DEF BufInv, CacheTypeOK
<1>4. RefsAccounted'
  BY Zenon DEF RefsAccounted
<1>5. FirstCopy'
  BY Zenon DEF FirstCopy, InUse
<1>6. HolderInv'
  BY <1>0 DEF HolderInv, CacheTypeOK, Using
<1>7. PinInv'
  BY Zenon DEF PinInv
<1>8. CleanInv'
  BY DEF CleanInv, CacheTypeOK
<1>9. NoLostWakeup'
  BY <1>0 DEF NoLostWakeup, CacheTypeOK
<1>10. PanicNeedsDemand'
  BY Zenon DEF PanicNeedsDemand
<1> QED BY Zenon, <1>1, <1>2, <1>3, <1>4, <1>5, <1>6, <1>7, <1>8, <1>9, <1>10

LEMMA ReadDiskStepInv ==
  ASSUME CacheInv, NEW u \in Users, ReadDisk(u)
  PROVE  CacheInv'
<1> USE DEF CacheInv, ReadDisk, UserAt, UserGoto, fields
<1> DEFINE b == buf[u]
<1>0. b \in Bufs /\ None \notin Users /\ u # None
  BY Zenon, CacheAssumption DEF BufInv, CacheTypeOK
<1>b. InUse(b)
  BY <1>0, Referenced DEF InUse, CacheTypeOK
<1>c. \A c \in Bufs : blockno[c] = blockno[b] /\ valid[c] => c = b
  BY Zenon, <1>0, <1>b, Single DEF InUse
<1>d. blockno[b] \notin logged
  BY <1>c DEF PinInv
<1>e. \A w \in Users : w # u /\ upc[w] \in Using => buf[w] # b
  BY Zenon DEF HolderInv
<1>1. CacheTypeOK'
  BY Zenon, <1>0 DEF CacheTypeOK, Using
<1>2. LruOnto'
  BY Zenon DEF LruOnto
<1>3. BufInv'
  BY Zenon DEF BufInv, CacheTypeOK
<1>4. RefsAccounted'
  BY <1>0, <1>d DEF RefsAccounted, CacheTypeOK
<1>5. FirstCopy'
  BY <1>b DEF FirstCopy, InUse, CacheTypeOK
<1>6. HolderInv'
  BY DEF HolderInv, CacheTypeOK, Using, BufInv
<1>7. PinInv'
  BY Zenon DEF PinInv, CacheTypeOK
<1>8. CleanInv'
  BY <1>0, <1>e DEF CleanInv, CacheTypeOK, Using, BufInv
<1>9. NoLostWakeup'
  BY Zenon DEF NoLostWakeup, CacheTypeOK
<1>10. PanicNeedsDemand'
  BY Zenon DEF PanicNeedsDemand
<1> QED BY Zenon, <1>1, <1>2, <1>3, <1>4, <1>5, <1>6, <1>7, <1>8, <1>9, <1>10

LEMMA ChangeStepInv ==
  ASSUME CacheInv, NEW u \in Users, NEW v \in Values, Change(u, v)
  PROVE  CacheInv'
<1> USE DEF CacheInv, Change, UserAt, UserGoto, fields
<1> DEFINE b == buf[u]
<1>0. b \in Bufs /\ None \notin Users /\ u # None
  BY Zenon, CacheAssumption DEF BufInv, CacheTypeOK
<1>e. \A w \in Users : w # u /\ upc[w] \in Using => buf[w] # b
  BY DEF HolderInv, Using
<1>1. CacheTypeOK'
  BY Zenon, <1>0 DEF CacheTypeOK, Using
<1>2. LruOnto'
  BY Zenon DEF LruOnto
<1>3. BufInv'
  BY Zenon DEF BufInv, CacheTypeOK
<1>4. RefsAccounted'
  BY Zenon DEF RefsAccounted
<1>5. FirstCopy'
  BY Zenon DEF FirstCopy, InUse
<1>6. HolderInv'
  BY DEF HolderInv, CacheTypeOK, Using, BufInv
<1>7. PinInv'
  BY Zenon DEF PinInv
<1>8. CleanInv'
  BY <1>0, <1>e DEF CleanInv, CacheTypeOK, Using, BufInv
<1>9. NoLostWakeup'
  BY Zenon DEF NoLostWakeup, CacheTypeOK
<1>10. PanicNeedsDemand'
  BY Zenon DEF PanicNeedsDemand
<1> QED BY Zenon, <1>1, <1>2, <1>3, <1>4, <1>5, <1>6, <1>7, <1>8, <1>9, <1>10

LEMMA LogWriteStepInv ==
  ASSUME CacheInv, NEW u \in Users, LogWrite(u)
  PROVE  CacheInv'
<1> USE DEF CacheInv, LogWrite, UserAt, UserGoto, fields, Bpin
<1> DEFINE b == buf[u]
<1>0. b \in Bufs /\ None \notin Users /\ u # None
  BY Zenon, CacheAssumption DEF BufInv, CacheTypeOK
<1>b. InUse(b)
  BY <1>0, Referenced DEF InUse, CacheTypeOK
<1>c. \A c \in Bufs : blockno[c] = blockno[b] /\ valid[c] => c = b
  BY Zenon, <1>0, <1>b, Single DEF InUse
<1>d. valid[b]
  BY Zenon DEF HolderInv, Using
<1>1. CacheTypeOK'
  BY <1>0 DEF CacheTypeOK, Using
<1>2. LruOnto'
  BY Zenon DEF LruOnto
<1>3. BufInv'
  BY Zenon DEF BufInv, CacheTypeOK
<1>4. RefsAccounted'
  <2> SUFFICES ASSUME NEW c \in Bufs PROVE (refcnt[c] = Cardinality(Pointers(c)) + Pin(c))'
    BY Zenon DEF RefsAccounted, Pointers, Pin
  <2>1. refcnt[c] = Cardinality(Pointers(c)) + Pin(c) /\ Cardinality(Pointers(c)) \in Nat /\ refcnt[c] \in Nat
    BY Zenon, FiniteUsers DEF RefsAccounted, Pointers, Pin, CacheTypeOK
  <2>2. Pointers(c)' = Pointers(c)
    BY Zenon DEF Pointers
  <2>3. CASE c = b
    BY <1>0, <1>d, <2>1, <2>2, <2>3 DEF Pin, CacheTypeOK
  <2>4. CASE c # b
    BY Zenon, <1>0, <1>c, <2>1, <2>2, <2>4 DEF Pin, CacheTypeOK
  <2> QED BY Zenon, <2>3, <2>4
<1>5. FirstCopy'
  BY Zenon, <1>d DEF FirstCopy, InUse, CacheTypeOK
<1>6. HolderInv'
  BY DEF HolderInv, CacheTypeOK, Using, BufInv
<1>7. PinInv'
  BY Zenon, <1>0, <1>d DEF PinInv, CacheTypeOK
<1>8. CleanInv'
  BY <1>0 DEF CleanInv, CacheTypeOK
<1>9. NoLostWakeup'
  BY Zenon DEF NoLostWakeup, CacheTypeOK
<1>10. PanicNeedsDemand'
  BY Zenon DEF PanicNeedsDemand
<1> QED BY Zenon, <1>1, <1>2, <1>3, <1>4, <1>5, <1>6, <1>7, <1>8, <1>9, <1>10

LEMMA BwriteStepInv ==
  ASSUME CacheInv, NEW u \in Users, Bwrite(u)
  PROVE  CacheInv'
<1> USE DEF CacheInv, Bwrite, UserAt, UserGoto, fields
<1> DEFINE b == buf[u]
<1>0. b \in Bufs /\ None \notin Users /\ u # None
  BY Zenon, CacheAssumption DEF BufInv, CacheTypeOK
<1>b. InUse(b)
  BY <1>0, Referenced DEF InUse, CacheTypeOK
<1>c. \A c \in Bufs : blockno[c] = blockno[b] /\ valid[c] => c = b
  BY Zenon, <1>0, <1>b, Single DEF InUse
<1>d. valid[b]
  BY Zenon DEF HolderInv, Using
<1>e. \A w \in Users : w # u /\ upc[w] \in Using => buf[w] # b /\ valid[buf[w]] /\ buf[w] \in Bufs
  BY DEF HolderInv, Using, CacheTypeOK, BufInv
<1>1. CacheTypeOK'
  BY Zenon, <1>0 DEF CacheTypeOK, Using
<1>2. LruOnto'
  BY Zenon DEF LruOnto
<1>3. BufInv'
  BY Zenon DEF BufInv, CacheTypeOK
<1>4. RefsAccounted'
  BY Zenon DEF RefsAccounted
<1>5. FirstCopy'
  BY Zenon DEF FirstCopy, InUse
<1>6. HolderInv'
  BY DEF HolderInv, CacheTypeOK, Using, BufInv
<1>7. PinInv'
  BY Zenon DEF PinInv
<1>8. CleanInv'
  BY <1>0, <1>c, <1>d, <1>e DEF CleanInv, CacheTypeOK, Using
<1>9. NoLostWakeup'
  BY Zenon DEF NoLostWakeup, CacheTypeOK
<1>10. PanicNeedsDemand'
  BY Zenon DEF PanicNeedsDemand
<1> QED BY Zenon, <1>1, <1>2, <1>3, <1>4, <1>5, <1>6, <1>7, <1>8, <1>9, <1>10

LEMMA InstalledStepInv ==
  ASSUME CacheInv, NEW u \in Users, Installed(u)
  PROVE  CacheInv'
<1> USE DEF CacheInv, Installed, UserAt, UserGoto, fields, Bunpin
<1> DEFINE b == buf[u]
<1>0. b \in Bufs /\ None \notin Users /\ u # None
  BY Zenon, CacheAssumption DEF BufInv, CacheTypeOK
<1>b. InUse(b)
  BY <1>0, Referenced DEF InUse, CacheTypeOK
<1>c. \A c \in Bufs : blockno[c] = blockno[b] /\ valid[c] => c = b
  BY Zenon, <1>0, <1>b, Single DEF InUse
<1>d. valid[b]
  BY Zenon DEF HolderInv, Using
<1>e. refcnt[b] >= 1
  BY Zenon, <1>0, Referenced
<1>1. CacheTypeOK'
  BY <1>0, <1>e DEF CacheTypeOK, Using
<1>2. LruOnto'
  BY Zenon DEF LruOnto
<1>3. BufInv'
  BY Zenon DEF BufInv, CacheTypeOK
<1>4. RefsAccounted'
  <2> SUFFICES ASSUME NEW c \in Bufs PROVE (refcnt[c] = Cardinality(Pointers(c)) + Pin(c))'
    BY Zenon DEF RefsAccounted, Pointers, Pin
  <2>1. refcnt[c] = Cardinality(Pointers(c)) + Pin(c) /\ Cardinality(Pointers(c)) \in Nat /\ refcnt[c] \in Nat
    BY Zenon, FiniteUsers DEF RefsAccounted, Pointers, Pin, CacheTypeOK
  <2>2. Pointers(c)' = Pointers(c)
    BY Zenon DEF Pointers
  <2>3. CASE c = b
    BY <1>0, <1>d, <2>1, <2>2, <2>3 DEF Pin, CacheTypeOK
  <2>4. CASE c # b
    BY Zenon, <1>0, <1>c, <2>1, <2>2, <2>4 DEF Pin, CacheTypeOK
  <2> QED BY Zenon, <2>3, <2>4
<1>5. FirstCopy'
  BY Zenon, <1>d DEF FirstCopy, InUse, CacheTypeOK
<1>6. HolderInv'
  BY DEF HolderInv, CacheTypeOK, Using, BufInv
<1>7. PinInv'
  BY Zenon DEF PinInv, CacheTypeOK
<1>8. CleanInv'
  BY <1>0, <1>c DEF CleanInv, CacheTypeOK
<1>9. NoLostWakeup'
  BY Zenon DEF NoLostWakeup, CacheTypeOK
<1>10. PanicNeedsDemand'
  BY Zenon DEF PanicNeedsDemand
<1> QED BY Zenon, <1>1, <1>2, <1>3, <1>4, <1>5, <1>6, <1>7, <1>8, <1>9, <1>10

LEMMA ReleaseSleepStepInv ==
  ASSUME CacheInv, NEW u \in Users, ReleaseSleep(u)
  PROVE  CacheInv'
<1> USE DEF CacheInv, ReleaseSleep, UserAt, UserGoto, fields
<1> DEFINE b == buf[u]
<1>0. b \in Bufs /\ None \notin Users /\ u # None
  BY Zenon, CacheAssumption DEF BufInv, CacheTypeOK
<1>a. \A w \in Users : upc'[w] = IF w = u THEN "release"
                               ELSE IF upc[w] = "asleep" /\ buf[w] = b THEN "acquire"
                               ELSE upc[w]
  BY Zenon DEF CacheTypeOK
<1>d. valid[b] /\ holder[b] = u /\ upc[u] \in {"use", "written"}
  BY Zenon DEF HolderInv, Using
<1>1. CacheTypeOK'
  BY Zenon, <1>0 DEF CacheTypeOK, Using
<1>2. LruOnto'
  BY Zenon DEF LruOnto
<1>3. BufInv'
  BY Zenon, <1>a DEF BufInv
<1>4. RefsAccounted'
  BY Zenon DEF RefsAccounted
<1>5. FirstCopy'
  BY Zenon DEF FirstCopy, InUse
<1>6. HolderInv'
  BY <1>0, <1>a, <1>d DEF HolderInv, CacheTypeOK, Using
<1>7. PinInv'
  BY Zenon DEF PinInv
<1>8. CleanInv'
  BY <1>a, <1>d DEF CleanInv, CacheTypeOK
<1>9. NoLostWakeup'
  BY <1>0, <1>a DEF NoLostWakeup, CacheTypeOK
<1>10. PanicNeedsDemand'
  BY Zenon DEF PanicNeedsDemand
<1> QED BY Zenon, <1>1, <1>2, <1>3, <1>4, <1>5, <1>6, <1>7, <1>8, <1>9, <1>10

\* brelse()'s relinking: place j of the new list holds what was at place from[j].
LEMMA MovedToHead ==
  ASSUME CacheTypeOK, LruOnto, NEW b \in Bufs
  PROVE  \E from \in [Bufs -> Bufs] :
           /\ ToHead(b) = [j \in Bufs |-> lru[from[j]]]
           /\ lru[from[1]] = b
           /\ \A i, j \in Bufs : from[i] = from[j] => i = j
           /\ \A h \in Bufs : \E j \in Bufs : from[j] = h
           /\ \A i, j \in Bufs : 1 < i /\ 1 < j /\ from[i] < from[j] => i < j
<1> DEFINE i == CHOOSE i \in Bufs : lru[i] = b
           from == [j \in Bufs |-> IF j = 1 THEN i ELSE IF j <= i THEN j - 1 ELSE j]
<1>1. i \in Bufs /\ lru[i] = b
  BY Zenon DEF LruOnto
<1>2. NBUF \in Nat /\ 1 \in Bufs
  BY CacheAssumption DEF Bufs
<1>3. ToHead(b) = [j \in Bufs |-> IF j = 1 THEN b ELSE IF j <= i THEN lru[j - 1] ELSE lru[j]]
  BY Zenon DEF ToHead
<1> HIDE DEF i
<1>4. from \in [Bufs -> Bufs]
  BY <1>1, <1>2 DEF Bufs
<1>5. from[1] = i /\ \A j \in Bufs : j # 1 => from[j] = IF j <= i THEN j - 1 ELSE j
  BY Zenon, <1>2
<1> HIDE DEF from
<1>6. ToHead(b) = [j \in Bufs |-> lru[from[j]]]
  BY <1>1, <1>3, <1>5
<1>7. \A j, h \in Bufs : from[j] = from[h] => j = h
  BY <1>1, <1>2, <1>5 DEF Bufs
<1>8. ASSUME NEW h \in Bufs PROVE \E j \in Bufs : from[j] = h
  <2>1. CASE h = i
    BY Zenon, <1>2, <1>5, <2>1
  <2>2. CASE h < i
    <3>1. h + 1 \in Bufs /\ from[h + 1] = h
      BY <1>1, <1>2, <1>5, <2>2 DEF Bufs
    <3> QED BY Zenon, <3>1
  <2>3. CASE h > i
    <3>1. from[h] = h
      BY <1>1, <1>2, <1>5, <2>3 DEF Bufs
    <3> QED BY Zenon, <3>1
  <2> QED BY <1>1, <2>1, <2>2, <2>3 DEF Bufs
<1>9. \A j, h \in Bufs : 1 < j /\ 1 < h /\ from[j] < from[h] => j < h
  BY <1>1, <1>2, <1>5 DEF Bufs
<1> QED BY Zenon, <1>1, <1>4, <1>5, <1>6, <1>7, <1>8, <1>9

\* Moving a buffer in use to the head keeps the list whole and the copy in use of
\* every block before the others.
LEMMA ListRelinked ==
  ASSUME CacheTypeOK, LruOnto, FirstCopy, NEW b \in Bufs, InUse(b)
  PROVE  /\ ToHead(b) \in [Bufs -> Bufs]
         /\ \A j, h \in Bufs : ToHead(b)[j] = ToHead(b)[h] => j = h
         /\ \A c \in Bufs : \E j \in Bufs : ToHead(b)[j] = c
         /\ \A i, j \in Bufs :
              /\ i # j
              /\ blockno[ToHead(b)[i]] = blockno[ToHead(b)[j]]
              /\ InUse(ToHead(b)[i])
              => i < j
<1> DEFINE l == ToHead(b)
<1>1. PICK from \in [Bufs -> Bufs] :
         /\ l = [j \in Bufs |-> lru[from[j]]]
         /\ lru[from[1]] = b
         /\ \A i, j \in Bufs : from[i] = from[j] => i = j
         /\ \A h \in Bufs : \E j \in Bufs : from[j] = h
         /\ \A i, j \in Bufs : 1 < i /\ 1 < j /\ from[i] < from[j] => i < j
  BY Zenon, MovedToHead
<1> HIDE DEF l
<1>2. l \in [Bufs -> Bufs] /\ \A j, h \in Bufs : l[j] = l[h] => j = h
  <2>1. lru \in [Bufs -> Bufs] /\ \A j, h \in Bufs : lru[j] = lru[h] => j = h
    BY Zenon DEF CacheTypeOK
  <2>2. \A j \in Bufs : from[j] \in Bufs /\ l[j] = lru[from[j]]
    BY Zenon, <1>1
  <2> QED BY Zenon, <1>1, <2>1, <2>2
<1>3. \A c \in Bufs : \E j \in Bufs : l[j] = c
  <2> TAKE c \in Bufs
  <2>1. PICK h \in Bufs : lru[h] = c
    BY Zenon DEF LruOnto
  <2>2. PICK j \in Bufs : from[j] = h
    BY Zenon, <1>1
  <2> WITNESS j \in Bufs
  <2> QED BY Zenon, <1>1, <2>1, <2>2
<1>4. ASSUME NEW i \in Bufs, NEW j \in Bufs, i # j, blockno[l[i]] = blockno[l[j]], InUse(l[i])
      PROVE  i < j
  <2>0. 1 \in Bufs /\ i \in Nat /\ j \in Nat /\ i >= 1 /\ j >= 1
    BY CacheAssumption DEF Bufs
  <2>1. l[1] = b /\ l[i] \in Bufs /\ l[j] \in Bufs
    BY <1>1, <1>2, <2>0
  <2>2. CASE i # 1
    <3>1. j # 1
      BY Zenon, <1>2, <1>4, <2>0, <2>1, <2>2, Single
    <3>2. l[i] = lru[from[i]] /\ l[j] = lru[from[j]] /\ from[i] # from[j] /\ from[i] \in Bufs /\ from[j] \in Bufs
      BY Zenon, <1>1, <1>4
    <3>3. from[i] < from[j]
      BY Zenon, <1>4, <3>2 DEF FirstCopy
    <3> QED BY <1>1, <2>0, <2>2, <3>1, <3>3
  <2> QED BY <1>4, <2>0, <2>2
<1> QED BY Zenon, <1>2, <1>3, <1>4 DEF l

LEMMA DropRefStepInv ==
  ASSUME CacheInv, NEW u \in Users, DropRef(u)
  PROVE  CacheInv'
<1> USE DEF CacheInv, UserAt, UserGoto, fields
<1> DEFINE b == buf[u]
<1>0. b \in Bufs /\ None \notin Users /\ u # None
  BY Zenon, CacheAssumption DEF DropRef, BufInv, CacheTypeOK
<1>a. /\ upc[u] = "release" /\ ~panicked
      /\ refcnt' = [refcnt EXCEPT ![b] = @ - 1]
      /\ lru' = IF refcnt[b] = 1 THEN ToHead(b) ELSE lru
      /\ buf' = [buf EXCEPT ![u] = None]
      /\ upc' = [upc EXCEPT ![u] = "idle"]
      /\ UNCHANGED <<blockno, valid, data, holder, disk, logged, panicked>>
  BY Zenon DEF DropRef
<1> HIDE DEF b
<1>b. valid[b] /\ InUse(b) /\ \A c \in Bufs : holder[c] # u
  BY Zenon, <1>0, <1>a DEF HolderInv, Using, InUse, b
<1>e. refcnt[b] >= 1 /\ refcnt' \in [Bufs -> Nat] /\ \A c \in Bufs : refcnt'[c] <= refcnt[c]
  BY <1>0, <1>a, Referenced DEF CacheTypeOK, b
<1>g. /\ lru' \in [Bufs -> Bufs] /\ \A j, h \in Bufs : lru'[j] = lru'[h] => j = h
      /\ \A c \in Bufs : \E j \in Bufs : lru'[j] = c
      /\ \A i, j \in Bufs : i # j /\ blockno[lru'[i]] = blockno[lru'[j]] /\ InUse(lru'[i]) => i < j
  <2>1. CASE refcnt[b] # 1
    BY Zenon, <1>a, <2>1 DEF CacheTypeOK, LruOnto, FirstCopy
  <2>2. CASE refcnt[b] = 1
    <3>1. lru' = ToHead(b)
      BY Zenon, <1>a, <2>2
    <3>2. /\ ToHead(b) \in [Bufs -> Bufs]
          /\ \A j, h \in Bufs : ToHead(b)[j] = ToHead(b)[h] => j = h
          /\ \A c \in Bufs : \E j \in Bufs : ToHead(b)[j] = c
          /\ \A i, j \in Bufs :
               /\ i # j
               /\ blockno[ToHead(b)[i]] = blockno[ToHead(b)[j]]
               /\ InUse(ToHead(b)[i])
               => i < j
      BY Zenon, <1>0, <1>b, ListRelinked
    <3> QED BY Zenon, <3>1, <3>2 DEF InUse
  <2> QED BY Zenon, <2>1, <2>2
<1>1. CacheTypeOK'
  BY Zenon, <1>a, <1>e, <1>g DEF CacheTypeOK, Using
<1>2. LruOnto'
  BY Zenon, <1>g DEF LruOnto
<1>3. BufInv'
  BY Zenon, <1>a DEF BufInv, CacheTypeOK
<1>4. RefsAccounted'
  <2>1. Cardinality({w \in Users : buf'[w] = b}) = Cardinality({w \in Users : buf[w] = b}) - 1
    <3>1. b \in Bufs /\ buf[u] = b /\ buf \in [Users -> Bufs \cup {None}]
      BY Zenon, <1>0 DEF CacheTypeOK, b
    <3>2. buf' = [buf EXCEPT ![u] = None]
      BY Zenon, <1>a
    <3> QED BY <3>1, <3>2, PointersDrop
  <2> SUFFICES ASSUME NEW c \in Bufs PROVE (refcnt[c] = Cardinality(Pointers(c)) + Pin(c))'
    BY Zenon DEF RefsAccounted, Pointers, Pin
  <2>2. refcnt[c] = Cardinality(Pointers(c)) + Pin(c) /\ Cardinality(Pointers(c)) \in Nat
        /\ refcnt[c] \in Nat /\ Pin(c) \in Nat
    BY Zenon, FiniteUsers DEF RefsAccounted, Pointers, Pin, CacheTypeOK
  <2>3. Pin(c)' = Pin(c)
    BY Zenon, <1>a DEF Pin
  <2>4. CASE c = b
    <3>1. Cardinality(Pointers(c)') = Cardinality(Pointers(c)) - 1
      BY Zenon, <2>1, <2>4 DEF Pointers
    <3> QED BY <1>0, <1>a, <2>2, <2>3, <2>4, <3>1 DEF CacheTypeOK
  <2>5. CASE c # b
    <3>1. Pointers(c)' = Pointers(c)
      BY Zenon, <1>a, <2>5, CacheAssumption DEF Pointers, CacheTypeOK, b
    <3> QED BY Zenon, <1>0, <1>a, <2>2, <2>3, <2>5, <3>1 DEF CacheTypeOK
  <2> QED BY Zenon, <2>4, <2>5
<1>5. FirstCopy'
  <2>1. \A c \in Bufs : InUse(c)' => InUse(c)
    BY <1>a, <1>e DEF InUse, CacheTypeOK
  <2>2. lru' \in [Bufs -> Bufs] /\ blockno' = blockno
    BY Zenon, <1>a, <1>g
  <2>3. \A i \in Bufs : InUse(lru[i])' => InUse(lru'[i])
    BY <1>a, <1>e, <2>2 DEF InUse, CacheTypeOK
  <2> QED BY Zenon, <1>g, <2>2, <2>3 DEF FirstCopy
<1>6. HolderInv'
  BY <1>0, <1>a, <1>b DEF HolderInv, CacheTypeOK, Using, BufInv
<1>7. PinInv'
  BY Zenon, <1>a DEF PinInv
<1>8. CleanInv'
  BY <1>a DEF CleanInv, CacheTypeOK
<1>9. NoLostWakeup'
  BY Zenon, <1>a DEF NoLostWakeup, CacheTypeOK
<1>10. PanicNeedsDemand'
  BY Zenon, <1>a DEF PanicNeedsDemand
<1> QED BY Zenon, <1>1, <1>2, <1>3, <1>4, <1>5, <1>6, <1>7, <1>8, <1>9, <1>10

LEMMA HitStepInv ==
  ASSUME CacheInv, NEW u \in Users, NEW k \in Blocks, Hit(u, k)
  PROVE  CacheInv'
<1> USE DEF CacheInv, UserAt, UserGoto, fields
<1>p. PICK p \in Cached(k) :
         /\ \A h \in Cached(k) : p <= h
         /\ refcnt' = [refcnt EXCEPT ![lru[p]] = @ + 1]
         /\ buf' = [buf EXCEPT ![u] = lru[p]]
  BY Zenon DEF Hit
<1> DEFINE b == lru[p]
<1>a. /\ upc[u] = "idle" /\ buf[u] = None /\ ~panicked
      /\ refcnt' = [refcnt EXCEPT ![b] = @ + 1]
      /\ buf' = [buf EXCEPT ![u] = b]
      /\ upc' = [upc EXCEPT ![u] = "acquire"]
      /\ UNCHANGED <<blockno, valid, data, holder, lru, disk, logged, panicked>>
  BY Zenon, <1>p DEF Hit, BufInv
<1>0. b \in Bufs /\ p \in Bufs /\ u # None /\ b # None
  BY CacheAssumption DEF CacheTypeOK, Cached
<1>b. \A c \in Bufs : holder[c] # u
  BY Zenon, <1>0, <1>a DEF HolderInv, Using
<1>c. \A h \in Bufs : blockno[lru[h]] = blockno[b] => p <= h
  BY Zenon, <1>p DEF Cached
<1> HIDE DEF b
<1>1. CacheTypeOK'
  BY <1>0, <1>a DEF CacheTypeOK, Using
<1>2. LruOnto'
  BY Zenon, <1>a DEF LruOnto
<1>3. BufInv'
  BY Zenon, <1>0, <1>a DEF BufInv, CacheTypeOK
<1>4. RefsAccounted'
  <2> SUFFICES ASSUME NEW c \in Bufs PROVE (refcnt[c] = Cardinality(Pointers(c)) + Pin(c))'
    BY Zenon DEF RefsAccounted, Pointers, Pin
  <2>2. refcnt[c] = Cardinality(Pointers(c)) + Pin(c) /\ Cardinality(Pointers(c)) \in Nat
        /\ refcnt[c] \in Nat /\ Pin(c) \in Nat
    BY Zenon, FiniteUsers DEF RefsAccounted, Pointers, Pin, CacheTypeOK
  <2>4. CASE c = b
    <3>1. Cardinality({w \in Users : buf'[w] = b}) = Cardinality({w \in Users : buf[w] = b}) + 1
      <4>1. buf \in [Users -> Bufs \cup {None}] /\ buf[u] # b /\ buf' = [buf EXCEPT ![u] = b]
        BY Zenon, <1>0, <1>a DEF CacheTypeOK
      <4> QED BY <1>0, <4>1, PointersAdd
    <3>2. Cardinality(Pointers(c)') = Cardinality(Pointers(c)) + 1 /\ Pin(c)' = Pin(c)
      BY Zenon, <1>a, <2>4, <3>1 DEF Pointers, Pin
    <3> QED BY <1>0, <1>a, <2>2, <2>4, <3>2 DEF CacheTypeOK
  <2>5. CASE c # b
    <3>1. Pointers(c)' = Pointers(c) /\ Pin(c)' = Pin(c)
      BY <1>0, <1>a, <2>5, CacheAssumption DEF Pointers, Pin, CacheTypeOK
    <3> QED BY Zenon, <1>0, <1>a, <2>2, <2>5, <3>1 DEF CacheTypeOK
  <2> QED BY Zenon, <2>4, <2>5
<1>5. FirstCopy'
  <2>1. ASSUME NEW i \in Bufs, NEW j \in Bufs, i # j, blockno[lru[i]] = blockno[lru[j]], InUse(lru[i])'
        PROVE  i < j
    <3>1. CASE i = p
      BY <1>0, <1>c, <2>1, <3>1 DEF b, Bufs
    <3>2. CASE i # p
      <4>1. lru[i] # b /\ lru[i] \in Bufs
        BY Zenon, <1>0, <3>2 DEF CacheTypeOK, b
      <4>2. InUse(lru[i])
        BY Zenon, <1>0, <1>a, <2>1, <4>1 DEF InUse, CacheTypeOK
      <4> QED BY Zenon, <2>1, <4>2 DEF FirstCopy
    <3> QED BY Zenon, <3>1, <3>2
  <2> QED BY Zenon, <1>a, <2>1 DEF FirstCopy
<1>6. HolderInv'
  BY <1>0, <1>a, <1>b DEF HolderInv, CacheTypeOK, Using, BufInv
<1>7. PinInv'
  BY Zenon, <1>a DEF PinInv
<1>8. CleanInv'
  BY <1>0, <1>a DEF CleanInv, CacheTypeOK
<1>9. NoLostWakeup'
  BY Zenon, <1>a DEF NoLostWakeup, CacheTypeOK
<1>10. PanicNeedsDemand'
  BY Zenon, <1>a DEF PanicNeedsDemand
<1> QED BY Zenon, <1>1, <1>2, <1>3, <1>4, <1>5, <1>6, <1>7, <1>8, <1>9, <1>10

LEMMA MissStepInv ==
  ASSUME CacheInv, NEW u \in Users, NEW k \in Blocks, Miss(u, k)
  PROVE  CacheInv'
<1> USE DEF CacheInv, UserAt, UserGoto, fields
<1>p. PICK p \in FreeBufs : Take(u, k, p) /\ valid' = [valid EXCEPT ![lru[p]] = FALSE]
  BY Zenon DEF Miss
<1> DEFINE b == lru[p]
<1>a. /\ upc[u] = "idle" /\ buf[u] = None /\ ~panicked
      /\ blockno' = [blockno EXCEPT ![b] = k]
      /\ refcnt' = [refcnt EXCEPT ![b] = 1]
      /\ buf' = [buf EXCEPT ![u] = b]
      /\ upc' = [upc EXCEPT ![u] = "acquire"]
      /\ valid' = [valid EXCEPT ![b] = FALSE]
      /\ UNCHANGED <<data, holder, lru, disk, logged, panicked>>
  BY Zenon, <1>p DEF Miss, BufInv, Take
<1>0. b \in Bufs /\ p \in Bufs /\ u # None /\ b # None /\ refcnt[b] = 0
  BY CacheAssumption DEF CacheTypeOK, FreeBufs
<1>b. \A c \in Bufs : holder[c] # u
  BY Zenon, <1>0, <1>a DEF HolderInv, Using
<1>c. \A c \in Bufs : blockno[c] # k
  BY Zenon DEF Miss, Cached, LruOnto
<1> HIDE DEF b
<1>d. (\A w \in Users : buf[w] # b) /\ ~(valid[b] /\ blockno[b] \in logged)
  BY <1>0, Referenced DEF Pointers, Pin
<1>e. holder[b] = None
  BY <1>0, <1>d DEF HolderInv, CacheTypeOK
<1>1. CacheTypeOK'
  BY Zenon, <1>0, <1>a DEF CacheTypeOK, Using
<1>2. LruOnto'
  BY Zenon, <1>a DEF LruOnto
<1>3. BufInv'
  BY Zenon, <1>0, <1>a DEF BufInv, CacheTypeOK
<1>4. RefsAccounted'
  <2> SUFFICES ASSUME NEW c \in Bufs PROVE (refcnt[c] = Cardinality(Pointers(c)) + Pin(c))'
    BY Zenon DEF RefsAccounted, Pointers, Pin
  <2>2. refcnt[c] = Cardinality(Pointers(c)) + Pin(c) /\ Cardinality(Pointers(c)) \in Nat
        /\ refcnt[c] \in Nat /\ Pin(c) \in Nat
    BY Zenon, FiniteUsers DEF RefsAccounted, Pointers, Pin, CacheTypeOK
  <2>4. CASE c = b
    <3>1. Pointers(c)' = {u}
      BY <1>0, <1>a, <1>d, <2>4 DEF Pointers, CacheTypeOK
    <3>2. Cardinality(Pointers(c)') = 1
      BY Zenon, <3>1, FS_Singleton
    <3>3. Pin(c)' = 0
      BY Zenon, <1>0, <1>a, <2>4 DEF Pin, CacheTypeOK
    <3> QED BY <1>0, <1>a, <2>4, <3>2, <3>3 DEF CacheTypeOK
  <2>5. CASE c # b
    <3>1. Pointers(c)' = Pointers(c)
      BY Zenon, <1>0, <1>a, <2>5, CacheAssumption DEF Pointers, CacheTypeOK
    <3>2. Pin(c)' = Pin(c)
      BY Zenon, <1>0, <1>a, <2>5 DEF Pin, CacheTypeOK
    <3> QED BY Zenon, <1>0, <1>a, <2>2, <2>5, <3>1, <3>2 DEF CacheTypeOK
  <2> QED BY Zenon, <2>4, <2>5
<1>5. FirstCopy'
  <2>1. ASSUME NEW i \in Bufs, NEW j \in Bufs, i # j, blockno'[lru[i]] = blockno'[lru[j]], InUse(lru[i])'
        PROVE  i < j
    <3>1. lru[i] \in Bufs /\ lru[j] \in Bufs /\ lru[i] # lru[j]
      BY Zenon, <2>1 DEF CacheTypeOK
    <3>2. lru[i] # b /\ lru[j] # b
      BY Zenon, <1>0, <1>a, <1>c, <2>1, <3>1 DEF CacheTypeOK
    <3>3. InUse(lru[i]) /\ blockno[lru[i]] = blockno[lru[j]]
      BY Zenon, <1>0, <1>a, <2>1, <3>1, <3>2 DEF InUse, CacheTypeOK
    <3> QED BY Zenon, <2>1, <3>3 DEF FirstCopy
  <2> QED BY Zenon, <1>a, <2>1 DEF FirstCopy
<1>6. HolderInv'
  BY <1>0, <1>a, <1>b, <1>d, <1>e DEF HolderInv, CacheTypeOK, Using, BufInv
<1>7. PinInv'
  BY <1>0, <1>a, <1>d DEF PinInv, CacheTypeOK
<1>8. CleanInv'
  BY <1>0, <1>a, <1>d DEF CleanInv, CacheTypeOK, BufInv
<1>9. NoLostWakeup'
  BY Zenon, <1>a DEF NoLostWakeup, CacheTypeOK
<1>10. PanicNeedsDemand'
  BY Zenon, <1>a DEF PanicNeedsDemand
<1> QED BY Zenon, <1>1, <1>2, <1>3, <1>4, <1>5, <1>6, <1>7, <1>8, <1>9, <1>10

\* When every buffer is referenced, the users and the log account for all of them:
\* a user points at one buffer, and the log pins one buffer for a block.
LEMMA DemandFillsCache ==
  ASSUME CacheInv, \A b \in Bufs : refcnt[b] # 0
  PROVE  Cardinality({u \in Users : upc[u] # "idle"}) + Cardinality(logged) >= NBUF
<1> DEFINE Busy == {u \in Users : upc[u] # "idle"}
           B1 == {b \in Bufs : \E u \in Users : buf[u] = b}
           B2 == {b \in Bufs : valid[b] /\ blockno[b] \in logged}
<1> USE DEF CacheInv
<1>1. IsFiniteSet(Busy) /\ IsFiniteSet(logged)
  BY Zenon, FS_Subset, CacheAssumption DEF CacheTypeOK
<1>2. IsFiniteSet(B1) /\ Cardinality(B1) <= Cardinality(Busy)
  <2> DEFINE f == [u \in Busy |-> buf[u]]
  <2>1. \A u \in Users : upc[u] # "idle" <=> buf[u] \in Bufs
    BY Zenon, CacheAssumption DEF BufInv, CacheTypeOK
  <2>2. f \in [Busy -> B1]
    BY Zenon, <2>1
  <2>3. \A b \in B1 : \E u \in Busy : f[u] = b
    BY Zenon, <2>1
  <2>4. f \in Surjection(Busy, B1)
    BY Zenon, <2>2, <2>3 DEF Surjection
  <2> HIDE DEF f, Busy, B1
  <2> QED BY Zenon, <1>1, <2>4, FS_Surjection
<1>3. IsFiniteSet(B2) /\ Cardinality(B2) <= Cardinality(logged)
  <2> DEFINE f == [b \in B2 |-> blockno[b]]
  <2>1. f \in [B2 -> logged]
    BY Zenon
  <2>2. ASSUME NEW b \in B2, NEW c \in B2, f[b] = f[c] PROVE b = c
    BY Zenon, <2>2, Single DEF InUse
  <2>3. f \in Injection(B2, logged)
    BY Zenon, <2>1, <2>2 DEF Injection, IsInjective
  <2> HIDE DEF f, B2
  <2> QED BY Zenon, <1>1, <2>3, FS_Injection
<1>4. Bufs = B1 \cup B2
  <2>1. ASSUME NEW b \in Bufs, Pointers(b) = {}, Pin(b) = 0 PROVE FALSE
    <3>1. Cardinality(Pointers(b)) = 0
      BY Zenon, <2>1, FS_EmptySet
    <3>2. refcnt[b] = Cardinality(Pointers(b)) + Pin(b)
      BY Zenon DEF RefsAccounted, Pointers, Pin
    <3> QED BY <2>1, <3>1, <3>2
  <2>2. \A b \in Bufs : Pointers(b) # {} \/ Pin(b) # 0
    BY Zenon, <2>1
  <2> QED BY Zenon, <2>2 DEF Pointers, Pin
<1>5. Cardinality(Bufs) = NBUF
  BY FS_Interval, CacheAssumption DEF Bufs
<1> HIDE DEF Busy, B1, B2
<1>6. Cardinality(B1 \cup B2) = Cardinality(B1) + Cardinality(B2) - Cardinality(B1 \cap B2)
  BY Zenon, <1>2, <1>3, FS_Union
<1>7. IsFiniteSet(B1 \cap B2)
  BY Zenon, <1>2, FS_Intersection
<1>8. /\ Cardinality(B1) \in Nat /\ Cardinality(B2) \in Nat /\ Cardinality(B1 \cap B2) \in Nat
      /\ Cardinality(Busy) \in Nat /\ Cardinality(logged) \in Nat
  BY Zenon, <1>1, <1>2, <1>3, <1>7, FS_CardinalityType
<1>9. NBUF \in Nat
  BY Zenon, CacheAssumption
<1>10. Cardinality(Busy) + Cardinality(logged) >= NBUF
  BY <1>2, <1>3, <1>4, <1>5, <1>6, <1>8, <1>9
<1> QED BY Zenon, <1>10 DEF Busy

LEMMA NoBuffersStepInv ==
  ASSUME CacheInv, NEW u \in Users, NEW k \in Blocks, NoBuffers(u, k)
  PROVE  CacheInv'
<1> USE DEF CacheInv, NoBuffers, UserAt, fields
<1>1. CacheTypeOK'
  BY Zenon DEF CacheTypeOK
<1>2. LruOnto'
  BY Zenon DEF LruOnto
<1>3. BufInv'
  BY Zenon DEF BufInv
<1>4. RefsAccounted'
  BY Zenon DEF RefsAccounted
<1>5. FirstCopy'
  BY Zenon DEF FirstCopy, InUse
<1>6. HolderInv'
  BY Zenon DEF HolderInv
<1>7. PinInv'
  BY Zenon DEF PinInv
<1>8. CleanInv'
  BY DEF CleanInv
<1>9. NoLostWakeup'
  BY Zenon DEF NoLostWakeup
<1>10. PanicNeedsDemand'
  <2>1. \A b \in Bufs : refcnt[b] # 0
    BY Zenon DEF FreeBufs, LruOnto
  <2> QED BY Zenon, <2>1, DemandFillsCache DEF PanicNeedsDemand
<1> QED BY Zenon, <1>1, <1>2, <1>3, <1>4, <1>5, <1>6, <1>7, <1>8, <1>9, <1>10

LEMMA CacheStep ==
  ASSUME CacheInv, [CacheNext]_cacheVars
  PROVE  CacheInv'
<1>1. CASE UNCHANGED cacheVars
  <2> USE DEF cacheVars, CacheInv
  <2>1. CacheTypeOK'
    BY Zenon, <1>1 DEF CacheTypeOK
  <2>2. LruOnto' /\ BufInv' /\ PinInv' /\ NoLostWakeup' /\ HolderInv'
    BY Zenon, <1>1 DEF LruOnto, BufInv, PinInv, NoLostWakeup, HolderInv
  <2>3. RefsAccounted' /\ FirstCopy'
    BY Zenon, <1>1 DEF RefsAccounted, FirstCopy, InUse
  <2>4. CleanInv' /\ PanicNeedsDemand'
    BY Zenon, <1>1 DEF CleanInv, PanicNeedsDemand
  <2> QED BY Zenon, <2>1, <2>2, <2>3, <2>4
<1>2. CASE CacheNext
  BY Zenon, <1>2, SleepStepInv, AcquireStepInv, ReadDiskStepInv, ChangeStepInv, LogWriteStepInv, BwriteStepInv,
     InstalledStepInv, ReleaseSleepStepInv, DropRefStepInv, HitStepInv, MissStepInv, NoBuffersStepInv DEF CacheNext
<1> QED BY Zenon, <1>1, <1>2

LEMMA CacheInvariance == CacheSpec => []CacheInv
<1>1. CacheInit => CacheInv
  BY Zenon, InitInv
<1>2. CacheInv /\ [CacheNext]_cacheVars => CacheInv'
  BY Zenon, CacheStep
<1> QED BY <1>1, <1>2, PTL DEF CacheSpec

LEMMA SoundNow ==
  ASSUME CacheInv
  PROVE  BuffersSound
<1>1. OneCopy
  BY Zenon, Single DEF CacheInv, OneCopy, InUse
<1>2. HeldWhileUsed
  BY Zenon DEF CacheInv, HolderInv, HeldWhileUsed
<1> QED BY Zenon, <1>1, <1>2 DEF CacheInv, BuffersSound

\* The buffer cache keeps exact references, at most one copy of a block in use, the
\* sleep lock of every buffer handed out, no sleeper on a free lock, and panics for
\* want of buffers only when that many are in demand.
THEOREM CacheIsSound == CacheSpec => []BuffersSound
<1>1. CacheInv => BuffersSound
  BY Zenon, SoundNow
<1> QED BY <1>1, CacheInvariance, PTL

-----------------------------------------------------------------------------
(* Refinement.  The contents of the blocks and what the users have of them. *)

Contents == [k \in Blocks |-> Content(k)]
Views == [u \in Users |-> View(u)]

\* With one copy, it decides what the block contains, and without one the disk.
LEMMA ContentNow ==
  ASSUME CacheInv, NEW k \in Blocks
  PROVE  /\ \A b \in Bufs : blockno[b] = k /\ valid[b] => Content(k) = data[b]
         /\ (\A b \in Bufs : ~(blockno[b] = k /\ valid[b])) => Content(k) = disk[k]
         /\ Content(k) \in Values
<1>1. \A b, c \in Bufs : blockno[b] = blockno[c] /\ valid[b] /\ valid[c] => b = c
  BY Zenon, Single DEF CacheInv, InUse
<1>3. /\ \A b \in Bufs : blockno[b] = k /\ valid[b] => Content(k) = data[b]
      /\ (\A b \in Bufs : ~(blockno[b] = k /\ valid[b])) => Content(k) = disk[k]
  BY Zenon, <1>1 DEF Content
<1>4. disk[k] \in Values /\ \A b \in Bufs : data[b] \in Values
  BY Zenon DEF CacheInv, CacheTypeOK
<1> QED BY Zenon, <1>3, <1>4

\* The same after a step.
LEMMA ContentNext ==
  ASSUME CacheInv', OneCopy', NEW k \in Blocks
  PROVE  /\ \A b \in Bufs : blockno'[b] = k /\ valid'[b] => Content(k)' = data'[b]
         /\ (\A b \in Bufs : ~(blockno'[b] = k /\ valid'[b])) => Content(k)' = disk'[k]
<1>1. \A b, c \in Bufs : blockno'[b] = blockno'[c] /\ valid'[b] /\ valid'[c] => b = c
  BY Zenon DEF OneCopy
<1> QED BY Zenon, <1>1 DEF Content

\* A step that keeps the copy of a block, or what the disk has of it, keeps its content.
LEMMA ContentStays ==
  ASSUME CacheInv, CacheInv', OneCopy', NEW h \in Blocks,
         \A c \in Bufs : (blockno'[c] = h /\ valid'[c]) <=> (blockno[c] = h /\ valid[c]),
         \/ \E c \in Bufs : blockno[c] = h /\ valid[c] /\ data'[c] = data[c]
         \/ disk'[h] = disk[h] /\ \A c \in Bufs : ~(blockno[c] = h /\ valid[c])
  PROVE  Content(h)' = Content(h)
<1>1. ASSUME NEW c \in Bufs, blockno[c] = h, valid[c], data'[c] = data[c]
      PROVE  Content(h)' = Content(h)
  <2>1. Content(h) = data[c]
    BY Zenon, <1>1, ContentNow
  <2>2. Content(h)' = data'[c]
    BY Zenon, <1>1, ContentNext
  <2> QED BY Zenon, <1>1, <2>1, <2>2
<1>2. ASSUME disk'[h] = disk[h], \A c \in Bufs : ~(blockno[c] = h /\ valid[c])
      PROVE  Content(h)' = Content(h)
  <2>1. Content(h) = disk[h]
    BY Zenon, <1>2, ContentNow
  <2>2. Content(h)' = disk'[h]
    BY Zenon, <1>2, ContentNext
  <2> QED BY Zenon, <1>2, <2>1, <2>2
<1> QED BY Zenon, <1>1, <1>2

\* A user with a view is one between bread() and brelse().
LEMMA ViewIs ==
  ASSUME CacheInv, NEW u \in Users
  PROVE  /\ upc[u] \in Using => /\ View(u) = [block |-> blockno[buf[u]], data |-> data[buf[u]]]
                               /\ View(u) # None
                               /\ buf[u] \in Bufs /\ valid[buf[u]]
         /\ upc[u] \notin Using => View(u) = None
<1>1. ASSUME upc[u] \in Using
      PROVE  buf[u] \in Bufs /\ valid[buf[u]] /\ blockno[buf[u]] \in Blocks /\ data[buf[u]] \in Values
  BY <1>1 DEF CacheInv, BufInv, CacheTypeOK, Using, HolderInv
<1>2. ASSUME upc[u] \in Using
      PROVE  [block |-> blockno[buf[u]], data |-> data[buf[u]]] \in [block: Blocks, data: Values]
  BY Zenon, <1>1, <1>2
<1> QED BY Zenon, <1>1, <1>2, CacheAssumption DEF View

LEMMA ViewsKept ==
  ASSUME \A w \in Users :
           /\ upc'[w] \in Using <=> upc[w] \in Using
           /\ upc[w] \in Using => /\ buf'[w] = buf[w]
                                 /\ blockno'[buf[w]] = blockno[buf[w]]
                                 /\ data'[buf[w]] = data[buf[w]]
  PROVE  Views' = Views
<1>1. \A w \in Users : View(w)' = View(w)
  BY Zenon DEF View
<1> QED BY Zenon, <1>1 DEF Views

\* The buffer of a user that has a block, or is about to.
LEMMA UsedBuf ==
  ASSUME CacheInv, NEW u \in Users, upc[u] \in Using \cup {"locked"}
  PROVE  /\ buf[u] \in Bufs /\ blockno[buf[u]] \in Blocks /\ holder[buf[u]] = u
         /\ upc[u] \in Using => valid[buf[u]]
<1>1. upc[u] # "idle"
  BY Zenon DEF Using
<1>2. buf[u] \in Bufs
  BY Zenon, <1>1 DEF CacheInv, CacheTypeOK, BufInv
<1> QED BY Zenon, <1>2 DEF CacheInv, CacheTypeOK, HolderInv

\* Steps that touch neither the fields nor the disk nor what a user has.
LEMMA QuietSteps ==
  ASSUME CacheInv, NEW u \in Users,
         \/ \E k \in Blocks : Hit(u, k) \/ NoBuffers(u, k)
         \/ Acquire(u) \/ AcquireSleep(u) \/ KillUser(u) \/ LogWrite(u) \/ Installed(u) \/ DropRef(u)
  PROVE  Contents' = Contents /\ Views' = Views
<1>1. UNCHANGED <<fields, disk>>
  BY Zenon DEF Hit, NoBuffers, Acquire, AcquireSleep, KillUser, LogWrite, Installed, DropRef
<1>2. \A k \in Blocks : Content(k)' = Content(k)
  BY Zenon, <1>1 DEF Content, fields
<1>a. upc \in [Users -> {"idle", "acquire", "asleep", "locked", "release"} \cup Using] /\ buf \in [Users -> Bufs \cup {None}]
  BY Zenon DEF CacheInv, CacheTypeOK
<1>b. /\ upc' = upc \/ \E l : upc' = [upc EXCEPT ![u] = l] /\ (l \in Using <=> upc[u] \in Using)
      /\ buf' = buf \/ (upc[u] \notin Using /\ \E c : buf' = [buf EXCEPT ![u] = c])
  <2>1. CASE \E k \in Blocks : NoBuffers(u, k)
    BY Zenon, <2>1 DEF NoBuffers
  <2>2. CASE (\E k \in Blocks : Hit(u, k)) \/ DropRef(u)
    <3>1. /\ (upc[u] = "idle" /\ upc' = [upc EXCEPT ![u] = "acquire"]) \/ (upc[u] = "release" /\ upc' = [upc EXCEPT ![u] = "idle"])
          /\ \E c : buf' = [buf EXCEPT ![u] = c]
      BY Zenon, <2>2 DEF Hit, DropRef, UserAt, UserGoto
    <3> QED BY Zenon, <3>1 DEF Using
  <2>3. CASE Acquire(u) \/ AcquireSleep(u) \/ KillUser(u) \/ LogWrite(u) \/ Installed(u)
    BY Zenon, <2>3 DEF Acquire, AcquireSleep, KillUser, LogWrite, Installed, UserAt, UserGoto, Using
  <2> QED BY Zenon, <2>1, <2>2, <2>3
<1>3. ASSUME NEW w \in Users PROVE upc'[w] \in Using <=> upc[w] \in Using
  <2>1. CASE upc' = upc
    BY Zenon, <2>1
  <2>2. CASE \E l : upc' = [upc EXCEPT ![u] = l] /\ (l \in Using <=> upc[u] \in Using)
    <3>1. PICK l : upc' = [upc EXCEPT ![u] = l] /\ (l \in Using <=> upc[u] \in Using)
      BY Zenon, <2>2
    <3>2. CASE w = u
      BY Zenon, <1>a, <3>1, <3>2
    <3>3. CASE w # u
      BY Zenon, <1>a, <3>1, <3>3
    <3> QED BY Zenon, <3>2, <3>3
  <2> QED BY Zenon, <1>b, <2>1, <2>2
<1>4. \A w \in Users : upc[w] \in Using => buf'[w] = buf[w]
  BY Zenon, <1>a, <1>b
<1> QED BY Zenon, <1>1, <1>2, <1>3, <1>4, ViewsKept DEF Contents, fields

\* Recycling: a buffer without references is clean, so the disk has its content.
LEMMA MissQuiet ==
  ASSUME CacheInv, CacheInv', OneCopy', NEW u \in Users, NEW k \in Blocks, Miss(u, k)
  PROVE  Contents' = Contents /\ Views' = Views
<1>1. PICK p \in FreeBufs : Take(u, k, p) /\ valid' = [valid EXCEPT ![lru[p]] = FALSE]
  BY Zenon DEF Miss
<1> DEFINE b == lru[p]
<1>2. /\ upc[u] = "idle" /\ b \in Bufs /\ refcnt[b] = 0
      /\ blockno' = [blockno EXCEPT ![b] = k]
      /\ buf' = [buf EXCEPT ![u] = b]
      /\ upc' = [upc EXCEPT ![u] = "acquire"]
      /\ valid' = [valid EXCEPT ![b] = FALSE]
      /\ data' = data /\ disk' = disk
  BY Zenon, <1>1 DEF Miss, UserAt, UserGoto, Take, CacheInv, CacheTypeOK, FreeBufs
<1> HIDE DEF b
<1>3. (\A w \in Users : buf[w] # b) /\ ~(valid[b] /\ blockno[b] \in logged)
  BY <1>2, Referenced DEF Pointers, Pin, CacheInv
<1>4. valid[b] => data[b] = disk[blockno[b]]
  BY <1>2, <1>3 DEF CacheInv, CleanInv
<1>5. \A c \in Bufs : c # b => blockno'[c] = blockno[c] /\ valid'[c] = valid[c]
  BY Zenon, <1>2 DEF CacheInv, CacheTypeOK
<1>6. valid'[b] = FALSE
  BY Zenon, <1>2 DEF CacheInv, CacheTypeOK
<1>7. ASSUME NEW h \in Blocks PROVE Content(h)' = Content(h)
  <2>1. ASSUME NEW c \in Bufs, c # b, blockno[c] = h, valid[c] PROVE Content(h)' = Content(h)
    <3>1. Content(h) = data[c]
      BY Zenon, <2>1, ContentNow
    <3>2. Content(h)' = data'[c]
      BY Zenon, <1>5, <2>1, ContentNext
    <3> QED BY Zenon, <1>2, <3>1, <3>2
  <2>2. CASE \A c \in Bufs : c # b => ~(blockno[c] = h /\ valid[c])
    <3>1. Content(h)' = disk[h]
      <4>1. \A c \in Bufs : ~(blockno'[c] = h /\ valid'[c])
        BY Zenon, <1>5, <1>6, <2>2
      <4>2. Content(h)' = disk'[h]
        BY Zenon, <4>1, ContentNext
      <4> QED BY Zenon, <1>2, <4>2
    <3>2. Content(h) = disk[h]
      BY Zenon, <1>2, <1>4, <2>2, ContentNow
    <3> QED BY Zenon, <3>1, <3>2
  <2> QED BY Zenon, <2>1, <2>2
<1>8. \A w \in Users :
           /\ upc'[w] \in Using <=> upc[w] \in Using
           /\ upc[w] \in Using => /\ buf'[w] = buf[w]
                                 /\ blockno'[buf[w]] = blockno[buf[w]]
                                 /\ data'[buf[w]] = data[buf[w]]
  BY <1>2, <1>3 DEF CacheInv, CacheTypeOK, Using
<1> QED BY Zenon, <1>7, <1>8, ViewsKept DEF Contents

\* Writing a buffer gives the disk the content that the buffer stands for.
LEMMA BwriteQuiet ==
  ASSUME CacheInv, CacheInv', OneCopy', NEW u \in Users, Bwrite(u)
  PROVE  Contents' = Contents /\ Views' = Views
<1> DEFINE b == buf[u]
<1>1. /\ upc[u] \in {"use", "changed"} /\ b \in Bufs /\ valid[b] /\ blockno[b] \in Blocks
      /\ disk' = [disk EXCEPT ![blockno[b]] = data[b]]
      /\ upc' = [upc EXCEPT ![u] = "written"]
      /\ UNCHANGED <<blockno, valid, data, buf>>
  <2>1. /\ upc[u] \in {"use", "changed"} /\ disk' = [disk EXCEPT ![blockno[b]] = data[b]]
        /\ upc' = [upc EXCEPT ![u] = "written"] /\ UNCHANGED <<blockno, valid, data, buf>>
    BY Zenon DEF Bwrite, UserAt, UserGoto, fields
  <2>2. upc[u] \in Using
    BY Zenon, <2>1 DEF Using
  <2> QED BY Zenon, <2>1, <2>2, UsedBuf
<1> HIDE DEF b
<1>2. ASSUME NEW h \in Blocks PROVE Content(h)' = Content(h)
  <2>1. CASE \E c \in Bufs : blockno[c] = h /\ valid[c]
    BY Zenon, <1>1, <2>1, ContentStays
  <2>2. CASE \A c \in Bufs : ~(blockno[c] = h /\ valid[c])
    <3>1. h # blockno[b]
      BY Zenon, <1>1, <2>2
    <3>2. disk'[h] = disk[h]
      BY Zenon, <1>1, <3>1 DEF CacheInv, CacheTypeOK
    <3> QED BY Zenon, <1>1, <2>2, <3>2, ContentStays
  <2> QED BY Zenon, <2>1, <2>2
<1>3. \A w \in Users :
           /\ upc'[w] \in Using <=> upc[w] \in Using
           /\ upc[w] \in Using => /\ buf'[w] = buf[w]
                                 /\ blockno'[buf[w]] = blockno[buf[w]]
                                 /\ data'[buf[w]] = data[buf[w]]
  BY Zenon, <1>1 DEF CacheInv, CacheTypeOK, Using
<1> QED BY Zenon, <1>2, <1>3, ViewsKept DEF Contents
\* bread() returns what the block contains, to a user that has the block alone.
LEMMA BreadGets ==
  ASSUME CacheInv, CacheInv', OneCopy', NEW u \in Users, ReadValid(u) \/ ReadDisk(u)
  PROVE  \E k \in Blocks : Store!Get(u, k)
<1> DEFINE b == buf[u]
           k == blockno[b]
<1>1. /\ upc[u] = "locked" /\ b \in Bufs /\ k \in Blocks /\ holder[b] = u
      /\ upc' = [upc EXCEPT ![u] = "use"]
      /\ UNCHANGED <<blockno, disk, buf>>
      /\ valid' = [valid EXCEPT ![b] = TRUE]
      /\ data' = IF valid[b] THEN data ELSE [data EXCEPT ![b] = disk[k]]
  <2>1. upc[u] = "locked" /\ upc' = [upc EXCEPT ![u] = "use"] /\ UNCHANGED <<blockno, disk, buf>>
    BY Zenon DEF ReadValid, ReadDisk, UserAt, UserGoto, fields
  <2>2. b \in Bufs /\ k \in Blocks /\ holder[b] = u
    BY Zenon, <2>1, UsedBuf
  <2>3. valid' = [valid EXCEPT ![b] = TRUE] /\ data' = IF valid[b] THEN data ELSE [data EXCEPT ![b] = disk[k]]
    <3>1. CASE ReadDisk(u)
      BY Zenon, <3>1 DEF ReadDisk
    <3>2. CASE ReadValid(u)
      BY Zenon, <2>2, <3>2 DEF ReadValid, fields, CacheInv, CacheTypeOK
    <3> QED BY Zenon, <3>1, <3>2
  <2> QED BY Zenon, <2>1, <2>2, <2>3
<1>2. InUse(b)
  <2>1. refcnt[b] >= 1 /\ refcnt[b] \in Nat
    BY Zenon, <1>1, Referenced DEF CacheInv, CacheTypeOK
  <2>2. refcnt[b] > 0
    BY <2>1
  <2> QED BY Zenon, <2>2 DEF InUse
<1>3. \A c \in Bufs : blockno[c] = k /\ valid[c] => c = b
  BY Zenon, <1>1, <1>2, Single DEF InUse, CacheInv
<1>x. buf'[u] = b /\ blockno'[b] = k
  BY Zenon, <1>1
<1> HIDE DEF b, k
<1>4. Content(k) = data'[b]
  <2>1. CASE valid[b]
    BY Zenon, <1>1, <2>1, ContentNow DEF k
  <2>2. CASE ~valid[b]
    <3>1. Content(k) = disk[k]
      BY Zenon, <1>1, <1>3, <2>2, ContentNow
    <3> QED BY Zenon, <1>1, <2>2, <3>1 DEF CacheInv, CacheTypeOK
  <2> QED BY Zenon, <2>1, <2>2
<1>5. valid'[b]
  BY Zenon, <1>1 DEF CacheInv, CacheTypeOK
<1>6. \A c \in Bufs : c # b => valid'[c] = valid[c] /\ data'[c] = data[c]
  BY Zenon, <1>1 DEF CacheInv, CacheTypeOK
<1>7. ASSUME NEW h \in Blocks PROVE Content(h)' = Content(h)
  <2>1. CASE h = k
    BY Zenon, <1>1, <1>4, <1>5, <1>x, <2>1, ContentNext
  <2>2. CASE h # k
    <3>1. \A c \in Bufs : blockno[c] = h => c # b
      BY Zenon, <2>2 DEF k
    <3>2. /\ \A c \in Bufs : (blockno'[c] = h /\ valid'[c]) <=> (blockno[c] = h /\ valid[c])
          /\ \A c \in Bufs : blockno[c] = h => data'[c] = data[c]
      BY Zenon, <1>1, <1>6, <3>1
    <3>3. disk' = disk
      BY Zenon, <1>1
    <3> QED BY Zenon, <3>2, <3>3, ContentStays
  <2> QED BY Zenon, <2>1, <2>2
<1>8. Contents' = Contents /\ Contents[k] = data'[b]
  BY Zenon, <1>1, <1>4, <1>7 DEF Contents
<1>9. ASSUME NEW w \in Users, w # u, upc[w] \in Using
      PROVE  buf[w] \in Bufs /\ buf[w] # b /\ blockno[buf[w]] # k
  <2>1. buf[w] \in Bufs /\ valid[buf[w]] /\ holder[buf[w]] = w
    BY Zenon, <1>9, ViewIs DEF CacheInv, HolderInv
  <2>2. buf[w] # b
    BY Zenon, <1>1, <1>9, <2>1
  <2> QED BY Zenon, <1>3, <2>1, <2>2
<1>10. View(u) = None /\ \A w \in Users : View(w) # None => View(w).block # k
  <2>1. View(u) = None
    BY Zenon, <1>1, ViewIs DEF Using
  <2>2. ASSUME NEW w \in Users, View(w) # None PROVE View(w).block # k
    <3>1. upc[w] \in Using /\ w # u
      BY Zenon, <2>1, <2>2, ViewIs
    <3>2. View(w).block = blockno[buf[w]]
      BY <3>1, ViewIs
    <3> QED BY Zenon, <1>9, <3>1, <3>2
  <2> QED BY Zenon, <2>1, <2>2
<1>11. View(u)' = [block |-> k, data |-> data'[b]]
  BY Zenon, <1>1, <1>x DEF View, Using, CacheInv, CacheTypeOK
<1>12. \A w \in Users : w # u => View(w)' = View(w)
  <2>1. \A w \in Users : w # u => upc'[w] = upc[w]
    BY Zenon, <1>1 DEF CacheInv, CacheTypeOK
  <2> QED BY Zenon, <1>1, <1>6, <1>9, <2>1 DEF View
<1>13. Views' = [Views EXCEPT ![u] = [block |-> k, data |-> Contents[k]]]
  BY Zenon, <1>8, <1>11, <1>12 DEF Views
<1>14. Views[u] = None /\ \A w \in Users : Views[w] # None => Views[w].block # k
  BY Zenon, <1>10 DEF Views
<1>15. Store!Get(u, k)
  BY Zenon, <1>8, <1>13, <1>14 DEF Store!Get, Views, Contents
<1> QED BY Zenon, <1>1, <1>15

\* A user changes the block it has, and no other.
LEMMA ChangeChanges ==
  ASSUME CacheInv, CacheInv', OneCopy', NEW u \in Users, NEW v \in Values, Change(u, v)
  PROVE  Store!Change(u, v)
<1> DEFINE b == buf[u]
           k == blockno[b]
<1>1. /\ upc[u] = "use" /\ b \in Bufs /\ k \in Blocks /\ holder[b] = u /\ valid[b]
      /\ upc' = [upc EXCEPT ![u] = "changed"]
      /\ UNCHANGED <<blockno, valid, disk, buf>>
      /\ data' = [data EXCEPT ![b] = v]
  <2>1. /\ upc[u] = "use" /\ upc' = [upc EXCEPT ![u] = "changed"] /\ UNCHANGED <<blockno, valid, disk, buf>>
        /\ data' = [data EXCEPT ![b] = v]
    BY Zenon DEF Change, UserAt, UserGoto
  <2>2. upc[u] \in Using
    BY Zenon, <2>1 DEF Using
  <2> QED BY Zenon, <2>1, <2>2, UsedBuf
<1>x. buf'[u] = b /\ blockno'[b] = k /\ data'[b] = v
  BY Zenon, <1>1 DEF CacheInv, CacheTypeOK
<1>2. View(u) = [block |-> k, data |-> data[b]] /\ View(u) # None
  BY Zenon, <1>1, ViewIs DEF Using
<1> HIDE DEF b, k
<1>3. ASSUME NEW h \in Blocks, h = k PROVE Content(h)' = v
  BY Zenon, <1>1, <1>3, <1>x, ContentNext
<1>4. ASSUME NEW h \in Blocks, h # k PROVE Content(h)' = Content(h)
  <2>1. \A c \in Bufs : blockno[c] = h => c # b /\ data'[c] = data[c]
    BY Zenon, <1>1, <1>4 DEF k, CacheInv, CacheTypeOK
  <2>2. CASE \E c \in Bufs : blockno[c] = h /\ valid[c]
    BY Zenon, <1>1, <2>1, <2>2, ContentStays
  <2>3. CASE \A c \in Bufs : ~(blockno[c] = h /\ valid[c])
    BY Zenon, <1>1, <2>3, ContentNow, ContentNext
  <2> QED BY Zenon, <2>2, <2>3
<1>y. \A h \in Blocks : Content(h)' = IF h = k THEN v ELSE Content(h)
  BY Zenon, <1>3, <1>4
<1>5. Contents' = [Contents EXCEPT ![k] = v]
  BY Zenon, <1>1, <1>y DEF Contents
<1>6. View(u)' = [block |-> k, data |-> v]
  BY Zenon, <1>1, <1>x DEF View, Using, CacheInv, CacheTypeOK
<1>7. ASSUME NEW w \in Users, w # u, upc[w] \in Using PROVE buf[w] \in Bufs /\ buf[w] # b
  <2>1. buf[w] \in Bufs
    BY Zenon, <1>7, ViewIs
  <2>2. holder[buf[w]] = w
    BY Zenon, <1>7 DEF CacheInv, HolderInv
  <2> QED BY Zenon, <1>1, <1>7, <2>1, <2>2
<1>8. \A w \in Users : w # u => View(w)' = View(w)
  <2>1. \A w \in Users : w # u => upc'[w] = upc[w]
    BY Zenon, <1>1 DEF CacheInv, CacheTypeOK
  <2>2. \A c \in Bufs : c # b => data'[c] = data[c]
    BY Zenon, <1>1 DEF CacheInv, CacheTypeOK
  <2> QED BY Zenon, <1>1, <1>7, <2>1, <2>2 DEF View
<1>9. [View(u) EXCEPT !.data = v] = View(u)' /\ View(u).block = k
  BY <1>2, <1>6
<1>10. Views' = [Views EXCEPT ![u].data = v] /\ Views[u] # None /\ Views[u].block = k
  BY Zenon, <1>2, <1>8, <1>9 DEF Views
<1> QED BY Zenon, <1>5, <1>10 DEF Store!Change, Views, Contents

\* brelse() gives the block up.
LEMMA BrelsePuts ==
  ASSUME CacheInv, NEW u \in Users, ReleaseSleep(u)
  PROVE  Store!Put(u)
<1>1. /\ upc[u] \in Using
      /\ upc'[u] = "release"
      /\ \A w \in Users : w # u => (upc'[w] \in Using <=> upc[w] \in Using)
      /\ UNCHANGED <<blockno, valid, data, disk, buf>>
  BY Zenon DEF ReleaseSleep, UserAt, Using, fields, CacheInv, CacheTypeOK
<1>2. View(u) # None
  BY Zenon, <1>1, ViewIs
<1>3. View(u)' = None
  BY Zenon, <1>1 DEF View, Using
<1>4. \A w \in Users : w # u => View(w)' = View(w)
  BY Zenon, <1>1 DEF View
<1>5. Views' = [Views EXCEPT ![u] = None] /\ Views[u] # None
  BY Zenon, <1>2, <1>3, <1>4 DEF Views
<1>6. \A k \in Blocks : Content(k)' = Content(k)
  BY Zenon, <1>1 DEF Content
<1>7. Contents' = Contents
  BY Zenon, <1>6 DEF Contents
<1> QED BY Zenon, <1>5, <1>7 DEF Store!Put, Views, Contents

LEMMA StoreStep ==
  ASSUME CacheInv, CacheInv', BuffersSound', [CacheNext]_cacheVars
  PROVE  [Store!Next]_(Store!vars)
<1>1. OneCopy'
  BY Zenon DEF BuffersSound
<1>2. ASSUME Contents' = Contents, Views' = Views PROVE UNCHANGED Store!vars
  BY Zenon, <1>2 DEF Store!vars, Contents, Views
<1>3. CASE UNCHANGED cacheVars
  <2>1. (\A k \in Blocks : Content(k)' = Content(k)) /\ \A u \in Users : View(u)' = View(u)
    BY Zenon, <1>3 DEF cacheVars, Content, View
  <2> QED BY Zenon, <1>2, <2>1 DEF Contents, Views
<1>4. ASSUME NEW u \in Users, ReadValid(u) \/ ReadDisk(u) \/ ReleaseSleep(u) \/ \E v \in Values : Change(u, v)
      PROVE  Store!Next
  BY Zenon, <1>1, <1>4, BreadGets, BrelsePuts, ChangeChanges DEF Store!Next
<1>5. ASSUME NEW u \in Users,
             \/ \E k \in Blocks : Hit(u, k) \/ Miss(u, k) \/ NoBuffers(u, k)
             \/ Acquire(u) \/ AcquireSleep(u) \/ KillUser(u) \/ LogWrite(u) \/ Bwrite(u) \/ Installed(u)
             \/ DropRef(u)
      PROVE  UNCHANGED Store!vars
  BY Zenon, <1>1, <1>2, <1>5, QuietSteps, MissQuiet, BwriteQuiet
<1> QED BY Zenon, <1>3, <1>4, <1>5 DEF CacheNext

\* The cache implements the block store: what bread() hands out is what the last
\* user left, to one user at a time, whatever is evicted, pinned or written between.
THEOREM CacheIsTransparent == CacheSpec => Transparent
<1>1. CacheInit => Store!Init
  <2> SUFFICES ASSUME CacheInit PROVE Store!Init
    BY Zenon
  <2>1. CacheInv
    BY Zenon, InitInv
  <2>2. \A k \in Blocks : Content(k) \in Values
    BY Zenon, <2>1, ContentNow
  <2>3. \A u \in Users : View(u) = None
    BY Zenon DEF View, Using, CacheInit
  <2> QED BY Zenon, <2>2, <2>3 DEF Store!Init
<1>2. CacheInv => BuffersSound
  BY Zenon, SoundNow
<1>3. CacheInv /\ CacheInv' /\ BuffersSound' /\ [CacheNext]_cacheVars => [Store!Next]_(Store!vars)
  BY Zenon, StoreStep
<1> QED BY <1>1, <1>2, <1>3, CacheInvariance, PTL DEF CacheSpec, Transparent, Store!Spec
=============================================================================
