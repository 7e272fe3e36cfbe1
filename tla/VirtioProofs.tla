---------------------------- MODULE VirtioProofs ----------------------------
(***************************************************************************)
(* The disk driver, for any number of processes and descriptors and any    *)
(* width of the ring counters: DoneBeforeReturn, NoLostWakeup, RingsSound. *)
(*                                                                         *)
(* A ring holds the slots from one index up to another.  With distances    *)
(* instead of remainders the slots in use are a plain set, the counters    *)
(* cannot meet because a ring that were full would name more chain heads   *)
(* than there are descriptors outside the middles of chains.               *)
(***************************************************************************)
EXTENDS Virtio, FiniteSetTheorems, WellFoundedInduction, TLAPS

\* How far slot s is ahead of slot r.
Dist(r, s) == IF s >= r THEN s - r ELSE (s - r) + NUM

\* The slots from r up to e, and those that the rings have in use.
Slots(r, e) == {s \in Index : Dist(r, s) < Dist(r, e)}
AvailSlots == Slots(taken % NUM, availIdx % NUM)
UsedSlots == Slots(used_idx, usedId % NUM)
AvailLen == Dist(taken % NUM, availIdx % NUM)

Waiting == {"sleep", "wait"}

\* Chain head h belongs to a process that waits for it.
Owned(h) ==
  /\ info[h] \in Procs /\ head[info[h]] = h
  /\ pc[info[h]] \in Waiting /\ bdisk[info[h]]

\* The device and the driver agree on how much the avail ring holds.
AvailCount ==
  availIdx = IF taken + AvailLen >= U16 THEN (taken + AvailLen) - U16 ELSE taken + AvailLen

\* An element of avail is a chain that the device has not looked at, a busy one
\* has not been served, and an element of used has been; none is there twice.
AvailInv ==
  /\ \A s \in AvailSlots : Owned(avail[s]) /\ ~served[info[avail[s]]] /\ avail[s] \notin busy
  /\ \A s, t \in AvailSlots : s # t => avail[s] # avail[t]
BusyInv == \A h \in busy : Owned(h) /\ ~served[info[h]]
UsedInv ==
  /\ \A s \in UsedSlots : Owned(used[s]) /\ served[info[used[s]]]
  /\ \A s, t \in UsedSlots : s # t => used[s] # used[t]

\* The process between Fill and Publish holds the lock, and its chain is in the
\* next slot of avail.
PublishInv ==
  \A p \in Procs :
    /\ pc[p] = "publish" <=> lock = p
    /\ pc[p] = "publish" => bdisk[p] /\ ~served[p] /\ avail[availIdx % NUM] = head[p]

ProcInv ==
  \A p \in Procs :
    /\ head[p] # NoIndex <=> pc[p] \in Waiting \cup {"publish"}
    /\ served[p] => head[p] # NoIndex

\* The chain of a request: three descriptors that no other request has.
ChainInv ==
  /\ \A p \in InFlight :
       /\ next[head[p]] \in Index /\ next[next[head[p]]] \in Index
       /\ head[p] # next[head[p]] /\ head[p] # next[next[head[p]]]
       /\ next[head[p]] # next[next[head[p]]]
       /\ info[head[p]] = p /\ dbuf[next[head[p]]] = p
       /\ \A k \in Chain(head[p]) : ~free[k]
       /\ \A q \in InFlight \ {p} : Chain(head[p]) \cap Chain(head[q]) = {}
  /\ \A k \in Index : ~free[k] => \E p \in InFlight : k \in Chain(head[p])

\* What the interrupt handler will still find.
ServedInv ==
  \A p \in InFlight :
    /\ ~bdisk[p] => served[p]
    /\ bdisk[p] /\ served[p] => \E s \in UsedSlots : used[s] = head[p]

VirtioInv ==
  TypeOK /\ AvailCount /\ AvailInv /\ BusyInv /\ UsedInv /\ PublishInv /\ ProcInv /\ ChainInv
  /\ ServedInv /\ NoLostWakeup

-----------------------------------------------------------------------------
LEMMA Sizes == NUM \in Nat /\ NUM >= 3 /\ U16 \in Nat /\ U16 >= NUM
<1>1. NUM \in Nat /\ NUM >= 3 /\ U16 \in Nat /\ U16 > 0 /\ U16 % NUM = 0
  BY VirtioAssumption
<1>2. U16 < NUM => U16 % NUM = U16
  BY <1>1
<1> QED BY <1>1, <1>2

\* A non-empty set of descriptors has a least one.
LEMMA MinIs ==
  ASSUME NEW S \in SUBSET Index, S # {}
  PROVE  Min(S) \in S
<1> DEFINE R == StrictSubsetOrdering(Index)
           T == {0..(y - 1) : y \in S}
<1>1. \A y \in S : y \in Nat /\ y < NUM /\ 0..(y - 1) \in SUBSET Index
  BY Sizes DEF Index
<1>2. IsFiniteSet(Index)
  BY Sizes, FS_Interval DEF Index
<1>3. IsWellFoundedOn(R, SUBSET Index)
  BY Zenon, <1>2, FS_StrictSubsetOrderingWellFounded, FS_FiniteSubsetsOfFinite
<1>4. T \subseteq SUBSET Index /\ T # {}
  BY Zenon, <1>1
<1>5. PICK u \in T : \A v \in T : ~(<<v, u>> \in R)
  <2> HIDE DEF R, T
  <2> QED BY Zenon, <1>3, <1>4, WFMin
<1>6. PICK x \in S : u = 0..(x - 1)
  BY Zenon
<1>7. ASSUME NEW y \in S, y < x PROVE FALSE
  <2>1. 0..(y - 1) \in T /\ 0..(y - 1) \subseteq u /\ 0..(y - 1) # u
    <3>1. y \in u /\ y \notin 0..(y - 1)
      BY <1>1, <1>6, <1>7
    <3>2. 0..(y - 1) \subseteq u
      BY <1>1, <1>6, <1>7
    <3> QED BY Zenon, <3>1, <3>2
  <2>2. <<0..(y - 1), u>> \in R
    BY Zenon, <2>1, <1>1, <1>6 DEF StrictSubsetOrdering
  <2> QED BY Zenon, <1>5, <2>1, <2>2
<1>8. \A y \in S : x <= y
  BY <1>1, <1>7
<1> QED BY Zenon, <1>8 DEF Min

LEMMA FiniteSlots ==
  ASSUME NEW S \in SUBSET Index
  PROVE  IsFiniteSet(S) /\ Cardinality(S) \in Nat
<1>1. IsFiniteSet(Index)
  BY Sizes, FS_Interval DEF Index
<1>2. IsFiniteSet(S)
  BY Zenon, <1>1, FS_Subset
<1> QED BY Zenon, <1>2, FS_CardinalityType

\* No injection of the slots into fewer descriptors.
LEMMA Pigeons ==
  ASSUME NEW f \in [Index -> Index], NEW x \in Index, \A s \in Index : f[s] # x,
         \A s, t \in Index : s # t => f[s] # f[t]
  PROVE  FALSE
<1>1. IsFiniteSet(Index) /\ Cardinality(Index) = NUM
  BY Sizes, FS_Interval DEF Index
<1>2. IsFiniteSet(Index \ {x}) /\ Cardinality(Index \ {x}) = NUM - 1
  BY Zenon, <1>1, FS_RemoveElement
<1>3. f \in [Index -> Index \ {x}]
  BY Zenon
<1>4. Cardinality(Index \ {x}) < Cardinality(Index)
  BY <1>1, <1>2, Sizes
<1> QED BY <1>1, <1>2, <1>3, <1>4, FS_PigeonHole

-----------------------------------------------------------------------------
(* Arithmetic of the rings.                                                *)

Succ(r) == IF r = NUM - 1 THEN 0 ELSE r + 1

LEMMA RemainderIs ==
  ASSUME NEW x \in Int, NEW q \in Int, NEW r \in 0..(NUM - 1), x = q * NUM + r
  PROVE  x % NUM = r
  BY Sizes

LEMMA Quotient ==
  ASSUME NEW x \in Int
  PROVE  x % NUM \in 0..(NUM - 1) /\ \E q \in Int : x = (q * NUM) + (x % NUM)
<1> USE Sizes
<1>1. x = ((x \div NUM) * NUM) + (x % NUM)
  OBVIOUS
<1>2. x \div NUM \in Int /\ x % NUM \in 0..(NUM - 1)
  OBVIOUS
<1> QED BY Zenon, <1>1, <1>2

LEMMA ModIndex == ASSUME NEW t \in Nat PROVE t % NUM \in Index
  BY Sizes DEF Index

\* A counter modulo U16 steps through the slots in turn, also when it wraps.
LEMMA ModSucc ==
  ASSUME NEW t \in 0..(U16 - 1)
  PROVE  /\ (t + 1) % U16 = IF t + 1 = U16 THEN 0 ELSE t + 1
         /\ (t + 1) % U16 \in 0..(U16 - 1)
         /\ ((t + 1) % U16) % NUM = Succ(t % NUM)
<1> USE Sizes
<1>1. (t + 1) % U16 = IF t + 1 = U16 THEN 0 ELSE t + 1
  <2>1. CASE t + 1 = U16
    BY <2>1
  <2>2. CASE t + 1 < U16
    BY <2>2
  <2> QED BY <2>1, <2>2
<1> DEFINE r == t % NUM
<1>a. t \in Int /\ t + 1 \in Int
  OBVIOUS
<1>2. PICK q \in Int : t = (q * NUM) + r
  BY <1>a, Quotient, Zenon
<1>3. r \in 0..(NUM - 1)
  BY Quotient
<1> HIDE DEF r
<1>4. (t + 1) % NUM = Succ(r)
  <2>1. CASE r = NUM - 1
    <3>1. t + 1 = (q + 1) * NUM + 0 /\ q + 1 \in Int /\ 0 \in 0..(NUM - 1)
      BY <2>1, <1>2
    <3>2. (t + 1) % NUM = 0
      BY <1>a, <3>1, RemainderIs, Zenon
    <3> QED BY Zenon, <3>2, <2>1 DEF Succ
  <2>2. CASE r # NUM - 1
    <3>1. t + 1 = q * NUM + (r + 1) /\ r + 1 \in 0..(NUM - 1)
      BY <2>2, <1>2, <1>3
    <3>2. (t + 1) % NUM = r + 1
      BY <1>a, <3>1, RemainderIs, Zenon
    <3> QED BY Zenon, <3>2, <2>2 DEF Succ
  <2> QED BY Zenon, <2>1, <2>2
<1>5. CASE t + 1 = U16
  <2>1. (t + 1) % NUM = 0 /\ 0 % NUM = 0
    BY <1>5, VirtioAssumption
  <2> QED BY <1>1, <1>4, <1>5, <2>1 DEF r
<1> QED BY <1>1, <1>4, <1>5 DEF r

LEMMA DistIs ==
  ASSUME NEW x \in Nat, NEW y \in Index
  PROVE  (x - y) % NUM = Dist(y, x % NUM)
<1> USE Sizes
<1> DEFINE r == x % NUM
<1>a. x \in Int /\ y \in Int /\ x - y \in Int
  BY DEF Index
<1>1. PICK q \in Int : x = (q * NUM) + r
  BY <1>a, Quotient, Zenon
<1>2. r \in 0..(NUM - 1) /\ y \in 0..(NUM - 1)
  BY Quotient DEF Index
<1> HIDE DEF r
<1>3. CASE r >= y
  <2>1. x - y = q * NUM + (r - y) /\ r - y \in 0..(NUM - 1)
    BY <1>1, <1>2, <1>3
  <2>2. (x - y) % NUM = r - y
    BY <1>2, <2>1, RemainderIs
  <2> QED BY Zenon, <1>3, <2>2 DEF Dist, r
<1>4. CASE r < y
  <2>1. x - y = (q - 1) * NUM + ((r - y) + NUM) /\ (r - y) + NUM \in 0..(NUM - 1)
    BY <1>1, <1>2, <1>4
  <2>2. (x - y) % NUM = (r - y) + NUM
    BY <1>2, <2>1, RemainderIs
  <2>3. ~(r >= y)
    BY <1>2, <1>4
  <2> QED BY Zenon, <2>2, <2>3 DEF Dist, r
<1> QED BY <1>2, <1>3, <1>4

LEMMA DistRange ==
  ASSUME NEW r \in Index, NEW s \in Index
  PROVE  Dist(r, s) \in 0..(NUM - 1) /\ (Dist(r, s) = 0 <=> r = s)
  BY Sizes DEF Dist, Index

\* One more element.
LEMMA SlotsPush ==
  ASSUME NEW r \in Index, NEW e \in Index, Dist(r, e) # NUM - 1
  PROVE  /\ Succ(e) \in Index
         /\ Dist(r, Succ(e)) = Dist(r, e) + 1
         /\ Slots(r, Succ(e)) = Slots(r, e) \cup {e}
         /\ e \notin Slots(r, e)
<1> USE Sizes
<1>1. Succ(e) \in Index /\ Dist(r, Succ(e)) = Dist(r, e) + 1
  BY DEF Succ, Index, Dist
<1>2. \A s \in Index : Dist(r, s) < Dist(r, e) + 1 <=> Dist(r, s) < Dist(r, e) \/ s = e
  BY DEF Index, Dist
<1>3. e \notin Slots(r, e)
  BY DistRange DEF Slots
<1>4. Slots(r, Succ(e)) = Slots(r, e) \cup {e}
  BY Zenon, <1>1, <1>2 DEF Slots
<1> QED BY Zenon, <1>1, <1>3, <1>4

\* One fewer.
LEMMA SlotsPop ==
  ASSUME NEW r \in Index, NEW e \in Index, r # e
  PROVE  /\ Succ(r) \in Index
         /\ Dist(Succ(r), e) = Dist(r, e) - 1
         /\ Slots(Succ(r), e) = Slots(r, e) \ {r}
         /\ r \in Slots(r, e)
<1> USE Sizes
<1>1. Succ(r) \in Index /\ Dist(Succ(r), e) = Dist(r, e) - 1
  BY DEF Succ, Index, Dist
<1>2. \A s \in Index : Dist(Succ(r), s) < Dist(r, e) - 1 <=> Dist(r, s) < Dist(r, e) /\ s # r
  BY DEF Succ, Index, Dist
<1>3. r \in Slots(r, e)
  BY DEF Slots, Index, Dist
<1>4. Slots(Succ(r), e) = Slots(r, e) \ {r}
  BY Zenon, <1>1, <1>2 DEF Slots
<1> QED BY Zenon, <1>1, <1>3, <1>4

LEMMA SlotsFull ==
  ASSUME NEW r \in Index, NEW e \in Index, Dist(r, e) = NUM - 1
  PROVE  Index = Slots(r, e) \cup {e}
<1>1. \A s \in Index : Dist(r, s) < Dist(r, e) \/ s = e
  BY Sizes DEF Index, Dist
<1> QED BY Zenon, <1>1 DEF Slots

LEMMA SlotsEmpty == ASSUME NEW r \in Index PROVE Slots(r, r) = {}
  BY Sizes, DistRange DEF Slots

\* The elements that the loop of virtio_disk_intr() visits.
LEMMA DoneIs ==
  ASSUME used_idx \in Index, usedId \in Nat
  PROVE  Done = {info[used[s]] : s \in UsedSlots}
<1> USE Sizes
<1> DEFINE n == Dist(used_idx, usedId % NUM)
<1>1. (usedId - used_idx) % NUM = n /\ n \in 0..(NUM - 1)
  BY Zenon, DistIs, DistRange, ModIndex
<1> HIDE DEF n
<1>2. \A k \in 0..(n - 1) : (used_idx + k) % NUM \in Index /\ Dist(used_idx, (used_idx + k) % NUM) = k
  <2> TAKE k \in 0..(n - 1)
  <2>1. CASE used_idx + k < NUM
    <3>1. (used_idx + k) % NUM = used_idx + k
      BY <2>1, <1>1 DEF Index
    <3> QED BY <2>1, <1>1, <3>1 DEF Index, Dist
  <2>2. CASE used_idx + k >= NUM
    <3>1. (used_idx + k) % NUM = (used_idx + k) - NUM
      BY <2>2, <1>1 DEF Index
    <3> QED BY <2>2, <1>1, <3>1 DEF Index, Dist
  <2> QED BY <2>1, <2>2, <1>1 DEF Index
<1>3. \A s, t \in Index : Dist(used_idx, s) = Dist(used_idx, t) => s = t
  BY DEF Dist, Index
<1>4. UsedSlots = {(used_idx + k) % NUM : k \in 0..(n - 1)}
  <2>1. UsedSlots = {s \in Index : Dist(used_idx, s) < n}
    BY Zenon DEF UsedSlots, Slots, n
  <2>2. ASSUME NEW s \in UsedSlots PROVE \E k \in 0..(n - 1) : s = (used_idx + k) % NUM
    <3>1. Dist(used_idx, s) \in 0..(n - 1) /\ s \in Index
      BY <2>1, <1>1, DistRange
    <3> QED BY Zenon, <3>1, <1>2, <1>3
  <2>3. ASSUME NEW k \in 0..(n - 1) PROVE (used_idx + k) % NUM \in UsedSlots
    BY <2>1, <1>1, <1>2
  <2> QED BY Zenon, <2>2, <2>3
<1>5. Done = {info[used[(used_idx + k) % NUM]] : k \in 0..(n - 1)}
  BY Zenon, <1>1 DEF Done
<1> QED BY Zenon, <1>4, <1>5

-----------------------------------------------------------------------------
(* Steps.                                                                  *)

LEMMA InitInv == Init => VirtioInv
<1> SUFFICES ASSUME Init PROVE VirtioInv
  BY Zenon
<1> USE Sizes, VirtioAssumption DEF Init
<1>a. 0 % NUM = 0 /\ 0 \in Index
  BY DEF Index
<1>b. AvailSlots = {} /\ UsedSlots = {} /\ InFlight = {}
  BY Zenon, <1>a, SlotsEmpty DEF AvailSlots, UsedSlots, InFlight
<1>1. TypeOK
  BY <1>a DEF TypeOK
<1>2. AvailCount
  BY <1>a DEF AvailCount, AvailLen, Dist
<1>3. AvailInv /\ BusyInv /\ UsedInv /\ ServedInv
  BY Zenon, <1>b DEF AvailInv, BusyInv, UsedInv, ServedInv
<1>4. PublishInv /\ ProcInv /\ NoLostWakeup
  BY Zenon DEF PublishInv, ProcInv, Waiting, NoLostWakeup
<1>5. ChainInv
  BY Zenon, <1>b DEF ChainInv
<1> QED BY Zenon, <1>1, <1>2, <1>3, <1>4, <1>5 DEF VirtioInv

-----------------------------------------------------------------------------
\* What an action that leaves these variables alone leaves alone.
LEMMA ChainFrame ==
  ASSUME ChainInv, free' = free, next' = next, dbuf' = dbuf, info' = info, head' = head
  PROVE  ChainInv'
<1>1. InFlight' = InFlight
  BY Zenon DEF InFlight
<1>2. \A p \in InFlight : Chain(head[p])' = Chain(head[p])
  BY Zenon DEF Chain
<1> QED BY SMTT(30), <1>1, <1>2 DEF ChainInv

LEMMA ServedFrame ==
  ASSUME ServedInv, bdisk' = bdisk, served' = served, used' = used, head' = head,
         UsedSlots' = UsedSlots
  PROVE  ServedInv'
  BY Zenon DEF ServedInv, InFlight

LEMMA AvailFrame ==
  ASSUME AvailInv, avail' = avail, AvailSlots' = AvailSlots, busy' \subseteq busy,
         \A s \in AvailSlots : Owned(avail[s]) /\ ~served[info[avail[s]]]
                                => Owned(avail[s])' /\ ~served'[info'[avail[s]]]
  PROVE  AvailInv'
  BY Zenon DEF AvailInv

LEMMA CountFrame ==
  ASSUME AvailCount, taken' = taken, availIdx' = availIdx
  PROVE  AvailCount' /\ AvailSlots' = AvailSlots
  BY Zenon DEF AvailCount, AvailLen, AvailSlots

LEMMA WakeFrame ==
  ASSUME NoLostWakeup, pc' = pc, bdisk' = bdisk, free' = free
  PROVE  NoLostWakeup'
  BY Zenon DEF NoLostWakeup, FreeSet

LEMMA CallInv ==
  ASSUME VirtioInv, NEW p \in Procs, Call(p)
  PROVE  VirtioInv'
<1> USE DEF VirtioInv, Call, device, desc
<1>a. AvailSlots' = AvailSlots /\ UsedSlots' = UsedSlots /\ InFlight' = InFlight
  BY Zenon DEF AvailSlots, UsedSlots, InFlight
<1>b. \A h \in Index : Owned(h) => Owned(h)'
  BY Zenon DEF Owned, Waiting, TypeOK, WakeupFree
<1>1. TypeOK'
  BY Zenon DEF TypeOK, WakeupFree
<1>2. AvailCount'
  BY Zenon DEF AvailCount, AvailLen
<1>3. AvailInv' /\ BusyInv' /\ UsedInv'
  BY Zenon, <1>a, <1>b DEF AvailInv, BusyInv, UsedInv, TypeOK, AvailSlots, UsedSlots, Slots
<1>4. PublishInv'
  BY Zenon DEF PublishInv, TypeOK, WakeupFree
<1>5. ProcInv'
  BY Zenon DEF ProcInv, TypeOK, Waiting, WakeupFree
<1>6. ChainInv'
  BY Zenon, ChainFrame
<1>7. ServedInv'
  BY Zenon, <1>a DEF ServedInv
<1>8. NoLostWakeup'
  BY Zenon DEF NoLostWakeup, FreeSet, TypeOK, WakeupFree
<1> QED BY Zenon, <1>1, <1>2, <1>3, <1>4, <1>5, <1>6, <1>7, <1>8

LEMMA NoDescInv ==
  ASSUME VirtioInv, NEW p \in Procs, NoDesc(p)
  PROVE  VirtioInv'
<1> USE DEF VirtioInv, NoDesc, device, desc
<1>a. AvailSlots' = AvailSlots /\ UsedSlots' = UsedSlots /\ InFlight' = InFlight
  BY Zenon DEF AvailSlots, UsedSlots, InFlight
<1>b. \A h \in Index : Owned(h) => Owned(h)'
  BY Zenon DEF Owned, Waiting, TypeOK, WakeupFree
<1>1. TypeOK'
  BY Zenon DEF TypeOK, WakeupFree
<1>2. AvailCount'
  BY Zenon DEF AvailCount, AvailLen
<1>3. AvailInv' /\ BusyInv' /\ UsedInv'
  BY Zenon, <1>a, <1>b DEF AvailInv, BusyInv, UsedInv, TypeOK, AvailSlots, UsedSlots, Slots
<1>4. PublishInv'
  BY Zenon DEF PublishInv, TypeOK, WakeupFree
<1>5. ProcInv'
  BY Zenon DEF ProcInv, TypeOK, Waiting, WakeupFree
<1>6. ChainInv'
  BY Zenon, ChainFrame
<1>7. ServedInv'
  BY Zenon, <1>a DEF ServedInv
<1>8. NoLostWakeup'
  BY Zenon DEF NoLostWakeup, FreeSet, TypeOK, WakeupFree
<1> QED BY Zenon, <1>1, <1>2, <1>3, <1>4, <1>5, <1>6, <1>7, <1>8

LEMMA KillInv ==
  ASSUME VirtioInv, NEW p \in Procs, Kill(p)
  PROVE  VirtioInv'
<1> USE DEF VirtioInv, Kill, device, desc
<1>a. AvailSlots' = AvailSlots /\ UsedSlots' = UsedSlots /\ InFlight' = InFlight
  BY Zenon DEF AvailSlots, UsedSlots, InFlight
<1>b. \A h \in Index : Owned(h) => Owned(h)'
  BY Zenon DEF Owned, Waiting, TypeOK, WakeupFree
<1>1. TypeOK'
  BY Zenon DEF TypeOK, WakeupFree
<1>2. AvailCount'
  BY Zenon DEF AvailCount, AvailLen
<1>3. AvailInv' /\ BusyInv' /\ UsedInv'
  BY Zenon, <1>a, <1>b DEF AvailInv, BusyInv, UsedInv, TypeOK, AvailSlots, UsedSlots, Slots
<1>4. PublishInv'
  BY Zenon DEF PublishInv, TypeOK, WakeupFree
<1>5. ProcInv'
  BY Zenon DEF ProcInv, TypeOK, Waiting, WakeupFree
<1>6. ChainInv'
  BY Zenon, ChainFrame
<1>7. ServedInv'
  BY Zenon, <1>a DEF ServedInv
<1>8. NoLostWakeup'
  BY Zenon DEF NoLostWakeup, FreeSet, TypeOK, WakeupFree
<1> QED BY Zenon, <1>1, <1>2, <1>3, <1>4, <1>5, <1>6, <1>7, <1>8

LEMMA WaitInv ==
  ASSUME VirtioInv, NEW p \in Procs, Wait(p)
  PROVE  VirtioInv'
<1> USE DEF VirtioInv, Wait, device, desc
<1>a. AvailSlots' = AvailSlots /\ UsedSlots' = UsedSlots /\ InFlight' = InFlight
  BY Zenon DEF AvailSlots, UsedSlots, InFlight
<1>b. \A h \in Index : Owned(h) => Owned(h)'
  BY Zenon DEF Owned, Waiting, TypeOK, WakeupFree
<1>1. TypeOK'
  BY Zenon DEF TypeOK, WakeupFree
<1>2. AvailCount'
  BY Zenon DEF AvailCount, AvailLen
<1>3. AvailInv' /\ BusyInv' /\ UsedInv'
  BY Zenon, <1>a, <1>b DEF AvailInv, BusyInv, UsedInv, TypeOK, AvailSlots, UsedSlots, Slots
<1>4. PublishInv'
  BY Zenon DEF PublishInv, TypeOK, WakeupFree
<1>5. ProcInv'
  BY Zenon DEF ProcInv, TypeOK, Waiting, WakeupFree
<1>6. ChainInv'
  BY Zenon, ChainFrame
<1>7. ServedInv'
  BY Zenon, <1>a DEF ServedInv
<1>8. NoLostWakeup'
  BY Zenon DEF NoLostWakeup, FreeSet, TypeOK, WakeupFree
<1> QED BY Zenon, <1>1, <1>2, <1>3, <1>4, <1>5, <1>6, <1>7, <1>8

\* The owner of a chain head, and what it is not.
LEMMA OwnedHead ==
  ASSUME TypeOK, ChainInv, NEW h \in Index, Owned(h)
  PROVE  /\ info[h] \in InFlight /\ head[info[h]] = h
         /\ ~free[h]
         /\ \A p \in InFlight : h # next[head[p]]
<1>1. info[h] \in InFlight /\ head[info[h]] = h
  BY DEF Owned, InFlight, Index, NoIndex
<1>2. ~free[h]
  BY <1>1 DEF ChainInv, Chain
<1>3. ASSUME NEW p \in InFlight, h = next[head[p]] PROVE FALSE
  <2>1. CASE p = info[h]
    BY Zenon, <1>1, <1>3, <2>1 DEF ChainInv
  <2>2. CASE p # info[h]
    <3>1. h \in Chain(head[info[h]]) /\ h \in Chain(head[p])
      BY Zenon, <1>1, <1>3 DEF Chain
    <3> QED BY Zenon, <1>1, <2>2, <3>1 DEF ChainInv
  <2> QED BY Zenon, <2>1, <2>2
<1> QED BY Zenon, <1>1, <1>2, <1>3

\* alloc3_desc() finds three different free descriptors.
LEMMA ThreeFree ==
  ASSUME NEW S \in SUBSET Index, Cardinality(S) >= 3
  PROVE  LET a == Min(S)
             b == Min(S \ {a})
             c == Min(S \ {a, b})
         IN  {a, b, c} \subseteq S /\ a # b /\ a # c /\ b # c
<1> DEFINE a == Min(S)
           b == Min(S \ {a})
           c == Min(S \ {a, b})
<1>1. IsFiniteSet(S) /\ Cardinality(S) \in Nat
  BY Zenon, FiniteSlots
<1>2. a \in S
  BY <1>1, FS_EmptySet, MinIs
<1> HIDE DEF a
<1>3. IsFiniteSet(S \ {a}) /\ Cardinality(S \ {a}) = Cardinality(S) - 1
  BY Zenon, <1>1, <1>2, FS_RemoveElement
<1>4. S \ {a} # {}
  BY <1>1, <1>3, FS_EmptySet
<1>5. b \in S \ {a}
  BY Zenon, <1>4, MinIs
<1> HIDE DEF b
<1>6. IsFiniteSet((S \ {a}) \ {b}) /\ Cardinality((S \ {a}) \ {b}) = Cardinality(S) - 2
  <2>1. /\ IsFiniteSet((S \ {a}) \ {b})
        /\ Cardinality((S \ {a}) \ {b}) = Cardinality(S \ {a}) - 1
    BY Zenon, <1>3, <1>5, FS_RemoveElement
  <2> QED BY <1>1, <1>3, <2>1
<1>7. (S \ {a}) \ {b} # {}
  BY <1>1, <1>6, FS_EmptySet
<1>8. S \ {a, b} = (S \ {a}) \ {b}
  BY Zenon
<1>9. c \in S \ {a, b}
  BY Zenon, <1>7, <1>8, MinIs
<1> QED BY Zenon, <1>2, <1>5, <1>9 DEF a, b

LEMMA FillInv ==
  ASSUME VirtioInv, NEW p \in Procs, Fill(p)
  PROVE  VirtioInv'
<1> USE DEF VirtioInv
<1> DEFINE a == Min(FreeSet)
           b == Min(FreeSet \ {a})
           c == Min(FreeSet \ {a, b})
           e == availIdx % NUM
<1>a. FreeSet \subseteq Index
  BY Zenon DEF FreeSet
<1>b. {a, b, c} \subseteq FreeSet /\ a # b /\ a # c /\ b # c
  <2>1. Cardinality(FreeSet) >= 3
    BY Zenon DEF Fill
  <2> QED BY Zenon, <1>a, <2>1, ThreeFree
<1>c. /\ pc[p] = "alloc" /\ lock = NoProc
      /\ Cardinality(FreeSet) >= 3
      /\ free' = [free EXCEPT ![a] = FALSE, ![b] = FALSE, ![c] = FALSE]
      /\ next' = [next EXCEPT ![a] = b, ![b] = c, ![c] = NoIndex]
      /\ dbuf' = [dbuf EXCEPT ![b] = p]
      /\ info' = [info EXCEPT ![a] = p]
      /\ bdisk' = [bdisk EXCEPT ![p] = TRUE]
      /\ avail' = [avail EXCEPT ![e] = a]
      /\ head' = [head EXCEPT ![p] = a]
      /\ lock' = p
      /\ pc' = [pc EXCEPT ![p] = "publish"]
      /\ UNCHANGED <<availIdx, used_idx, device>>
  BY Zenon DEF Fill
<1> HIDE DEF a, b, c
<1>d. a \in Index /\ b \in Index /\ c \in Index /\ free[a] /\ free[b] /\ free[c]
  BY Zenon, <1>b DEF FreeSet
<1>e. e \in Index /\ e \notin AvailSlots
  <2>1. e \in Index /\ taken % NUM \in Index
    BY ModIndex DEF TypeOK
  <2> QED BY <2>1, DistRange DEF AvailSlots, Slots
<1> HIDE DEF e
<1>f. AvailSlots' = AvailSlots /\ UsedSlots' = UsedSlots
  BY Zenon, <1>c DEF AvailSlots, UsedSlots, device
<1>g. head[p] = NoIndex /\ p \notin InFlight /\ InFlight' = InFlight \cup {p} /\ NoIndex \notin Index
  <2>1. NoIndex \notin Index
    BY DEF Index, NoIndex
  <2>2. head[p] = NoIndex
    BY Zenon, <1>c DEF ProcInv, Waiting
  <2> QED BY <1>c, <1>d, <2>1, <2>2 DEF InFlight, TypeOK
<1>h. \A q \in InFlight : q # p /\ head'[q] = head[q] /\ Chain(head[q])' = Chain(head[q])
                          /\ Chain(head[q]) \cap {a, b, c} = {}
  <2> TAKE q \in InFlight
  <2>1. q # p /\ head'[q] = head[q] /\ head[q] \in Index
    BY Zenon, <1>c, <1>g DEF InFlight, TypeOK
  <2>2. Chain(head[q]) \cap {a, b, c} = {}
    BY <1>d DEF ChainInv
  <2>3. next'[head[q]] = next[head[q]] /\ next'[next[head[q]]] = next[next[head[q]]]
    <3>1. head[q] \in Index /\ next[head[q]] \in Index /\ next \in [Index -> Index \cup {NoIndex}]
      BY Zenon, <2>1 DEF TypeOK, ChainInv
    <3>2. head[q] \notin {a, b, c} /\ next[head[q]] \notin {a, b, c}
      BY Zenon, <2>2 DEF Chain
    <3>3. next' = [next EXCEPT ![a] = b, ![b] = c, ![c] = NoIndex]
      BY Zenon, <1>c
    <3> HIDE DEF VirtioInv
    <3> QED BY <1>d, <3>1, <3>2, <3>3
  <2> QED BY Zenon, <2>1, <2>2, <2>3 DEF Chain
<1>i. \A h \in Index : Owned(h) => Owned(h)' /\ h # a /\ info'[h] = info[h]
  <2> SUFFICES ASSUME NEW h \in Index, Owned(h) PROVE Owned(h)' /\ h # a /\ info'[h] = info[h]
    BY Zenon
  <2>1. h # a
    BY <1>d, OwnedHead
  <2>2. info[h] # p
    BY Zenon, <1>c DEF Owned, Waiting
  <2> QED BY Zenon, <1>c, <2>1, <2>2 DEF Owned, TypeOK
<1>1. TypeOK'
  BY Zenon, <1>c, <1>d, <1>e DEF TypeOK, device
<1>2. AvailCount'
  BY Zenon, <1>c DEF AvailCount, AvailLen, device
<1>3. AvailInv'
  <2>1. \A s \in AvailSlots : s \in Index /\ avail'[s] = avail[s] /\ avail[s] \in Index
    BY Zenon, <1>c, <1>e DEF AvailSlots, Slots, TypeOK
  <2> QED BY <1>c, <1>f, <1>i, <2>1 DEF AvailInv, device
<1>4. BusyInv'
  BY Zenon, <1>c, <1>i DEF BusyInv, device, TypeOK
<1>5. UsedInv'
  BY Zenon, <1>c, <1>f, <1>i DEF UsedInv, device, TypeOK, UsedSlots, Slots
<1>6. PublishInv'
  BY Zenon, <1>c, <1>e, <1>g, VirtioAssumption DEF PublishInv, ProcInv, device, TypeOK, e
<1>7. ProcInv'
  BY Zenon, <1>c, <1>d, <1>g DEF ProcInv, Waiting, device, TypeOK
<1>8. ChainInv'
  <2>1. Chain(head[p])' = {a, b, c} /\ head'[p] = a /\ next'[a] = b /\ next'[b] = c
    BY Zenon, <1>b, <1>c, <1>d DEF Chain, TypeOK
  <2>2. ASSUME NEW q \in InFlight'
        PROVE  /\ next'[head'[q]] \in Index /\ next'[next'[head'[q]]] \in Index
               /\ head'[q] # next'[head'[q]] /\ head'[q] # next'[next'[head'[q]]]
               /\ next'[head'[q]] # next'[next'[head'[q]]]
               /\ info'[head'[q]] = q /\ dbuf'[next'[head'[q]]] = q
               /\ \A k \in Chain(head[q])' : ~free'[k]
    <3>1. CASE q = p
      BY <1>b, <1>c, <1>d, <2>1, <3>1 DEF TypeOK
    <3>2. CASE q \in InFlight
      <4>1. /\ head[q] \in Index /\ next[head[q]] \in Index /\ next[next[head[q]]] \in Index
            /\ head[q] \notin {a, b, c} /\ next[head[q]] \notin {a, b, c}
            /\ next[next[head[q]]] \notin {a, b, c}
        <5>1. Chain(head[q]) \cap {a, b, c} = {}
          BY Zenon, <1>h, <3>2
        <5>2. head[q] \in Index
          BY Zenon, <3>2 DEF InFlight, TypeOK
        <5>3. next[head[q]] \in Index /\ next[next[head[q]]] \in Index
          BY Zenon, <3>2 DEF ChainInv
        <5> QED BY Zenon, <5>1, <5>2, <5>3 DEF Chain
      <4>2. /\ next'[head[q]] = next[head[q]] /\ next'[next[head[q]]] = next[next[head[q]]]
            /\ info'[head[q]] = info[head[q]] /\ dbuf'[next[head[q]]] = dbuf[next[head[q]]]
        BY Zenon, <1>c, <1>d, <4>1 DEF TypeOK
      <4>3. \A k \in Chain(head[q]) : ~free'[k]
        <5> TAKE k \in Chain(head[q])
        <5>1. k \in Index /\ k \notin {a, b, c}
          BY Zenon, <4>1 DEF Chain
        <5>2. ~free[k]
          BY Zenon, <3>2 DEF ChainInv
        <5> QED BY Zenon, <1>c, <5>1, <5>2 DEF TypeOK
      <4>4. /\ head[q] # next[head[q]] /\ head[q] # next[next[head[q]]]
            /\ next[head[q]] # next[next[head[q]]]
            /\ info[head[q]] = q /\ dbuf[next[head[q]]] = q
        BY Zenon, <3>2 DEF ChainInv
      <4>5. head'[q] = head[q] /\ Chain(head[q])' = Chain(head[q])
        BY Zenon, <1>h, <3>2
      <4> QED BY Zenon, <4>1, <4>2, <4>3, <4>4, <4>5
    <3> QED BY Zenon, <1>g, <3>1, <3>2
  <2>3. ASSUME NEW q \in InFlight', NEW r \in InFlight' \ {q}
        PROVE  Chain(head[q])' \cap Chain(head[r])' = {}
    <3>1. CASE q = p
      BY <1>g, <1>h, <2>1, <3>1
    <3>2. CASE r = p
      BY Zenon, <1>g, <1>h, <2>1, <3>2
    <3>3. CASE q # p /\ r # p
      BY <1>g, <1>h, <3>3 DEF ChainInv
    <3> QED BY Zenon, <3>1, <3>2, <3>3
  <2>4. ASSUME NEW k \in Index, ~free'[k]
        PROVE  \E q \in InFlight' : k \in Chain(head[q])'
    <3>1. CASE k \in {a, b, c}
      BY Zenon, <1>g, <2>1, <3>1
    <3>2. CASE k \notin {a, b, c}
      <4>1. ~free[k]
        BY Zenon, <1>c, <1>d, <2>4, <3>2 DEF TypeOK
      <4> QED BY <1>g, <1>h, <4>1 DEF ChainInv
    <3> QED BY Zenon, <3>1, <3>2
  <2> QED BY Zenon, <2>2, <2>3, <2>4 DEF ChainInv
<1>9. ServedInv'
  <2>1. ~served[p]
    BY Zenon, <1>g DEF ProcInv
  <2> QED BY <1>c, <1>f, <1>g, <1>h, <2>1 DEF ServedInv, device, TypeOK
<1>10. NoLostWakeup'
  <2>1. \A q \in Procs : pc[q] # "nodesc"
    <3>1. Cardinality(FreeSet) \in Nat
      BY Zenon, <1>a, FiniteSlots
    <3> QED BY <1>c, <3>1 DEF NoLostWakeup
  <2> QED BY Zenon, <1>c, <2>1 DEF NoLostWakeup, TypeOK
<1> QED BY Zenon, <1>1, <1>2, <1>3, <1>4, <1>5, <1>6, <1>7, <1>8, <1>9, <1>10

LEMMA PublishStepInv ==
  ASSUME VirtioInv, NEW p \in Procs, Publish(p)
  PROVE  VirtioInv'
<1> USE DEF VirtioInv
<1> DEFINE r == taken % NUM
           e == availIdx % NUM
<1>a. /\ pc[p] = "publish" /\ availIdx' = (availIdx + 1) % U16 /\ lock' = NoProc
      /\ pc' = [pc EXCEPT ![p] = "sleep"]
      /\ UNCHANGED <<free, next, dbuf, info, avail, used_idx, used, usedId, taken, busy, served, bdisk, head>>
  BY Zenon DEF Publish, device, desc
<1>b. /\ bdisk[p] /\ ~served[p] /\ avail[e] = head[p] /\ p \in InFlight /\ head[p] \in Index
      /\ info[head[p]] = p /\ lock = p
  BY Zenon, <1>a DEF PublishInv, ProcInv, InFlight, TypeOK, ChainInv
<1>c. r \in Index /\ e \in Index /\ availIdx' \in 0..(U16 - 1) /\ availIdx' % NUM = Succ(e)
  BY <1>a, ModIndex, ModSucc DEF TypeOK
<1>d. AvailSlots = Slots(r, e) /\ AvailLen = Dist(r, e) /\ taken' = taken
  BY Zenon, <1>a DEF AvailSlots, AvailLen
<1>d2. AvailSlots' = Slots(r, Succ(e)) /\ AvailLen' = Dist(r, Succ(e))
  BY Zenon, <1>c, <1>d DEF AvailSlots, AvailLen
<1> HIDE DEF r, e
<1>e. \A s \in AvailSlots : s \in Index /\ avail[s] \in Index /\ Owned(avail[s]) /\ avail[s] # head[p]
  <2> TAKE s \in AvailSlots
  <2>1. s \in Index /\ avail[s] \in Index /\ Owned(avail[s])
    BY Zenon DEF AvailInv, AvailSlots, Slots, TypeOK
  <2>2. avail[s] # head[p]
    BY Zenon, <1>a, <1>b, <2>1 DEF Owned, Waiting
  <2> QED BY Zenon, <2>1, <2>2
<1>f. Dist(r, e) # NUM - 1
  <2> SUFFICES ASSUME Dist(r, e) = NUM - 1 PROVE FALSE
    BY Zenon
  <2> DEFINE x == next[head[p]]
  <2>1. Index = AvailSlots \cup {e}
    BY Zenon, <1>c, <1>d, SlotsFull
  <2>2. x \in Index /\ x # head[p]
    BY Zenon, <1>b DEF ChainInv
  <2>3. \A s \in Index : avail[s] # x
    BY Zenon, <1>b, <1>e, <2>1, <2>2, OwnedHead
  <2>4. \A s, t \in Index : s # t => avail[s] # avail[t]
    BY <1>b, <1>e, <2>1 DEF AvailInv
  <2>5. avail \in [Index -> Index]
    BY Zenon DEF TypeOK
  <2> HIDE DEF x
  <2> QED BY Zenon, <2>2, <2>3, <2>4, <2>5, Pigeons
<1>g. AvailSlots' = AvailSlots \cup {e} /\ AvailLen' = AvailLen + 1 /\ e \notin AvailSlots
  BY Zenon, <1>c, <1>d, <1>d2, <1>f, SlotsPush
<1>h. UsedSlots' = UsedSlots /\ InFlight' = InFlight
  BY Zenon, <1>a DEF UsedSlots, InFlight
<1>i. (\A h \in Index : Owned(h) => Owned(h)') /\ Owned(head[p])'
  BY Zenon, <1>a, <1>b DEF Owned, Waiting, TypeOK
<1>1. TypeOK'
  BY Zenon, <1>a, <1>c DEF TypeOK
<1>2. AvailCount'
  <2>1. availIdx' = IF availIdx + 1 = U16 THEN 0 ELSE availIdx + 1
    BY Zenon, <1>a, ModSucc DEF TypeOK
  <2>2. AvailLen \in 0..(NUM - 1) /\ AvailLen # NUM - 1
    BY Zenon, <1>c, <1>d, <1>f, DistRange
  <2> QED BY <1>d, <1>g, <2>1, <2>2, Sizes DEF AvailCount, TypeOK
<1>3. AvailInv'
  <2>1. head[p] \notin busy
    BY Zenon, <1>a, <1>b DEF BusyInv, Owned, Waiting
  <2> QED BY <1>a, <1>b, <1>e, <1>g, <1>i, <2>1 DEF AvailInv
<1>4. BusyInv' /\ UsedInv'
  BY Zenon, <1>a, <1>h, <1>i DEF BusyInv, UsedInv, TypeOK, UsedSlots, Slots
<1>5. PublishInv'
  BY Zenon, <1>a, <1>b, VirtioAssumption DEF PublishInv, TypeOK
<1>6. ProcInv'
  BY Zenon, <1>a, <1>b DEF ProcInv, Waiting, TypeOK, InFlight
<1>7. ChainInv'
  BY Zenon, <1>a, ChainFrame
<1>8. ServedInv'
  BY Zenon, <1>a, <1>h DEF ServedInv
<1>9. NoLostWakeup'
  BY Zenon, <1>a, <1>b DEF NoLostWakeup, FreeSet, TypeOK
<1> QED BY Zenon, <1>1, <1>2, <1>3, <1>4, <1>5, <1>6, <1>7, <1>8, <1>9

LEMMA FinishInv ==
  ASSUME VirtioInv, NEW p \in Procs, Finish(p)
  PROVE  VirtioInv'
<1> USE DEF VirtioInv
<1> DEFINE C == Chain(head[p])
<1>a. /\ pc[p] = "wait" /\ lock = NoProc /\ ~bdisk[p]
      /\ info' = [info EXCEPT ![head[p]] = NoProc]
      /\ free' = [k \in Index |-> free[k] \/ k \in C]
      /\ dbuf' = [k \in Index |-> IF k \in C THEN NoProc ELSE dbuf[k]]
      /\ pc' = [WakeupFree EXCEPT ![p] = "idle"]
      /\ head' = [head EXCEPT ![p] = NoIndex]
      /\ served' = [served EXCEPT ![p] = FALSE]
      /\ UNCHANGED <<next, avail, availIdx, used, usedId, used_idx, taken, busy, bdisk, lock>>
  BY Zenon DEF Finish
<1>b. p \in InFlight /\ head[p] \in Index /\ info[head[p]] = p /\ NoIndex \notin Index
  BY <1>a DEF ProcInv, InFlight, TypeOK, ChainInv, Waiting, Index, NoIndex
<1>c. AvailSlots' = AvailSlots /\ UsedSlots' = UsedSlots
  BY Zenon, <1>a DEF AvailSlots, UsedSlots
<1>d. InFlight' = InFlight \ {p}
  BY Zenon, <1>a, <1>b DEF InFlight, TypeOK
<1>e. \A q \in InFlight \ {p} : C \cap Chain(head[q]) = {}
  BY Zenon, <1>b DEF ChainInv
<1> HIDE DEF C
<1>f. \A q \in Procs : /\ pc[q] \in {"idle", "alloc", "nodesc", "sleep", "wait"}
                       /\ pc'[q] = IF q = p THEN "idle" ELSE IF pc[q] = "nodesc" THEN "alloc" ELSE pc[q]
  <2>1. \A q \in Procs : pc[q] # "publish"
    BY Zenon, <1>a, VirtioAssumption DEF PublishInv
  <2> QED BY Zenon, <1>a, <2>1 DEF WakeupFree, TypeOK
<1>g. \A h \in Index : Owned(h) => Owned(h)' /\ info'[h] = info[h] /\ info[h] # p
  <2> SUFFICES ASSUME NEW h \in Index, Owned(h) PROVE Owned(h)' /\ info'[h] = info[h] /\ info[h] # p
    BY Zenon
  <2>1. info[h] # p /\ h # head[p]
    BY Zenon, <1>a, <1>b DEF Owned
  <2> QED BY Zenon, <1>a, <1>f, <2>1 DEF Owned, TypeOK, Waiting
<1>1. TypeOK'
  <2>1. pc' \in [Procs -> {"idle", "alloc", "nodesc", "publish", "sleep", "wait"}]
    BY Zenon, <1>a DEF TypeOK, WakeupFree
  <2> QED BY Zenon, <1>a, <1>b, <2>1 DEF TypeOK
<1>2. AvailCount'
  BY Zenon, <1>a DEF AvailCount, AvailLen
<1>3. AvailInv'
  <2>1. \A s \in AvailSlots : avail[s] \in Index
    BY Zenon DEF AvailSlots, Slots, TypeOK
  <2> QED BY <1>a, <1>c, <1>g, <2>1 DEF AvailInv, TypeOK
<1>4. BusyInv'
  BY <1>a, <1>g DEF BusyInv, TypeOK
<1>5. UsedInv'
  <2>1. \A s \in UsedSlots : used[s] \in Index
    BY Zenon DEF UsedSlots, Slots, TypeOK
  <2> QED BY <1>a, <1>c, <1>g, <2>1 DEF UsedInv, TypeOK, Owned
<1>6. PublishInv'
  BY <1>a, <1>f, VirtioAssumption DEF PublishInv
<1>7. ProcInv'
  <2> SUFFICES ASSUME NEW q \in Procs
               PROVE  /\ head'[q] # NoIndex <=> pc'[q] \in Waiting \cup {"publish"}
                      /\ served'[q] => head'[q] # NoIndex
    BY Zenon DEF ProcInv, Waiting
  <2>1. CASE q = p
    BY <1>a, <1>f, <2>1 DEF TypeOK, Waiting
  <2>2. CASE q # p
    BY <1>a, <1>f, <2>2 DEF ProcInv, TypeOK, Waiting
  <2> QED BY Zenon, <2>1, <2>2
<1>8. ChainInv'
  <2>1. \A q \in InFlight' : q \in InFlight /\ q # p /\ head'[q] = head[q] /\ Chain(head[q])' = Chain(head[q])
    BY Zenon, <1>a, <1>d DEF Chain, InFlight, TypeOK
  <2>2. ASSUME NEW q \in InFlight'
        PROVE  /\ next'[head'[q]] \in Index /\ next'[next'[head'[q]]] \in Index
               /\ head'[q] # next'[head'[q]] /\ head'[q] # next'[next'[head'[q]]]
               /\ next'[head'[q]] # next'[next'[head'[q]]]
               /\ info'[head'[q]] = q /\ dbuf'[next'[head'[q]]] = q
               /\ \A k \in Chain(head[q])' : ~free'[k]
    <3>1. /\ head[q] \in Index /\ next[head[q]] \in Index /\ next[next[head[q]]] \in Index
          /\ Chain(head[q]) = {head[q], next[head[q]], next[next[head[q]]]}
      BY <2>1 DEF InFlight, TypeOK, ChainInv, Chain
    <3>2. C \cap Chain(head[q]) = {} /\ head[p] \in C
      BY Zenon, <1>e, <2>1 DEF C, Chain
    <3>3. info'[head[q]] = info[head[q]] /\ dbuf'[next[head[q]]] = dbuf[next[head[q]]]
      BY Zenon, <1>a, <3>1, <3>2 DEF TypeOK
    <3>4. \A k \in Chain(head[q]) : ~free'[k]
      <4> TAKE k \in Chain(head[q])
      <4>1. k \in Index /\ k \notin C
        BY Zenon, <3>1, <3>2
      <4>2. ~free[k]
        BY Zenon, <2>1 DEF ChainInv
      <4> QED BY Zenon, <1>a, <4>1, <4>2
    <3>5. /\ head[q] # next[head[q]] /\ head[q] # next[next[head[q]]]
          /\ next[head[q]] # next[next[head[q]]]
          /\ info[head[q]] = q /\ dbuf[next[head[q]]] = q
      BY Zenon, <2>1 DEF ChainInv
    <3>6. next' = next /\ head'[q] = head[q] /\ Chain(head[q])' = Chain(head[q])
      BY Zenon, <1>a, <2>1
    <3> QED BY Zenon, <3>1, <3>3, <3>4, <3>5, <3>6
  <2>3. ASSUME NEW q \in InFlight', NEW r \in InFlight' \ {q}
        PROVE  Chain(head[q])' \cap Chain(head[r])' = {}
    <3>1. /\ q \in InFlight /\ Chain(head[q])' = Chain(head[q])
          /\ r \in InFlight \ {q} /\ Chain(head[r])' = Chain(head[r])
      BY Zenon, <2>1
    <3>2. Chain(head[q]) \cap Chain(head[r]) = {}
      BY Zenon, <3>1 DEF ChainInv
    <3> QED BY Zenon, <3>1, <3>2
  <2>4. ASSUME NEW k \in Index, ~free'[k]
        PROVE  \E q \in InFlight' : k \in Chain(head[q])'
    <3>1. ~free[k] /\ k \notin C
      BY Zenon, <1>a, <2>4
    <3>2. PICK q \in InFlight : k \in Chain(head[q])
      BY Zenon, <3>1 DEF ChainInv
    <3> QED BY Zenon, <1>d, <2>1, <3>1, <3>2 DEF C
  <2> QED BY Zenon, <2>2, <2>3, <2>4 DEF ChainInv
<1>9. ServedInv'
  BY Zenon, <1>a, <1>c, <1>d DEF ServedInv, TypeOK, InFlight
<1>10. NoLostWakeup'
  <2> SUFFICES ASSUME NEW q \in Procs
               PROVE  pc'[q] # "nodesc" /\ (pc'[q] = "sleep" => bdisk'[q])
    BY Zenon DEF NoLostWakeup
  <2>1. bdisk' = bdisk /\ (pc[q] = "sleep" => bdisk[q])
    BY Zenon, <1>a DEF NoLostWakeup
  <2> QED BY <1>f, <2>1
<1> QED BY Zenon, <1>1, <1>2, <1>3, <1>4, <1>5, <1>6, <1>7, <1>8, <1>9, <1>10

LEMMA IntrInv ==
  ASSUME VirtioInv, Intr
  PROVE  VirtioInv'
<1> USE DEF VirtioInv
<1>a. /\ lock = NoProc
      /\ bdisk' = [p \in Procs |-> bdisk[p] /\ p \notin Done]
      /\ pc' = [p \in Procs |-> IF pc[p] = "sleep" /\ p \in Done THEN "wait" ELSE pc[p]]
      /\ used_idx' = usedId % NUM
      /\ UNCHANGED <<free, next, dbuf, info, avail, availIdx, used, usedId, taken, busy, served, lock, head>>
  BY Zenon DEF Intr, WakeupBuf, device, desc
<1>b. Done = {info[used[s]] : s \in UsedSlots}
  BY DoneIs DEF TypeOK
<1>c. used_idx' \in Index /\ UsedSlots' = {}
  BY <1>a, ModIndex, SlotsEmpty DEF TypeOK, UsedSlots
<1>d. AvailSlots' = AvailSlots /\ InFlight' = InFlight
  BY Zenon, <1>a DEF AvailSlots, InFlight
<1>e. \A p \in Done : p \in InFlight /\ served[p]
  BY <1>b, OwnedHead DEF UsedInv, UsedSlots, Slots, TypeOK
<1>f. \A h \in Index : Owned(h) /\ ~served[info[h]] => Owned(h)' /\ ~served'[info'[h]]
  BY Zenon, <1>a, <1>e DEF Owned, Waiting, TypeOK
<1>1. TypeOK'
  BY Zenon, <1>a, <1>c DEF TypeOK
<1>2. AvailCount'
  BY Zenon, <1>a DEF AvailCount, AvailLen
<1>3. AvailInv'
  <2>1. \A s \in AvailSlots : avail[s] \in Index
    BY Zenon DEF AvailSlots, Slots, TypeOK
  <2> QED BY Zenon, <1>a, <1>d, <1>f, <2>1 DEF AvailInv
<1>4. BusyInv' /\ UsedInv'
  BY Zenon, <1>a, <1>c, <1>f DEF BusyInv, UsedInv, TypeOK
<1>5. PublishInv'
  <2>1. \A p \in Procs : pc[p] # "publish"
    BY Zenon, <1>a, VirtioAssumption DEF PublishInv
  <2> QED BY Zenon, <1>a, <2>1, VirtioAssumption DEF PublishInv, TypeOK
<1>6. ProcInv'
  BY Zenon, <1>a DEF ProcInv, Waiting, TypeOK
<1>7. ChainInv'
  BY Zenon, <1>a, ChainFrame
<1>8. ServedInv'
  <2> SUFFICES ASSUME NEW p \in InFlight
               PROVE  (~bdisk'[p] => served[p]) /\ ~(bdisk'[p] /\ served[p])
    BY Zenon, <1>a, <1>d DEF ServedInv
  <2>1. p \in Procs
    BY Zenon DEF InFlight
  <2>2. CASE p \in Done
    BY Zenon, <1>a, <1>e, <2>1, <2>2
  <2>3. CASE p \notin Done
    <3>1. bdisk'[p] <=> bdisk[p]
      BY Zenon, <1>a, <2>1, <2>3
    <3>2. ~(bdisk[p] /\ served[p])
      BY <1>b, <2>3 DEF ServedInv, ChainInv
    <3> QED BY Zenon, <3>1, <3>2 DEF ServedInv
  <2> QED BY Zenon, <2>2, <2>3
<1>9. NoLostWakeup'
  BY Zenon, <1>a DEF NoLostWakeup, FreeSet, TypeOK
<1> QED BY Zenon, <1>1, <1>2, <1>3, <1>4, <1>5, <1>6, <1>7, <1>8, <1>9

LEMMA TakeInv ==
  ASSUME VirtioInv, DeviceTake
  PROVE  VirtioInv'
<1> USE DEF VirtioInv
<1> DEFINE r == taken % NUM
           e == availIdx % NUM
<1>a. /\ taken # availIdx
      /\ busy' = busy \cup {avail[r]} /\ taken' = (taken + 1) % U16
      /\ UNCHANGED <<free, next, dbuf, info, avail, availIdx, used, usedId, used_idx,
                     bdisk, served, lock, pc, head>>
  BY Zenon DEF DeviceTake, desc
<1>b. r \in Index /\ e \in Index /\ taken' \in 0..(U16 - 1) /\ taken' % NUM = Succ(r)
  BY <1>a, ModIndex, ModSucc DEF TypeOK
<1>c. AvailSlots = Slots(r, e) /\ AvailLen = Dist(r, e)
  BY Zenon DEF AvailSlots, AvailLen
<1>c2. AvailSlots' = Slots(Succ(r), e) /\ AvailLen' = Dist(Succ(r), e)
  BY Zenon, <1>a, <1>b DEF AvailSlots, AvailLen
<1> HIDE DEF r, e
<1>d. AvailLen \in 0..(NUM - 1) /\ AvailLen # 0
  <2>1. AvailLen \in 0..(NUM - 1)
    BY Zenon, <1>b, <1>c, DistRange
  <2>2. taken \in 0..(U16 - 1) /\ taken # availIdx
    BY Zenon, <1>a DEF TypeOK
  <2> QED BY <2>1, <2>2, Sizes DEF AvailCount
<1>e. AvailSlots' = AvailSlots \ {r} /\ AvailLen' = AvailLen - 1 /\ r \in AvailSlots
  BY Zenon, <1>b, <1>c, <1>c2, <1>d, SlotsPop, DistRange
<1>f. UsedSlots' = UsedSlots /\ InFlight' = InFlight
  BY Zenon, <1>a DEF UsedSlots, InFlight
<1>g. \A h \in Index : Owned(h)' <=> Owned(h)
  BY Zenon, <1>a DEF Owned, Waiting
<1>h. \A s \in AvailSlots : s \in Index /\ avail[s] \in Index
  BY Zenon DEF AvailSlots, Slots, TypeOK
<1>1. TypeOK'
  BY Zenon, <1>a, <1>b DEF TypeOK
<1>2. AvailCount'
  <2>1. taken' = IF taken + 1 = U16 THEN 0 ELSE taken + 1
    BY Zenon, <1>a, ModSucc DEF TypeOK
  <2>2. /\ taken \in 0..(U16 - 1) /\ availIdx' = availIdx
        /\ availIdx = IF taken + AvailLen >= U16 THEN (taken + AvailLen) - U16 ELSE taken + AvailLen
    BY Zenon, <1>a DEF AvailCount, TypeOK
  <2>3. AvailLen \in 1..(NUM - 1) /\ AvailLen' = AvailLen - 1
    BY <1>d, <1>e, Sizes
  <2>4. NUM \in Nat /\ U16 \in Nat /\ NUM <= U16
    BY Sizes
  <2> HIDE DEF VirtioInv
  <2>5. availIdx' = IF taken' + AvailLen' >= U16 THEN (taken' + AvailLen') - U16 ELSE taken' + AvailLen'
    BY <2>1, <2>2, <2>3, <2>4
  <2> QED BY Zenon, <2>5 DEF AvailCount
<1>3. AvailInv'
  BY Zenon, <1>a, <1>e, <1>g, <1>h DEF AvailInv
<1>4. BusyInv'
  BY Zenon, <1>a, <1>e, <1>g, <1>h DEF BusyInv, AvailInv, TypeOK
<1>5. UsedInv'
  BY Zenon, <1>a, <1>f, <1>g DEF UsedInv, UsedSlots, Slots, TypeOK
<1>6. PublishInv' /\ ProcInv' /\ NoLostWakeup'
  BY Zenon, <1>a DEF PublishInv, ProcInv, NoLostWakeup, FreeSet
<1>7. ChainInv'
  BY Zenon, <1>a, ChainFrame
<1>8. ServedInv'
  BY Zenon, <1>a, <1>f DEF ServedInv
<1> QED BY Zenon, <1>1, <1>2, <1>3, <1>4, <1>5, <1>6, <1>7, <1>8

LEMMA DeviceFinishInv ==
  ASSUME VirtioInv, NEW h \in Index, DeviceFinish(h)
  PROVE  VirtioInv'
<1> USE DEF VirtioInv
<1> DEFINE e == usedId % NUM
           p == info[h]
<1>a. /\ h \in busy /\ busy' = busy \ {h}
      /\ served' = [served EXCEPT ![dbuf[next[h]]] = TRUE]
      /\ used' = [used EXCEPT ![e] = h] /\ usedId' = (usedId + 1) % U16
      /\ UNCHANGED <<free, next, dbuf, info, avail, availIdx, used_idx, taken, bdisk, lock, pc, head>>
  BY Zenon DEF DeviceFinish, desc
<1>b. e \in Index /\ usedId' \in 0..(U16 - 1) /\ usedId' % NUM = Succ(e) /\ used_idx \in Index
  BY <1>a, ModIndex, ModSucc DEF TypeOK
<1>c. UsedSlots = Slots(used_idx, e)
  BY Zenon DEF UsedSlots
<1>c2. UsedSlots' = Slots(used_idx, Succ(e))
  BY Zenon, <1>a, <1>b DEF UsedSlots
<1> HIDE DEF e
<1>d. Owned(h) /\ ~served[p] /\ p \in InFlight /\ p \in Procs /\ head[p] = h /\ dbuf[next[h]] = p
  <2>1. Owned(h) /\ ~served[p]
    BY Zenon, <1>a DEF BusyInv
  <2>2. p \in InFlight /\ head[p] = h
    BY Zenon, <2>1, OwnedHead
  <2> QED BY Zenon, <2>1, <2>2 DEF ChainInv, InFlight
<1> HIDE DEF p
<1>e. \A s \in UsedSlots : s \in Index /\ used[s] \in Index /\ Owned(used[s]) /\ used[s] # h
  BY Zenon, <1>d DEF UsedInv, UsedSlots, Slots, TypeOK, p
<1>f. Dist(used_idx, e) # NUM - 1
  <2> SUFFICES ASSUME Dist(used_idx, e) = NUM - 1 PROVE FALSE
    BY Zenon
  <2> DEFINE x == next[h]
  <2>1. Index = UsedSlots \cup {e}
    BY Zenon, <1>b, <1>c, SlotsFull
  <2>2. x \in Index /\ x # h
    BY Zenon, <1>d DEF ChainInv
  <2>3. used' \in [Index -> Index] /\ used'[e] = h /\ \A s \in UsedSlots : s # e => used'[s] = used[s]
    BY Zenon, <1>a, <1>b, <1>e DEF TypeOK
  <2>4. e \notin UsedSlots
    BY <1>b, <1>c, DistRange DEF Slots
  <2>5. \A s \in Index : used'[s] # x
    BY <1>d, <1>e, <2>1, <2>2, <2>3, <2>4, OwnedHead
  <2>6. \A s, t \in Index : s # t => used'[s] # used'[t]
    BY <1>e, <2>1, <2>3, <2>4 DEF UsedInv
  <2> HIDE DEF x
  <2> QED BY Zenon, <2>2, <2>3, <2>5, <2>6, Pigeons
<1>g. UsedSlots' = UsedSlots \cup {e} /\ e \notin UsedSlots
  BY Zenon, <1>b, <1>c, <1>c2, <1>f, SlotsPush
<1>h. AvailSlots' = AvailSlots /\ InFlight' = InFlight
  BY Zenon, <1>a DEF AvailSlots, InFlight
<1>i. \A k \in Index : Owned(k)' <=> Owned(k)
  BY Zenon, <1>a DEF Owned, Waiting
<1>j. served' = [served EXCEPT ![p] = TRUE]
  BY Zenon, <1>a, <1>d
<1>k. \A k \in Index : Owned(k) /\ k # h => info[k] # p /\ served'[info[k]] = served[info[k]]
  BY Zenon, <1>d, <1>j DEF Owned, TypeOK
<1>1. TypeOK'
  BY Zenon, <1>a, <1>b, <1>d, <1>j DEF TypeOK
<1>2. AvailCount'
  BY Zenon, <1>a DEF AvailCount, AvailLen
<1>3. AvailInv'
  <2>1. \A s \in AvailSlots : avail[s] \in Index /\ avail[s] # h
    BY Zenon, <1>a DEF AvailSlots, Slots, TypeOK, AvailInv
  <2>2. \A s \in AvailSlots : Owned(avail[s]) /\ ~served[info[avail[s]]]
                                => Owned(avail[s])' /\ ~served'[info'[avail[s]]]
    BY Zenon, <1>a, <1>i, <1>k, <2>1
  <2> QED BY Zenon, <1>a, <1>h, <2>2, AvailFrame
<1>4. BusyInv'
  BY Zenon, <1>a, <1>i, <1>k DEF BusyInv, TypeOK
<1>5. UsedInv'
  <2>1. used'[e] = h /\ \A s \in UsedSlots : used'[s] = used[s]
    BY Zenon, <1>a, <1>b, <1>e, <1>g DEF TypeOK
  <2>2. served'[info[h]]
    BY Zenon, <1>d, <1>j DEF TypeOK, p
  <2>3. \A s \in UsedSlots : served'[info[used[s]]]
    BY Zenon, <1>e, <1>k DEF UsedInv
  <2>4. ASSUME NEW s \in UsedSlots' PROVE Owned(used[s])' /\ served'[info'[used'[s]]]
    <3>1. CASE s = e
      BY Zenon, <1>a, <1>d, <1>i, <2>1, <2>2, <3>1
    <3>2. CASE s \in UsedSlots
      BY Zenon, <1>a, <1>e, <1>i, <2>1, <2>3, <3>2
    <3> QED BY Zenon, <1>g, <3>1, <3>2
  <2>5. ASSUME NEW s \in UsedSlots', NEW t \in UsedSlots', s # t PROVE used'[s] # used'[t]
    <3>1. CASE s = e
      BY Zenon, <1>e, <1>g, <2>1, <2>5, <3>1
    <3>2. CASE t = e
      BY Zenon, <1>e, <1>g, <2>1, <2>5, <3>2
    <3>3. CASE s \in UsedSlots /\ t \in UsedSlots
      BY Zenon, <2>1, <2>5, <3>3 DEF UsedInv
    <3> QED BY Zenon, <1>g, <3>1, <3>2, <3>3
  <2> QED BY Zenon, <2>4, <2>5 DEF UsedInv
<1>6. PublishInv'
  BY Zenon, <1>a, <1>d, <1>j DEF PublishInv, TypeOK, Owned, Waiting, p
<1>7. ProcInv'
  BY Zenon, <1>a, <1>d, <1>j DEF ProcInv, TypeOK, InFlight
<1>8. ChainInv'
  BY Zenon, <1>a, ChainFrame
<1>9. ServedInv'
  <2>1. used'[e] = h /\ \A s \in UsedSlots : used'[s] = used[s]
    BY Zenon, <1>a, <1>b, <1>e, <1>g DEF TypeOK
  <2> SUFFICES ASSUME NEW q \in InFlight
               PROVE  /\ ~bdisk[q] => served'[q]
                      /\ bdisk[q] /\ served'[q] => \E s \in UsedSlots' : used'[s] = head[q]
    BY <1>a, <1>h DEF ServedInv
  <2>2. CASE q = p
    BY Zenon, <1>d, <1>g, <1>j, <2>1, <2>2 DEF TypeOK
  <2>3. CASE q # p
    BY Zenon, <1>g, <1>j, <2>1, <2>3 DEF TypeOK, ServedInv, InFlight
  <2> QED BY Zenon, <2>2, <2>3
<1>10. NoLostWakeup'
  BY Zenon, <1>a DEF NoLostWakeup, FreeSet
<1> QED BY Zenon, <1>1, <1>2, <1>3, <1>4, <1>5, <1>6, <1>7, <1>8, <1>9, <1>10

LEMMA StutterInv == VirtioInv /\ UNCHANGED vars => VirtioInv'
<1> SUFFICES ASSUME VirtioInv, UNCHANGED vars PROVE VirtioInv'
  BY Zenon
<1> USE DEF VirtioInv, vars
<1>a. AvailSlots' = AvailSlots /\ UsedSlots' = UsedSlots /\ InFlight' = InFlight
  BY Zenon DEF AvailSlots, UsedSlots, InFlight
<1>1. TypeOK' /\ AvailCount' /\ BusyInv'
  BY Zenon DEF TypeOK, AvailCount, AvailLen, BusyInv, Owned
<1>2. AvailInv' /\ UsedInv'
  BY Zenon, <1>a DEF AvailInv, UsedInv, Owned
<1>3. PublishInv' /\ ProcInv' /\ NoLostWakeup'
  BY Zenon DEF PublishInv, ProcInv, NoLostWakeup, FreeSet
<1>4. ChainInv' /\ ServedInv'
  BY Zenon, <1>a, ChainFrame, ServedFrame
<1> QED BY Zenon, <1>1, <1>2, <1>3, <1>4

LEMMA VirtioInvariance == Spec => []VirtioInv
<1>1. VirtioInv /\ [Next]_vars => VirtioInv'
  BY Zenon, CallInv, NoDescInv, KillInv, WaitInv, FillInv, PublishStepInv, FinishInv, IntrInv, TakeInv,
     DeviceFinishInv, StutterInv DEF Next
<1> QED BY InitInv, <1>1, PTL DEF Spec

-----------------------------------------------------------------------------
LEMMA ThreeElements ==
  ASSUME NEW a, NEW b, NEW c, a # b, a # c, b # c
  PROVE  Cardinality({a, b, c}) = 3
<1>1. IsFiniteSet({a}) /\ Cardinality({a}) = 1
  BY Zenon, FS_Singleton
<1>2. IsFiniteSet({a} \cup {b}) /\ Cardinality({a} \cup {b}) = 2
  BY <1>1, FS_AddElement
<1>3. Cardinality(({a} \cup {b}) \cup {c}) = 3
  BY <1>2, FS_AddElement
<1>4. {a, b, c} = ({a} \cup {b}) \cup {c}
  BY Zenon
<1> QED BY Zenon, <1>3, <1>4

\* virtio_disk_rw() returns a buffer only after the device has done the I/O on
\* it, with any number of requests in flight, finished in any order.
THEOREM DiskDone == Spec => []DoneBeforeReturn
<1>1. VirtioInv => DoneBeforeReturn
  BY Zenon DEF VirtioInv, ServedInv, DoneBeforeReturn
<1> QED BY VirtioInvariance, <1>1, PTL

\* free_desc() and virtio_disk_intr() wake everyone who can go on: nobody sleeps
\* for descriptors while three are free, nor for a buffer the disk has given back.
THEOREM DiskWakes == Spec => []NoLostWakeup
<1>1. VirtioInv => NoLostWakeup
  BY Zenon DEF VirtioInv
<1> QED BY VirtioInvariance, <1>1, PTL

\* The rings and descriptors of virtio_disk.c: the chains in use are those of the
\* requests in flight, disjoint; every id in the used ring has its info[id].b; and
\* used_idx and used->id, compared modulo NUM, are equal only when the used ring
\* is empty.
THEOREM RingsStaySound == Spec => []RingsSound
<1>1. VirtioInv => RingsSound
  <2> SUFFICES ASSUME VirtioInv PROVE RingsSound
    BY Zenon
  <2> USE DEF VirtioInv
  <2>1. \A p \in InFlight : p \in Procs /\ head[p] \in Index /\ Chain(head[p]) \subseteq Index
    BY DEF InFlight, TypeOK, ChainInv, Chain
  <2>2. Index \ FreeSet = UNION {Chain(head[p]) : p \in InFlight}
    <3>1. ASSUME NEW k \in Index \ FreeSet PROVE \E p \in InFlight : k \in Chain(head[p])
      BY Zenon DEF ChainInv, FreeSet
    <3>2. ASSUME NEW p \in InFlight, NEW k \in Chain(head[p]) PROVE k \in Index \ FreeSet
      BY Zenon, <2>1 DEF ChainInv, FreeSet
    <3> QED BY Zenon, <3>1, <3>2
  <2>3. ASSUME NEW p \in InFlight
        PROVE  /\ Cardinality(Chain(head[p])) = 3
               /\ info[head[p]] = p
               /\ \A q \in InFlight \ {p} : Chain(head[p]) \cap Chain(head[q]) = {}
    <3>1. Cardinality(Chain(head[p])) = 3
      <4>1. /\ head[p] # next[head[p]] /\ head[p] # next[next[head[p]]]
            /\ next[head[p]] # next[next[head[p]]]
        BY Zenon DEF ChainInv
      <4> QED BY <4>1, ThreeElements, Zenon DEF Chain
    <3> QED BY Zenon, <3>1 DEF ChainInv
  <2>4. busy \subseteq {head[p] : p \in InFlight}
    BY OwnedHead DEF BusyInv, TypeOK
  <2>5. Done \subseteq InFlight
    BY DoneIs, OwnedHead DEF UsedInv, UsedSlots, Slots, TypeOK
  <2>6. DescPartition
    BY Zenon, <2>2, <2>3, <2>4, <2>5 DEF DescPartition
  <2>7. UsedNeverLaps
    <3>1. used_idx = usedId % NUM => UsedSlots = {}
      BY Zenon, SlotsEmpty DEF UsedSlots, TypeOK
    <3> QED BY Zenon, <3>1 DEF UsedNeverLaps, ServedInv
  <2> QED BY Zenon, <2>6, <2>7 DEF RingsSound
<1> QED BY VirtioInvariance, <1>1, PTL
=============================================================================
