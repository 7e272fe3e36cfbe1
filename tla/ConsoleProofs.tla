--------------------------- MODULE ConsoleProofs ---------------------------
(***************************************************************************)
(* The console, for any size of its ring and width of its indices, and any *)
(* number of harts, readers and writers: InputDelivered, and the ring      *)
(* implements LineInput.                                                   *)
(***************************************************************************)
EXTENDS Console, SequenceTheorems, TLAPS

\* cons.lock is held by the reader in its loop, or the writer within its write.
LockInv ==
  /\ \A p \in Readers : reader[p].pc = "loop" <=> clock = p
  /\ \A p \in Writers : writer[p] = 1 <=> clock = p

\* One hart at a time is between plic_claim() and plic_complete().
ClaimInv ==
  /\ \A h \in Cpus : cpu[h].pc # "idle" => claimed
  /\ \A g, h \in Cpus : cpu[g].pc # "idle" /\ cpu[h].pc # "idle" => g = h

\* The byte a hart has in hand is the one after seen; those in the UART follow.
InHand == \E h \in Cpus : cpu[h].pc = "consoleintr"
Taken == IF InHand THEN seen + 1 ELSE seen
OrderInv ==
  /\ seen \in Nat
  /\ \A h \in Cpus : cpu[h].pc = "consoleintr" => cpu[h].i = seen + 1
  /\ \A k \in 1..Len(fifo) : fifo[k].i = Taken + k
  /\ typed = Taken + Len(fifo)

\* What is being edited contains no end of a line.
EditInv == \A k \in 1..minus(ce, cw) : cbuf[minus(ce, k) % INPUT_BUF] \notin {NL, EOF}

ConsInv ==
  /\ ConsTypeOK /\ LockInv /\ ClaimInv /\ OrderInv
  /\ IndicesOrdered /\ EditInv /\ ConsNoLostWakeup /\ eofs = 0 /\ ~torn

-----------------------------------------------------------------------------
(* Indices.                                                                *)

LEMMA Sizes ==
  /\ INPUT_BUF \in Nat /\ INPUT_BUF >= 1 /\ UINT \in Nat /\ UINT >= 2 /\ UINT > INPUT_BUF
  BY ConsAssumption

LEMMA MinusIs ==
  ASSUME NEW a \in 0..(UINT - 1), NEW b \in 0..(UINT - 1)
  PROVE  /\ minus(a, b) = IF a >= b THEN a - b ELSE (a - b) + UINT
         /\ minus(a, b) \in 0..(UINT - 1)
<1> USE Sizes
<1>1. CASE a >= b
  <2>1. (a + UINT - b) % UINT = a - b
    BY <1>1
  <2> QED BY <1>1, <2>1 DEF minus
<1>2. CASE a < b
  <2>1. (a + UINT - b) % UINT = (a - b) + UINT
    BY <1>2
  <2> QED BY <1>2, <2>1 DEF minus
<1> QED BY <1>1, <1>2

LEMMA PlusIs ==
  ASSUME NEW a \in 0..(UINT - 1), NEW k \in 0..UINT
  PROVE  /\ plus(a, k) = IF a + k < UINT THEN a + k ELSE (a + k) - UINT
         /\ plus(a, k) \in 0..(UINT - 1)
<1> USE Sizes
<1>1. CASE a + k < UINT
  <2>1. (a + k) % UINT = a + k
    BY <1>1
  <2> QED BY <1>1, <2>1 DEF plus
<1>2. CASE a + k >= UINT
  <2>1. (a + k) % UINT = (a + k) - UINT
    BY <1>2
  <2> QED BY <1>2, <2>1 DEF plus
<1> QED BY <1>1, <1>2

\* One more byte, and one fewer, between two indices.
LEMMA PlusOne ==
  ASSUME NEW a \in 0..(UINT - 1), NEW b \in 0..(UINT - 1)
  PROVE  /\ minus(a, b) < UINT - 1 => minus(plus(a, 1), b) = minus(a, b) + 1
         /\ a # b => minus(a, plus(b, 1)) = minus(a, b) - 1 /\ minus(a, b) >= 1
         /\ minus(plus(a, 1), a) = 1 /\ minus(a, a) = 0
         /\ minus(a, b) = 0 <=> a = b
<1> USE Sizes
<1>1. 1 \in 0..UINT
  OBVIOUS
<1>2. plus(a, 1) = (IF a + 1 < UINT THEN a + 1 ELSE (a + 1) - UINT) /\ plus(a, 1) \in 0..(UINT - 1)
  BY Zenon, <1>1, PlusIs
<1>3. plus(b, 1) = (IF b + 1 < UINT THEN b + 1 ELSE (b + 1) - UINT) /\ plus(b, 1) \in 0..(UINT - 1)
  BY Zenon, <1>1, PlusIs
<1>4. minus(plus(a, 1), b) = IF plus(a, 1) >= b THEN plus(a, 1) - b ELSE (plus(a, 1) - b) + UINT
  BY Zenon, <1>2, MinusIs
<1>5. minus(a, plus(b, 1)) = IF a >= plus(b, 1) THEN a - plus(b, 1) ELSE (a - plus(b, 1)) + UINT
  BY Zenon, <1>3, MinusIs
<1>6. minus(plus(a, 1), a) = IF plus(a, 1) >= a THEN plus(a, 1) - a ELSE (plus(a, 1) - a) + UINT
  BY Zenon, <1>2, MinusIs
<1>7. /\ minus(a, b) = IF a >= b THEN a - b ELSE (a - b) + UINT
      /\ minus(a, a) = IF a >= a THEN a - a ELSE (a - a) + UINT
  BY Zenon, MinusIs
<1> HIDE DEF minus, plus
<1> QED BY <1>2, <1>3, <1>4, <1>5, <1>6, <1>7

\* Going back k bytes from a, but not past b.
LEMMA MinusBack ==
  ASSUME NEW a \in 0..(UINT - 1), NEW b \in 0..(UINT - 1), NEW k \in 0..minus(a, b)
  PROVE  minus(a, k) \in 0..(UINT - 1) /\ minus(minus(a, k), b) = minus(a, b) - k
<1> USE Sizes
<1>1. minus(a, b) = (IF a >= b THEN a - b ELSE (a - b) + UINT) /\ minus(a, b) \in 0..(UINT - 1)
  BY Zenon, MinusIs
<1>2. k \in 0..(UINT - 1)
  BY <1>1
<1>3. minus(a, k) = (IF a >= k THEN a - k ELSE (a - k) + UINT) /\ minus(a, k) \in 0..(UINT - 1)
  BY Zenon, <1>2, MinusIs
<1>4. minus(minus(a, k), b) = IF minus(a, k) >= b THEN minus(a, k) - b ELSE (minus(a, k) - b) + UINT
  BY Zenon, <1>3, MinusIs
<1> HIDE DEF minus
<1> QED BY <1>1, <1>2, <1>3, <1>4

\* r, w and e in order: the bytes between r and e are those between r and w and
\* those between w and e.
LEMMA Ordered ==
  ASSUME NEW r \in 0..(UINT - 1), NEW w \in 0..(UINT - 1), NEW e \in 0..(UINT - 1)
  PROVE  minus(w, r) <= minus(e, r) <=> minus(e, r) = minus(w, r) + minus(e, w)
<1> USE Sizes
<1>1. minus(w, r) = IF w >= r THEN w - r ELSE (w - r) + UINT
  BY Zenon, MinusIs
<1>2. minus(e, r) = IF e >= r THEN e - r ELSE (e - r) + UINT
  BY Zenon, MinusIs
<1>3. minus(e, w) = IF e >= w THEN e - w ELSE (e - w) + UINT
  BY Zenon, MinusIs
<1> HIDE DEF minus
<1> QED BY <1>1, <1>2, <1>3
-----------------------------------------------------------------------------
(* Records of readers and harts.                                           *)

ReaderPcs == {"idle", "acquire", "loop", "asleep"}

LEMMA ReaderGoto ==
  ASSUME NEW x \in ReaderStates, NEW l \in ReaderPcs
  PROVE  /\ [x EXCEPT !.pc = l] \in ReaderStates /\ [x EXCEPT !.pc = l].pc = l
         /\ [x EXCEPT !.pc = l].n = x.n /\ [x EXCEPT !.pc = l].target = x.target
  BY Zenon DEF ReaderStates, ReaderPcs

LEMMA ReaderCalls ==
  ASSUME NEW x \in ReaderStates, NEW l \in {"idle", "acquire"}, NEW m \in Nat
  PROVE  LET y == [x EXCEPT !.pc = l, !.n = m, !.target = m]
         IN  y \in ReaderStates /\ y.pc = l /\ y.n = m /\ y.target = m
  BY Zenon DEF ReaderStates

LEMMA ReaderKilled ==
  ASSUME NEW x \in ReaderStates, NEW l \in ReaderPcs
  PROVE  LET y == [x EXCEPT !.killed = TRUE, !.pc = l]
         IN  y \in ReaderStates /\ y.pc = l /\ y.n = x.n /\ y.target = x.target
  BY Zenon DEF ReaderStates, ReaderPcs

LEMMA ReaderTakes ==
  ASSUME NEW x \in ReaderStates, NEW m \in Nat
  PROVE  LET y == [x EXCEPT !.n = m]
         IN  y \in ReaderStates /\ y.pc = x.pc /\ y.n = m /\ y.target = x.target
  BY Zenon DEF ReaderStates

LEMMA IdleCpu ==
  /\ Idle \in CpuStates /\ Idle.pc = "idle"
  /\ [Idle EXCEPT !.pc = "uartintr"] \in CpuStates
  /\ [Idle EXCEPT !.pc = "uartintr"].pc = "uartintr"
  BY DEF Idle, CpuStates

-----------------------------------------------------------------------------
(* The invariant holds initially, and every step keeps it.                 *)

LEMMA InitConsInv == ConsInit => ConsInv
<1> SUFFICES ASSUME ConsInit PROVE ConsInv
  BY Zenon
<1> USE DEF ConsInit
<1>1. ConsTypeOK
  <2>1. reader \in [Readers -> ReaderStates] /\ \A p \in Readers : reader[p].n <= reader[p].target
    BY DEF ReaderStates
  <2>2. cpu \in [Cpus -> CpuStates]
    BY Zenon, IdleCpu
  <2>3. fifo \in Seq([c: Keys, i: Nat]) /\ typed \in Nat /\ seen \in Int /\ reads \in Nat /\ eofs \in Int
    OBVIOUS
  <2>4. writer \in [Writers -> 0..2] /\ cr \in 0..(UINT - 1) /\ cw \in 0..(UINT - 1) /\ ce \in 0..(UINT - 1)
    BY Sizes
  <2>5. cbuf \in [0..(INPUT_BUF - 1) -> Stored \cup {NL}]
    BY Zenon
  <2> QED BY Zenon, <2>1, <2>2, <2>3, <2>4, <2>5 DEF ConsTypeOK
<1>2. LockInv /\ ConsNoLostWakeup
  BY ConsAssumption DEF LockInv, ConsNoLostWakeup
<1>3. ~InHand /\ ClaimInv
  BY Zenon, IdleCpu DEF InHand, ClaimInv
<1>4. OrderInv
  BY <1>3, IdleCpu DEF OrderInv, Taken
<1>5. IndicesOrdered
  BY <1>1, PlusOne, Sizes DEF IndicesOrdered, ConsTypeOK
<1>6. EditInv
  BY <1>1, PlusOne, Sizes DEF EditInv, ConsTypeOK
<1> QED BY Zenon, <1>1, <1>2, <1>3, <1>4, <1>5, <1>6 DEF ConsInv

\* What a step that leaves the UART, the ring or the lock alone keeps.
uart == <<cpu, claimed, fifo, typed, seen>>
LEMMA UartFrame ==
  ASSUME ClaimInv, OrderInv, UNCHANGED uart
  PROVE  ClaimInv' /\ OrderInv'
  BY Zenon DEF ClaimInv, OrderInv, uart, Taken, InHand

LEMMA RingFrame ==
  ASSUME IndicesOrdered, EditInv, UNCHANGED inputVars
  PROVE  IndicesOrdered' /\ EditInv'
  BY Zenon DEF IndicesOrdered, EditInv, inputVars

LEMMA LockFrame ==
  ASSUME LockInv, ConsNoLostWakeup, UNCHANGED <<clock, reader, writer, inputVars>>
  PROVE  LockInv' /\ ConsNoLostWakeup'
  BY Zenon DEF LockInv, ConsNoLostWakeup, inputVars

LEMMA TypeStep == ASSUME ConsInv, Type PROVE ConsInv'
<1>a. /\ ConsTypeOK /\ LockInv /\ ClaimInv /\ OrderInv /\ IndicesOrdered /\ EditInv
      /\ ConsNoLostWakeup /\ eofs = 0 /\ ~torn
  BY Zenon DEF ConsInv
<1>b. /\ typed' = typed + 1
      /\ UNCHANGED <<inputVars, clock, reader, cpu, claimed, seen, writer, torn, eofs, reads>>
  BY Zenon DEF Type
<1>c. PICK k \in Keys : fifo' = Append(fifo, [c |-> k, i |-> typed + 1])
  BY Zenon DEF Type
<1>d. fifo \in Seq([c: Keys, i: Nat]) /\ typed \in Nat
  BY Zenon, <1>a DEF ConsTypeOK
<1> DEFINE x == [c |-> k, i |-> typed + 1]
<1>e. x \in [c: Keys, i: Nat] /\ x.i = typed + 1
  BY <1>d
<1> HIDE DEF x
<1>f. /\ fifo' \in Seq([c: Keys, i: Nat]) /\ Len(fifo') = Len(fifo) + 1
      /\ \A j \in 1..Len(fifo) : fifo'[j] = fifo[j]
      /\ fifo'[Len(fifo) + 1] = x
  BY <1>c, <1>d, <1>e, AppendProperties DEF x
<1>g. Len(fifo) \in Nat
  BY <1>d, LenProperties
<1>1. ConsTypeOK'
  <2>1. typed' \in Nat
    BY <1>b, <1>d
  <2> QED BY Zenon, <1>a, <1>b, <1>f, <2>1 DEF ConsTypeOK, inputVars
<1>2. OrderInv'
  <2>1. Taken' = Taken /\ Taken \in Nat
    BY <1>a, <1>b DEF Taken, InHand, OrderInv
  <2>2. /\ seen' \in Nat /\ \A h \in Cpus : cpu'[h].pc = "consoleintr" => cpu'[h].i = seen' + 1
    BY Zenon, <1>a, <1>b DEF OrderInv
  <2>3. typed = Taken + Len(fifo) /\ \A j \in 1..Len(fifo) : fifo[j].i = Taken + j
    BY Zenon, <1>a DEF OrderInv
  <2>4. typed' = Taken' + Len(fifo')
    BY <1>b, <1>f, <1>g, <2>1, <2>3
  <2>5. ASSUME NEW j \in 1..Len(fifo') PROVE fifo'[j].i = Taken' + j
    <3>1. CASE j = Len(fifo) + 1
      BY <1>e, <1>f, <1>g, <2>1, <2>3, <3>1
    <3>2. CASE j \in 1..Len(fifo)
      BY Zenon, <1>f, <2>1, <2>3, <3>2
    <3> QED BY <1>f, <1>g, <3>1, <3>2
  <2> QED BY Zenon, <2>2, <2>4, <2>5 DEF OrderInv
<1>3. ClaimInv' /\ LockInv' /\ ConsNoLostWakeup' /\ IndicesOrdered' /\ EditInv'
  BY Zenon, <1>a, <1>b, LockFrame, RingFrame DEF ClaimInv
<1> QED BY Zenon, <1>a, <1>b, <1>1, <1>2, <1>3 DEF ConsInv

\* The bytes in the UART follow the one in hand, whoever has that.
LEMMA ClaimStep == ASSUME ConsInv, NEW h \in Cpus, Claim(h) PROVE ConsInv'
<1>a. /\ ConsTypeOK /\ LockInv /\ ClaimInv /\ OrderInv /\ IndicesOrdered /\ EditInv
      /\ ConsNoLostWakeup /\ eofs = 0 /\ ~torn
  BY Zenon DEF ConsInv
<1>b. /\ cpu[h].pc = "idle" /\ ~claimed /\ claimed' = TRUE
      /\ cpu' = [cpu EXCEPT ![h] = [Idle EXCEPT !.pc = "uartintr"]]
      /\ UNCHANGED <<inputVars, clock, reader, fifo, typed, seen, writer, torn, eofs, reads>>
  BY Zenon DEF Claim
<1>c. cpu'[h].pc = "uartintr" /\ \A g \in Cpus \ {h} : cpu'[g] = cpu[g]
  BY Zenon, <1>a, <1>b, IdleCpu DEF ConsTypeOK
<1>1. ConsTypeOK'
  BY Zenon, <1>a, <1>b, IdleCpu DEF ConsTypeOK, inputVars
<1>2. ClaimInv'
  BY Zenon, <1>a, <1>b, <1>c DEF ClaimInv
<1>3. OrderInv'
  <2>1. \A g \in Cpus : cpu'[g].pc = "consoleintr" <=> cpu[g].pc = "consoleintr"
    BY Zenon, <1>b, <1>c
  <2>2. \A g \in Cpus : cpu'[g].pc = "consoleintr" => cpu'[g] = cpu[g]
    BY Zenon, <1>c
  <2> QED BY Zenon, <1>a, <1>b, <2>1, <2>2 DEF OrderInv, Taken, InHand
<1>4. LockInv' /\ ConsNoLostWakeup' /\ IndicesOrdered' /\ EditInv'
  BY Zenon, <1>a, <1>b, LockFrame, RingFrame
<1> QED BY Zenon, <1>a, <1>b, <1>1, <1>2, <1>3, <1>4 DEF ConsInv

LEMMA GetcStep == ASSUME ConsInv, NEW h \in Cpus, Getc(h) PROVE ConsInv'
<1>a. /\ ConsTypeOK /\ LockInv /\ ClaimInv /\ OrderInv /\ IndicesOrdered /\ EditInv
      /\ ConsNoLostWakeup /\ eofs = 0 /\ ~torn
  BY Zenon DEF ConsInv
<1>b. /\ cpu[h].pc = "uartintr"
      /\ UNCHANGED <<inputVars, clock, reader, typed, seen, writer, torn, eofs, reads>>
  BY Zenon DEF Getc
<1>c. \A g \in Cpus : g # h => cpu[g].pc = "idle"
  BY Zenon, <1>a, <1>b DEF ClaimInv
<1>d. ~InHand
  BY Zenon, <1>b, <1>c DEF InHand
<1>e. LockInv' /\ ConsNoLostWakeup' /\ IndicesOrdered' /\ EditInv'
  BY Zenon, <1>a, <1>b, LockFrame, RingFrame
<1>f. fifo \in Seq([c: Keys, i: Nat]) /\ cpu \in [Cpus -> CpuStates]
  BY Zenon, <1>a DEF ConsTypeOK
<1>1. CASE fifo = <<>>
  <2>1. cpu' = [cpu EXCEPT ![h] = Idle] /\ claimed' = FALSE /\ fifo' = fifo
    BY Zenon, <1>1 DEF Getc
  <2>2. cpu' \in [Cpus -> CpuStates] /\ \A g \in Cpus : cpu'[g].pc = "idle"
    BY Zenon, <1>c, <1>f, <2>1, IdleCpu
  <2>3. ~InHand'
    BY Zenon, <2>2 DEF InHand
  <2>4. ConsTypeOK' /\ ClaimInv'
    BY Zenon, <1>a, <1>b, <2>1, <2>2 DEF ConsTypeOK, ClaimInv, inputVars
  <2>5. OrderInv'
    BY Zenon, <1>a, <1>b, <1>d, <2>1, <2>2, <2>3 DEF OrderInv, Taken
  <2> QED BY Zenon, <1>a, <1>b, <1>e, <2>4, <2>5 DEF ConsInv
<1>2. CASE fifo # <<>>
  <2> DEFINE x == [pc |-> "consoleintr", c |-> Head(fifo).c, i |-> Head(fifo).i]
  <2>1. cpu' = [cpu EXCEPT ![h] = x] /\ claimed' = claimed /\ fifo' = Tail(fifo)
    BY Zenon, <1>2 DEF Getc
  <2>2. Head(fifo) \in [c: Keys, i: Nat] /\ Head(fifo) = fifo[1]
    <3>1. Head(fifo) \in [c: Keys, i: Nat]
      BY Zenon, <1>2, <1>f, HeadTailProperties
    <3> QED BY <1>2, <1>f, <3>1
  <2>3. /\ fifo' \in Seq([c: Keys, i: Nat]) /\ Len(fifo') = Len(fifo) - 1
        /\ \A k \in 1..Len(fifo') : fifo'[k] = fifo[k + 1]
    BY <1>2, <1>f, <2>1, HeadTailProperties
  <2>4. Len(fifo) \in Nat /\ Len(fifo) >= 1
    BY <1>2, <1>f
  <2>5. x \in CpuStates /\ x.pc = "consoleintr" /\ x.i = fifo[1].i
    BY <2>2 DEF CpuStates
  <2> HIDE DEF x
  <2>6. /\ cpu' \in [Cpus -> CpuStates] /\ cpu'[h] = x
        /\ \A g \in Cpus : g # h => cpu'[g].pc = "idle"
    BY Zenon, <1>c, <1>f, <2>1, <2>5
  <2>7. InHand'
    BY Zenon, <2>5, <2>6 DEF InHand
  <2>8. ConsTypeOK' /\ ClaimInv'
    BY Zenon, <1>a, <1>b, <2>1, <2>3, <2>6 DEF ConsTypeOK, ClaimInv, inputVars
  <2>9. seen \in Nat /\ typed = seen + Len(fifo) /\ \A k \in 1..Len(fifo) : fifo[k].i = seen + k
    BY Zenon, <1>a, <1>d DEF OrderInv, Taken
  <2>10. Taken' = seen + 1 /\ seen' = seen /\ typed' = typed
    BY Zenon, <1>b, <2>7 DEF Taken
  <2>11. x.i = seen + 1
    BY <2>4, <2>5, <2>9
  <2>12. ASSUME NEW g \in Cpus, cpu'[g].pc = "consoleintr" PROVE cpu'[g].i = seen' + 1
    <3>1. g = h
      BY Zenon, <2>6, <2>12
    <3> QED BY Zenon, <2>6, <2>10, <2>11, <3>1
  <2>13. typed' = Taken' + Len(fifo')
    BY <2>3, <2>4, <2>9, <2>10
  <2>14. ASSUME NEW k \in 1..Len(fifo') PROVE fifo'[k].i = Taken' + k
    <3>1. k + 1 \in 1..Len(fifo) /\ seen + (k + 1) = (seen + 1) + k
      BY <2>3, <2>4, <2>9
    <3> QED BY Zenon, <2>3, <2>9, <2>10, <3>1
  <2>15. OrderInv'
    BY Zenon, <2>9, <2>10, <2>12, <2>13, <2>14 DEF OrderInv
  <2> QED BY Zenon, <1>a, <1>b, <1>e, <2>8, <2>15 DEF ConsInv
<1> QED BY Zenon, <1>1, <1>2

\* wakeup() changes the location of sleepers only.
LEMMA WakeupReaders ==
  ASSUME ConsTypeOK, NEW p \in Readers
  PROVE  /\ wakeReaders[p] \in ReaderStates
         /\ wakeReaders[p].pc # "asleep"
         /\ wakeReaders[p].pc = "loop" <=> reader[p].pc = "loop"
         /\ wakeReaders[p].n = reader[p].n /\ wakeReaders[p].target = reader[p].target
<1> DEFINE l == IF reader[p].pc = "asleep" THEN "acquire" ELSE reader[p].pc
<1>1. reader[p] \in ReaderStates
  BY Zenon DEF ConsTypeOK
<1>2. reader[p].pc \in ReaderPcs
  BY Zenon, <1>1 DEF ReaderStates, ReaderPcs
<1>3. wakeReaders[p] = [reader[p] EXCEPT !.pc = l]
  BY Zenon DEF wakeReaders
<1>4. l \in ReaderPcs /\ l # "asleep" /\ (l = "loop" <=> reader[p].pc = "loop")
  BY Zenon, <1>2 DEF ReaderPcs
<1> HIDE DEF l
<1> DEFINE y == [reader[p] EXCEPT !.pc = l]
<1>5. y \in ReaderStates /\ y.pc = l /\ y.n = reader[p].n /\ y.target = reader[p].target
  BY Zenon, <1>1, <1>4, ReaderGoto
<1> HIDE DEF y
<1>6. wakeReaders[p] = y
  BY Zenon, <1>3 DEF y
<1> QED BY Zenon, <1>4, <1>5, <1>6

-----------------------------------------------------------------------------
(* Places in the ring.                                                     *)

LEMMA ModOf ==
  ASSUME NEW m \in Nat, m >= 1, NEW x \in Int, NEW k \in Int, NEW r \in 0..(m - 1),
         x = k * m + r
  PROVE  x % m = r
  OBVIOUS

LEMMA ModQuotient ==
  ASSUME NEW m \in Nat, m >= 1, NEW x \in Int
  PROVE  \E k \in Int : x = (k * m) + (x % m)
<1>1. x = ((x \div m) * m) + (x % m)
  OBVIOUS
<1>2. x \div m \in Int
  OBVIOUS
<1> QED BY Zenon, <1>1, <1>2

\* A place does not see a wrap of the index.
LEMMA PlaceWraps ==
  ASSUME NEW x \in Int
  PROVE  (x + UINT) % INPUT_BUF = x % INPUT_BUF
<1> USE Sizes
<1>1. PICK c \in Int : UINT = c * INPUT_BUF
  <2>1. UINT \in Int
    OBVIOUS
  <2>2. PICK c \in Int : UINT = (c * INPUT_BUF) + (UINT % INPUT_BUF)
    BY Zenon, <2>1, ModQuotient
  <2> QED BY <2>2, ConsAssumption
<1>2. PICK k \in Int : x = (k * INPUT_BUF) + (x % INPUT_BUF)
  BY Zenon, ModQuotient
<1>3. x + UINT = (k + c) * INPUT_BUF + (x % INPUT_BUF)
  BY <1>1, <1>2
<1>4. k + c \in Int /\ x % INPUT_BUF \in 0..(INPUT_BUF - 1) /\ x + UINT \in Int
  OBVIOUS
<1> QED BY Zenon, <1>3, <1>4, ModOf

\* Fewer than INPUT_BUF bytes apart are different places.
LEMMA PlacesDiffer ==
  ASSUME NEW x \in Int, NEW y \in Int, x < y, y < x + INPUT_BUF
  PROVE  x % INPUT_BUF # y % INPUT_BUF
<1> USE Sizes
<1>1. PICK k \in Int : x = (k * INPUT_BUF) + (x % INPUT_BUF)
  BY Zenon, ModQuotient
<1>2. PICK j \in Int : y = (j * INPUT_BUF) + (y % INPUT_BUF)
  BY Zenon, ModQuotient
<1> SUFFICES ASSUME x % INPUT_BUF = y % INPUT_BUF PROVE FALSE
  BY Zenon
<1>3. y - x = (j - k) * INPUT_BUF
  BY <1>1, <1>2
<1>4. CASE j - k <= 0
  BY <1>3, <1>4
<1>5. CASE j - k >= 1
  BY <1>3, <1>5
<1> QED BY <1>4, <1>5

LEMMA PlaceBack ==
  ASSUME NEW a \in 0..(UINT - 1), NEW k \in 0..(UINT - 1)
  PROVE  minus(a, k) % INPUT_BUF = (a - k) % INPUT_BUF
<1> USE Sizes
<1>1. CASE a >= k
  <2>1. minus(a, k) = a - k
    BY <1>1, MinusIs
  <2> QED BY Zenon, <2>1
<1>2. CASE a < k
  <2>1. minus(a, k) = (a - k) + UINT /\ a - k \in Int
    BY <1>2, MinusIs
  <2> QED BY Zenon, <2>1, PlaceWraps
<1> QED BY <1>1, <1>2

LEMMA PlaceOn ==
  ASSUME NEW a \in 0..(UINT - 1), NEW k \in 0..UINT
  PROVE  plus(a, k) % INPUT_BUF = (a + k) % INPUT_BUF
<1> USE Sizes
<1>1. CASE a + k < UINT
  BY <1>1, PlusIs
<1>2. CASE a + k >= UINT
  <2>1. plus(a, k) + UINT = a + k /\ plus(a, k) \in Int
    BY <1>2, PlusIs
  <2> QED BY Zenon, <2>1, PlaceWraps
<1> QED BY <1>1, <1>2

\* ^U takes back the line that is being edited, ^H its last byte.
LEMMA Erasing ==
  ASSUME ConsTypeOK, EditInv
  PROVE  /\ killLine = cw /\ killLine = minus(ce, minus(ce, cw))
         /\ backspace = IF ce = cw THEN ce ELSE minus(ce, 1)
<1> USE Sizes
<1>1. cw \in 0..(UINT - 1) /\ ce \in 0..(UINT - 1)
  BY Zenon DEF ConsTypeOK
<1> DEFINE len == minus(ce, cw)
           back == {i \in 1..len : cbuf[minus(ce, i) % INPUT_BUF] = NL}
<1>2. back = {}
  BY Zenon DEF EditInv
<1>3. killLine = minus(ce, len)
  BY Zenon, <1>2 DEF killLine
<1>4. minus(ce, len) = cw
  <2>1. len = (IF ce >= cw THEN ce - cw ELSE (ce - cw) + UINT) /\ len \in 0..(UINT - 1)
    BY Zenon, <1>1, MinusIs
  <2>2. minus(ce, len) = IF ce >= len THEN ce - len ELSE (ce - len) + UINT
    BY Zenon, <1>1, <2>1, MinusIs
  <2> HIDE DEF len
  <2> QED BY <1>1, <2>1, <2>2
<1> QED BY Zenon, <1>3, <1>4 DEF backspace

\* The indices stay in order when e is moved back ...
LEMMA EraseOrders ==
  ASSUME ConsTypeOK, IndicesOrdered, EditInv, NEW k \in 0..minus(ce, cw),
         ce' = minus(ce, k), cw' = cw, cr' = cr, cbuf' = cbuf
  PROVE  /\ ce' \in 0..(UINT - 1) /\ minus(ce, cw)' = minus(ce, cw) - k
         /\ IndicesOrdered' /\ EditInv'
<1> USE Sizes
<1>1. cr \in 0..(UINT - 1) /\ cw \in 0..(UINT - 1) /\ ce \in 0..(UINT - 1)
  BY Zenon DEF ConsTypeOK
<1>2. /\ minus(ce, cr) = minus(cw, cr) + minus(ce, cw) /\ minus(ce, cr) <= INPUT_BUF
      /\ minus(cw, cr) <= minus(ce, cr)
  BY Zenon, <1>1, Ordered DEF IndicesOrdered
<1>3. minus(ce, cr) \in 0..(UINT - 1) /\ minus(cw, cr) \in 0..(UINT - 1) /\ minus(ce, cw) \in 0..(UINT - 1)
  BY Zenon, <1>1, MinusIs
<1>4. k \in 0..minus(ce, cr) /\ k \in 0..(UINT - 1)
  BY <1>2, <1>3
<1>5. /\ minus(ce, k) \in 0..(UINT - 1)
      /\ minus(minus(ce, k), cw) = minus(ce, cw) - k
      /\ minus(minus(ce, k), cr) = minus(ce, cr) - k
  BY Zenon, <1>1, <1>4, MinusBack
<1>6. minus(ce, cw)' = minus(ce, cw) - k /\ minus(ce, cr)' = minus(ce, cr) - k /\ minus(cw, cr)' = minus(cw, cr)
  BY Zenon, <1>5 DEF minus
<1>7. IndicesOrdered'
  <2>1. minus(cw, cr) <= minus(ce, cr) - k /\ minus(ce, cr) - k <= INPUT_BUF
    BY <1>2, <1>3
  <2> QED BY Zenon, <1>6, <2>1 DEF IndicesOrdered
<1>8. ASSUME NEW j \in 1..(minus(ce, cw) - k)
      PROVE  cbuf[minus(minus(ce, k), j) % INPUT_BUF] \notin {NL, EOF}
  <2>1. j + k \in 1..minus(ce, cw) /\ j \in 0..(UINT - 1) /\ j + k \in 0..(UINT - 1)
    BY <1>3
  <2>2. minus(minus(ce, k), j) % INPUT_BUF = minus(ce, j + k) % INPUT_BUF
    <3>1. minus(ce, k) = IF ce >= k THEN ce - k ELSE (ce - k) + UINT
      BY Zenon, <1>1, <1>4, MinusIs
    <3>2. minus(minus(ce, k), j) = IF minus(ce, k) >= j THEN minus(ce, k) - j ELSE (minus(ce, k) - j) + UINT
      BY Zenon, <1>5, <2>1, MinusIs
    <3>3. minus(ce, j + k) = IF ce >= j + k THEN ce - (j + k) ELSE (ce - (j + k)) + UINT
      BY Zenon, <1>1, <2>1, MinusIs
    <3>4. minus(minus(ce, k), j) = minus(ce, j + k)
      <4> HIDE DEF minus
      <4> QED BY <1>1, <1>3, <2>1, <3>1, <3>2, <3>3
    <3> QED BY Zenon, <3>4
  <2> QED BY Zenon, <2>1, <2>2 DEF EditInv
<1>9. EditInv'
  BY Zenon, <1>6, <1>8 DEF EditInv
<1> QED BY Zenon, <1>5, <1>6, <1>7, <1>9

LEMMA BackOn ==
  ASSUME NEW a \in 0..(UINT - 1), NEW k \in 0..(UINT - 2)
  PROVE  minus(plus(a, 1), k + 1) = minus(a, k)
<1> USE Sizes
<1>1. 1 \in 0..UINT /\ k \in 0..(UINT - 1) /\ k + 1 \in 0..(UINT - 1)
  OBVIOUS
<1>2. plus(a, 1) = (IF a + 1 < UINT THEN a + 1 ELSE (a + 1) - UINT) /\ plus(a, 1) \in 0..(UINT - 1)
  BY Zenon, <1>1, PlusIs
<1>3. minus(plus(a, 1), k + 1)
        = IF plus(a, 1) >= k + 1 THEN plus(a, 1) - (k + 1) ELSE (plus(a, 1) - (k + 1)) + UINT
  BY Zenon, <1>1, <1>2, MinusIs
<1>4. minus(a, k) = IF a >= k THEN a - k ELSE (a - k) + UINT
  BY Zenon, <1>1, MinusIs
<1> HIDE DEF minus, plus
<1> QED BY <1>1, <1>2, <1>3, <1>4

\* ... when a byte is stored at e, in a place that is not in use ...
LEMMA StoreKeeps ==
  ASSUME ConsTypeOK, NEW c, cbuf' = [cbuf EXCEPT ![ce % INPUT_BUF] = c]
  PROVE  /\ cbuf'[ce % INPUT_BUF] = c
         /\ \A k \in 1..(INPUT_BUF - 1) : cbuf'[minus(ce, k) % INPUT_BUF] = cbuf[minus(ce, k) % INPUT_BUF]
<1> USE Sizes
<1>1. ce \in 0..(UINT - 1) /\ cbuf \in [0..(INPUT_BUF - 1) -> Stored \cup {NL}]
  BY Zenon DEF ConsTypeOK
<1>2. ce % INPUT_BUF \in 0..(INPUT_BUF - 1)
  BY <1>1
<1>3. cbuf'[ce % INPUT_BUF] = c
  BY Zenon, <1>1, <1>2
<1>4. ASSUME NEW k \in 1..(INPUT_BUF - 1)
      PROVE  cbuf'[minus(ce, k) % INPUT_BUF] = cbuf[minus(ce, k) % INPUT_BUF]
  <2>1. k \in 0..(UINT - 1) /\ ce - k \in Int /\ ce \in Int /\ ce - k < ce /\ ce < (ce - k) + INPUT_BUF
    BY <1>1
  <2>2. (ce - k) % INPUT_BUF # ce % INPUT_BUF
    BY Zenon, <2>1, PlacesDiffer
  <2>3. minus(ce, k) % INPUT_BUF = (ce - k) % INPUT_BUF
    BY Zenon, <1>1, <2>1, PlaceBack
  <2>4. (ce - k) % INPUT_BUF \in 0..(INPUT_BUF - 1)
    BY <2>1
  <2> QED BY Zenon, <1>1, <2>2, <2>3, <2>4
<1> QED BY Zenon, <1>3, <1>4

LEMMA StoreOrders ==
  ASSUME ConsTypeOK, IndicesOrdered, EditInv, hasRoom, NEW c \in Stored \cup {NL},
         cbuf' = [cbuf EXCEPT ![ce % INPUT_BUF] = c], ce' = plus(ce, 1), cr' = cr,
         \/ cw' = plus(ce, 1)
         \/ cw' = cw /\ c \notin {NL, EOF}
  PROVE  /\ cbuf' \in [0..(INPUT_BUF - 1) -> Stored \cup {NL}]
         /\ ce' \in 0..(UINT - 1) /\ cw' \in 0..(UINT - 1)
         /\ IndicesOrdered' /\ EditInv'
<1> USE Sizes
<1>1. /\ cr \in 0..(UINT - 1) /\ cw \in 0..(UINT - 1) /\ ce \in 0..(UINT - 1)
      /\ cbuf \in [0..(INPUT_BUF - 1) -> Stored \cup {NL}]
  BY Zenon DEF ConsTypeOK
<1>2. /\ minus(ce, cr) = minus(cw, cr) + minus(ce, cw) /\ minus(ce, cr) < INPUT_BUF
      /\ minus(cw, cr) <= minus(ce, cr)
  BY Zenon, <1>1, Ordered DEF IndicesOrdered, hasRoom
<1>3. minus(ce, cr) \in 0..(UINT - 1) /\ minus(cw, cr) \in 0..(UINT - 1) /\ minus(ce, cw) \in 0..(UINT - 1)
  BY Zenon, <1>1, MinusIs
<1>4. 1 \in 0..UINT /\ minus(ce, cr) < UINT - 1 /\ minus(ce, cw) < UINT - 1
  BY <1>2, <1>3
<1>5. /\ plus(ce, 1) \in 0..(UINT - 1) /\ minus(plus(ce, 1), cr) = minus(ce, cr) + 1
      /\ minus(plus(ce, 1), cw) = minus(ce, cw) + 1
  BY Zenon, <1>1, <1>4, PlusIs, PlusOne
<1>6. minus(plus(ce, 1), plus(ce, 1)) = 0
  BY Zenon, <1>5, PlusOne
<1>7. cbuf' \in [0..(INPUT_BUF - 1) -> Stored \cup {NL}] /\ cw' \in 0..(UINT - 1)
  BY Zenon, <1>1, <1>5
<1>8. minus(ce, cr)' = minus(ce, cr) + 1
  BY Zenon, <1>5 DEF minus
<1>9. CASE cw' = plus(ce, 1)
  <2>1. minus(cw, cr)' = minus(ce, cr)' /\ minus(ce, cw)' = 0
    BY Zenon, <1>6, <1>9 DEF minus
  <2>2. IndicesOrdered'
    BY <1>2, <1>3, <1>8, <2>1 DEF IndicesOrdered
  <2>3. EditInv'
    BY <2>1 DEF EditInv
  <2> QED BY Zenon, <1>5, <1>7, <2>2, <2>3
<1>10. CASE cw' = cw /\ c \notin {NL, EOF}
  <2>1. minus(cw, cr)' = minus(cw, cr) /\ minus(ce, cw)' = minus(ce, cw) + 1
    BY Zenon, <1>5, <1>10 DEF minus
  <2>2. IndicesOrdered'
    BY <1>2, <1>3, <1>8, <2>1 DEF IndicesOrdered
  <2>3. ASSUME NEW k \in 1..(minus(ce, cw) + 1)
        PROVE  cbuf'[minus(plus(ce, 1), k) % INPUT_BUF] \notin {NL, EOF}
    <3> DEFINE j == k - 1
    <3>0. 0 \in 0..(UINT - 1) /\ ce >= 0 /\ ce - 0 = ce
      BY <1>1
    <3>m. minus(ce, 0) = ce
      BY Zenon, <1>1, <3>0, MinusIs
    <3>j. j \in 0..(UINT - 2) /\ k = j + 1
      BY <1>3, <1>4
    <3>1. j \in 0..(UINT - 2) /\ k = j + 1 /\ minus(ce, 0) = ce
      BY Zenon, <3>j, <3>m
    <3> HIDE DEF j
    <3>2. minus(plus(ce, 1), k) = minus(ce, j)
      BY Zenon, <1>1, <3>1, BackOn
    <3>3. CASE j = 0
      BY Zenon, <1>10, <3>1, <3>2, <3>3, StoreKeeps
    <3>4. CASE j # 0
      <4>1. j \in 1..(INPUT_BUF - 1) /\ j \in 1..minus(ce, cw)
        BY <1>2, <1>3, <3>1, <3>4
      <4>2. cbuf'[minus(ce, j) % INPUT_BUF] = cbuf[minus(ce, j) % INPUT_BUF]
        BY Zenon, <4>1, StoreKeeps
      <4> QED BY Zenon, <3>2, <4>1, <4>2 DEF EditInv
    <3> QED BY Zenon, <3>3, <3>4
  <2>4. EditInv'
    BY Zenon, <2>1, <2>3 DEF EditInv
  <2> QED BY Zenon, <1>5, <1>7, <2>2, <2>4
<1> QED BY Zenon, <1>9, <1>10

\* ... and when a reader takes a byte.
LEMMA TakeOrders ==
  ASSUME ConsTypeOK, IndicesOrdered, EditInv, cr # cw,
         cr' = plus(cr, 1), cw' = cw, ce' = ce, cbuf' = cbuf
  PROVE  cr' \in 0..(UINT - 1) /\ IndicesOrdered' /\ EditInv'
<1> USE Sizes
<1>1. cr \in 0..(UINT - 1) /\ cw \in 0..(UINT - 1) /\ ce \in 0..(UINT - 1)
  BY Zenon DEF ConsTypeOK
<1>2. minus(cw, cr) <= minus(ce, cr) /\ minus(ce, cr) <= INPUT_BUF
  BY Zenon DEF IndicesOrdered
<1>3. minus(ce, cr) \in 0..(UINT - 1) /\ minus(cw, cr) \in 0..(UINT - 1)
  BY Zenon, <1>1, MinusIs
<1>4. minus(cw, plus(cr, 1)) = minus(cw, cr) - 1 /\ minus(cw, cr) >= 1
  BY Zenon, <1>1, PlusOne
<1>5. ce # cr
  <2>1. minus(ce, cr) # 0
    BY <1>2, <1>3, <1>4
  <2> QED BY Zenon, <1>1, <2>1, PlusOne
<1>6. minus(ce, plus(cr, 1)) = minus(ce, cr) - 1
  BY Zenon, <1>1, <1>5, PlusOne
<1>7. 1 \in 0..UINT
  OBVIOUS
<1>8. cr' \in 0..(UINT - 1)
  BY Zenon, <1>1, <1>7, PlusIs
<1>9. minus(cw, cr)' = minus(cw, cr) - 1 /\ minus(ce, cr)' = minus(ce, cr) - 1
  BY Zenon, <1>4, <1>6 DEF minus
<1>10. IndicesOrdered'
  BY <1>2, <1>3, <1>9 DEF IndicesOrdered
<1>11. EditInv'
  BY Zenon DEF EditInv
<1> QED BY Zenon, <1>8, <1>10, <1>11
-----------------------------------------------------------------------------
\* consoleintr(), byte by byte of what it may be given.
LEMMA IntrRing ==
  ASSUME ConsInv, NEW h \in Cpus, ConsoleIntr(h)
  PROVE  /\ cbuf' \in [0..(INPUT_BUF - 1) -> Stored \cup {NL}]
         /\ ce' \in 0..(UINT - 1) /\ cw' \in 0..(UINT - 1) /\ cr' = cr
         /\ IndicesOrdered' /\ EditInv'
         /\ reader' = wakeReaders \/ (reader' = reader /\ cw' = cw)
<1> DEFINE c == cpu[h].c
<1>a. ConsTypeOK /\ IndicesOrdered /\ EditInv
  BY Zenon DEF ConsInv
<1>b. /\ cr \in 0..(UINT - 1) /\ cw \in 0..(UINT - 1) /\ ce \in 0..(UINT - 1)
      /\ cbuf \in [0..(INPUT_BUF - 1) -> Stored \cup {NL}]
  BY Zenon, <1>a DEF ConsTypeOK
<1>c. c \in Keys \cup {NL}
  BY Zenon, <1>a DEF ConsTypeOK, CpuStates
<1>d. CASE c = DUMP \/ (c \notin {DUMP, KILL, BS} /\ ~hasRoom)
  <2>1. UNCHANGED <<inputVars, reader>>
    <3>1. CASE c = DUMP
      BY <3>1 DEF ConsoleIntr, KILL, BS, DUMP
    <3>2. CASE c \notin {DUMP, KILL, BS} /\ ~hasRoom
      BY <3>2 DEF ConsoleIntr
    <3> QED BY Zenon, <1>d, <3>1, <3>2
  <2> QED BY Zenon, <1>a, <1>b, <2>1, RingFrame DEF inputVars
<1>e. CASE c \in {KILL, BS}
  <2>1. UNCHANGED <<cbuf, cr, cw, reader>> /\ ce' = IF c = KILL THEN killLine ELSE backspace
    BY <1>e DEF ConsoleIntr, KILL, BS, DUMP
  <2> DEFINE len == minus(ce, cw)
  <2>2. len \in 0..(UINT - 1) /\ (ce = cw <=> len = 0)
    BY Zenon, <1>b, MinusIs, PlusOne
  <2>3. PICK k \in 0..len : ce' = minus(ce, k)
    <3>1. minus(ce, 0) = ce /\ 0 \in 0..len /\ len \in 0..len /\ (len # 0 => 1 \in 0..len)
      <4>1. minus(ce, 0) = ce
        BY <1>b, Sizes, MinusIs
      <4> HIDE DEF len
      <4> QED BY <2>2, <4>1
    <3>2. killLine = minus(ce, len)
      BY Zenon, <1>a, Erasing
    <3>3. backspace = minus(ce, IF len = 0 THEN 0 ELSE 1)
      BY Zenon, <1>a, <2>2, <3>1, Erasing
    <3> QED BY Zenon, <2>1, <3>1, <3>2, <3>3
  <2> QED BY Zenon, <1>a, <1>b, <2>1, <2>3, EraseOrders
<1>f. CASE c \notin {DUMP, KILL, BS} /\ hasRoom
  <2>1. /\ cbuf' = [cbuf EXCEPT ![ce % INPUT_BUF] = c] /\ ce' = plus(ce, 1) /\ cr' = cr
        /\ IF commits(c) THEN cw' = plus(ce, 1) /\ reader' = wakeReaders
                         ELSE cw' = cw /\ reader' = reader
    BY <1>f DEF ConsoleIntr
  <2>2. c \in Stored \cup {NL}
    BY Zenon, <1>c, <1>f DEF Stored
  <2>3. \/ cw' = plus(ce, 1) /\ reader' = wakeReaders
        \/ cw' = cw /\ reader' = reader /\ c \notin {NL, EOF}
    BY Zenon, <2>1 DEF commits
  <2> HIDE DEF c
  <2> QED BY Zenon, <1>a, <1>f, <2>1, <2>2, <2>3, StoreOrders
<1> QED BY Zenon, <1>d, <1>e, <1>f

\* While the lock is free no write() is under way, so an echo tears none.
LEMMA ConsoleIntrStep == ASSUME ConsInv, NEW h \in Cpus, ConsoleIntr(h) PROVE ConsInv'
<1>a. /\ ConsTypeOK /\ LockInv /\ ClaimInv /\ OrderInv /\ IndicesOrdered /\ EditInv
      /\ ConsNoLostWakeup /\ eofs = 0 /\ ~torn
  BY Zenon DEF ConsInv
<1>b. /\ cpu[h].pc = "consoleintr" /\ clock = "none"
      /\ seen' = IF seen + 1 = cpu[h].i THEN seen + 1 ELSE -1
      /\ torn' = (torn \/ (ce' # ce /\ midWrite({})))
      /\ cpu' = [cpu EXCEPT ![h] = [Idle EXCEPT !.pc = "uartintr"]]
      /\ UNCHANGED <<clock, claimed, fifo, typed, writer, eofs, reads>>
  BY Zenon DEF ConsoleIntr
<1>c. /\ cbuf' \in [0..(INPUT_BUF - 1) -> Stored \cup {NL}]
      /\ ce' \in 0..(UINT - 1) /\ cw' \in 0..(UINT - 1) /\ cr' = cr
      /\ IndicesOrdered' /\ EditInv'
      /\ reader' = wakeReaders \/ (reader' = reader /\ cw' = cw)
  BY Zenon, IntrRing
<1>d. ~torn'
  <2>1. \A q \in Writers : writer[q] # 1
    BY Zenon, <1>a, <1>b, ConsAssumption DEF LockInv
  <2> QED BY Zenon, <1>a, <1>b, <2>1 DEF midWrite
<1>e. seen' = seen + 1 /\ seen \in Nat /\ seen' \in Nat
  <2>1. seen \in Nat /\ seen' = seen + 1
    BY Zenon, <1>a, <1>b DEF OrderInv
  <2> QED BY <2>1
<1>f. /\ \A g \in Cpus : g # h => cpu'[g] = cpu[g] /\ cpu[g].pc = "idle"
      /\ cpu'[h].pc = "uartintr" /\ cpu' \in [Cpus -> CpuStates]
  BY Zenon, <1>a, <1>b, IdleCpu DEF ConsTypeOK, ClaimInv
<1>1. ClaimInv'
  BY Zenon, <1>a, <1>b, <1>f DEF ClaimInv
<1>2. OrderInv'
  <2>1. ~InHand'
    BY Zenon, <1>f DEF InHand
  <2>2. Taken' = Taken
    BY Zenon, <1>b, <1>e, <2>1 DEF Taken, InHand
  <2>3. \A g \in Cpus : cpu'[g].pc # "consoleintr"
    BY Zenon, <2>1 DEF InHand
  <2> QED BY Zenon, <1>a, <1>b, <1>e, <2>2, <2>3 DEF OrderInv
<1>3. /\ reader' \in [Readers -> ReaderStates]
      /\ \A p \in Readers : /\ reader'[p].n <= reader'[p].target
                            /\ reader'[p].pc = "loop" <=> reader[p].pc = "loop"
                            /\ reader'[p].pc = "asleep" => cr' = cw'
  <2>1. CASE reader' = wakeReaders
    <3>1. reader' = [p \in Readers |-> wakeReaders[p]]
      BY Zenon, <2>1 DEF wakeReaders
    <3>2. \A p \in Readers : reader'[p].n = reader[p].n /\ reader'[p].target = reader[p].target
      BY Zenon, <1>a, <2>1, WakeupReaders
    <3>3. \A p \in Readers : reader'[p].n <= reader'[p].target
      BY Zenon, <1>a, <3>2 DEF ConsTypeOK
    <3> QED BY Zenon, <1>a, <2>1, <3>1, <3>3, WakeupReaders
  <2>2. CASE reader' = reader /\ cw' = cw
    BY Zenon, <1>a, <1>c, <2>2 DEF ConsTypeOK, ConsNoLostWakeup
  <2> QED BY Zenon, <1>c, <2>1, <2>2
<1>4. ConsTypeOK'
  <2>1. seen' \in Int
    BY <1>e
  <2>2. torn' \in BOOLEAN
    BY Zenon, <1>b
  <2> QED BY Zenon, <1>a, <1>b, <1>c, <1>f, <1>3, <2>1, <2>2 DEF ConsTypeOK
<1>5. LockInv' /\ ConsNoLostWakeup'
  BY Zenon, <1>a, <1>b, <1>3 DEF LockInv, ConsNoLostWakeup
<1> QED BY Zenon, <1>a, <1>b, <1>c, <1>d, <1>1, <1>2, <1>4, <1>5 DEF ConsInv

\* A reader's step gives it a new state x; it leaves the UART and the writers
\* alone, takes at most one byte, and only the reader's own hold of the lock changes.
LEMMA ReaderMoves ==
  ASSUME ConsInv, NEW p \in Readers, NEW x \in ReaderStates, x.n <= x.target,
         reader' = [reader EXCEPT ![p] = x],
         \/ clock' = clock /\ (x.pc = "loop" <=> reader[p].pc = "loop")
         \/ clock = "none" /\ clock' = p /\ x.pc = "loop"
         \/ clock = p /\ clock' = "none" /\ x.pc # "loop",
         x.pc = "asleep" => reader[p].pc = "asleep" \/ cr = cw,
         cr' = cr \/ (cr # cw /\ cr' = plus(cr, 1) /\ x.pc # "asleep"),
         UNCHANGED <<cbuf, cw, ce, cpu, claimed, fifo, typed, seen, writer, torn>>,
         eofs' = 0, reads' \in Nat
  PROVE  ConsInv'
<1>a. /\ ConsTypeOK /\ LockInv /\ ClaimInv /\ OrderInv /\ IndicesOrdered /\ EditInv
      /\ ConsNoLostWakeup /\ eofs = 0 /\ ~torn
  BY Zenon DEF ConsInv
<1>b. reader \in [Readers -> ReaderStates]
  BY Zenon, <1>a DEF ConsTypeOK
<1>c. reader'[p] = x /\ \A q \in Readers : q # p => reader'[q] = reader[q]
  BY Zenon, <1>b
<1>d. cr' \in 0..(UINT - 1) /\ IndicesOrdered' /\ EditInv'
  <2>1. CASE cr' = cr
    <3>1. UNCHANGED inputVars
      BY Zenon, <2>1 DEF inputVars
    <3> QED BY Zenon, <1>a, <2>1, <3>1, RingFrame DEF ConsTypeOK
  <2>2. CASE cr # cw /\ cr' = plus(cr, 1)
    BY Zenon, <1>a, <2>2, TakeOrders
  <2> QED BY Zenon, <2>1, <2>2
<1>1. ConsTypeOK'
  <2>1. reader' \in [Readers -> ReaderStates] /\ \A q \in Readers : reader'[q].n <= reader'[q].target
    BY Zenon, <1>a, <1>b, <1>c DEF ConsTypeOK
  <2>2. clock' \in Readers \cup Writers \cup {"none"} /\ eofs' \in Int
    BY <1>a DEF ConsTypeOK
  <2> QED BY Zenon, <1>a, <1>d, <2>1, <2>2 DEF ConsTypeOK
<1>2. LockInv'
  <2>p. p # "none" /\ (reader[p].pc = "loop" <=> clock = p)
    BY Zenon, <1>a, ConsAssumption DEF LockInv
  <2>1. ASSUME NEW q \in Readers PROVE reader'[q].pc = "loop" <=> clock' = q
    <3>1. CASE q = p
      BY Zenon, <1>c, <2>p, <3>1
    <3>2. CASE q # p
      <4>1. (reader'[q].pc = "loop" <=> clock = q) /\ q # "none"
        BY Zenon, <1>a, <1>c, <3>2, ConsAssumption DEF LockInv
      <4> QED BY Zenon, <3>2, <4>1
    <3> QED BY Zenon, <3>1, <3>2
  <2>2. ASSUME NEW q \in Writers PROVE writer'[q] = 1 <=> clock' = q
    BY Zenon, <1>a, ConsAssumption DEF LockInv
  <2> QED BY Zenon, <2>1, <2>2 DEF LockInv
<1>3. ConsNoLostWakeup'
  <2> SUFFICES ASSUME NEW q \in Readers, reader'[q].pc = "asleep" PROVE cr' = cw'
    BY Zenon DEF ConsNoLostWakeup
  <2>1. cr = cw
    BY Zenon, <1>a, <1>c DEF ConsNoLostWakeup
  <2> QED BY Zenon, <2>1
<1>4. ClaimInv' /\ OrderInv'
  BY Zenon, <1>a, UartFrame DEF uart
<1> QED BY Zenon, <1>a, <1>d, <1>1, <1>2, <1>3, <1>4 DEF ConsInv

LEMMA ReadCallStep == ASSUME ConsInv, NEW p \in Readers, ReadCall(p) PROVE ConsInv'
<1>1. reader[p] \in ReaderStates /\ reader \in [Readers -> ReaderStates] /\ reads \in Nat /\ eofs = 0
  BY Zenon DEF ConsInv, ConsTypeOK
<1>2. PICK n \in ReadSizes :
        reader' = [reader EXCEPT ![p].pc = "acquire", ![p].n = n, ![p].target = n]
  BY Zenon DEF ReadCall
<1> DEFINE x == [reader[p] EXCEPT !.pc = "acquire", !.n = n, !.target = n]
<1>3. n \in Nat
  BY Zenon, ConsAssumption
<1>4. x \in ReaderStates /\ x.pc = "acquire" /\ x.n = n /\ x.target = n
  BY Zenon, <1>1, <1>3, ReaderCalls
<1>5. reader' = [reader EXCEPT ![p] = x]
  BY Zenon, <1>1, <1>2
<1> HIDE DEF x
<1>6. x.n <= x.target /\ reads' \in Nat
  BY <1>1, <1>3, <1>4 DEF ReadCall
<1>7. /\ reader[p].pc = "idle"
      /\ UNCHANGED <<inputVars, clock, cpu, claimed, fifo, typed, seen, writer, torn, eofs>>
  BY Zenon DEF ReadCall
<1> QED BY Zenon, <1>1, <1>4, <1>5, <1>6, <1>7, ReaderMoves DEF inputVars

LEMMA ReadAcquireStep == ASSUME ConsInv, NEW p \in Readers, ReadAcquire(p) PROVE ConsInv'
<1>1. /\ reader[p] \in ReaderStates /\ reader \in [Readers -> ReaderStates] /\ reads \in Nat /\ eofs = 0
      /\ reader[p].n <= reader[p].target
  BY Zenon DEF ConsInv, ConsTypeOK
<1> DEFINE x == [reader[p] EXCEPT !.pc = "loop"]
<1>2. x \in ReaderStates /\ x.pc = "loop" /\ x.n = reader[p].n /\ x.target = reader[p].target
  <2>1. "loop" \in ReaderPcs
    BY Zenon DEF ReaderPcs
  <2> QED BY Zenon, <1>1, <2>1, ReaderGoto
<1>3. reader' = [reader EXCEPT ![p] = x]
  BY Zenon, <1>1 DEF ReadAcquire
<1> HIDE DEF x
<1>4. /\ clock = "none" /\ clock' = p
      /\ UNCHANGED <<inputVars, cpu, claimed, fifo, typed, seen, writer, torn, eofs, reads>>
  BY Zenon DEF ReadAcquire
<1> QED BY Zenon, <1>1, <1>2, <1>3, <1>4, ReaderMoves DEF inputVars

\* A reader that returns gives up the lock.
LEMMA ReturnsStep ==
  ASSUME ConsInv, NEW p \in Readers, reader[p].pc = "loop", Returns(p),
         cr' = cr \/ (cr # cw /\ cr' = plus(cr, 1)),
         UNCHANGED <<cbuf, cw, ce, cpu, claimed, fifo, typed, seen, writer, torn, reads>>, eofs' = 0
  PROVE  ConsInv'
<1>1. /\ reader[p] \in ReaderStates /\ reader \in [Readers -> ReaderStates] /\ reads \in Nat
      /\ clock = p
  BY Zenon DEF ConsInv, ConsTypeOK, LockInv
<1> DEFINE x == [reader[p] EXCEPT !.pc = "idle", !.n = 0, !.target = 0]
<1>2. x \in ReaderStates /\ x.pc = "idle" /\ x.n = 0 /\ x.target = 0
  <2>1. 0 \in Nat
    OBVIOUS
  <2> QED BY Zenon, <1>1, <2>1, ReaderCalls
<1>3. reader' = [reader EXCEPT ![p] = x]
  BY Zenon, <1>1 DEF Returns
<1> HIDE DEF x
<1>4. x.n <= x.target
  BY <1>2
<1>5. clock' = "none"
  BY Zenon DEF Returns
<1> QED BY Zenon, <1>1, <1>2, <1>3, <1>4, <1>5, ReaderMoves

LEMMA ReadEmptyStep == ASSUME ConsInv, NEW p \in Readers, ReadEmpty(p) PROVE ConsInv'
<1>1. /\ reader[p] \in ReaderStates /\ reader \in [Readers -> ReaderStates] /\ reads \in Nat /\ eofs = 0
      /\ reader[p].n <= reader[p].target
  BY Zenon DEF ConsInv, ConsTypeOK
<1>2. /\ reader[p].pc = "loop" /\ cr = cw
      /\ UNCHANGED <<inputVars, cpu, claimed, fifo, typed, seen, writer, torn, eofs, reads>>
  BY Zenon DEF ReadEmpty
<1>3. clock = p
  BY Zenon, <1>2 DEF ConsInv, LockInv
<1>4. CASE Returns(p)
  BY Zenon, <1>1, <1>2, <1>4, ReturnsStep DEF inputVars
<1>5. CASE clock' = "none" /\ reader' = [reader EXCEPT ![p].pc = "asleep"]
  <2> DEFINE x == [reader[p] EXCEPT !.pc = "asleep"]
  <2>1. x \in ReaderStates /\ x.pc = "asleep" /\ x.n = reader[p].n /\ x.target = reader[p].target
    <3>1. "asleep" \in ReaderPcs
      BY Zenon DEF ReaderPcs
    <3> QED BY Zenon, <1>1, <3>1, ReaderGoto
  <2>2. reader' = [reader EXCEPT ![p] = x]
    BY Zenon, <1>1, <1>5
  <2> HIDE DEF x
  <2> QED BY Zenon, <1>1, <1>2, <1>3, <1>5, <2>1, <2>2, ReaderMoves DEF inputVars
<1> QED BY Zenon, <1>4, <1>5 DEF ReadEmpty

\* ^D is consumed by the read that returns 0 for it, and by no other.
LEMMA ReadEofStep == ASSUME ConsInv, NEW p \in Readers, ReadEof(p) PROVE ConsInv'
<1>1. /\ reader[p] \in ReaderStates /\ eofs = 0 /\ reader[p].n <= reader[p].target
      /\ cr \in 0..(UINT - 1)
  BY Zenon DEF ConsInv, ConsTypeOK
<1>2. /\ reader[p].pc = "loop" /\ cr # cw /\ Returns(p)
      /\ cr' = IF reader[p].n < reader[p].target THEN cr ELSE plus(cr, 1)
      /\ eofs' = eofs + minus(cr', cr) - returnsZero(p)
      /\ UNCHANGED <<cbuf, cw, ce, cpu, claimed, fifo, typed, seen, writer, torn, reads>>
  BY Zenon DEF ReadEof
<1>3. reader[p].n \in Nat /\ reader[p].target \in Nat
  BY Zenon, <1>1 DEF ReaderStates
<1>4. minus(plus(cr, 1), cr) = 1 /\ minus(cr, cr) = 0
  BY Zenon, <1>1, PlusOne
<1>5. returnsZero(p) = IF reader[p].n < reader[p].target THEN 0 ELSE 1
  BY <1>1, <1>3 DEF returnsZero
<1>6. minus(cr', cr) = IF reader[p].n < reader[p].target THEN 0 ELSE 1
  BY Zenon, <1>2, <1>4
<1>7. eofs' = 0
  BY <1>1, <1>2, <1>5, <1>6
<1> QED BY Zenon, <1>2, <1>7, ReturnsStep

LEMMA ReadByteStep == ASSUME ConsInv, NEW p \in Readers, ReadByte(p) PROVE ConsInv'
<1>1. /\ reader[p] \in ReaderStates /\ reader \in [Readers -> ReaderStates] /\ reads \in Nat /\ eofs = 0
      /\ reader[p].n <= reader[p].target
  BY Zenon DEF ConsInv, ConsTypeOK
<1>2. /\ reader[p].pc = "loop" /\ cr # cw /\ cr' = plus(cr, 1) /\ reader[p].n > 0
      /\ UNCHANGED <<cbuf, cw, ce, cpu, claimed, fifo, typed, seen, writer, torn, eofs, reads>>
  BY Zenon DEF ReadByte
<1>4. CASE Returns(p)
  BY Zenon, <1>1, <1>2, <1>4, ReturnsStep
<1>5. CASE reader' = [reader EXCEPT ![p].n = @ - 1] /\ clock' = clock
  <2> DEFINE m == reader[p].n - 1
             x == [reader[p] EXCEPT !.n = m]
  <2>1. reader[p].n \in Nat /\ reader[p].target \in Nat
    BY Zenon, <1>1 DEF ReaderStates
  <2>2. m \in Nat /\ m <= reader[p].target
    BY <1>1, <1>2, <2>1
  <2>3. reader' = [reader EXCEPT ![p] = x]
    BY Zenon, <1>1, <1>5
  <2> HIDE DEF m
  <2>4. x \in ReaderStates /\ x.pc = reader[p].pc /\ x.n = m /\ x.target = reader[p].target
    BY Zenon, <1>1, <2>2, ReaderTakes
  <2> HIDE DEF x
  <2> QED BY Zenon, <1>1, <1>2, <1>5, <2>2, <2>3, <2>4, ReaderMoves
<1> QED BY Zenon, <1>4, <1>5 DEF ReadByte

LEMMA ReadDoneStep == ASSUME ConsInv, NEW p \in Readers, ReadDone(p) PROVE ConsInv'
<1>1. /\ reader[p].pc = "loop" /\ Returns(p)
      /\ UNCHANGED <<inputVars, cpu, claimed, fifo, typed, seen, writer, torn, eofs, reads>>
  BY Zenon DEF ReadDone
<1>2. eofs = 0
  BY Zenon DEF ConsInv
<1> QED BY Zenon, <1>1, <1>2, ReturnsStep DEF inputVars

LEMMA KillReaderStep == ASSUME ConsInv, NEW p \in Readers, KillReader(p) PROVE ConsInv'
<1>1. /\ reader[p] \in ReaderStates /\ reader \in [Readers -> ReaderStates] /\ reads \in Nat /\ eofs = 0
      /\ reader[p].n <= reader[p].target
  BY Zenon DEF ConsInv, ConsTypeOK
<1> DEFINE l == IF reader[p].pc = "asleep" THEN "acquire" ELSE reader[p].pc
           x == [reader[p] EXCEPT !.killed = TRUE, !.pc = l]
<1>2. reader[p].pc \in ReaderPcs
  BY Zenon, <1>1 DEF ReaderStates, ReaderPcs
<1>3. l \in ReaderPcs /\ l # "asleep" /\ (l = "loop" <=> reader[p].pc = "loop")
  BY Zenon, <1>2 DEF ReaderPcs
<1>4. reader' = [reader EXCEPT ![p] = x]
  BY Zenon, <1>1 DEF KillReader
<1> HIDE DEF l
<1>5. x \in ReaderStates /\ x.pc = l /\ x.n = reader[p].n /\ x.target = reader[p].target
  BY Zenon, <1>1, <1>3, ReaderKilled
<1> HIDE DEF x
<1>6. UNCHANGED <<inputVars, clock, cpu, claimed, fifo, typed, seen, writer, torn, eofs, reads>>
  BY Zenon DEF KillReader
<1> QED BY Zenon, <1>1, <1>3, <1>4, <1>5, <1>6, ReaderMoves DEF inputVars

LEMMA WriteStep == ASSUME ConsInv, NEW p \in Writers, WriteByte(p) \/ WriteBad(p) PROVE ConsInv'
<1>a. /\ ConsTypeOK /\ LockInv /\ ClaimInv /\ OrderInv /\ IndicesOrdered /\ EditInv
      /\ ConsNoLostWakeup /\ eofs = 0 /\ ~torn
  BY Zenon DEF ConsInv
<1>b. /\ writer[p] > 0 /\ clock \in {"none", p}
      /\ UNCHANGED <<inputVars, reader, cpu, claimed, fifo, typed, seen, eofs, reads>>
  BY Zenon DEF WriteByte, WriteBad
<1>c. \A q \in Writers \ {p} : writer[q] # 1
  BY Zenon, <1>a, <1>b, ConsAssumption DEF LockInv
<1>d. torn' = FALSE
  <2>1. ~midWrite({p})
    BY Zenon, <1>c DEF midWrite
  <2>2. torn = FALSE
    BY Zenon, <1>a DEF ConsTypeOK
  <2> QED BY Zenon, <2>1, <2>2 DEF WriteByte, WriteBad
<1>e. PICK left \in 0..1 : /\ writer' = [writer EXCEPT ![p] = left]
                           /\ clock' = IF left = 1 THEN p ELSE "none"
  <2>1. writer[p] \in 1..2
    <3>1. writer[p] \in 0..2
      BY Zenon, <1>a DEF ConsTypeOK
    <3> QED BY <1>b, <3>1
  <2>2. CASE WriteByte(p)
    <3>1. writer[p] - 1 \in 0..1 /\ (writer[p] = 1 <=> writer[p] - 1 # 1)
      BY <2>1
    <3> QED BY Zenon, <2>2, <3>1 DEF WriteByte
  <2>3. CASE WriteBad(p)
    <3>1. 0 \in 0..1 /\ 0 # 1
      OBVIOUS
    <3> QED BY Zenon, <2>3, <3>1 DEF WriteBad
  <2> QED BY Zenon, <2>2, <2>3
<1>f. writer' \in [Writers -> 0..2] /\ writer'[p] = left /\ \A q \in Writers \ {p} : writer'[q] = writer[q]
  <2>1. writer \in [Writers -> 0..2] /\ left \in 0..2
    BY <1>a DEF ConsTypeOK
  <2> QED BY Zenon, <1>e, <2>1
<1>1. ConsTypeOK'
  <2>1. clock' \in Readers \cup Writers \cup {"none"} /\ torn' \in BOOLEAN
    BY Zenon, <1>d, <1>e
  <2> QED BY Zenon, <1>a, <1>b, <1>f, <2>1 DEF ConsTypeOK, inputVars
<1>2. LockInv'
  <2>1. ASSUME NEW q \in Readers PROVE reader'[q].pc = "loop" <=> clock' = q
    BY Zenon, <1>a, <1>b, <1>e, ConsAssumption DEF LockInv
  <2>2. ASSUME NEW q \in Writers PROVE writer'[q] = 1 <=> clock' = q
    BY Zenon, <1>c, <1>e, <1>f, ConsAssumption
  <2> QED BY Zenon, <2>1, <2>2 DEF LockInv
<1>3. ConsNoLostWakeup' /\ ClaimInv' /\ OrderInv' /\ IndicesOrdered' /\ EditInv'
  BY Zenon, <1>a, <1>b, UartFrame, RingFrame DEF uart, inputVars, ConsNoLostWakeup
<1>4. eofs' = 0
  BY Zenon, <1>a, <1>b
<1> QED BY Zenon, <1>d, <1>1, <1>2, <1>3, <1>4 DEF ConsInv

LEMMA ConsStep == ASSUME ConsInv, [ConsNext]_consVars PROVE ConsInv'
<1>1. CASE UNCHANGED consVars
  <2>1. UNCHANGED <<uart, inputVars, clock, reader, writer, torn, eofs, reads>>
    BY Zenon, <1>1 DEF consVars, uart, inputVars
  <2>2. ConsTypeOK'
    BY Zenon, <1>1 DEF consVars, ConsInv, ConsTypeOK
  <2> QED BY Zenon, <2>1, <2>2, UartFrame, RingFrame, LockFrame DEF ConsInv
<1>2. ASSUME NEW p \in Readers,
             \/ ReadCall(p) \/ ReadAcquire(p) \/ ReadEmpty(p) \/ ReadEof(p)
             \/ ReadByte(p) \/ ReadDone(p) \/ KillReader(p)
      PROVE  ConsInv'
  BY Zenon, <1>2, ReadCallStep, ReadAcquireStep, ReadEmptyStep, ReadEofStep, ReadByteStep, ReadDoneStep, KillReaderStep
<1>3. ASSUME NEW h \in Cpus, Claim(h) \/ Getc(h) \/ ConsoleIntr(h) PROVE ConsInv'
  BY Zenon, <1>3, ClaimStep, GetcStep, ConsoleIntrStep
<1> QED BY Zenon, <1>1, <1>2, <1>3, TypeStep, WriteStep DEF ConsNext

\* What is typed reaches consoleread() in order, an end-of-file ends one read,
\* no reader sleeps beside its input, and a write() is not torn, for any ring,
\* any width of its indices, and any number of harts, readers and writers.
THEOREM InputIsDelivered == ConsSpec => []InputDelivered
<1>1. ConsInv => InputDelivered
  <2> SUFFICES ASSUME ConsInv PROVE InputDelivered
    BY Zenon
  <2>1. seen \in Nat
    BY Zenon DEF ConsInv, OrderInv
  <2>2. KeysInOrder
    BY <2>1 DEF KeysInOrder
  <2> QED BY Zenon, <2>2 DEF ConsInv, InputDelivered, EofsReported, WritesWhole
<1> QED BY <1>1, InitConsInv, ConsStep, PTL DEF ConsSpec

-----------------------------------------------------------------------------
(* The ring as sequences.                                                  *)

Bytes == Stored \cup {NL}

LEMMA SeqLen ==
  ASSUME NEW m \in Nat, NEW f \in [1..m -> Bytes]
  PROVE  f \in Seq(Bytes) /\ Len(f) = m
  OBVIOUS

LEMMA AppendOf ==
  ASSUME NEW m \in Nat, NEW f \in [1..m -> Bytes], NEW g \in [1..(m + 1) -> Bytes],
         NEW v \in Bytes, g[m + 1] = v, \A k \in 1..m : g[k] = f[k]
  PROVE  g = Append(f, v)
<1>1. f \in Seq(Bytes) /\ Len(f) = m /\ g \in Seq(Bytes) /\ Len(g) = m + 1
  BY SeqLen
<1>2. Append(f, v) \in Seq(Bytes) /\ Len(Append(f, v)) = m + 1
  BY <1>1
<1>3. \A k \in 1..(m + 1) : Append(f, v)[k] = g[k]
  BY <1>1
<1> QED BY Zenon, <1>1, <1>2, <1>3, SeqEqual

LEMMA TailOf ==
  ASSUME NEW m \in Nat \ {0}, NEW f \in [1..m -> Bytes], NEW g \in [1..(m - 1) -> Bytes],
         \A k \in 1..(m - 1) : g[k] = f[k + 1]
  PROVE  f # <<>> /\ g = Tail(f)
<1>1. m - 1 \in Nat
  OBVIOUS
<1>2. f \in Seq(Bytes) /\ Len(f) = m /\ g \in Seq(Bytes) /\ Len(g) = m - 1
  BY Zenon, <1>1, SeqLen
<1>3. f # <<>>
  BY Zenon, <1>2, EmptySeq
<1>4. Tail(f) \in Seq(Bytes) /\ Len(Tail(f)) = m - 1 /\ \A k \in 1..(m - 1) : Tail(f)[k] = f[k + 1]
  BY Zenon, <1>2, <1>3, HeadTailProperties
<1> QED BY Zenon, <1>2, <1>3, <1>4, SeqEqual

Front(s) == SubSeq(s, 1, Len(s) - 1)

LEMMA FrontOf ==
  ASSUME NEW m \in Nat \ {0}, NEW f \in [1..m -> Bytes], NEW g \in [1..(m - 1) -> Bytes],
         \A k \in 1..(m - 1) : g[k] = f[k]
  PROVE  f # <<>> /\ g = Front(f)
<1>1. m - 1 \in Nat
  OBVIOUS
<1>2. f \in Seq(Bytes) /\ Len(f) = m /\ g \in Seq(Bytes) /\ Len(g) = m - 1
  BY Zenon, <1>1, SeqLen
<1>3. f # <<>>
  BY Zenon, <1>2, EmptySeq
<1>4. /\ Front(f) \in Seq(Bytes) /\ Len(Front(f)) = m - 1
      /\ \A k \in 1..(m - 1) : Front(f)[k] = f[k]
  BY <1>2 DEF Front
<1> QED BY Zenon, <1>2, <1>3, <1>4, SeqEqual

LEMMA ConcatOf ==
  ASSUME NEW m \in Nat, NEW n \in Nat, NEW f \in [1..m -> Bytes], NEW g \in [1..n -> Bytes],
         NEW u \in [1..(m + n) -> Bytes],
         \A k \in 1..m : u[k] = f[k], \A k \in 1..n : u[m + k] = g[k]
  PROVE  u = f \o g
<1>1. /\ f \in Seq(Bytes) /\ Len(f) = m /\ g \in Seq(Bytes) /\ Len(g) = n
      /\ u \in Seq(Bytes) /\ Len(u) = m + n
  BY SeqLen
<1>2. f \o g \in Seq(Bytes) /\ Len(f \o g) = m + n
  BY Zenon, <1>1, ConcatProperties
<1>3. ASSUME NEW k \in 1..(m + n) PROVE (f \o g)[k] = u[k]
  <2>1. (f \o g)[k] = IF k <= m THEN f[k] ELSE g[k - m]
    BY Zenon, <1>1, ConcatProperties
  <2>2. CASE k <= m
    BY <2>1, <2>2
  <2>3. CASE ~(k <= m)
    <3>1. k - m \in 1..n /\ m + (k - m) = k
      BY <2>3
    <3> QED BY Zenon, <2>1, <2>3, <3>1
  <2> QED BY Zenon, <2>2, <2>3
<1> QED BY Zenon, <1>1, <1>2, <1>3, SeqEqual

\* The bytes of a ring b from index i up to index j.
span(b, i, j) == [k \in 1..minus(j, i) |-> b[(i + (k - 1)) % INPUT_BUF]]
Rings == [0..(INPUT_BUF - 1) -> Bytes]

LEMMA SpanIs ==
  ASSUME NEW b \in Rings, NEW i \in 0..(UINT - 1), NEW j \in 0..(UINT - 1)
  PROVE  /\ minus(j, i) \in Nat /\ span(b, i, j) \in [1..minus(j, i) -> Bytes]
         /\ span(b, i, j) \in Seq(Bytes) /\ Len(span(b, i, j)) = minus(j, i)
<1>1. minus(j, i) \in 0..(UINT - 1)
  BY Zenon, MinusIs
<1>2. minus(j, i) \in Nat
  BY <1>1, Sizes
<1>3. ASSUME NEW k \in 1..minus(j, i) PROVE b[(i + (k - 1)) % INPUT_BUF] \in Bytes
  <2>1. i + (k - 1) \in Int
    BY <1>2
  <2>2. (i + (k - 1)) % INPUT_BUF \in 0..(INPUT_BUF - 1)
    BY <2>1, Sizes
  <2> QED BY Zenon, <2>2 DEF Rings
<1>4. span(b, i, j) \in [1..minus(j, i) -> Bytes]
  BY Zenon, <1>3 DEF span
<1> QED BY Zenon, <1>2, <1>4, SeqLen

LEMMA BetweenSpan ==
  ASSUME NEW b, NEW i \in 0..(UINT - 1), NEW j \in 0..(UINT - 1)
  PROVE  [k \in 1..minus(j, i) |-> b[plus(i, k - 1) % INPUT_BUF]] = span(b, i, j)
<1>1. minus(j, i) \in 0..(UINT - 1)
  BY Zenon, MinusIs
<1>2. ASSUME NEW k \in 1..minus(j, i)
      PROVE  plus(i, k - 1) % INPUT_BUF = (i + (k - 1)) % INPUT_BUF
  <2>1. k - 1 \in 0..UINT
    BY <1>1, Sizes
  <2> QED BY Zenon, <2>1, PlaceOn
<1> QED BY Zenon, <1>2 DEF span

LEMMA BetweenIs ==
  ASSUME ConsTypeOK
  PROVE  /\ cbuf \in Rings
         /\ cr \in 0..(UINT - 1) /\ cw \in 0..(UINT - 1) /\ ce \in 0..(UINT - 1)
         /\ between(cr, cw) = span(cbuf, cr, cw) /\ between(cw, ce) = span(cbuf, cw, ce)
<1>1. cr \in 0..(UINT - 1) /\ cw \in 0..(UINT - 1) /\ ce \in 0..(UINT - 1) /\ cbuf \in Rings
  BY Zenon DEF ConsTypeOK, Rings, Bytes
<1> QED BY Zenon, <1>1, BetweenSpan DEF between

LEMMA BetweenNext ==
  ASSUME ConsTypeOK'
  PROVE  /\ cbuf' \in Rings
         /\ cr' \in 0..(UINT - 1) /\ cw' \in 0..(UINT - 1) /\ ce' \in 0..(UINT - 1)
         /\ between(cr, cw)' = span(cbuf', cr', cw') /\ between(cw, ce)' = span(cbuf', cw', ce')
<1>1. cr' \in 0..(UINT - 1) /\ cw' \in 0..(UINT - 1) /\ ce' \in 0..(UINT - 1) /\ cbuf' \in Rings
  BY Zenon DEF ConsTypeOK, Rings, Bytes
<1>2. /\ between(cr, cw)' = [k \in 1..minus(cw', cr') |-> cbuf'[plus(cr', k - 1) % INPUT_BUF]]
      /\ between(cw, ce)' = [k \in 1..minus(ce', cw') |-> cbuf'[plus(cw', k - 1) % INPUT_BUF]]
  BY Zenon DEF between, minus, plus
<1> QED BY Zenon, <1>1, <1>2, BetweenSpan

LEMMA SpanNone ==
  ASSUME NEW b \in Rings, NEW i \in 0..(UINT - 1)
  PROVE  span(b, i, i) = <<>>
<1>1. minus(i, i) = 0
  BY Zenon, PlusOne
<1>2. span(b, i, i) \in Seq(Bytes) /\ Len(span(b, i, i)) = 0
  BY Zenon, <1>1, SpanIs
<1> QED BY Zenon, <1>2, EmptySeq

LEMMA SpanTake ==
  ASSUME NEW b \in Rings, NEW r \in 0..(UINT - 1), NEW w \in 0..(UINT - 1), r # w
  PROVE  span(b, r, w) # <<>> /\ span(b, plus(r, 1), w) = Tail(span(b, r, w))
<1> DEFINE m == minus(w, r)
           s == plus(r, 1)
<1>1. 1 \in 0..UINT
  BY Sizes
<1>2. s \in 0..(UINT - 1) /\ s % INPUT_BUF = (r + 1) % INPUT_BUF
  BY Zenon, <1>1, PlusIs, PlaceOn
<1>3. m \in Nat /\ m >= 1 /\ minus(w, s) = m - 1
  BY Zenon, PlusOne, SpanIs
<1>4. s = r + 1 \/ r + 1 = s + UINT
  <2>1. s = IF r + 1 < UINT THEN r + 1 ELSE (r + 1) - UINT
    BY Zenon, <1>1, PlusIs
  <2> HIDE DEF s
  <2> QED BY <2>1, Sizes
<1>5. span(b, r, w) \in [1..m -> Bytes] /\ span(b, s, w) \in [1..(m - 1) -> Bytes]
  BY Zenon, <1>2, <1>3, SpanIs
<1>6. ASSUME NEW k \in 1..(m - 1) PROVE span(b, s, w)[k] = span(b, r, w)[k + 1]
  <2>1. k + 1 \in 1..m /\ k \in Int
    <3> HIDE DEF m
    <3> QED BY <1>3
  <2>2. (s + (k - 1)) % INPUT_BUF = (r + ((k + 1) - 1)) % INPUT_BUF
    <3>1. s + (k - 1) \in Int /\ (r + ((k + 1) - 1) = s + (k - 1) \/ r + ((k + 1) - 1) = (s + (k - 1)) + UINT)
      <4> HIDE DEF s, m
      <4> QED BY <1>2, <1>4, <2>1, Sizes
    <3> QED BY Zenon, <3>1, PlaceWraps
  <2>3. span(b, s, w)[k] = b[(s + (k - 1)) % INPUT_BUF]
    BY Zenon, <1>3 DEF span
  <2>4. span(b, r, w)[k + 1] = b[(r + ((k + 1) - 1)) % INPUT_BUF]
    BY Zenon, <2>1 DEF span
  <2> QED BY Zenon, <2>2, <2>3, <2>4
<1>7. m \in Nat \ {0}
  <2> HIDE DEF m
  <2> QED BY <1>3
<1> HIDE DEF m, s
<1>8. span(b, r, w) # <<>> /\ span(b, s, w) = Tail(span(b, r, w))
  BY Zenon, <1>5, <1>6, <1>7, TailOf
<1> QED BY Zenon, <1>8 DEF s

LEMMA SpanErase ==
  ASSUME NEW b \in Rings, NEW w \in 0..(UINT - 1), NEW e \in 0..(UINT - 1), e # w
  PROVE  span(b, w, e) # <<>> /\ span(b, w, minus(e, 1)) = Front(span(b, w, e))
<1> DEFINE m == minus(e, w)
           d == minus(e, 1)
<1>1. m \in Nat /\ m >= 1
  BY Zenon, PlusOne, SpanIs
<1>2. m \in Nat \ {0} /\ 1 \in 0..m
  <2> HIDE DEF m
  <2> QED BY <1>1
<1>3. d \in 0..(UINT - 1) /\ minus(d, w) = m - 1
  BY Zenon, <1>2, MinusBack
<1>4. span(b, w, e) \in [1..m -> Bytes] /\ span(b, w, d) \in [1..(m - 1) -> Bytes]
  BY Zenon, <1>3, SpanIs
<1>5. ASSUME NEW k \in 1..(m - 1) PROVE span(b, w, d)[k] = span(b, w, e)[k]
  <2>1. k \in 1..m
    <3> HIDE DEF m
    <3> QED BY <1>1
  <2> QED BY Zenon, <1>3, <2>1 DEF span
<1> HIDE DEF m, d
<1>6. span(b, w, e) # <<>> /\ span(b, w, d) = Front(span(b, w, e))
  BY Zenon, <1>2, <1>4, <1>5, FrontOf
<1> QED BY Zenon, <1>6 DEF d

InOrder(b, r, w, e) ==
  /\ b \in Rings /\ r \in 0..(UINT - 1) /\ w \in 0..(UINT - 1) /\ e \in 0..(UINT - 1)
  /\ minus(e, r) = minus(w, r) + minus(e, w)
Concats(b, r, w, e) == span(b, r, e) = span(b, r, w) \o span(b, w, e)

LEMMA SpanConcat ==
  ASSUME NEW b, NEW r, NEW w, NEW e, InOrder(b, r, w, e)
  PROVE  Concats(b, r, w, e)
<1> USE DEF InOrder, Concats
<1> DEFINE m == minus(w, r)
           n == minus(e, w)
<1>1. m \in Nat /\ n \in Nat /\ minus(e, r) = m + n
  BY Zenon, SpanIs
<1>2. /\ span(b, r, w) \in [1..m -> Bytes] /\ span(b, w, e) \in [1..n -> Bytes]
      /\ span(b, r, e) \in [1..(m + n) -> Bytes]
  BY Zenon, <1>1, SpanIs
<1>3. r + m = w \/ r + m = w + UINT
  <2>1. m = IF w >= r THEN w - r ELSE (w - r) + UINT
    BY Zenon, MinusIs
  <2> HIDE DEF m
  <2> QED BY <1>1, <2>1, Sizes
<1>4. ASSUME NEW k \in 1..m PROVE span(b, r, e)[k] = span(b, r, w)[k]
  <2>1. k \in 1..(m + n)
    <3> HIDE DEF m, n
    <3> QED BY <1>1
  <2> QED BY Zenon, <1>1, <2>1 DEF span
<1>5. ASSUME NEW k \in 1..n PROVE span(b, r, e)[m + k] = span(b, w, e)[k]
  <2>1. m + k \in 1..(m + n)
    <3> HIDE DEF m, n
    <3> QED BY <1>1
  <2>2. (r + ((m + k) - 1)) % INPUT_BUF = (w + (k - 1)) % INPUT_BUF
    <3>1. w + (k - 1) \in Int /\ (r + ((m + k) - 1) = w + (k - 1) \/ r + ((m + k) - 1) = (w + (k - 1)) + UINT)
      <4> HIDE DEF m, n
      <4> QED BY <1>1, <1>3, Sizes
    <3> QED BY Zenon, <3>1, PlaceWraps
  <2>3. span(b, r, e)[m + k] = b[(r + ((m + k) - 1)) % INPUT_BUF]
    BY Zenon, <1>1, <2>1 DEF span
  <2>4. span(b, w, e)[k] = b[(w + (k - 1)) % INPUT_BUF]
    BY Zenon DEF span
  <2> QED BY Zenon, <2>2, <2>3, <2>4
<1> HIDE DEF m, n
<1> QED BY Zenon, <1>1, <1>2, <1>4, <1>5, ConcatOf

\* A byte stored at e, with room: it follows the bytes from a to e, and changes none
\* of them.
Stores(b, c, a, e, v) ==
  /\ b \in Rings /\ c \in Rings /\ a \in 0..(UINT - 1) /\ e \in 0..(UINT - 1) /\ v \in Bytes
  /\ c = [b EXCEPT ![e % INPUT_BUF] = v]
  /\ minus(e, a) < INPUT_BUF
Appends(b, c, a, e, v) ==
  /\ span(c, a, plus(e, 1)) = Append(span(b, a, e), v)
  /\ \A w \in 0..(UINT - 1) : minus(w, a) <= minus(e, a) => span(c, a, w) = span(b, a, w)
  /\ minus(plus(e, 1), a) = minus(e, a) + 1

LEMMA SpanStore ==
  ASSUME NEW b, NEW c, NEW a, NEW e, NEW v, Stores(b, c, a, e, v)
  PROVE  Appends(b, c, a, e, v)
<1> USE DEF Stores, Appends
<1> DEFINE m == minus(e, a)
           f == plus(e, 1)
<1>1. m \in 0..(UINT - 1) /\ m \in Nat /\ m < INPUT_BUF
  BY Zenon, MinusIs, SpanIs
<1>2. m < UINT - 1 /\ 1 \in 0..UINT
  <2> HIDE DEF m
  <2> QED BY <1>1, Sizes
<1>3. f \in 0..(UINT - 1) /\ minus(f, a) = m + 1
  BY Zenon, <1>2, PlusIs, PlusOne
<1>4. a + m = e \/ a + m = e + UINT
  <2>1. m = IF e >= a THEN e - a ELSE (e - a) + UINT
    BY Zenon, MinusIs
  <2> HIDE DEF m
  <2> QED BY <1>1, <2>1, Sizes
<1>5. (a + m) % INPUT_BUF = e % INPUT_BUF
  <2>1. e \in Int
    BY Sizes
  <2> HIDE DEF m
  <2> QED BY Zenon, <1>4, <2>1, PlaceWraps
<1>6. ASSUME NEW k \in 1..m
      PROVE  c[(a + (k - 1)) % INPUT_BUF] = b[(a + (k - 1)) % INPUT_BUF]
  <2>1. /\ a + (k - 1) \in Int /\ a + m \in Int /\ a + (k - 1) < a + m
        /\ a + m < (a + (k - 1)) + INPUT_BUF
    <3> HIDE DEF m
    <3> QED BY <1>1, Sizes
  <2>2. (a + (k - 1)) % INPUT_BUF # (a + m) % INPUT_BUF
    BY Zenon, <2>1, PlacesDiffer
  <2>3. (a + (k - 1)) % INPUT_BUF \in 0..(INPUT_BUF - 1)
    <3> HIDE DEF m
    <3> QED BY <2>1, Sizes
  <2> HIDE DEF m
  <2> QED BY Zenon, <1>5, <2>2, <2>3 DEF Rings
<1>7. c[e % INPUT_BUF] = v
  <2>1. e % INPUT_BUF \in 0..(INPUT_BUF - 1)
    BY Sizes
  <2> QED BY Zenon, <2>1 DEF Rings
<1>8. span(c, a, f) = Append(span(b, a, e), v)
  <2>1. span(c, a, f) \in [1..(m + 1) -> Bytes] /\ span(b, a, e) \in [1..m -> Bytes]
    BY Zenon, <1>3, SpanIs
  <2>2. ASSUME NEW k \in 1..m PROVE span(c, a, f)[k] = span(b, a, e)[k]
    <3>1. k \in 1..(m + 1)
      <4> HIDE DEF m
      <4> QED BY <1>1
    <3>2. span(c, a, f)[k] = c[(a + (k - 1)) % INPUT_BUF]
      BY Zenon, <1>3, <3>1 DEF span
    <3>3. span(b, a, e)[k] = b[(a + (k - 1)) % INPUT_BUF]
      BY Zenon DEF span
    <3> QED BY Zenon, <1>6, <3>2, <3>3
  <2>3. span(c, a, f)[m + 1] = v
    <3>1. m + 1 \in 1..(m + 1) /\ (m + 1) - 1 = m
      <4> HIDE DEF m
      <4> QED BY <1>1
    <3>2. span(c, a, f)[m + 1] = c[(a + ((m + 1) - 1)) % INPUT_BUF]
      BY Zenon, <1>3, <3>1 DEF span
    <3> HIDE DEF m, f
    <3> QED BY Zenon, <1>5, <1>7, <3>1, <3>2
  <2> HIDE DEF m, f
  <2> QED BY Zenon, <1>1, <2>1, <2>2, <2>3, AppendOf
<1>9. ASSUME NEW w \in 0..(UINT - 1), minus(w, a) <= m PROVE span(c, a, w) = span(b, a, w)
  <2>1. ASSUME NEW k \in 1..minus(w, a)
        PROVE  c[(a + (k - 1)) % INPUT_BUF] = b[(a + (k - 1)) % INPUT_BUF]
    <3>1. minus(w, a) \in Nat
      BY Zenon, SpanIs
    <3>2. k \in 1..m
      <4> HIDE DEF m, minus
      <4> QED BY <1>1, <1>9, <3>1
    <3> QED BY Zenon, <1>6, <3>2
  <2> QED BY Zenon, <2>1 DEF span
<1> QED BY Zenon, <1>3, <1>8, <1>9

LEMMA FullIs ==
  ASSUME NEW e \in 0..(UINT - 1), NEW r \in 0..(UINT - 1), minus(e, r) < INPUT_BUF
  PROVE  plus(e, 1) = plus(r, INPUT_BUF) <=> minus(e, r) + 1 = INPUT_BUF
<1>1. 1 \in 0..UINT /\ INPUT_BUF \in 0..UINT
  BY Sizes
<1>2. plus(e, 1) = IF e + 1 < UINT THEN e + 1 ELSE (e + 1) - UINT
  BY Zenon, <1>1, PlusIs
<1>3. plus(r, INPUT_BUF) = IF r + INPUT_BUF < UINT THEN r + INPUT_BUF ELSE (r + INPUT_BUF) - UINT
  BY Zenon, <1>1, PlusIs
<1>4. minus(e, r) = IF e >= r THEN e - r ELSE (e - r) + UINT
  BY Zenon, MinusIs
<1> HIDE DEF minus, plus
<1> QED BY <1>2, <1>3, <1>4, Sizes

-----------------------------------------------------------------------------
(* The steps of the console as steps of the line discipline.               *)

LineNext == Lines!Insert \/ Lines!Erase \/ Lines!KillLine \/ Lines!Take
lineVars == <<between(cr, cw), between(cw, ce)>>

StoreAct(c) ==
  /\ cbuf' = [cbuf EXCEPT ![ce % INPUT_BUF] = c] /\ ce' = plus(ce, 1) /\ cr' = cr
  /\ cw' = IF commits(c) THEN plus(ce, 1) ELSE cw

LEMMA InsertRefines ==
  ASSUME ConsInv, ConsInv', NEW c \in Bytes, hasRoom, StoreAct(c)
  PROVE  Lines!Insert
<1> DEFINE R == span(cbuf, cr, cw)
           E == span(cbuf, cw, ce)
           f == plus(ce, 1)
<1>a. ConsTypeOK /\ ConsTypeOK' /\ IndicesOrdered
  BY Zenon DEF ConsInv
<1>b. /\ cbuf \in Rings /\ cr \in 0..(UINT - 1) /\ cw \in 0..(UINT - 1) /\ ce \in 0..(UINT - 1)
      /\ between(cr, cw) = R /\ between(cw, ce) = E
  BY Zenon, <1>a, BetweenIs
<1>c. /\ cbuf' \in Rings /\ f \in 0..(UINT - 1)
      /\ between(cr, cw)' = span(cbuf', cr, cw') /\ between(cw, ce)' = span(cbuf', cw', f)
  BY Zenon, <1>a, BetweenNext DEF StoreAct
<1>d. /\ Len(R) = minus(cw, cr) /\ Len(E) = minus(ce, cw)
      /\ minus(cw, cr) \in Nat /\ minus(ce, cw) \in Nat
  BY Zenon, <1>b, SpanIs
<1>e. /\ minus(ce, cr) = minus(cw, cr) + minus(ce, cw) /\ minus(ce, cr) < INPUT_BUF
      /\ minus(cw, cr) <= minus(ce, cr)
  BY Zenon, <1>a, <1>b, Ordered DEF IndicesOrdered, hasRoom
<1>f. Stores(cbuf, cbuf', cr, ce, c) /\ Stores(cbuf, cbuf', cw, ce, c)
  <2>1. minus(ce, cw) < INPUT_BUF
    <3> HIDE DEF minus
    <3> QED BY <1>d, <1>e, Sizes
  <2> QED BY Zenon, <1>b, <1>c, <1>e, <2>1 DEF Stores, StoreAct
<1>o. Appends(cbuf, cbuf', cr, ce, c) /\ Appends(cbuf, cbuf', cw, ce, c)
  BY Zenon, <1>f, SpanStore
<1>g. span(cbuf', cr, cw) = R /\ minus(f, cr) = minus(ce, cr) + 1
  BY Zenon, <1>b, <1>e, <1>o DEF Appends
<1>h. span(cbuf', cw, f) = Append(E, c) /\ minus(f, cw) = minus(ce, cw) + 1
  BY Zenon, <1>o DEF Appends
<1>i. InOrder(cbuf', cr, cw, f)
  <2>1. minus(f, cr) = minus(cw, cr) + minus(f, cw)
    <3> HIDE DEF minus, f
    <3> QED BY <1>d, <1>e, <1>g, <1>h
  <2> QED BY Zenon, <1>b, <1>c, <2>1 DEF InOrder
<1>j. span(cbuf', cr, f) = R \o Append(E, c)
  <2>1. Concats(cbuf', cr, cw, f)
    BY Zenon, <1>i, SpanConcat
  <2> HIDE DEF f, R, E
  <2> QED BY Zenon, <1>g, <1>h, <2>1 DEF Concats
<1>k. span(cbuf', f, f) = <<>>
  BY Zenon, <1>c, SpanNone
<1>l. Len(R) + Len(E) < INPUT_BUF
  BY Zenon, <1>d, <1>e
<1>m. commits(c) <=> (c \in {NL, EOF} \/ Len(R) + Len(E) + 1 = INPUT_BUF)
  BY Zenon, <1>b, <1>d, <1>e, FullIs DEF commits
<1>n. c \in (Stored \ {NL, EOF}) \cup {NL, EOF}
  BY Zenon DEF Bytes
<1> HIDE DEF R, E, f
<1>1. CASE commits(c)
  <2>1. between(cr, cw)' = R \o Append(E, c) /\ between(cw, ce)' = <<>>
    BY Zenon, <1>1, <1>c, <1>j, <1>k DEF f, StoreAct
  <2> QED BY Zenon, <1>1, <1>b, <1>l, <1>m, <1>n, <2>1 DEF Lines!Insert
<1>2. CASE ~commits(c)
  <2>1. between(cr, cw)' = R /\ between(cw, ce)' = Append(E, c)
    BY Zenon, <1>2, <1>c, <1>g, <1>h DEF f, StoreAct
  <2> QED BY Zenon, <1>2, <1>b, <1>l, <1>m, <1>n, <2>1 DEF Lines!Insert
<1> QED BY Zenon, <1>1, <1>2

LEMMA EraseRefines ==
  ASSUME ConsInv, ConsInv', cbuf' = cbuf, cr' = cr, cw' = cw, ce' \in {killLine, backspace}
  PROVE  LineNext \/ UNCHANGED lineVars
<1> DEFINE R == span(cbuf, cr, cw)
           E == span(cbuf, cw, ce)
<1>a. ConsTypeOK /\ ConsTypeOK' /\ EditInv
  BY Zenon DEF ConsInv
<1>b. /\ cbuf \in Rings /\ cr \in 0..(UINT - 1) /\ cw \in 0..(UINT - 1) /\ ce \in 0..(UINT - 1)
      /\ between(cr, cw) = R /\ between(cw, ce) = E
  BY Zenon, <1>a, BetweenIs
<1>c. between(cr, cw)' = R /\ between(cw, ce)' = span(cbuf, cw, ce')
  BY Zenon, <1>a, BetweenNext
<1>d. /\ killLine = cw /\ (ce = cw => backspace = ce) /\ (ce # cw => backspace = minus(ce, 1))
      /\ ce' = killLine \/ ce' = backspace
  <2>1. backspace = IF ce = cw THEN ce ELSE minus(ce, 1)
    BY Zenon, <1>a, Erasing
  <2> QED BY Zenon, <1>a, <2>1, Erasing
<1>1. CASE ce = cw
  <2>1. ce' = ce
    BY Zenon, <1>d, <1>1
  <2> QED BY Zenon, <1>b, <1>c, <2>1 DEF lineVars
<1>2. CASE ce # cw
  <2>1. E # <<>> /\ span(cbuf, cw, minus(ce, 1)) = Front(E) /\ span(cbuf, cw, cw) = <<>>
    BY Zenon, <1>b, <1>2, SpanErase, SpanNone
  <2>2. ce' = cw \/ ce' = minus(ce, 1)
    BY Zenon, <1>d, <1>2
  <2> HIDE DEF R, E
  <2>3. CASE ce' = cw
    BY Zenon, <1>b, <1>c, <2>1, <2>3 DEF Lines!KillLine, LineNext
  <2>4. CASE ce' = minus(ce, 1)
    <3>1. between(cw, ce)' = Front(E)
      BY Zenon, <1>c, <2>1, <2>4
    <3> QED BY Zenon, <1>b, <1>c, <2>1, <3>1 DEF Lines!Erase, LineNext, Front
  <2> QED BY Zenon, <2>2, <2>3, <2>4
<1> QED BY Zenon, <1>1, <1>2

LEMMA TakeRefines ==
  ASSUME ConsInv, ConsInv', cbuf' = cbuf, cw' = cw, ce' = ce, cr # cw, cr' = plus(cr, 1)
  PROVE  Lines!Take
<1> DEFINE R == span(cbuf, cr, cw)
           E == span(cbuf, cw, ce)
<1>a. ConsTypeOK /\ ConsTypeOK'
  BY Zenon DEF ConsInv
<1>b. /\ cbuf \in Rings /\ cr \in 0..(UINT - 1) /\ cw \in 0..(UINT - 1)
      /\ between(cr, cw) = R /\ between(cw, ce) = E
  BY Zenon, <1>a, BetweenIs
<1>c. between(cr, cw)' = span(cbuf, plus(cr, 1), cw) /\ between(cw, ce)' = E
  BY Zenon, <1>a, BetweenNext
<1>d. R # <<>> /\ span(cbuf, plus(cr, 1), cw) = Tail(R)
  BY Zenon, <1>b, SpanTake
<1> HIDE DEF R, E
<1> QED BY Zenon, <1>b, <1>c, <1>d DEF Lines!Take

LEMMA LineFrame ==
  ASSUME UNCHANGED inputVars
  PROVE  UNCHANGED lineVars
BY Zenon DEF inputVars, lineVars, between, minus, plus

LEMMA IntrRefines ==
  ASSUME ConsInv, ConsInv', NEW h \in Cpus, ConsoleIntr(h)
  PROVE  LineNext \/ UNCHANGED lineVars
<1> DEFINE c == cpu[h].c
<1>c. c \in Keys \cup {NL}
  BY Zenon DEF ConsInv, ConsTypeOK, CpuStates
<1>1. CASE c = DUMP
  <2>1. UNCHANGED inputVars
    BY <1>1 DEF ConsoleIntr, KILL, BS, DUMP
  <2> QED BY Zenon, <2>1, LineFrame
<1>2. CASE c \in {KILL, BS}
  <2>1. UNCHANGED <<cbuf, cr, cw>> /\ ce' \in {killLine, backspace}
    BY <1>2 DEF ConsoleIntr, KILL, BS, DUMP
  <2> QED BY Zenon, <2>1, EraseRefines
<1>3. CASE c \notin {DUMP, KILL, BS} /\ ~hasRoom
  <2>1. UNCHANGED inputVars
    BY <1>3 DEF ConsoleIntr
  <2> QED BY Zenon, <2>1, LineFrame
<1>4. CASE c \notin {DUMP, KILL, BS} /\ hasRoom
  <2>1. /\ cbuf' = [cbuf EXCEPT ![ce % INPUT_BUF] = c] /\ ce' = plus(ce, 1) /\ cr' = cr
        /\ cw' = IF commits(c) THEN plus(ce, 1) ELSE cw
    BY <1>4 DEF ConsoleIntr
  <2>2. c \in Bytes
    BY Zenon, <1>c, <1>4 DEF Stored, Bytes
  <2> HIDE DEF c
  <2> QED BY Zenon, <1>4, <2>1, <2>2, InsertRefines DEF LineNext, StoreAct
<1> QED BY Zenon, <1>1, <1>2, <1>3, <1>4

LEMMA ConsStepRefines ==
  ASSUME ConsInv, ConsInv', [ConsNext]_consVars
  PROVE  LineNext \/ UNCHANGED lineVars
<1>1. CASE \E h \in Cpus : ConsoleIntr(h)
  BY Zenon, <1>1, IntrRefines
<1>2. CASE \E p \in Readers : ReadByte(p) \/ ReadEof(p)
  <2>1. PICK p \in Readers : ReadByte(p) \/ ReadEof(p)
    BY Zenon, <1>2
  <2>2. /\ cr # cw /\ UNCHANGED <<cbuf, cw, ce>>
        /\ cr' = plus(cr, 1) \/ cr' = cr
    BY Zenon, <2>1 DEF ReadByte, ReadEof
  <2>3. CASE cr' = plus(cr, 1)
    BY Zenon, <2>2, <2>3, TakeRefines DEF LineNext
  <2>4. CASE cr' = cr
    BY Zenon, <2>2, <2>4, LineFrame DEF inputVars
  <2> QED BY Zenon, <2>2, <2>3, <2>4
<1>3. CASE UNCHANGED inputVars
  BY Zenon, <1>3, LineFrame
<1>4. \/ \E h \in Cpus : ConsoleIntr(h)
      \/ \E p \in Readers : ReadByte(p) \/ ReadEof(p)
      \/ UNCHANGED inputVars
  <2>1. CASE UNCHANGED consVars
    BY Zenon, <2>1 DEF consVars, inputVars
  <2>2. CASE Type \/ \E h \in Cpus : Claim(h) \/ Getc(h) \/ ConsoleIntr(h)
    BY Zenon, <2>2 DEF Type, Claim, Getc
  <2>3. CASE \E p \in Readers : \/ ReadCall(p) \/ ReadAcquire(p) \/ ReadEmpty(p) \/ ReadEof(p)
                                \/ ReadByte(p) \/ ReadDone(p) \/ KillReader(p)
    BY Zenon, <2>3 DEF ReadCall, ReadAcquire, ReadEmpty, ReadDone, KillReader
  <2>4. CASE \E p \in Writers : WriteByte(p) \/ WriteBad(p)
    BY Zenon, <2>4 DEF WriteByte, WriteBad
  <2> QED BY Zenon, <2>1, <2>2, <2>3, <2>4 DEF ConsNext
<1> QED BY Zenon, <1>1, <1>2, <1>3, <1>4

\* cons.buf with its three wrapping indices implements the line discipline: what
\* readers take is what was committed, in order and once, editing stays within
\* the line, and a full ring is handed over (console.c:92-187).
THEOREM ConsoleIsLineInput == ConsSpec => ConsRefines
<1>1. ConsInit => Lines!LineInit
  <2> SUFFICES ASSUME ConsInit PROVE Lines!LineInit
    BY Zenon
  <2>1. ConsTypeOK
    BY Zenon, InitConsInv DEF ConsInv
  <2>2. cr = 0 /\ cw = 0 /\ ce = 0
    BY Zenon DEF ConsInit
  <2>3. span(cbuf, cr, cr) = <<>>
    BY Zenon, <2>1, BetweenIs, SpanNone
  <2>4. between(cr, cw) = <<>> /\ between(cw, ce) = <<>>
    BY Zenon, <2>1, <2>2, <2>3, BetweenIs
  <2> QED BY Zenon, <2>4 DEF Lines!LineInit
<1>2. ConsInv /\ ConsInv' /\ [ConsNext]_consVars
        => [Lines!Insert \/ Lines!Erase \/ Lines!KillLine \/ Lines!Take]_<<between(cr, cw), between(cw, ce)>>
  BY Zenon, ConsStepRefines DEF LineNext, lineVars
<1>3. ConsInv /\ [ConsNext]_consVars => ConsInv'
  BY Zenon, ConsStep
<1> QED BY <1>1, <1>2, <1>3, InitConsInv, PTL DEF ConsSpec, ConsRefines, Lines!LineSpec
=============================================================================
