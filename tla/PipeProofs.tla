------------------------------ MODULE PipeProofs ----------------------------
(***************************************************************************)
(* PipeInv is an inductive invariant of Pipe, for any number of readers    *)
(* and writers and any size of the ring, and the promises of pipe.c that   *)
(* follow from it; and the ring implements the byte stream of ByteStream.  *)
(***************************************************************************)
EXTENDS Pipe, SequenceTheorems, TLAPS

NoKills == \A p \in Procs : ~killed[p]

\* The counters stay below UINT.
LEMMA CounterWraps ==
  ASSUME NEW x \in 0..(UINT - 1)
  PROVE  (x + 1) % UINT \in 0..(UINT - 1) /\ (x + 1) % UINT # x
<1>1. UINT \in Nat /\ UINT >= 2
  BY PipeAssumption
<1>2. CASE x = UINT - 1
  BY <1>1, <1>2
<1>3. CASE x < UINT - 1
  BY <1>1, <1>3
<1> QED BY <1>1, <1>2, <1>3

LEMMA InitPipeInv == Init => PipeInv
<1> SUFFICES ASSUME Init PROVE PipeInv
  BY Zenon
<1>1. data \in [0..(PIPESIZE - 1) -> Bytes]
  <2> DEFINE v0 == CHOOSE v \in Bytes : TRUE
  <2>1. v0 \in Bytes
    BY PipeAssumption, Zenon
  <2>2. data = [k \in 0..(PIPESIZE - 1) |-> v0]
    BY Zenon DEF Init
  <2> HIDE DEF v0
  <2> QED BY Zenon, <2>1, <2>2
<1>2. 0 \in 0..(UINT - 1)
  BY PipeAssumption
<1>3. rd \subseteq Procs /\ wr \subseteq Procs /\ rd # {} /\ wr # {}
  BY Zenon DEF Init
<1>4. /\ nread = 0 /\ nwrite = 0 /\ lock = NoProc
      /\ readopen = TRUE /\ writeopen = TRUE /\ freed = FALSE
      /\ pc = [p \in Procs |-> "idle"] /\ killed = [p \in Procs |-> FALSE]
      /\ n = [p \in Procs |-> 0] /\ i = [p \in Procs |-> 0] /\ ret = [p \in Procs |-> 0]
  BY Zenon DEF Init
<1>5. TypeOK
  <2>1. pc \in [Procs -> PCs] /\ killed \in [Procs -> BOOLEAN]
    BY Zenon, <1>4 DEF PCs
  <2>2. n \in [Procs -> Nat] /\ i \in [Procs -> Nat] /\ ret \in [Procs -> Int]
    BY <1>4
  <2>3. readopen \in BOOLEAN /\ writeopen \in BOOLEAN /\ freed \in BOOLEAN
    BY Zenon, <1>4
  <2>4. lock \in Procs \cup {NoProc} /\ nread \in 0..(UINT - 1) /\ nwrite \in 0..(UINT - 1)
    BY Zenon, <1>2, <1>4
  <2> QED BY Zenon, <1>1, <1>3, <2>1, <2>2, <2>3, <2>4 DEF TypeOK
<1>7. LockInv /\ EofInv
  BY Zenon, <1>4, PipeAssumption DEF LockInv, Locked, EofInv, At
<1>6. EndsInv /\ SleepInv
  BY Zenon, <1>3, <1>4 DEF EndsInv, SleepInv, At
<1> QED BY Zenon, <1>5, <1>6, <1>7 DEF PipeInv

\* wakeup() changes the location of sleepers only.
LEMMA WakeupLocations ==
  ASSUME NEW l \in {"rsleep", "wsleep"}, NEW p \in Procs
  PROVE  /\ Wakeup(pc, l)[p] # l
         /\ pc[p] # l => Wakeup(pc, l)[p] = pc[p]
         /\ pc[p] = l => Wakeup(pc, l)[p] = IF l = "wsleep" THEN "wlock" ELSE "rlock"
         /\ TypeOK => Wakeup(pc, l) \in [Procs -> PCs]
  BY Zenon DEF Wakeup, TypeOK, PCs
LEMMA AcquireStep ==
  ASSUME PipeInv, NEW p \in Procs, Acquire(p)
  PROVE  PipeInv'
<1> USE PipeAssumption DEF Acquire, Goto, At, ring, ends
<1>1. TypeOK'
  BY Zenon DEF PipeInv, TypeOK, PCs
<1>2. LockInv'
  BY Zenon DEF PipeInv, TypeOK, LockInv, Locked
<1>3. EndsInv'
  BY Zenon DEF PipeInv, TypeOK, EndsInv
<1>4. EofInv'
  BY Zenon DEF PipeInv, TypeOK, LockInv, Locked, EndsInv, EofInv, Empty
<1>5. ASSUME \A q \in Procs : ~killed'[q] PROVE SleepInv'
  BY Zenon, <1>5 DEF PipeInv, TypeOK, LockInv, Locked, EndsInv, SleepInv, Empty, Full
<1> QED BY Zenon, <1>1, <1>2, <1>3, <1>4, <1>5 DEF PipeInv

LEMMA SleepStep ==
  ASSUME PipeInv, NEW p \in Procs, Sleep(p)
  PROVE  PipeInv'
<1> USE PipeAssumption DEF Sleep, Goto, At, ring, ends
<1>1. TypeOK'
  BY Zenon DEF PipeInv, TypeOK, PCs
<1>2. LockInv'
  BY Zenon DEF PipeInv, TypeOK, LockInv, Locked
<1>3. EndsInv'
  BY Zenon DEF PipeInv, TypeOK, EndsInv
<1>4. EofInv'
  BY Zenon DEF PipeInv, TypeOK, LockInv, Locked, EndsInv, EofInv, Empty
<1>5. ASSUME \A q \in Procs : ~killed'[q] PROVE SleepInv'
  BY Zenon, <1>5 DEF PipeInv, TypeOK, LockInv, Locked, EndsInv, SleepInv, Empty, Full
<1> QED BY Zenon, <1>1, <1>2, <1>3, <1>4, <1>5 DEF PipeInv

LEMMA WriteFailStep ==
  ASSUME PipeInv, NEW p \in Procs, WriteFail(p)
  PROVE  PipeInv'
<1> USE PipeAssumption DEF WriteFail, Return, At, ring, ends
<1>1. TypeOK'
  <2>1. pc' \in [Procs -> PCs]
    BY Zenon DEF PipeInv, TypeOK, PCs
  <2>2. n' \in [Procs -> Nat] /\ i' \in [Procs -> Nat]
    BY Zenon DEF PipeInv, TypeOK
  <2>3. ret' \in [Procs -> Int]
    BY DEF PipeInv, TypeOK
  <2> QED BY Zenon, <2>1, <2>2, <2>3 DEF PipeInv, TypeOK
<1>2. LockInv'
  BY Zenon DEF PipeInv, TypeOK, LockInv, Locked
<1>3. EndsInv'
  BY Zenon DEF PipeInv, TypeOK, EndsInv
<1>4. EofInv'
  BY Zenon DEF PipeInv, TypeOK, LockInv, Locked, EndsInv, EofInv, Empty
<1>5. ASSUME \A q \in Procs : ~killed'[q] PROVE SleepInv'
  BY Zenon, <1>5 DEF PipeInv, TypeOK, LockInv, Locked, EndsInv, SleepInv, Empty, Full
<1> QED BY Zenon, <1>1, <1>2, <1>3, <1>4, <1>5 DEF PipeInv

LEMMA WriteFullStep ==
  ASSUME PipeInv, NEW p \in Procs, WriteFull(p)
  PROVE  PipeInv'
<1> USE PipeAssumption DEF WriteFull, At, ring, ends, Wakeup
<1>1. TypeOK'
  BY Zenon DEF PipeInv, TypeOK, PCs
<1>2. LockInv'
  BY Zenon DEF PipeInv, TypeOK, LockInv, Locked
<1>3. EndsInv'
  BY Zenon DEF PipeInv, TypeOK, EndsInv
<1>4. EofInv'
  BY Zenon DEF PipeInv, TypeOK, LockInv, Locked, EndsInv, EofInv, Empty
<1>5. ASSUME \A q \in Procs : ~killed'[q] PROVE SleepInv'
  BY Zenon, <1>5 DEF PipeInv, TypeOK, LockInv, Locked, EndsInv, SleepInv, Empty, Full
<1> QED BY Zenon, <1>1, <1>2, <1>3, <1>4, <1>5 DEF PipeInv

LEMMA WriteDoneStep ==
  ASSUME PipeInv, NEW p \in Procs, WriteDone(p)
  PROVE  PipeInv'
<1> USE PipeAssumption DEF WriteDone, Return, At, ring, ends, Wakeup
<1>1. TypeOK'
  <2>1. pc' \in [Procs -> PCs]
    BY Zenon DEF PipeInv, TypeOK, PCs
  <2>2. n' \in [Procs -> Nat] /\ i' \in [Procs -> Nat]
    BY Zenon DEF PipeInv, TypeOK
  <2>3. ret' \in [Procs -> Int]
    BY DEF PipeInv, TypeOK
  <2> QED BY Zenon, <2>1, <2>2, <2>3 DEF PipeInv, TypeOK
<1>2. LockInv'
  BY Zenon DEF PipeInv, TypeOK, LockInv, Locked
<1>3. EndsInv'
  BY Zenon DEF PipeInv, TypeOK, EndsInv
<1>4. EofInv'
  BY Zenon DEF PipeInv, TypeOK, LockInv, Locked, EndsInv, EofInv, Empty
<1>5. ASSUME \A q \in Procs : ~killed'[q] PROVE SleepInv'
  BY Zenon, <1>5 DEF PipeInv, TypeOK, LockInv, Locked, EndsInv, SleepInv, Empty, Full
<1> QED BY Zenon, <1>1, <1>2, <1>3, <1>4, <1>5 DEF PipeInv

LEMMA ReadFailStep ==
  ASSUME PipeInv, NEW p \in Procs, ReadFail(p)
  PROVE  PipeInv'
<1> USE PipeAssumption DEF ReadFail, Return, At, ring, ends
<1>1. TypeOK'
  <2>1. pc' \in [Procs -> PCs]
    BY Zenon DEF PipeInv, TypeOK, PCs
  <2>2. n' \in [Procs -> Nat] /\ i' \in [Procs -> Nat]
    BY Zenon DEF PipeInv, TypeOK
  <2>3. ret' \in [Procs -> Int]
    BY DEF PipeInv, TypeOK
  <2> QED BY Zenon, <2>1, <2>2, <2>3 DEF PipeInv, TypeOK
<1>2. LockInv'
  BY Zenon DEF PipeInv, TypeOK, LockInv, Locked
<1>3. EndsInv'
  BY Zenon DEF PipeInv, TypeOK, EndsInv
<1>4. EofInv'
  BY DEF PipeInv, TypeOK, LockInv, Locked, EndsInv, EofInv, Empty
<1>5. ASSUME \A q \in Procs : ~killed'[q] PROVE SleepInv'
  BY Zenon, <1>5 DEF PipeInv, TypeOK, LockInv, Locked, EndsInv, SleepInv, Empty, Full
<1> QED BY Zenon, <1>1, <1>2, <1>3, <1>4, <1>5 DEF PipeInv

LEMMA ReadEmptyStep ==
  ASSUME PipeInv, NEW p \in Procs, ReadEmpty(p)
  PROVE  PipeInv'
<1> USE PipeAssumption DEF ReadEmpty, Goto, At, ring, ends
<1>1. TypeOK'
  BY Zenon DEF PipeInv, TypeOK, PCs
<1>2. LockInv'
  BY Zenon DEF PipeInv, TypeOK, LockInv, Locked
<1>3. EndsInv'
  BY Zenon DEF PipeInv, TypeOK, EndsInv
<1>4. EofInv'
  BY Zenon DEF PipeInv, TypeOK, LockInv, Locked, EndsInv, EofInv, Empty
<1>5. ASSUME \A q \in Procs : ~killed'[q] PROVE SleepInv'
  BY Zenon, <1>5 DEF PipeInv, TypeOK, LockInv, Locked, EndsInv, SleepInv, Empty, Full
<1> QED BY Zenon, <1>1, <1>2, <1>3, <1>4, <1>5 DEF PipeInv

LEMMA ReadStartStep ==
  ASSUME PipeInv, NEW p \in Procs, ReadStart(p)
  PROVE  PipeInv'
<1> USE PipeAssumption DEF ReadStart, Goto, At, ring, ends
<1>1. TypeOK'
  BY Zenon DEF PipeInv, TypeOK, PCs
<1>2. LockInv'
  BY Zenon DEF PipeInv, TypeOK, LockInv, Locked
<1>3. EndsInv'
  BY Zenon DEF PipeInv, TypeOK, EndsInv
<1>4. EofInv'
  BY Zenon DEF PipeInv, TypeOK, LockInv, Locked, EndsInv, EofInv, Empty
<1>5. ASSUME \A q \in Procs : ~killed'[q] PROVE SleepInv'
  BY Zenon, <1>5 DEF PipeInv, TypeOK, LockInv, Locked, EndsInv, SleepInv, Empty, Full
<1> QED BY Zenon, <1>1, <1>2, <1>3, <1>4, <1>5 DEF PipeInv

LEMMA ReadByteStep ==
  ASSUME PipeInv, NEW p \in Procs, ReadByte(p)
  PROVE  PipeInv'
<1> USE PipeAssumption DEF ReadByte, At, ends
<1>1. TypeOK'
  <2>1. pc' \in [Procs -> PCs]
    BY Zenon DEF PipeInv, TypeOK, PCs
  <2>2. n' \in [Procs -> Nat] /\ i' \in [Procs -> Nat]
    BY DEF PipeInv, TypeOK
  <2>3. ret' \in [Procs -> Int]
    BY Zenon DEF PipeInv, TypeOK
  <2>4. nread' \in 0..(UINT - 1)
    BY Zenon, CounterWraps DEF PipeInv, TypeOK
  <2> QED BY Zenon, <2>1, <2>2, <2>3, <2>4 DEF PipeInv, TypeOK
<1>2. LockInv'
  BY Zenon DEF PipeInv, TypeOK, LockInv, Locked
<1>3. EndsInv'
  BY Zenon DEF PipeInv, TypeOK, EndsInv
<1>4. EofInv'
  BY DEF PipeInv, TypeOK, LockInv, Locked, EndsInv, EofInv, Empty
<1>5. ASSUME \A q \in Procs : ~killed'[q] PROVE SleepInv'
  BY Zenon, <1>5 DEF PipeInv, TypeOK, LockInv, Locked, EndsInv, SleepInv, Empty, Full
<1> QED BY Zenon, <1>1, <1>2, <1>3, <1>4, <1>5 DEF PipeInv

LEMMA ReadBadStep ==
  ASSUME PipeInv, NEW p \in Procs, ReadBad(p)
  PROVE  PipeInv'
<1> USE PipeAssumption DEF ReadBad, Return, At, ends, Wakeup
<1>1. TypeOK'
  <2>1. pc' \in [Procs -> PCs]
    BY Zenon DEF PipeInv, TypeOK, PCs
  <2>2. n' \in [Procs -> Nat] /\ i' \in [Procs -> Nat]
    BY Zenon DEF PipeInv, TypeOK
  <2>3. ret' \in [Procs -> Int]
    BY DEF PipeInv, TypeOK
  <2>4. nread' \in 0..(UINT - 1)
    BY Zenon, CounterWraps DEF PipeInv, TypeOK
  <2> QED BY Zenon, <2>1, <2>2, <2>3, <2>4 DEF PipeInv, TypeOK
<1>2. LockInv'
  BY Zenon DEF PipeInv, TypeOK, LockInv, Locked
<1>3. EndsInv'
  BY Zenon DEF PipeInv, TypeOK, EndsInv
<1>4. EofInv'
  BY Zenon DEF PipeInv, TypeOK, LockInv, Locked, EndsInv, EofInv, Empty
<1>5. ASSUME \A q \in Procs : ~killed'[q] PROVE SleepInv'
  BY Zenon, <1>5 DEF PipeInv, TypeOK, LockInv, Locked, EndsInv, SleepInv, Empty, Full
<1> QED BY Zenon, <1>1, <1>2, <1>3, <1>4, <1>5 DEF PipeInv

LEMMA ReadDoneStep ==
  ASSUME PipeInv, NEW p \in Procs, ReadDone(p)
  PROVE  PipeInv'
<1> USE PipeAssumption DEF ReadDone, Return, At, ring, ends, Wakeup
<1>1. TypeOK'
  <2>1. pc' \in [Procs -> PCs]
    BY Zenon DEF PipeInv, TypeOK, PCs
  <2>2. n' \in [Procs -> Nat] /\ i' \in [Procs -> Nat]
    BY Zenon DEF PipeInv, TypeOK
  <2>3. ret' \in [Procs -> Int]
    BY DEF PipeInv, TypeOK
  <2> QED BY Zenon, <2>1, <2>2, <2>3 DEF PipeInv, TypeOK
<1>2. LockInv'
  BY Zenon DEF PipeInv, TypeOK, LockInv, Locked
<1>3. EndsInv'
  BY Zenon DEF PipeInv, TypeOK, EndsInv
<1>4. EofInv'
  BY Zenon DEF PipeInv, TypeOK, LockInv, Locked, EndsInv, EofInv, Empty
<1>5. ASSUME \A q \in Procs : ~killed'[q] PROVE SleepInv'
  BY Zenon, <1>5 DEF PipeInv, TypeOK, LockInv, Locked, EndsInv, SleepInv, Empty, Full
<1> QED BY Zenon, <1>1, <1>2, <1>3, <1>4, <1>5 DEF PipeInv

LEMMA CloseWriteStep ==
  ASSUME PipeInv, NEW p \in Procs, CloseWrite(p)
  PROVE  PipeInv'
<1> USE PipeAssumption DEF CloseWrite, PipeFree, At, ring, Wakeup
<1>1. TypeOK'
  BY Zenon DEF PipeInv, TypeOK, PCs
<1>2. LockInv'
  BY Zenon DEF PipeInv, TypeOK, LockInv, Locked
<1>3. EndsInv'
  BY Zenon DEF PipeInv, TypeOK, EndsInv
<1>4. EofInv'
  BY Zenon DEF PipeInv, TypeOK, LockInv, Locked, EndsInv, EofInv, Empty
<1>5. ASSUME \A q \in Procs : ~killed'[q] PROVE SleepInv'
  BY Zenon, <1>5 DEF PipeInv, TypeOK, LockInv, Locked, EndsInv, SleepInv, Empty, Full
<1> QED BY Zenon, <1>1, <1>2, <1>3, <1>4, <1>5 DEF PipeInv

LEMMA CloseReadStep ==
  ASSUME PipeInv, NEW p \in Procs, CloseRead(p)
  PROVE  PipeInv'
<1> USE PipeAssumption DEF CloseRead, PipeFree, At, ring, Wakeup
<1>1. TypeOK'
  BY Zenon DEF PipeInv, TypeOK, PCs
<1>2. LockInv'
  BY Zenon DEF PipeInv, TypeOK, LockInv, Locked
<1>3. EndsInv'
  BY Zenon DEF PipeInv, TypeOK, EndsInv
<1>4. EofInv'
  BY Zenon DEF PipeInv, TypeOK, LockInv, Locked, EndsInv, EofInv, Empty
<1>5. ASSUME \A q \in Procs : ~killed'[q] PROVE SleepInv'
  BY Zenon, <1>5 DEF PipeInv, TypeOK, LockInv, Locked, EndsInv, SleepInv, Empty, Full
<1> QED BY Zenon, <1>1, <1>2, <1>3, <1>4, <1>5 DEF PipeInv
LEMMA WriteByteStep ==
  ASSUME PipeInv, NEW p \in Procs, NEW v \in Bytes, WriteByte(p, v)
  PROVE  PipeInv'
<1> USE PipeAssumption DEF WriteByte, At, ends
<1>1. TypeOK'
  <2>1. data' \in [0..(PIPESIZE - 1) -> Bytes]
    BY Zenon DEF PipeInv, TypeOK
  <2>2. nwrite' \in 0..(UINT - 1)
    BY Zenon, CounterWraps DEF PipeInv, TypeOK
  <2>3. i' \in [Procs -> Nat]
    BY DEF PipeInv, TypeOK
  <2> QED BY Zenon, <2>1, <2>2, <2>3 DEF PipeInv, TypeOK
<1>2. LockInv'
  BY Zenon DEF PipeInv, TypeOK, LockInv, Locked
<1>3. EndsInv'
  BY Zenon DEF PipeInv, TypeOK, EndsInv
<1>4. EofInv'
  BY Zenon DEF PipeInv, TypeOK, LockInv, Locked, EndsInv, EofInv, Empty
<1>5. ASSUME \A q \in Procs : ~killed'[q] PROVE SleepInv'
  BY Zenon, <1>5 DEF PipeInv, TypeOK, LockInv, Locked, EndsInv, SleepInv, Empty, Full
<1> QED BY Zenon, <1>1, <1>2, <1>3, <1>4, <1>5 DEF PipeInv

LEMMA CallStep ==
  ASSUME PipeInv, NEW p \in Procs, NEW l \in {"rlock", "wlock"}, NEW len \in 0..MaxN,
         Call(p, l, len)
  PROVE  PipeInv'
<1> USE PipeAssumption DEF Call, Goto, At, ring, ends
<1>1. TypeOK'
  <2>1. len \in Nat
    OBVIOUS
  <2>2. n' \in [Procs -> Nat] /\ ret' \in [Procs -> Int]
    BY <2>1 DEF PipeInv, TypeOK
  <2>3. pc' \in [Procs -> PCs]
    BY Zenon DEF PipeInv, TypeOK, PCs
  <2> QED BY Zenon, <2>2, <2>3 DEF PipeInv, TypeOK
<1>2. LockInv'
  BY Zenon DEF PipeInv, TypeOK, LockInv, Locked
<1>3. EndsInv'
  BY Zenon DEF PipeInv, TypeOK, EndsInv
<1>4. EofInv'
  BY Zenon DEF PipeInv, TypeOK, LockInv, Locked, EndsInv, EofInv, Empty
<1>5. ASSUME \A q \in Procs : ~killed'[q] PROVE SleepInv'
  BY Zenon, <1>5 DEF PipeInv, TypeOK, LockInv, Locked, EndsInv, SleepInv, Empty, Full
<1> QED BY Zenon, <1>1, <1>2, <1>3, <1>4, <1>5 DEF PipeInv

\* kill() only moves a sleeper to where it reacquires the lock; who sleeps is
\* no longer promised.
LEMMA KillStep ==
  ASSUME PipeInv, NEW p \in Procs, Kill(p)
  PROVE  PipeInv'
<1> USE PipeAssumption DEF Kill, Goto, At, ring, ends
<1>1. TypeOK'
  BY Zenon DEF PipeInv, TypeOK, PCs
<1>2. LockInv'
  BY Zenon DEF PipeInv, TypeOK, LockInv, Locked
<1>3. EndsInv'
  BY Zenon DEF PipeInv, TypeOK, EndsInv
<1>4. EofInv'
  BY Zenon DEF PipeInv, TypeOK, LockInv, Locked, EndsInv, EofInv, Empty
<1>5. killed'[p]
  BY Zenon DEF PipeInv, TypeOK
<1> QED BY Zenon, <1>1, <1>2, <1>3, <1>4, <1>5 DEF PipeInv

LEMMA NextPipeInv == PipeInv /\ [Next]_vars => PipeInv'
<1> SUFFICES ASSUME PipeInv, [Next]_vars PROVE PipeInv'
  BY Zenon
<1>1. CASE UNCHANGED vars
  BY Zenon, <1>1 DEF vars, PipeInv, TypeOK, LockInv, EndsInv, EofInv, SleepInv, Empty, Full, At
<1>2. ASSUME NEW p \in Procs, Step(p) PROVE PipeInv'
  BY Zenon, <1>2, AcquireStep, SleepStep, WriteFailStep, WriteFullStep, WriteDoneStep,
     WriteByteStep, ReadFailStep, ReadEmptyStep, ReadStartStep, ReadByteStep,
     ReadBadStep, ReadDoneStep DEF Step
<1>3. ASSUME NEW p \in Procs, NEW len \in 0..MaxN,
             Call(p, "rlock", len) \/ Call(p, "wlock", len)
      PROVE  PipeInv'
  BY Zenon, <1>3, CallStep
<1>4. ASSUME NEW p \in Procs, CloseWrite(p) \/ CloseRead(p) PROVE PipeInv'
  BY Zenon, <1>4, CloseWriteStep, CloseReadStep
<1>5. ASSUME NEW p \in Victims, Kill(p) PROVE PipeInv'
  BY Zenon, <1>5, KillStep, PipeAssumption
<1> QED BY Zenon, <1>1, <1>2, <1>3, <1>4, <1>5 DEF Next

-----------------------------------------------------------------------------
(* The invariant of pipe.c holds for any number of readers, writers and    *)
(* bytes in the ring.                                                      *)
THEOREM PipeInvariance == Spec => []PipeInv
<1>1. PipeInv /\ [Next]_vars => PipeInv'
  BY Zenon, NextPipeInv
<1> QED BY <1>1, InitPipeInv, PTL DEF Spec

(* pipewrite(), piperead() and pipeclose() wake everyone who sleeps for    *)
(* what they did: unless someone is killed, with pi->lock free nobody      *)
(* sleeps who could go on.                                                 *)
THEOREM WakeupsSuffice == Spec => []NoLostWakeup
<1>1. PipeInv => NoLostWakeup
  BY Zenon, PipeAssumption DEF PipeInv, LockInv, Locked, SleepInv, NoLostWakeup, SleepersWait, At
<1> QED BY <1>1, PipeInvariance, PTL

(* pipeclose() frees the pipe only when every process is outside of        *)
(* pipewrite() and piperead().                                             *)
THEOREM FreedIsUnused == Spec => []NoUseAfterFree
<1>1. PipeInv => NoUseAfterFree
  BY Zenon DEF PipeInv, TypeOK, PCs, EndsInv, NoUseAfterFree, At
<1> QED BY <1>1, PipeInvariance, PTL

\* The steps that take a process out of piperead()'s second loop.
LEMMA LeavesRead ==
  ASSUME PipeInv, [Next]_vars, NEW p \in Procs, At(p, "r"), pc'[p] = "idle"
  PROVE  ReadBad(p) \/ ReadDone(p)
<1> USE DEF At
<1>1. pc \in [Procs -> PCs]
  BY Zenon DEF PipeInv, TypeOK
<1>2. ~UNCHANGED vars
  BY Zenon DEF vars
<1>3. ASSUME NEW q \in Procs, Step(q) PROVE ReadBad(p) \/ ReadDone(p)
  <2>1. p = q
    <3>1. lock = p /\ p # NoProc
      BY Zenon, PipeAssumption DEF PipeInv, LockInv, Locked
    <3>2. pc[q] \in Locked
      BY Zenon, <1>3, <3>1 DEF Step, Acquire, Sleep, WriteFail, WriteFull, WriteDone, WriteByte,
         ReadFail, ReadEmpty, ReadStart, ReadByte, ReadBad, ReadDone, Locked
    <3> QED BY Zenon, <3>1, <3>2 DEF PipeInv, LockInv
  <2> QED BY Zenon, <1>1, <1>3, <2>1 DEF Step, Acquire, Sleep, WriteFail, WriteFull, WriteDone,
       WriteByte, ReadFail, ReadEmpty, ReadStart, ReadByte, Goto
<1>4. \A q \in Procs, len \in 0..MaxN : ~Call(q, "rlock", len) /\ ~Call(q, "wlock", len)
  BY Zenon, <1>1 DEF Call, Goto
<1>5. \A q \in Procs : ~CloseWrite(q) /\ ~CloseRead(q)
  BY Zenon, <1>1, WakeupLocations DEF CloseWrite, CloseRead
<1>6. \A q \in Victims : ~Kill(q)
  BY Zenon, <1>1, PipeAssumption DEF Kill, Goto
<1> QED BY Zenon, <1>2, <1>3, <1>4, <1>5, <1>6 DEF Next

(* read() returns 0 for a nonzero n only at the end of the stream: the     *)
(* pipe is empty and every write end is closed.                            *)
THEOREM EofIsTheEnd == Spec => EofMeansClosed
<1>1. ASSUME PipeInv, [Next]_vars, NEW p \in Procs, At(p, "r"), pc'[p] = "idle",
             n[p] > 0, ret'[p] = 0, nread' = nread
      PROVE  Empty /\ wr = {}
  <2>1. ~ReadBad(p)
    BY Zenon, <1>1, CounterWraps DEF ReadBad, PipeInv, TypeOK
  <2>2. ReadDone(p)
    BY Zenon, <1>1, <2>1, LeavesRead
  <2>3. i[p] = 0
    BY Zenon, <1>1, <2>2 DEF ReadDone, Return, PipeInv, TypeOK
  <2>4. Empty
    BY <1>1, <2>2, <2>3 DEF ReadDone, PipeInv, TypeOK
  <2> QED BY Zenon, <1>1, <2>3, <2>4 DEF PipeInv, EofInv, EndsInv
<1>2. PipeInv /\ [Next]_vars
        => [\A p \in Procs :
              At(p, "r") /\ pc'[p] = "idle" /\ n[p] > 0 /\ ret'[p] = 0 /\ nread' = nread
                => Empty /\ wr = {}]_vars
  BY Zenon, <1>1
<1> QED BY <1>2, PipeInvariance, PTL DEF Spec, EofMeansClosed
-----------------------------------------------------------------------------
(* The ring implements the byte stream, for any PIPESIZE that divides the  *)
(* range of the counters.                                                  *)

Count == (nwrite - nread) % UINT
Queue == [k \in 1..Count |-> data[(nread + k - 1) % PIPESIZE]]

\* The counters are never further apart than the ring is large.
RingInv == Count <= PIPESIZE

LEMMA UIntAssumption ==
  /\ PIPESIZE \in Nat /\ PIPESIZE >= 1
  /\ UINT \in Nat /\ UINT >= 2 * PIPESIZE /\ UINT >= 2
  BY PipeAssumption

-----------------------------------------------------------------------------
\* Facts about remainders.

LEMMA ModOf ==
  ASSUME NEW m \in Nat, m >= 1, NEW x \in Int, NEW k \in Int, NEW r \in 0..(m - 1),
         x = k * m + r
  PROVE  x % m = r
  OBVIOUS

\* Every number is a multiple of m and its remainder.
LEMMA ModQuotient ==
  ASSUME NEW m \in Nat, m >= 1, NEW x \in Int
  PROVE  \E k \in Int : x = (k * m) + (x % m)
<1>1. x = ((x \div m) * m) + (x % m)
  OBVIOUS
<1>2. x \div m \in Int
  OBVIOUS
<1> QED BY Zenon, <1>1, <1>2

\* UINT is a multiple of PIPESIZE: an index does not see a wrap of the counter.
LEMMA IndexWraps ==
  ASSUME NEW x \in Int
  PROVE  (x + UINT) % PIPESIZE = x % PIPESIZE
<1> USE UIntAssumption
<1>1. PICK c \in Int : UINT = c * PIPESIZE
  <2>1. PICK c \in Int : UINT = (c * PIPESIZE) + (UINT % PIPESIZE)
    <3>1. UINT \in Int
      OBVIOUS
    <3> QED BY Zenon, <3>1, ModQuotient
  <2> QED BY <2>1, PipeAssumption
<1>2. PICK k \in Int : x = (k * PIPESIZE) + (x % PIPESIZE)
  BY Zenon, ModQuotient
<1>3. x + UINT = (k + c) * PIPESIZE + (x % PIPESIZE)
  BY <1>1, <1>2
<1>4. k + c \in Int /\ x % PIPESIZE \in 0..(PIPESIZE - 1) /\ x + UINT \in Int
  OBVIOUS
<1> QED BY Zenon, <1>3, <1>4, ModOf

\* Numbers less than PIPESIZE apart have different places in the ring.
LEMMA IndexDiffers ==
  ASSUME NEW x \in Int, NEW y \in Int, x < y, y < x + PIPESIZE
  PROVE  x % PIPESIZE # y % PIPESIZE
<1> USE UIntAssumption
<1>1. PICK k \in Int : x = (k * PIPESIZE) + (x % PIPESIZE)
  BY Zenon, ModQuotient
<1>2. PICK j \in Int : y = (j * PIPESIZE) + (y % PIPESIZE)
  BY Zenon, ModQuotient
<1> SUFFICES ASSUME x % PIPESIZE = y % PIPESIZE PROVE FALSE
  BY Zenon
<1>3. y - x = (j - k) * PIPESIZE
  BY <1>1, <1>2
<1>4. CASE j - k <= 0
  BY <1>3, <1>4
<1>5. CASE j - k >= 1
  BY <1>3, <1>5
<1> QED BY <1>4, <1>5
-----------------------------------------------------------------------------
\* What the wrapping counters say of the number of bytes in the ring.

LEMMA Distance ==
  ASSUME NEW w \in 0..(UINT - 1), NEW r \in 0..(UINT - 1)
  PROVE  /\ (w - r) % UINT = IF w >= r THEN w - r ELSE w - r + UINT
         /\ (w - r) % UINT \in 0..(UINT - 1)
<1> USE UIntAssumption
<1>1. CASE w >= r
  BY <1>1
<1>2. CASE w < r
  <2> DEFINE d == w - r + UINT
  <2>1. d \in 0..(UINT - 1) /\ w - r \in Int /\ w - r = (-1) * UINT + d
    BY <1>2
  <2>2. (w - r) % UINT = d
    <3> HIDE DEF d
    <3> QED BY <2>1, ModOf
  <2> QED BY <1>2, <2>1, <2>2
<1> QED BY <1>1, <1>2

LEMMA CountIs ==
  ASSUME TypeOK
  PROVE  /\ Count = IF nwrite >= nread THEN nwrite - nread ELSE nwrite - nread + UINT
         /\ Count \in 0..(UINT - 1)
  BY Zenon, Distance DEF TypeOK, Count

LEMMA Increment ==
  ASSUME NEW x \in 0..(UINT - 1)
  PROVE  (x + 1) % UINT = IF x = UINT - 1 THEN 0 ELSE x + 1
<1> USE UIntAssumption
<1>1. CASE x = UINT - 1
  BY <1>1
<1>2. CASE x < UINT - 1
  BY <1>2
<1> QED BY <1>1, <1>2

LEMMA EmptyCount == ASSUME TypeOK PROVE Empty <=> Count = 0
  BY CountIs, UIntAssumption DEF TypeOK, Empty

LEMMA FullCount == ASSUME TypeOK PROVE Full <=> Count = PIPESIZE
<1> USE UIntAssumption
<1>1. nwrite \in 0..(UINT - 1) /\ nread \in 0..(UINT - 1)
  BY Zenon DEF TypeOK
<1>2. CASE nread + PIPESIZE < UINT
  <2>1. (nread + PIPESIZE) % UINT = nread + PIPESIZE
    BY <1>1, <1>2
  <2> QED BY <1>1, <1>2, <2>1, CountIs DEF Full
<1>3. CASE nread + PIPESIZE >= UINT
  <2>1. (nread + PIPESIZE) % UINT = nread + PIPESIZE - UINT
    BY <1>1, <1>3
  <2> QED BY <1>1, <1>3, <2>1, CountIs DEF Full
<1> QED BY <1>1, <1>2, <1>3

LEMMA WriteCounts ==
  ASSUME TypeOK, TypeOK', RingInv, ~Full, nwrite' = (nwrite + 1) % UINT, nread' = nread
  PROVE  Count' = Count + 1 /\ Count < PIPESIZE
<1> USE UIntAssumption
<1>1. nwrite \in 0..(UINT - 1) /\ nread \in 0..(UINT - 1)
  BY Zenon DEF TypeOK
<1>2. nwrite' = IF nwrite = UINT - 1 THEN 0 ELSE nwrite + 1
  BY Zenon, <1>1, Increment
<1>3. Count < PIPESIZE
  BY FullCount, CountIs DEF RingInv
<1>4. Count' = IF nwrite' >= nread' THEN nwrite' - nread' ELSE nwrite' - nread' + UINT
  BY Zenon, Distance DEF TypeOK, Count
<1> QED BY <1>1, <1>2, <1>3, <1>4, CountIs

LEMMA ReadCounts ==
  ASSUME TypeOK, TypeOK', ~Empty, nread' = (nread + 1) % UINT, nwrite' = nwrite
  PROVE  Count' = Count - 1 /\ Count >= 1
<1> USE UIntAssumption
<1>1. nwrite \in 0..(UINT - 1) /\ nread \in 0..(UINT - 1)
  BY Zenon DEF TypeOK
<1>2. nread' = IF nread = UINT - 1 THEN 0 ELSE nread + 1
  BY Zenon, <1>1, Increment
<1>3. Count >= 1
  BY EmptyCount, CountIs
<1>4. Count' = IF nwrite' >= nread' THEN nwrite' - nread' ELSE nwrite' - nread' + UINT
  BY Zenon, Distance DEF TypeOK, Count
<1> QED BY <1>1, <1>2, <1>3, <1>4, CountIs
-----------------------------------------------------------------------------
\* Sequences as functions.

LEMMA SeqOf ==
  ASSUME NEW m \in Nat, NEW f \in [1..m -> Bytes]
  PROVE  f \in Seq(Bytes) /\ Len(f) = m
  OBVIOUS

LEMMA AppendOf ==
  ASSUME NEW m \in Nat, NEW f \in [1..m -> Bytes], NEW g \in [1..(m + 1) -> Bytes],
         NEW v \in Bytes, g[m + 1] = v, \A k \in 1..m : g[k] = f[k]
  PROVE  g = Append(f, v)
<1>1. f \in Seq(Bytes) /\ Len(f) = m /\ g \in Seq(Bytes) /\ Len(g) = m + 1
  BY SeqOf
<1>2. Append(f, v) \in Seq(Bytes) /\ Len(Append(f, v)) = m + 1
  BY <1>1
<1>3. \A k \in 1..(m + 1) : Append(f, v)[k] = g[k]
  BY <1>1
<1> QED BY Zenon, <1>1, <1>2, <1>3, SeqEqual

LEMMA TailOf ==
  ASSUME NEW m \in Nat \ {0}, NEW f \in [1..m -> Bytes], NEW g \in [1..(m - 1) -> Bytes],
         \A k \in 1..(m - 1) : g[k] = f[k + 1]
  PROVE  f # <<>> /\ g = Tail(f)
<1>1. m - 1 \in Nat
  OBVIOUS
<1>2. f \in Seq(Bytes) /\ Len(f) = m /\ g \in Seq(Bytes) /\ Len(g) = m - 1
  BY Zenon, <1>1, SeqOf
<1>3. f # <<>>
  BY Zenon, <1>2, EmptySeq
<1>4. Tail(f) \in Seq(Bytes) /\ Len(Tail(f)) = m - 1
  BY Zenon, <1>2, <1>3, HeadTailProperties
<1>5. \A k \in 1..(m - 1) : Tail(f)[k] = g[k]
  BY Zenon, <1>2, <1>3, <1>4, HeadTailProperties
<1> QED BY Zenon, <1>2, <1>3, <1>4, <1>5, SeqEqual

\* The bytes between the counters.
LEMMA Between ==
  ASSUME NEW r \in 0..(UINT - 1), NEW d \in [0..(PIPESIZE - 1) -> Bytes], NEW c \in Nat
  PROVE  [k \in 1..c |-> d[(r + k - 1) % PIPESIZE]] \in [1..c -> Bytes]
<1>1. ASSUME NEW k \in 1..c PROVE d[(r + k - 1) % PIPESIZE] \in Bytes
  <2>1. (r + k - 1) % PIPESIZE \in 0..(PIPESIZE - 1)
    BY UIntAssumption
  <2> QED BY Zenon, <2>1
<1> QED BY Zenon, <1>1

LEMMA QueueIs ==
  ASSUME TypeOK
  PROVE  Count \in Nat /\ Queue \in [1..Count -> Bytes] /\ Len(Queue) = Count
<1>1. Count \in Nat
  BY CountIs, UIntAssumption
<1>2. Queue \in [1..Count -> Bytes]
  BY Zenon, <1>1, Between DEF Queue, TypeOK
<1> QED BY Zenon, <1>1, <1>2, SeqOf

LEMMA QueueNext ==
  ASSUME TypeOK'
  PROVE  Queue' \in [1..Count' -> Bytes]
<1>1. Count' \in 0..(UINT - 1)
  BY Zenon, Distance DEF TypeOK, Count
<1>2. Count' \in Nat
  BY <1>1, UIntAssumption
<1> QED BY Zenon, <1>2, Between DEF Queue, TypeOK

\* A byte that pipewrite() stores goes to the end of the queue ...
LEMMA WriteAppends ==
  ASSUME TypeOK, TypeOK', RingInv, NEW v \in Bytes, ~Full, nread' = nread,
         nwrite' = (nwrite + 1) % UINT,
         data' = [data EXCEPT ![nwrite % PIPESIZE] = v]
  PROVE  RingInv' /\ Count < PIPESIZE /\ Queue' = Append(Queue, v)
<1> USE UIntAssumption
<1>1. Count' = Count + 1 /\ Count < PIPESIZE /\ Count \in Nat
  BY Zenon, WriteCounts, QueueIs
<1>2. nwrite \in 0..(UINT - 1) /\ nread \in 0..(UINT - 1)
  BY Zenon DEF TypeOK
<1>3. nwrite % PIPESIZE \in 0..(PIPESIZE - 1)
  BY <1>2
<1>4. nwrite % PIPESIZE = (nread + Count) % PIPESIZE
  <2>1. CASE nwrite >= nread
    BY <1>2, <2>1, CountIs
  <2>2. CASE nwrite < nread
    <3>1. nread + Count = nwrite + UINT
      BY <1>2, <2>2, CountIs
    <3>2. nwrite \in Int
      BY <1>2
    <3> QED BY Zenon, <3>1, <3>2, IndexWraps
  <2> QED BY <1>2, <2>1, <2>2
<1>5. ASSUME NEW k \in 1..Count PROVE Queue'[k] = Queue[k]
  <2>1. (nread + k - 1) % PIPESIZE # (nread + Count) % PIPESIZE
    <3>1. nread + k - 1 \in Int /\ nread + Count \in Int
      BY <1>1, <1>2
    <3>2. nread + k - 1 < nread + Count /\ nread + Count < (nread + k - 1) + PIPESIZE
      BY <1>1, <1>2
    <3> QED BY Zenon, <3>1, <3>2, IndexDiffers
  <2>2. data'[(nread + k - 1) % PIPESIZE] = data[(nread + k - 1) % PIPESIZE]
    BY <1>1, <1>2, <1>3, <1>4, <2>1 DEF TypeOK
  <2> QED BY <1>1, <2>2 DEF Queue
<1>6. Queue'[Count + 1] = v
  <2>1. data'[(nread + (Count + 1) - 1) % PIPESIZE] = v
    BY <1>1, <1>2, <1>3, <1>4 DEF TypeOK
  <2> QED BY <1>1, <2>1 DEF Queue
<1>7. Queue' \in [1..(Count + 1) -> Bytes]
  BY Zenon, <1>1, QueueNext
<1>8. Queue \in [1..Count -> Bytes]
  BY Zenon, QueueIs
<1> HIDE DEF Queue, Count
<1> QED BY <1>1, <1>5, <1>6, <1>7, <1>8, AppendOf DEF RingInv

\* ... and piperead() takes the first.
LEMMA ReadTakes ==
  ASSUME TypeOK, TypeOK', RingInv, ~Empty, nread' = (nread + 1) % UINT,
         nwrite' = nwrite, data' = data
  PROVE  RingInv' /\ Queue # <<>> /\ Queue' = Tail(Queue)
<1> USE UIntAssumption
<1>1. Count' = Count - 1 /\ Count >= 1 /\ Count \in Nat
  BY Zenon, ReadCounts, QueueIs
<1>2. nread \in 0..(UINT - 1) /\ nread' = IF nread = UINT - 1 THEN 0 ELSE nread + 1
  BY Zenon, Increment DEF TypeOK
<1>3. ASSUME NEW k \in 1..(Count - 1) PROVE Queue'[k] = Queue[k + 1]
  <2>1. (nread' + k - 1) % PIPESIZE = (nread + k) % PIPESIZE
    <3>1. CASE nread = UINT - 1
      <4>1. nread + k = (k - 1) + UINT /\ nread' + k - 1 = k - 1 /\ k - 1 \in Int
        BY <1>2, <3>1
      <4> QED BY Zenon, <4>1, IndexWraps
    <3>2. CASE nread # UINT - 1
      BY <1>2, <3>2
    <3> QED BY Zenon, <3>1, <3>2
  <2>2. nread + (k + 1) - 1 = nread + k
    BY <1>2
  <2>3. Queue'[k] = data[(nread' + k - 1) % PIPESIZE]
    BY Zenon, <1>1 DEF Queue
  <2>4. Queue[k + 1] = data[(nread + (k + 1) - 1) % PIPESIZE]
    BY <1>1 DEF Queue
  <2> QED BY Zenon, <2>1, <2>2, <2>3, <2>4
<1>4. Queue' \in [1..(Count - 1) -> Bytes]
  <2>1. Count' \in Nat
    BY <1>1
  <2>2. Queue' \in [1..Count' -> Bytes]
    BY Zenon, QueueNext
  <2> QED BY Zenon, <1>1, <2>2
<1>5. Queue \in [1..Count -> Bytes] /\ Count \in Nat \ {0}
  BY <1>1, QueueIs
<1> HIDE DEF Queue, Count
<1> QED BY <1>1, <1>3, <1>4, <1>5, TailOf DEF RingInv
-----------------------------------------------------------------------------
\* A step that leaves the ring alone leaves the queue alone.
LEMMA RingFrame ==
  ASSUME RingInv, UNCHANGED ring
  PROVE  RingInv' /\ Queue' = Queue
  BY Zenon DEF RingInv, Count, Queue, ring

\* Such a step stutters, or shuts an end.
LEMMA OtherSteps ==
  ASSUME PipeInv, RingInv, UNCHANGED ring,
         readopen' \in {readopen, FALSE}, writeopen' \in {writeopen, FALSE}
  PROVE  RingInv' /\ Stream!Shut
<1>1. RingInv' /\ Queue' = Queue
  BY Zenon, RingFrame
<1> QED BY Zenon, <1>1 DEF Stream!Shut, Queue, Count

LEMMA WritePuts ==
  ASSUME PipeInv, PipeInv', RingInv, NEW p \in Procs, NEW v \in Bytes, WriteByte(p, v)
  PROVE  RingInv' /\ Stream!Put(v)
<1>1. RingInv' /\ Count < PIPESIZE /\ Queue' = Append(Queue, v)
  BY Zenon, WriteAppends DEF WriteByte, PipeInv
<1>2. Len(Queue) = Count
  BY Zenon, QueueIs DEF PipeInv
<1>3. writeopen = TRUE /\ writeopen' = writeopen /\ readopen' = readopen
  BY Zenon DEF WriteByte, At, ends, PipeInv, EndsInv, TypeOK
<1> QED BY Zenon, <1>1, <1>2, <1>3 DEF Stream!Put, Queue, Count

LEMMA ReadPulls ==
  ASSUME PipeInv, PipeInv', RingInv, NEW p \in Procs, ReadByte(p) \/ ReadBad(p)
  PROVE  RingInv' /\ Stream!Take
<1>1. RingInv' /\ Queue # <<>> /\ Queue' = Tail(Queue)
  BY Zenon, ReadTakes DEF ReadByte, ReadBad, PipeInv
<1>2. readopen = TRUE /\ writeopen' = writeopen /\ readopen' = readopen
  BY Zenon DEF ReadByte, ReadBad, Return, At, ends, PipeInv, EndsInv, TypeOK
<1> QED BY Zenon, <1>1, <1>2 DEF Stream!Take, Queue, Count

LEMMA NextStream ==
  PipeInv /\ PipeInv' /\ RingInv /\ [Next]_vars => RingInv' /\ [Stream!BNext]_(Stream!bvars)
<1> SUFFICES ASSUME PipeInv, PipeInv', RingInv, [Next]_vars
             PROVE  RingInv' /\ [Stream!BNext]_(Stream!bvars)
  BY Zenon
<1>1. CASE UNCHANGED vars
  <2>1. RingInv' /\ Stream!Shut
    BY Zenon, <1>1, OtherSteps DEF vars, ring
  <2> QED BY Zenon, <2>1 DEF Stream!BNext
<1>2. ASSUME NEW p \in Procs, Step(p) PROVE RingInv' /\ Stream!BNext
  <2>1. ASSUME NEW v \in Bytes, WriteByte(p, v) PROVE RingInv' /\ Stream!BNext
    BY Zenon, <2>1, WritePuts DEF Stream!BNext
  <2>2. CASE ReadByte(p) \/ ReadBad(p)
    BY Zenon, <2>2, ReadPulls DEF Stream!BNext
  <2>3. CASE UNCHANGED <<ring, ends>>
    <3>1. RingInv' /\ Stream!Shut
      BY Zenon, <2>3, OtherSteps DEF ends
    <3> QED BY Zenon, <3>1 DEF Stream!BNext
  <2> QED BY Zenon, <1>2, <2>1, <2>2, <2>3 DEF Step, Acquire, Sleep, WriteFail, WriteFull,
       WriteDone, ReadFail, ReadEmpty, ReadStart, ReadDone, Return
<1>3. ASSUME NEW p \in Procs, NEW len \in 0..MaxN,
             Call(p, "rlock", len) \/ Call(p, "wlock", len)
      PROVE  RingInv' /\ Stream!BNext
  <2>1. RingInv' /\ Stream!Shut
    BY Zenon, <1>3, OtherSteps DEF Call, ends
  <2> QED BY Zenon, <2>1 DEF Stream!BNext
<1>4. ASSUME NEW p \in Procs, CloseWrite(p) \/ CloseRead(p)
      PROVE  RingInv' /\ Stream!BNext
  <2>1. readopen' \in {readopen, FALSE} /\ writeopen' \in {writeopen, FALSE}
    BY Zenon, <1>4 DEF CloseWrite, CloseRead, PipeInv, EndsInv, TypeOK
  <2>2. RingInv' /\ Stream!Shut
    BY Zenon, <1>4, <2>1, OtherSteps DEF CloseWrite, CloseRead
  <2> QED BY Zenon, <2>2 DEF Stream!BNext
<1>5. ASSUME NEW p \in Victims, Kill(p) PROVE RingInv' /\ Stream!BNext
  <2>1. RingInv' /\ Stream!Shut
    BY Zenon, <1>5, OtherSteps DEF Kill, ends
  <2> QED BY Zenon, <2>1 DEF Stream!BNext
<1> QED BY Zenon, <1>1, <1>2, <1>3, <1>4, <1>5 DEF Next

LEMMA InitStream == Init => RingInv /\ Stream!BInit
<1> SUFFICES ASSUME Init PROVE RingInv /\ Stream!BInit
  BY Zenon
<1>1. TypeOK
  BY Zenon, InitPipeInv DEF PipeInv
<1>2. Count = 0
  BY Zenon, <1>1, EmptyCount DEF Init, Empty
<1>3. Queue = <<>>
  BY <1>2 DEF Queue
<1>4. readopen = TRUE /\ writeopen = TRUE
  BY Zenon DEF Init
<1> QED BY <1>2, <1>3, <1>4, UIntAssumption DEF RingInv, Stream!BInit, Queue, Count

(* The pipe is a first-in first-out byte stream for any PIPESIZE that      *)
(* divides the range of nread and nwrite: however often they wrap and      *)
(* however many readers and writers there are, no byte is lost, repeated   *)
(* or moved past another.                                                  *)
THEOREM PipeIsFifo == Spec => Fifo
<1>1. PipeInv /\ PipeInv' /\ RingInv /\ [Next]_vars
        => RingInv' /\ [Stream!BNext]_(Stream!bvars)
  BY Zenon, NextStream
<1> QED BY <1>1, InitStream, PipeInvariance, PTL DEF Spec, Fifo, Stream!BSpec
=============================================================================
