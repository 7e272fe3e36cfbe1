------------------------------ MODULE LogProofs ------------------------------
(***************************************************************************)
(* The log implements the atomic disk, and its panics are not reached, for *)
(* any number of processes, blocks and log blocks.                         *)
(***************************************************************************)
EXTENDS Log, FiniteSetTheorems, TLAPS

Active == {o \in Ops : pc[o] \in InOp}

\* The processes that have changed a block which is not in the log yet.
Pending == {o \in Ops : pc[o] \in {"log_write", "append"} /\ ~InLog(buf[o], lh)}

\* The blocks that the calls under way have written, each once for every call.
Written == {x \in Ops \X Blocks : x[2] \in wrote[x[1]]}

\* What a call has written is in the log, except for the buffer it still holds.
CallInv ==
  /\ \A o \in Ops :
       /\ buf[o] = NoBlock <=> pc[o] \notin {"log_write", "append"}
       /\ pc[o] \notin InOp => wrote[o] = {}
       /\ buf[o] # NoBlock => buf[o] \in wrote[o]
       /\ \A b \in wrote[o] : b = buf[o] \/ InLog(b, lh)
       /\ IsFiniteSet(wrote[o]) /\ Cardinality(wrote[o]) <= OpBlocks
  /\ \A o, q \in Ops : buf[o] # NoBlock /\ buf[o] = buf[q] => o = q

\* One process commits, while no call is under way; until then the calls keep the
\* log open.
CommitInv ==
  /\ outstanding = Cardinality(Active)
  /\ committing => Active = {}
  /\ \A o \in Ops : pc[o] \in InCommit => committing
  /\ committing => \E o \in Ops : pc[o] \in InCommit
  /\ \A o, q \in Ops : pc[o] \in InCommit /\ pc[q] \in InCommit => o = q
  /\ mode = "recover" => ~committing /\ \A o \in Ops : pc[o] = "idle"
  /\ mode = "up" /\ ~committing /\ lh # <<>> => Active # {}

\* The room that is left in a transaction when every call is at its worst.
MaxLog == LOGSIZE + OpBlocks - MAXOPBLOCKS
Header(h) ==
  /\ \A i, j \in 1..Len(h) : h[i] = h[j] => i = j
  /\ h # <<>> => Len(h) <= MaxLog
HeadInv == Header(lh) /\ Header(dhead)

\* What the code's constants give: a call writes fewer blocks than begin_op()
\* reserves for it, LOGSIZE holds more than one reservation, and the log on disk
\* is as large as LOGSIZE, its header included.
LogRoom == OpBlocks < MAXOPBLOCKS /\ MAXOPBLOCKS < LOGSIZE /\ LOGSIZE <= NLog

\* begin_op()'s reservation: each call may still log MAXOPBLOCKS blocks less those
\* it has written.
SpaceInv ==
  Len(lh) + Cardinality(Active) * MAXOPBLOCKS + Cardinality(Pending)
    <= LOGSIZE + Cardinality(Written)

\* A call that is alone either was so from the start of the transaction, or entered
\* when there was room for two.
AloneInv ==
  Cardinality(Active) = 1 =>
    \/ Len(lh) + Cardinality(Pending) <= Cardinality(Written)
    \/ Len(lh) + 2 * MAXOPBLOCKS + Cardinality(Pending) <= LOGSIZE + Cardinality(Written) + OpBlocks

\* The first n blocks of the transaction are in the log, or at home.
Copied(n) == \A i \in 1..n : dlog[i] = cache[lh[i]]
Home(n) == \A i \in 1..n : disk[lh[i]] = dlog[i]

\* Where log, home blocks and buffers agree while the log is written, installed,
\* cleared and recovered.
PhaseInv ==
  /\ mode = "recover" => /\ lh = dhead /\ cache = disk
                         /\ tail \in 1..(Len(lh) + 1) /\ Home(tail - 1)
  /\ mode = "up" =>
       /\ \A b \in Blocks : cache[b] = disk[b] \/ InLog(b, lh) \/ \E o \in Ops : buf[o] = b
       /\ ~committing => dhead = <<>>
  /\ \A o \in Ops :
       /\ pc[o] = "write_log" => dhead = <<>> /\ tail \in 1..Len(lh) /\ Copied(tail - 1)
       /\ pc[o] = "write_head" => dhead = <<>> /\ lh # <<>> /\ Copied(Len(lh)) /\ tail = Len(lh) + 1
       /\ pc[o] = "install_trans" => /\ dhead = lh /\ tail \in 1..Len(lh)
                                     /\ Copied(Len(lh)) /\ Home(tail - 1)
       /\ pc[o] = "clear" => dhead = lh /\ Copied(Len(lh)) /\ Home(Len(lh))
       /\ pc[o] = "end" => dhead = <<>> /\ lh = <<>>

\* A block is pinned from log_write() until it is installed, unless a recovery has
\* unpinned what was not pinned.
PinInv ==
  ~CrashInstall =>
    /\ mode = "recover" => lh = <<>>
    /\ \A o \in Ops :
         /\ pc[o] = "install_trans" =>
              \A b \in Blocks : pin[b] = IF \E i \in tail..Len(lh) : lh[i] = b THEN 1 ELSE 0
         /\ pc[o] = "clear" => \A b \in Blocks : pin[b] = 0
    /\ (\A o \in Ops : pc[o] \notin {"install_trans", "clear"}) =>
         \A b \in Blocks : pin[b] = IF InLog(b, lh) THEN 1 ELSE 0

LogInv ==
  TypeOK /\ CallInv /\ CommitInv /\ HeadInv /\ SpaceInv /\ PhaseInv /\ PinInv
-----------------------------------------------------------------------------
(* Counting.                                                               *)

LEMMA IsInjection ==
  ASSUME NEW S, NEW T, NEW f \in [S -> T], \A a, b \in S : f[a] = f[b] => a = b
  PROVE  f \in Injection(S, T)
  BY Zenon DEF Injection, IsInjective

PairsOf(S, B, f) == {x \in S \X B : x[2] \in f[x[1]]}

\* At most K elements in each of n sets are at most n * K pairs.
LEMMA PairsBound ==
  ASSUME NEW S, IsFiniteSet(S), NEW B, NEW f \in [S -> SUBSET B], NEW K \in Nat,
         \A o \in S : IsFiniteSet(f[o]) /\ Cardinality(f[o]) <= K
  PROVE  IsFiniteSet(PairsOf(S, B, f)) /\ Cardinality(PairsOf(S, B, f)) <= Cardinality(S) * K
<1> DEFINE P == {x \in S \X B : x[2] \in f[x[1]]}
<1>1. ASSUME NEW o \in S PROVE \E g \in [f[o] -> 1..K] : \A b, c \in f[o] : g[b] = g[c] => b = c
  <2> DEFINE n == Cardinality(f[o])
  <2>1. n \in Nat /\ n <= K /\ ExistsBijection(1..n, f[o])
    BY Zenon, FS_CardinalityType
  <2>2. PICK h \in [1..n -> f[o]] : \A b \in f[o] : \E i \in 1..n : h[i] = b
    BY Zenon, <2>1 DEF ExistsBijection, Bijection, Surjection, Injection
  <2> DEFINE g == [b \in f[o] |-> CHOOSE i \in 1..n : h[i] = b]
  <2>3. \A b \in f[o] : g[b] \in 1..n /\ h[g[b]] = b
    BY Zenon, <2>2
  <2>4. g \in [f[o] -> 1..n] /\ \A b, c \in f[o] : g[b] = g[c] => b = c
    BY Zenon, <2>3
  <2>5. 1..n \subseteq 1..K
    BY <2>1
  <2>6. g \in [f[o] -> 1..K]
    BY Zenon, <2>4, <2>5
  <2> QED BY Zenon, <2>4, <2>6
<1> DEFINE inj(o) == CHOOSE g \in [f[o] -> 1..K] : \A b, c \in f[o] : g[b] = g[c] => b = c
<1>2. \A o \in S : inj(o) \in [f[o] -> 1..K] /\ \A b, c \in f[o] : inj(o)[b] = inj(o)[c] => b = c
  BY Zenon, <1>1
<1> HIDE DEF inj
<1> DEFINE G == [x \in P |-> <<x[1], inj(x[1])[x[2]]>>]
           T == S \X (1..K)
<1>3. G \in [P -> T]
  BY <1>2
<1>4. ASSUME NEW x \in P, NEW y \in P, G[x] = G[y] PROVE x = y
  <2>1. x \in S \X B /\ y \in S \X B /\ x[2] \in f[x[1]] /\ y[2] \in f[y[1]]
    BY Zenon
  <2>2. G[x] = <<x[1], inj(x[1])[x[2]]>> /\ G[y] = <<y[1], inj(y[1])[y[2]]>>
    BY Zenon
  <2>3. x[1] = y[1] /\ inj(x[1])[x[2]] = inj(y[1])[y[2]]
    BY Zenon, <1>4, <2>2
  <2>4. x[2] = y[2]
    BY <1>2, <2>1, <2>3
  <2> QED BY <2>1, <2>3, <2>4
<1>5. G \in Injection(P, T)
  <2> HIDE DEF G, P, T
  <2> QED BY Zenon, <1>3, <1>4, IsInjection
<1>6. IsFiniteSet(1..K) /\ Cardinality(1..K) = K
  BY FS_Interval
<1>7. IsFiniteSet(T) /\ Cardinality(T) = Cardinality(S) * K
  <2>1. IsFiniteSet(T) /\ Cardinality(T) = Cardinality(S) * Cardinality(1..K)
    BY Zenon, <1>6, FS_Product
  <2> QED BY Zenon, <1>6, <2>1
<1> HIDE DEF G, T, P
<1>8. IsFiniteSet(P) /\ Cardinality(P) <= Cardinality(S) * K
  BY <1>5, <1>7, FS_Injection
<1> QED BY Zenon, <1>8 DEF P, PairsOf

LEMMA ActiveFinite ==
  /\ IsFiniteSet(Active) /\ Cardinality(Active) \in Nat
  /\ Active # {} <=> Cardinality(Active) >= 1
<1>1. IsFiniteSet(Active)
  BY Zenon, LogAssumption, FS_Subset DEF Active
<1> QED BY <1>1, FS_CardinalityType, FS_EmptySet

\* What the calls under way have written is bounded by what each may write.
LEMMA WrittenBound ==
  ASSUME TypeOK, CallInv
  PROVE  /\ IsFiniteSet(Written) /\ Cardinality(Written) \in Nat
         /\ Cardinality(Written) <= Cardinality(Active) * OpBlocks
<1> DEFINE f == [o \in Active |-> wrote[o]]
<1>1. Written = PairsOf(Active, Blocks, f)
  BY Zenon DEF Written, Active, CallInv, PairsOf
<1>2. f \in [Active -> SUBSET Blocks] /\ \A o \in Active : IsFiniteSet(f[o]) /\ Cardinality(f[o]) <= OpBlocks
  BY Zenon DEF Active, CallInv, TypeOK
<1>3. OpBlocks \in Nat
  BY LogAssumption
<1> HIDE DEF f
<1>4. IsFiniteSet(Written) /\ Cardinality(Written) <= Cardinality(Active) * OpBlocks
  <2>1. IsFiniteSet(Active)
    BY Zenon, ActiveFinite
  <2> QED BY Zenon, <1>1, <1>2, <1>3, <2>1, PairsBound
<1> QED BY Zenon, <1>4, FS_CardinalityType

\* A call that still holds a changed buffer has written it.
LEMMA PendingBound ==
  ASSUME TypeOK, CallInv
  PROVE  /\ IsFiniteSet(Pending) /\ Cardinality(Pending) \in Nat
         /\ Cardinality(Pending) <= Cardinality(Written)
<1>1. IsFiniteSet(Pending)
  BY Zenon, LogAssumption, FS_Subset DEF Pending
<1> DEFINE f == [o \in Pending |-> <<o, buf[o]>>]
<1>2. \A o \in Pending : buf[o] \in Blocks /\ buf[o] \in wrote[o]
  BY Zenon DEF Pending, CallInv, TypeOK
<1>3. f \in [Pending -> Written] /\ \A o, q \in Pending : f[o] = f[q] => o = q
  BY Zenon, <1>2 DEF Pending, Written
<1>4. f \in Injection(Pending, Written)
  BY Zenon, <1>3, IsInjection
<1> HIDE DEF f
<1>5. Cardinality(Pending) <= Cardinality(Written)
  BY Zenon, <1>4, WrittenBound, FS_Injection
<1> QED BY Zenon, <1>1, <1>5, FS_CardinalityType

\* Reservations leave room for the transaction while a call is under way.
LEMMA Room ==
  ASSUME NEW n \in Nat, NEW a \in Nat, NEW p \in Nat, NEW w \in Nat, a >= 1,
         n + a * MAXOPBLOCKS + p <= LOGSIZE + w, w <= a * OpBlocks
  PROVE  n <= MaxLog
<1>1. MAXOPBLOCKS \in Nat /\ OpBlocks \in Nat /\ OpBlocks <= MAXOPBLOCKS /\ LOGSIZE \in Nat
  BY LogAssumption
<1>2. a * MAXOPBLOCKS - a * OpBlocks = a * (MAXOPBLOCKS - OpBlocks)
  BY <1>1
<1>3. \A d \in Nat : a * d >= d
  <2> TAKE d \in Nat
  <2>1. a * d = d + (a - 1) * d
    OBVIOUS
  <2>2. (a - 1) * d \in Nat
    OBVIOUS
  <2>3. d + (a - 1) * d >= d
    BY <2>2
  <2> QED BY Zenon, <2>1, <2>3
<1>4. a * (MAXOPBLOCKS - OpBlocks) >= MAXOPBLOCKS - OpBlocks
  BY <1>1, <1>3
<1>5. a * MAXOPBLOCKS \in Nat /\ a * OpBlocks \in Nat
  BY <1>1
<1> QED BY <1>1, <1>2, <1>4, <1>5 DEF MaxLog

LEMMA InitInv == Init => LogInv
<1> SUFFICES ASSUME Init PROVE LogInv
  BY Zenon
<1> USE DEF Init
<1>0. LOGSIZE \in Nat /\ LOGSIZE >= 1 /\ <<>> \in Seq(Blocks) /\ Len(<<>>) = 0
  BY LogAssumption
<1>1. TypeOK
  <2>1. (CHOOSE v \in Vals : TRUE) \in Vals
    BY Zenon, LogAssumption
  <2>2. dlog \in [1..LOGSIZE -> Vals]
    BY Zenon, <2>1
  <2>3. <<>> \in Headers
    BY <1>0 DEF Headers
  <2>4. 1 \in 1..(LOGSIZE + 1)
    BY <1>0
  <2>5. dhead \in Headers /\ lh \in Headers /\ tail \in 1..(LOGSIZE + 1)
    BY Zenon, <2>3, <2>4
  <2>6. disk \in [Blocks -> Vals] /\ cache \in [Blocks -> Vals] /\ pin \in [Blocks -> Int]
    OBVIOUS
  <2>7. outstanding \in Nat /\ mode \in {"recover", "up"} /\ pc \in [Ops -> PCs]
    BY Zenon DEF PCs
  <2>8. committing \in BOOLEAN /\ buf \in [Ops -> Blocks \cup {NoBlock}] /\ wrote \in [Ops -> SUBSET Blocks]
    BY Zenon
  <2> HIDE DEF Init
  <2> QED BY Zenon, <2>2, <2>5, <2>6, <2>7, <2>8 DEF TypeOK
<1>2. Active = {} /\ Pending = {} /\ Written = {}
  BY Zenon DEF Active, Pending, Written, InOp
<1>3. CallInv
  BY FS_EmptySet, LogAssumption DEF CallInv, InOp
<1>4. CommitInv
  BY Zenon, <1>2, FS_EmptySet DEF CommitInv, InCommit
<1>5. HeadInv
  BY <1>0 DEF HeadInv, Header
<1>6. SpaceInv
  BY <1>0, <1>2, FS_EmptySet, LogAssumption DEF SpaceInv
<1>7. PhaseInv
  BY <1>0 DEF PhaseInv, Home
<1>8. PinInv
  BY <1>0 DEF PinInv, InLog
<1> QED BY Zenon, <1>1, <1>3, <1>4, <1>5, <1>6, <1>7, <1>8 DEF LogInv

LEMMA BeginSleepInv ==
  ASSUME LogInv, NEW o \in Ops, BeginSleep(o)
  PROVE  LogInv'
<1> USE DEF LogInv
<1>a. /\ pc[o] \in {"idle", "woken"} /\ mode = "up"
      /\ pc' = [pc EXCEPT ![o] = "sleep"]
      /\ UNCHANGED <<disk, dlog, dhead, lh, outstanding, committing, cache, pin, mode, tail, buf, wrote>>
  BY Zenon DEF BeginSleep, diskVars, logVars
<1>b. Active' = Active
  BY Zenon, <1>a DEF Active, InOp, TypeOK
<1>c. Pending' = Pending /\ Written' = Written
  BY Zenon, <1>a DEF Pending, Written, TypeOK
<1>1. TypeOK'
  BY Zenon, <1>a DEF TypeOK, PCs, InOp, InCommit
<1>2. CallInv'
  BY Zenon, <1>a DEF CallInv, TypeOK, InOp
<1>3. CommitInv'
  BY <1>a, <1>b DEF CommitInv, TypeOK, InCommit, InOp
<1>4. HeadInv'
  BY Zenon, <1>a DEF HeadInv
<1>5. SpaceInv'
  BY Zenon, <1>a, <1>b, <1>c DEF SpaceInv
<1>6. PhaseInv'
  BY <1>a DEF PhaseInv, TypeOK, Copied, Home
<1>7. PinInv'
  BY <1>a DEF PinInv, TypeOK
<1> QED BY Zenon, <1>1, <1>2, <1>3, <1>4, <1>5, <1>6, <1>7

LEMMA BeginEnterInv ==
  ASSUME LogInv, NEW o \in Ops, BeginEnter(o)
  PROVE  LogInv'
<1> USE DEF LogInv
<1>a. /\ pc[o] \in {"idle", "woken"} /\ mode = "up" /\ ~committing
      /\ pc' = [pc EXCEPT ![o] = "op"]
      /\ outstanding' = outstanding + 1
      /\ UNCHANGED <<disk, dlog, dhead, lh, committing, cache, pin, mode, tail, buf, wrote>>
  BY Zenon DEF BeginEnter, diskVars
<1>b. Active' = Active \cup {o} /\ o \notin Active
  BY Zenon, <1>a DEF Active, InOp, TypeOK
<1>c. Pending' = Pending /\ Written' = Written
  BY Zenon, <1>a DEF Pending, Written, TypeOK
<1>d. Cardinality(Active') = Cardinality(Active) + 1
  BY Zenon, <1>b, ActiveFinite, FS_AddElement
<1>1. TypeOK'
  BY <1>a DEF TypeOK, PCs, InOp, InCommit
<1>2. CallInv'
  BY Zenon, <1>a DEF CallInv, TypeOK, InOp
<1>3. CommitInv'
  BY Zenon, <1>a, <1>b, <1>d DEF CommitInv, TypeOK, InCommit, InOp
<1>4. HeadInv'
  BY Zenon, <1>a DEF HeadInv
<1>5. SpaceInv'
  <2>1. Len(lh) + (Cardinality(Active) + 1) * MAXOPBLOCKS <= LOGSIZE
    <3>1. Len(lh) + (outstanding + 1) * MAXOPBLOCKS <= LOGSIZE
      <4>1. ~(Len(lh) + (outstanding + 1) * MAXOPBLOCKS > LOGSIZE)
        BY Zenon DEF BeginEnter, NoSpace
      <4>2. Len(lh) \in Nat /\ (outstanding + 1) * MAXOPBLOCKS \in Nat /\ LOGSIZE \in Nat
        BY LogAssumption DEF TypeOK, Headers
      <4> QED BY <4>1, <4>2
    <3> QED BY Zenon, <3>1 DEF CommitInv
  <2>2. Cardinality(Pending) <= Cardinality(Written) /\ Cardinality(Pending) \in Nat /\ Cardinality(Written) \in Nat
    BY Zenon, PendingBound, WrittenBound
  <2>3. Len(lh) \in Nat /\ (Cardinality(Active) + 1) * MAXOPBLOCKS \in Nat /\ LOGSIZE \in Nat
    BY ActiveFinite, LogAssumption DEF TypeOK, Headers
  <2>4. Len(lh) + (Cardinality(Active) + 1) * MAXOPBLOCKS + Cardinality(Pending) <= LOGSIZE + Cardinality(Written)
    BY <2>1, <2>2, <2>3
  <2> QED BY Zenon, <1>a, <1>c, <1>d, <2>4 DEF SpaceInv
<1>6. PhaseInv'
  BY <1>a DEF PhaseInv, TypeOK, Copied, Home
<1>7. PinInv'
  BY <1>a DEF PinInv, TypeOK
<1> QED BY Zenon, <1>1, <1>2, <1>3, <1>4, <1>5, <1>6, <1>7

\* A call that changes a block for the first time has one more to log.
LEMMA ModifyCounts ==
  ASSUME LogInv, NEW o \in Ops, NEW b \in Blocks, NEW v \in Vals, Modify(o, b, v)
  PROVE  /\ Active' = Active /\ lh' = lh
         /\ Cardinality(Pending') \in Nat /\ Cardinality(Written') \in Nat
         /\ Cardinality(Pending') + Cardinality(Written) <= Cardinality(Pending) + Cardinality(Written')
<1> USE DEF LogInv
<1>a. /\ pc[o] = "op" /\ buf[o] = NoBlock
      /\ \A q \in Ops : buf[q] # b
      /\ buf' = [buf EXCEPT ![o] = b]
      /\ wrote' = [wrote EXCEPT ![o] = @ \cup {b}]
      /\ pc' = [pc EXCEPT ![o] = "log_write"]
      /\ lh' = lh
  BY Zenon DEF Modify, logVars, Holds, CallInv
<1>b. Active' = Active
  BY Zenon, <1>a DEF Active, InOp, TypeOK
<1>c. /\ b # NoBlock /\ buf'[o] = b /\ pc'[o] = "log_write"
      /\ \A q \in Ops : q # o => buf'[q] = buf[q] /\ pc'[q] = pc[q]
  BY Zenon, <1>a, LogAssumption DEF TypeOK
<1>1. Written' = Written \cup {<<o, b>>}
  BY <1>a DEF Written, TypeOK
<1>2. IsFiniteSet(Written) /\ IsFiniteSet(Pending) /\ Cardinality(Pending) \in Nat /\ Cardinality(Written) \in Nat
  BY Zenon, PendingBound, WrittenBound
<1>3. o \notin Pending
  BY Zenon, <1>a DEF Pending
<1>4. \A q \in Ops : q # o => (q \in Pending' <=> q \in Pending)
  BY Zenon, <1>a, <1>c DEF Pending
<1>6. CASE b \in wrote[o]
  <2>1. InLog(b, lh)
    BY Zenon, <1>a, <1>c, <1>6 DEF CallInv
  <2>2. Pending' = Pending
    BY <1>a, <1>c, <1>3, <1>4, <2>1 DEF Pending
  <2>3. Written' = Written
    BY <1>1, <1>6 DEF Written
  <2> QED BY <1>a, <1>b, <1>2, <2>2, <2>3
<1>7. CASE b \notin wrote[o]
  <2>1. Cardinality(Written') = Cardinality(Written) + 1
    <3>1. <<o, b>> \notin Written
      BY Zenon, <1>7 DEF Written
    <3> QED BY Zenon, <1>1, <1>2, <3>1, FS_AddElement
  <2>2. Pending' = Pending \/ Pending' = Pending \cup {o}
    BY Zenon, <1>3, <1>4 DEF Pending
  <2>3. Cardinality(Pending') <= Cardinality(Pending) + 1 /\ Cardinality(Pending') \in Nat
    <3>1. Cardinality(Pending \cup {o}) = Cardinality(Pending) + 1
      BY Zenon, <1>2, <1>3, FS_AddElement
    <3>2. CASE Pending' = Pending
      BY <1>2, <3>2
    <3>3. CASE Pending' = Pending \cup {o}
      BY <1>2, <3>1, <3>3
    <3> QED BY Zenon, <2>2, <3>2, <3>3
  <2> QED BY <1>a, <1>b, <1>2, <2>1, <2>3
<1> QED BY Zenon, <1>6, <1>7

LEMMA ModifyInv ==
  ASSUME LogInv, NEW o \in Ops, NEW b \in Blocks, NEW v \in Vals, Modify(o, b, v)
  PROVE  LogInv'
<1> USE DEF LogInv
<1>a. /\ pc[o] = "op" /\ buf[o] = NoBlock
      /\ \A q \in Ops : buf[q] # b
      /\ b \in wrote[o] \/ Cardinality(wrote[o]) < OpBlocks
      /\ cache' = [cache EXCEPT ![b] = v]
      /\ buf' = [buf EXCEPT ![o] = b]
      /\ wrote' = [wrote EXCEPT ![o] = @ \cup {b}]
      /\ pc' = [pc EXCEPT ![o] = "log_write"]
      /\ UNCHANGED <<disk, dlog, dhead, lh, outstanding, committing, pin, mode, tail>>
  BY Zenon DEF Modify, diskVars, logVars, Holds, CallInv
<1>b. Active' = Active
  BY Zenon, <1>a DEF Active, InOp, TypeOK
<1>w. ~committing /\ mode = "up" /\ o \in Active /\ \A q \in Ops : pc[q] \notin InCommit
  BY Zenon, <1>a DEF CommitInv, TypeOK, Active, InOp
<1>c. b # NoBlock /\ wrote'[o] = wrote[o] \cup {b} /\ buf'[o] = b /\ pc'[o] = "log_write"
      /\ \A q \in Ops : q # o => wrote'[q] = wrote[q] /\ buf'[q] = buf[q] /\ pc'[q] = pc[q]
  BY Zenon, <1>a, LogAssumption DEF TypeOK
<1>d. Cardinality(wrote[o]) \in Nat /\ IsFiniteSet(wrote[o]) /\ Cardinality(wrote[o]) <= OpBlocks /\ OpBlocks \in Nat
  BY FS_CardinalityType, LogAssumption DEF CallInv
<1>e. IsFiniteSet(wrote'[o]) /\ Cardinality(wrote'[o]) <= OpBlocks
  <2>1. /\ IsFiniteSet(wrote[o] \cup {b})
        /\ Cardinality(wrote[o] \cup {b}) = IF b \in wrote[o] THEN Cardinality(wrote[o])
                                            ELSE Cardinality(wrote[o]) + 1
    BY Zenon, <1>d, FS_AddElement
  <2>2. Cardinality(wrote[o] \cup {b}) <= OpBlocks
    BY <1>a, <1>d, <2>1
  <2> QED BY Zenon, <1>c, <2>1, <2>2
<1>1. TypeOK'
  BY Zenon, <1>a DEF TypeOK, PCs, InOp, InCommit
<1>2. CallInv'
  <2>1. ASSUME NEW q \in Ops
        PROVE  (/\ buf[q] = NoBlock <=> pc[q] \notin {"log_write", "append"}
                /\ pc[q] \notin InOp => wrote[q] = {}
                /\ buf[q] # NoBlock => buf[q] \in wrote[q]
                /\ \A c \in wrote[q] : c = buf[q] \/ InLog(c, lh)
                /\ IsFiniteSet(wrote[q]) /\ Cardinality(wrote[q]) <= OpBlocks)'
    <3>1. CASE q = o
      <4>1. \A c \in wrote'[o] : c = b \/ InLog(c, lh)
        BY <1>a, <1>c, LogAssumption DEF CallInv, TypeOK
      <4> QED BY <1>a, <1>c, <1>e, <3>1, <4>1 DEF InOp
    <3>2. CASE q # o
      BY <1>a, <1>c, <3>2 DEF CallInv
    <3> QED BY Zenon, <3>1, <3>2
  <2>2. \A p, q \in Ops : buf'[p] # NoBlock /\ buf'[p] = buf'[q] => p = q
    BY <1>a, <1>c DEF CallInv
  <2> QED BY Zenon, <2>1, <2>2 DEF CallInv
<1>3. CommitInv'
  BY <1>a, <1>b, <1>c, <1>w DEF CommitInv, InCommit
<1>4. HeadInv'
  BY Zenon, <1>a DEF HeadInv
<1>5. SpaceInv'
  <2>1. Cardinality(Pending) \in Nat /\ Cardinality(Written) \in Nat
    BY Zenon, PendingBound, WrittenBound
  <2>2. Len(lh) \in Nat /\ Cardinality(Active) * MAXOPBLOCKS \in Nat /\ LOGSIZE \in Nat
    BY ActiveFinite, LogAssumption DEF TypeOK, Headers
  <2>3. /\ Cardinality(Pending') \in Nat /\ Cardinality(Written') \in Nat
        /\ Cardinality(Pending') + Cardinality(Written) <= Cardinality(Pending) + Cardinality(Written')
    BY Zenon, ModifyCounts
  <2>4. Len(lh) + Cardinality(Active) * MAXOPBLOCKS + Cardinality(Pending') <= LOGSIZE + Cardinality(Written')
    BY SMTT(30), <2>1, <2>2, <2>3 DEF SpaceInv
  <2> QED BY Zenon, <1>a, <1>b, <2>4 DEF SpaceInv
<1>6. PhaseInv'
  <2>1. \A q \in Ops : pc'[q] \notin InCommit
    BY Zenon, <1>c, <1>w DEF InCommit
  <2>2. ASSUME NEW c \in Blocks
        PROVE  cache'[c] = disk[c] \/ InLog(c, lh) \/ \E q \in Ops : buf'[q] = c
    <3>1. CASE c = b
      BY Zenon, <1>c, <3>1
    <3>2. CASE c # b
      <4>1. cache'[c] = cache[c]
        BY Zenon, <1>a, <3>2 DEF TypeOK
      <4>2. \A q \in Ops : buf[q] = c => buf'[q] = c
        BY Zenon, <1>a, <1>c, LogAssumption
      <4> QED BY Zenon, <1>w, <4>1, <4>2 DEF PhaseInv
    <3> QED BY Zenon, <3>1, <3>2
  <2> QED BY Zenon, <1>a, <1>w, <2>1, <2>2 DEF PhaseInv, InCommit
<1>7. PinInv'
  BY <1>a, <1>c, <1>w DEF PinInv, InCommit
<1> QED BY Zenon, <1>1, <1>2, <1>3, <1>4, <1>5, <1>6, <1>7

LEMMA LogCheckInv ==
  ASSUME LogInv, NEW o \in Ops, LogCheck(o)
  PROVE  LogInv'
<1> USE DEF LogInv
<1>a. /\ pc[o] = "log_write"
      /\ pc' = [pc EXCEPT ![o] = "append"]
      /\ UNCHANGED <<disk, dlog, dhead, lh, outstanding, committing, cache, pin, mode, tail, buf, wrote>>
  BY Zenon DEF LogCheck, diskVars, logVars
<1>b. Active' = Active
  BY Zenon, <1>a DEF Active, InOp, TypeOK
<1>c. Pending' = Pending /\ Written' = Written
  BY Zenon, <1>a DEF Pending, Written, TypeOK
<1>1. TypeOK'
  BY Zenon, <1>a DEF TypeOK, PCs, InOp, InCommit
<1>2. CallInv'
  BY Zenon, <1>a DEF CallInv, TypeOK, InOp
<1>3. CommitInv'
  BY <1>a, <1>b DEF CommitInv, TypeOK, InCommit, InOp
<1>4. HeadInv'
  BY Zenon, <1>a DEF HeadInv
<1>5. SpaceInv'
  BY Zenon, <1>a, <1>b, <1>c DEF SpaceInv
<1>6. PhaseInv'
  BY <1>a DEF PhaseInv, TypeOK, Copied, Home
<1>7. PinInv'
  BY <1>a DEF PinInv, TypeOK
<1> QED BY Zenon, <1>1, <1>2, <1>3, <1>4, <1>5, <1>6, <1>7

\* log_write() moves a block from the ones to log to the log.
LEMMA LogAppendCounts ==
  ASSUME LogInv, NEW o \in Ops, LogAppend(o)
  PROVE  /\ Active' = Active /\ Written' = Written
         /\ Len(lh') \in Nat /\ Cardinality(Pending') \in Nat
         /\ Len(lh') + Cardinality(Pending') <= Len(lh) + Cardinality(Pending)
<1> USE DEF LogInv
<1> DEFINE b == buf[o]
<1>a. /\ pc[o] = "append" /\ b \in Blocks
      /\ lh' = IF InLog(b, lh) THEN lh ELSE Append(lh, b)
      /\ buf' = [buf EXCEPT ![o] = NoBlock]
      /\ pc' = [pc EXCEPT ![o] = "op"]
      /\ wrote' = wrote
  BY Zenon DEF LogAppend, CallInv, TypeOK
<1>b. Active' = Active /\ Written' = Written
  BY Zenon, <1>a DEF Active, Written, InOp, TypeOK
<1>c. /\ pc'[o] = "op"
      /\ \A q \in Ops : q # o => buf'[q] = buf[q] /\ pc'[q] = pc[q]
      /\ \A q \in Ops : q # o /\ pc[q] \in {"log_write", "append"} => buf[q] # b
  BY Zenon, <1>a DEF TypeOK, CallInv
<1> HIDE DEF b
<1>d. lh \in Seq(Blocks) /\ Len(lh) \in Nat
  BY DEF TypeOK, Headers
<1>e. /\ Len(lh') = IF InLog(b, lh) THEN Len(lh) ELSE Len(lh) + 1
      /\ \A c : InLog(c, lh') <=> InLog(c, lh) \/ c = b
  <2>1. CASE InLog(b, lh)
    BY Zenon, <1>a, <2>1 DEF InLog
  <2>2. CASE ~InLog(b, lh)
    BY <1>a, <1>d, <2>2 DEF InLog
  <2> QED BY Zenon, <2>1, <2>2
<1>1. IsFiniteSet(Pending) /\ Cardinality(Pending) \in Nat
  BY Zenon, PendingBound
<1>2. Pending' = Pending \ {o}
  BY Zenon, <1>a, <1>c, <1>e DEF Pending
<1>3. CASE InLog(b, lh)
  <2>1. Pending' = Pending
    BY Zenon, <1>2, <1>3 DEF Pending, b
  <2> QED BY <1>b, <1>d, <1>e, <1>1, <1>3, <2>1
<1>4. CASE ~InLog(b, lh)
  <2>1. o \in Pending
    BY Zenon, <1>a, <1>4 DEF Pending, b
  <2>2. Cardinality(Pending') = Cardinality(Pending) - 1 /\ IsFiniteSet(Pending')
    BY Zenon, <1>1, <1>2, <2>1, FS_RemoveElement
  <2>3. Cardinality(Pending') \in Nat
    BY Zenon, <2>2, FS_CardinalityType
  <2> QED BY <1>b, <1>d, <1>e, <1>1, <1>4, <2>2, <2>3
<1> QED BY Zenon, <1>3, <1>4

LEMMA LogAppendInv ==
  ASSUME LogInv, NEW o \in Ops, LogAppend(o)
  PROVE  LogInv'
<1> USE DEF LogInv
<1> DEFINE b == buf[o]
<1>a. /\ pc[o] = "append" /\ b \in Blocks /\ b # NoBlock
      /\ lh' = IF InLog(b, lh) THEN lh ELSE Append(lh, b)
      /\ pin' = IF InLog(b, lh) THEN pin ELSE [pin EXCEPT ![b] = @ + 1]
      /\ buf' = [buf EXCEPT ![o] = NoBlock]
      /\ pc' = [pc EXCEPT ![o] = "op"]
      /\ UNCHANGED <<disk, dlog, dhead, outstanding, committing, cache, mode, tail, wrote>>
  BY Zenon DEF LogAppend, diskVars, CallInv, TypeOK
<1>b. Active' = Active
  BY Zenon, <1>a DEF Active, InOp, TypeOK
<1>w. ~committing /\ mode = "up" /\ o \in Active /\ \A q \in Ops : pc[q] \notin InCommit
  BY Zenon, <1>a DEF CommitInv, TypeOK, Active, InOp
<1>c. /\ buf'[o] = NoBlock /\ pc'[o] = "op"
      /\ \A q \in Ops : q # o => buf'[q] = buf[q] /\ pc'[q] = pc[q] /\ buf[q] # b
  BY Zenon, <1>a DEF TypeOK, CallInv
<1> HIDE DEF b
<1>d. lh \in Seq(Blocks) /\ Len(lh) \in Nat
  BY DEF TypeOK, Headers
<1>e. /\ lh' \in Seq(Blocks)
      /\ Len(lh') = IF InLog(b, lh) THEN Len(lh) ELSE Len(lh) + 1
      /\ \A i \in 1..Len(lh) : lh'[i] = lh[i]
      /\ ~InLog(b, lh) => lh'[Len(lh) + 1] = b
  BY <1>a, <1>d
<1>f. \A c : InLog(c, lh') <=> InLog(c, lh) \/ c = b
  BY SMTT(30), <1>d, <1>e DEF InLog
<1>g. Written' = Written
  BY Zenon, <1>a DEF Written
<1>h. SpaceInv'
  <2>1. Cardinality(Pending) \in Nat /\ Cardinality(Written) \in Nat
    BY Zenon, PendingBound, WrittenBound
  <2>2. Cardinality(Active) * MAXOPBLOCKS \in Nat /\ LOGSIZE \in Nat
    BY ActiveFinite, LogAssumption
  <2>3. /\ Len(lh') \in Nat /\ Cardinality(Pending') \in Nat
        /\ Len(lh') + Cardinality(Pending') <= Len(lh) + Cardinality(Pending)
    BY Zenon, LogAppendCounts
  <2>4. Len(lh') + Cardinality(Active) * MAXOPBLOCKS + Cardinality(Pending') <= LOGSIZE + Cardinality(Written)
    BY SMTT(30), <1>d, <2>1, <2>2, <2>3 DEF SpaceInv
  <2> QED BY Zenon, <1>b, <1>g, <2>4 DEF SpaceInv
<1>i. CallInv'
  <2>1. ASSUME NEW q \in Ops
        PROVE  (/\ buf[q] = NoBlock <=> pc[q] \notin {"log_write", "append"}
                /\ pc[q] \notin InOp => wrote[q] = {}
                /\ buf[q] # NoBlock => buf[q] \in wrote[q]
                /\ \A c \in wrote[q] : c = buf[q] \/ InLog(c, lh)
                /\ IsFiniteSet(wrote[q]) /\ Cardinality(wrote[q]) <= OpBlocks)'
    <3>1. \A c \in wrote[q] : c = buf'[q] \/ InLog(c, lh')
      BY Zenon, <1>c, <1>f DEF CallInv, b
    <3>2. /\ buf'[q] = NoBlock <=> pc'[q] \notin {"log_write", "append"}
          /\ pc'[q] \notin InOp => wrote[q] = {}
          /\ buf'[q] # NoBlock => buf'[q] \in wrote[q]
      BY <1>c DEF CallInv, InOp
    <3> QED BY Zenon, <1>a, <3>1, <3>2 DEF CallInv
  <2>2. \A p, q \in Ops : buf'[p] # NoBlock /\ buf'[p] = buf'[q] => p = q
    BY <1>c DEF CallInv
  <2> QED BY Zenon, <2>1, <2>2 DEF CallInv
<1>j. Len(lh') <= MaxLog
  <2>1. Len(lh') \in Nat
    BY <1>d, <1>e
  <2>2. Cardinality(Pending') \in Nat
    <3>1. Pending' \subseteq Pending
      BY Zenon, <1>a, <1>c, <1>f DEF Pending
    <3> QED BY Zenon, <3>1, PendingBound, FS_Subset, FS_CardinalityType
  <2>3. Cardinality(Active) \in Nat /\ Cardinality(Active) >= 1
    BY Zenon, <1>w, ActiveFinite
  <2>4. Cardinality(Written) \in Nat /\ Cardinality(Written) <= Cardinality(Active) * OpBlocks
    BY Zenon, WrittenBound
  <2>5. Len(lh') + Cardinality(Active) * MAXOPBLOCKS + Cardinality(Pending') <= LOGSIZE + Cardinality(Written)
    BY Zenon, <1>b, <1>g, <1>h DEF SpaceInv
  <2> QED BY Zenon, <2>1, <2>2, <2>3, <2>4, <2>5, Room
<1>k. lh' \in Headers
  BY <1>d, <1>e, <1>j, LogAssumption DEF Headers, MaxLog
<1>1. TypeOK'
  BY <1>a, <1>k DEF TypeOK, PCs, InOp
<1>2. CallInv'
  BY Zenon, <1>i
<1>3. CommitInv'
  BY Zenon, <1>a, <1>b, <1>c, <1>w DEF CommitInv, InCommit
<1>4. HeadInv'
  <2>1. \A i, j \in 1..Len(lh') : lh'[i] = lh'[j] => i = j
    <3>1. \A i \in 1..Len(lh') : i \in 1..Len(lh) \/ (~InLog(b, lh) /\ i = Len(lh) + 1)
      BY <1>d, <1>e
    <3>2. \A i \in 1..Len(lh) : ~InLog(b, lh) => lh[i] # b
      BY Zenon DEF InLog
    <3> QED BY Zenon, <1>e, <3>1, <3>2 DEF HeadInv, Header
  <2> QED BY <1>a, <1>j, <2>1 DEF HeadInv, Header
<1>5. SpaceInv'
  BY Zenon, <1>h
<1>6. PhaseInv'
  <2>1. \A q \in Ops : pc'[q] \notin InCommit
    BY Zenon, <1>c, <1>w DEF InCommit
  <2>2. \A c \in Blocks : cache[c] = disk[c] \/ InLog(c, lh') \/ \E q \in Ops : buf'[q] = c
    BY <1>c, <1>f, <1>w DEF PhaseInv, b
  <2> QED BY Zenon, <1>a, <1>w, <2>1, <2>2 DEF PhaseInv, InCommit
<1>7. PinInv'
  <2>1. (\A q \in Ops : pc[q] \notin {"install_trans", "clear"}) /\ \A q \in Ops : pc'[q] \notin {"install_trans", "clear"}
    BY Zenon, <1>c, <1>w DEF InCommit
  <2>2. ASSUME ~CrashInstall, NEW c \in Blocks PROVE pin'[c] = IF InLog(c, lh') THEN 1 ELSE 0
    <3>1. pin[c] = IF InLog(c, lh) THEN 1 ELSE 0
      BY Zenon, <2>1, <2>2 DEF PinInv
    <3> QED BY <1>a, <1>f, <3>1 DEF TypeOK
  <2> QED BY Zenon, <1>a, <1>w, <2>1, <2>2 DEF PinInv
<1> QED BY Zenon, <1>1, <1>2, <1>3, <1>4, <1>5, <1>6, <1>7

\* A call that ends takes what it has written out of the count.
LEMMA WrittenEnds ==
  ASSUME TypeOK, CallInv, NEW o \in Ops, wrote' = [wrote EXCEPT ![o] = {}]
  PROVE  Cardinality(Written') = Cardinality(Written) - Cardinality(wrote[o])
<1> DEFINE W == {o} \X wrote[o]
<1>1. Written' = Written \ W
  BY Zenon DEF Written, TypeOK
<1>2. Written \cap W = W
  BY DEF Written, TypeOK
<1>3. IsFiniteSet(wrote[o]) /\ Cardinality(wrote[o]) \in Nat
  BY Zenon, FS_CardinalityType DEF CallInv
<1>4. IsFiniteSet({o}) /\ Cardinality({o}) = 1
  BY Zenon, FS_Singleton
<1>5. Cardinality(W) = 1 * Cardinality(wrote[o])
  BY Zenon, <1>3, <1>4, FS_Product
<1>6. Cardinality(W) = Cardinality(wrote[o])
  BY <1>3, <1>5
<1>7. Cardinality(Written \ W) = Cardinality(Written) - Cardinality(Written \cap W)
  BY Zenon, WrittenBound, FS_Difference
<1> QED BY Zenon, <1>1, <1>2, <1>6, <1>7

LEMMA EndOpEarlyInv ==
  ASSUME LogInv, NEW o \in Ops, EndOpEarly(o)
  PROVE  LogInv'
<1> USE DEF LogInv
<1>a. /\ pc[o] = "op" /\ outstanding # 1
      /\ outstanding' = outstanding - 1
      /\ wrote' = [wrote EXCEPT ![o] = {}]
      /\ UNCHANGED <<disk, dlog, dhead, lh, committing, cache, pin, mode, tail, buf>>
  BY Zenon DEF EndOpEarly, diskVars
<1>c. /\ pc'[o] = "idle" /\ pc' \in [Ops -> PCs] /\ buf[o] = NoBlock
      /\ \A q \in Ops : q # o => pc'[q] = IF pc[q] = "sleep" THEN "woken" ELSE pc[q]
  BY Zenon, <1>a DEF EndOpEarly, Wakeup, TypeOK, PCs, CallInv
<1>w. ~committing /\ mode = "up" /\ o \in Active /\ \A q \in Ops : pc[q] \notin InCommit
  BY Zenon, <1>a DEF CommitInv, TypeOK, Active, InOp
<1>b. Active' = Active \ {o}
  BY Zenon, <1>c DEF Active, InOp
<1>d. Cardinality(Active') = Cardinality(Active) - 1 /\ Cardinality(Active) \in Nat /\ Cardinality(Active) >= 2
  <2>1. IsFiniteSet(Active) /\ Cardinality(Active) \in Nat /\ Cardinality(Active) >= 1
    BY Zenon, <1>w, ActiveFinite
  <2>2. Cardinality(Active') = Cardinality(Active) - 1
    BY Zenon, <1>b, <1>w, <2>1, FS_RemoveElement
  <2>3. Cardinality(Active) # 1
    BY Zenon, <1>a DEF CommitInv
  <2> QED BY <2>1, <2>2, <2>3
<1>e. Pending' = Pending
  BY Zenon, <1>a, <1>c DEF Pending
<1>1. TypeOK'
  <2>1. outstanding' \in Nat
    BY <1>a, <1>d DEF CommitInv
  <2> QED BY Zenon, <1>a, <1>c, <2>1 DEF TypeOK
<1>2. CallInv'
  <2>1. \A q \in Ops : q # o => wrote'[q] = wrote[q]
    BY Zenon, <1>a DEF TypeOK
  <2>2. wrote'[o] = {} /\ IsFiniteSet({}) /\ Cardinality({}) = 0 /\ OpBlocks >= 0
    BY <1>a, FS_EmptySet, LogAssumption DEF TypeOK
  <2> QED BY <1>a, <1>c, <2>1, <2>2 DEF CallInv, InOp
<1>3. CommitInv'
  <2>1. Active' # {}
    <3>1. Cardinality(Active') # 0
      BY <1>d
    <3> QED BY Zenon, <3>1, FS_EmptySet
  <2> QED BY Zenon, <1>a, <1>c, <1>d, <1>w, <2>1 DEF CommitInv, InCommit
<1>4. HeadInv'
  BY Zenon, <1>a DEF HeadInv
<1>5. SpaceInv'
  <2>1. Cardinality(Written') = Cardinality(Written) - Cardinality(wrote[o])
    BY Zenon, <1>a, WrittenEnds
  <2>2. Cardinality(wrote[o]) \in Nat /\ Cardinality(wrote[o]) <= OpBlocks /\ OpBlocks \in Nat
        /\ OpBlocks <= MAXOPBLOCKS /\ MAXOPBLOCKS \in Nat /\ LOGSIZE \in Nat
    BY FS_CardinalityType, LogAssumption DEF CallInv
  <2>3. Cardinality(Active') * MAXOPBLOCKS = Cardinality(Active) * MAXOPBLOCKS - MAXOPBLOCKS
        /\ Cardinality(Active) * MAXOPBLOCKS \in Nat
    BY <1>d, <2>2, ActiveFinite
  <2>4. Cardinality(Pending) \in Nat /\ Cardinality(Written) \in Nat /\ Len(lh) \in Nat
    BY PendingBound, WrittenBound DEF TypeOK, Headers
  <2>5. Len(lh) + Cardinality(Active') * MAXOPBLOCKS + Cardinality(Pending) <= LOGSIZE + Cardinality(Written')
    BY SMTT(30), <2>1, <2>2, <2>3, <2>4 DEF SpaceInv
  <2> QED BY Zenon, <1>a, <1>e, <2>5 DEF SpaceInv
<1>6. PhaseInv'
  BY <1>a, <1>c, <1>w DEF PhaseInv, InCommit
<1>7. PinInv'
  BY <1>a, <1>c, <1>w DEF PinInv, InCommit
<1> QED BY Zenon, <1>1, <1>2, <1>3, <1>4, <1>5, <1>6, <1>7

LEMMA EndOpLastInv ==
  ASSUME LogInv, NEW o \in Ops, EndOpLast(o)
  PROVE  LogInv'
<1> USE DEF LogInv
<1>a. /\ pc[o] = "op" /\ outstanding = 1
      /\ outstanding' = 0 /\ committing' = TRUE /\ tail' = 1
      /\ wrote' = [wrote EXCEPT ![o] = {}]
      /\ pc' = [pc EXCEPT ![o] = IF lh = <<>> THEN "end" ELSE "write_log"]
      /\ UNCHANGED <<disk, dlog, dhead, lh, cache, pin, mode, buf>>
  BY Zenon DEF EndOpLast, diskVars
<1>c. /\ pc'[o] = (IF lh = <<>> THEN "end" ELSE "write_log") /\ buf[o] = NoBlock
      /\ \A q \in Ops : q # o => pc'[q] = pc[q]
  BY Zenon, <1>a DEF TypeOK, CallInv
<1>w. ~committing /\ mode = "up" /\ o \in Active /\ \A q \in Ops : pc[q] \notin InCommit
  BY Zenon, <1>a DEF CommitInv, TypeOK, Active, InOp
<1>b. Active' = Active \ {o}
  BY Zenon, <1>c DEF Active, InOp
<1>d. Cardinality(Active') = Cardinality(Active) - 1 /\ Cardinality(Active) = 1
  BY Zenon, <1>a, <1>b, <1>w, ActiveFinite, FS_RemoveElement DEF CommitInv
<1>e. Pending' = Pending
  BY <1>a, <1>c DEF Pending
<1>f. Active' = {}
  <2>1. Cardinality(Active') = 0 /\ IsFiniteSet(Active')
    BY <1>b, <1>d, ActiveFinite, FS_RemoveElement
  <2> QED BY Zenon, <2>1, FS_EmptySet
<1>1. TypeOK'
  <2>1. 1 \in 1..(LOGSIZE + 1)
    BY LogAssumption
  <2> QED BY Zenon, <1>a, <2>1 DEF TypeOK, PCs, InCommit
<1>2. CallInv'
  <2>1. \A q \in Ops : q # o => wrote'[q] = wrote[q]
    BY Zenon, <1>a DEF TypeOK
  <2>2. wrote'[o] = {} /\ IsFiniteSet({}) /\ Cardinality({}) = 0 /\ OpBlocks >= 0
    BY <1>a, FS_EmptySet, LogAssumption DEF TypeOK
  <2> QED BY <1>a, <1>c, <2>1, <2>2 DEF CallInv, InOp
<1>3. CommitInv'
  BY <1>a, <1>c, <1>d, <1>f, <1>w DEF CommitInv, InCommit
<1>4. HeadInv'
  BY Zenon, <1>a DEF HeadInv
<1>5. SpaceInv'
  <2>1. Cardinality(Written') = Cardinality(Written) - Cardinality(wrote[o])
    BY Zenon, <1>a, WrittenEnds
  <2>2. Cardinality(wrote[o]) \in Nat /\ Cardinality(wrote[o]) <= OpBlocks /\ OpBlocks \in Nat
        /\ OpBlocks <= MAXOPBLOCKS /\ MAXOPBLOCKS \in Nat /\ LOGSIZE \in Nat
    BY FS_CardinalityType, LogAssumption DEF CallInv
  <2>3. Cardinality(Active') * MAXOPBLOCKS = Cardinality(Active) * MAXOPBLOCKS - MAXOPBLOCKS
        /\ Cardinality(Active) * MAXOPBLOCKS \in Nat
    BY <1>d, <2>2, ActiveFinite
  <2>4. Cardinality(Pending) \in Nat /\ Cardinality(Written) \in Nat /\ Len(lh) \in Nat
    BY PendingBound, WrittenBound DEF TypeOK, Headers
  <2>5. Len(lh) + Cardinality(Active') * MAXOPBLOCKS + Cardinality(Pending) <= LOGSIZE + Cardinality(Written')
    BY <2>1, <2>2, <2>3, <2>4 DEF SpaceInv
  <2> QED BY Zenon, <1>a, <1>e, <2>5 DEF SpaceInv
<1>6. PhaseInv'
  <2>1. lh # <<>> => 1 \in 1..Len(lh)
    BY DEF TypeOK, Headers
  <2>2. \A q \in Ops : pc'[q] \in InCommit => q = o
    BY Zenon, <1>c, <1>w
  <2>3. (pc[o] = "write_log" => dhead = <<>> /\ tail \in 1..Len(lh) /\ Copied(tail - 1))'
    BY <1>a, <1>c, <1>w, <2>1 DEF PhaseInv, Copied
  <2>4. (pc[o] = "end" => dhead = <<>> /\ lh = <<>>)'
    BY <1>a, <1>c, <1>w DEF PhaseInv
  <2>5. pc'[o] \in {"end", "write_log"}
    BY Zenon, <1>c
  <2> QED BY Zenon, <1>a, <1>w, <2>2, <2>3, <2>4, <2>5 DEF PhaseInv, InCommit
<1>7. PinInv'
  BY <1>a, <1>c, <1>w DEF PinInv, InCommit
<1> QED BY Zenon, <1>1, <1>2, <1>3, <1>4, <1>5, <1>6, <1>7

\* While one process commits, the others hold nothing.
LEMMA Committer ==
  ASSUME LogInv, NEW o \in Ops, pc[o] \in InCommit
  PROVE  /\ committing /\ mode = "up" /\ Active = {}
         /\ \A q \in Ops : /\ q # o => pc[q] \notin InCommit
                           /\ pc[q] \notin InOp /\ buf[q] = NoBlock /\ wrote[q] = {}
<1>1. committing /\ mode = "up" /\ Active = {} /\ \A q \in Ops : q # o => pc[q] \notin InCommit
  BY Zenon DEF LogInv, CommitInv, TypeOK, InCommit
<1>2. \A q \in Ops : pc[q] \notin InOp
  BY Zenon, <1>1 DEF Active
<1> QED BY Zenon, <1>1, <1>2 DEF LogInv, CallInv, InOp

\* The steps of commit() touch no call and no count.
LEMMA CommitFrame ==
  ASSUME LogInv, NEW o \in Ops, pc[o] \in InCommit, NEW loc \in InCommit, pc' = [pc EXCEPT ![o] = loc],
         UNCHANGED <<buf, wrote, outstanding, committing, mode>>, lh' = lh \/ lh' = <<>>
  PROVE  CallInv' /\ CommitInv' /\ SpaceInv'
<1>1. /\ pc'[o] = loc /\ loc \notin InOp
      /\ \A q \in Ops : q # o => pc'[q] = pc[q]
  BY Zenon DEF LogInv, TypeOK, InOp, InCommit
<1>2. /\ committing /\ mode = "up" /\ Active = {}
      /\ \A q \in Ops : /\ q # o => pc[q] \notin InCommit
                        /\ pc[q] \notin InOp /\ buf[q] = NoBlock /\ wrote[q] = {}
  BY Zenon, Committer
<1>3. Active' = {} /\ Pending' = {} /\ Written' = {}
  BY <1>1, <1>2 DEF Active, Pending, Written, InOp
<1>4. CallInv'
  <2>1. IsFiniteSet({}) /\ Cardinality({}) = 0 /\ OpBlocks >= 0
    BY FS_EmptySet, LogAssumption
  <2>2. \A q \in Ops : pc'[q] \notin InOp
    BY Zenon, <1>1, <1>2
  <2> QED BY Zenon, <1>1, <1>2, <2>1, <2>2 DEF CallInv, InOp
<1>5. CommitInv'
  BY Zenon, <1>1, <1>2, <1>3 DEF LogInv, CommitInv
<1>6. SpaceInv'
  <2>1. Len(lh') \in Nat /\ Len(lh') <= LOGSIZE /\ MAXOPBLOCKS \in Nat /\ LOGSIZE \in Nat
    BY LogAssumption DEF LogInv, TypeOK, Headers
  <2>2. Cardinality({}) = 0
    BY Zenon, FS_EmptySet
  <2> QED BY <1>3, <2>1, <2>2 DEF SpaceInv
<1> QED BY Zenon, <1>4, <1>5, <1>6

LEMMA WriteLogInv ==
  ASSUME LogInv, NEW o \in Ops, WriteLog(o)
  PROVE  LogInv'
<1> USE DEF LogInv
<1> DEFINE loc == IF tail = Len(lh) THEN "write_head" ELSE "write_log"
<1>a. /\ pc[o] = "write_log"
      /\ dlog' = [dlog EXCEPT ![tail] = cache[lh[tail]]]
      /\ tail' = tail + 1
      /\ pc' = [pc EXCEPT ![o] = loc]
      /\ UNCHANGED <<disk, dhead, lh, outstanding, committing, cache, pin, mode, buf, wrote>>
  BY Zenon DEF WriteLog, logVars
<1>w. /\ committing /\ mode = "up" /\ Active = {}
      /\ \A q \in Ops : /\ q # o => pc[q] \notin InCommit
                        /\ pc[q] \notin InOp /\ buf[q] = NoBlock /\ wrote[q] = {}
  BY Zenon, <1>a, Committer DEF InCommit
<1>n. /\ pc'[o] = loc /\ \A q \in Ops : pc'[q] \in InCommit => q = o
      /\ \A q \in Ops : q # o => pc'[q] \notin {"install_trans", "clear"}
  BY Zenon, <1>a, <1>w DEF TypeOK, InCommit
<1>s. lh \in Seq(Blocks) /\ Len(lh) \in Nat /\ Len(lh) <= LOGSIZE /\ LOGSIZE \in Nat /\ LOGSIZE >= 1
  BY LogAssumption DEF TypeOK, Headers
<1>f. CallInv' /\ CommitInv' /\ SpaceInv'
  BY Zenon, <1>a, CommitFrame DEF InCommit
<1>b. tail \in 1..Len(lh) /\ dhead = <<>> /\ Copied(tail - 1)
  BY Zenon, <1>a DEF PhaseInv
<1>1. TypeOK'
  BY <1>a, <1>b, <1>s DEF TypeOK, PCs, InCommit
<1>2. CallInv'
  BY Zenon, <1>f
<1>3. CommitInv'
  BY Zenon, <1>f
<1>4. HeadInv'
  BY Zenon, <1>a DEF HeadInv
<1>5. SpaceInv'
  BY Zenon, <1>f
<1>6. PhaseInv'
  <2>1. \A i \in 1..tail : dlog'[i] = cache[lh[i]]
    BY <1>a, <1>b, <1>s DEF Copied, TypeOK
  <2>2. CASE tail = Len(lh)
    <3>1. pc'[o] = "write_head" /\ lh # <<>>
      BY <1>b, <1>n, <1>s, <2>2
    <3>2. Copied(Len(lh))' /\ tail' = Len(lh') + 1
      BY Zenon, <1>a, <2>1, <2>2 DEF Copied
    <3> QED BY Zenon, <1>a, <1>b, <1>n, <1>w, <3>1, <3>2 DEF PhaseInv, InCommit
  <2>3. CASE tail # Len(lh)
    <3>1. pc'[o] = "write_log"
      BY Zenon, <1>n, <2>3
    <3>2. Copied(tail - 1)' /\ tail' \in 1..Len(lh')
      <4> HIDE DEF LogInv
      <4> QED BY <1>a, <1>b, <1>s, <2>1, <2>3 DEF Copied
    <3> QED BY Zenon, <1>a, <1>b, <1>n, <1>w, <3>1, <3>2 DEF PhaseInv, InCommit
  <2> QED BY Zenon, <2>2, <2>3
<1>7. PinInv'
  BY <1>a, <1>n, <1>w DEF PinInv, InCommit
<1> QED BY Zenon, <1>1, <1>2, <1>3, <1>4, <1>5, <1>6, <1>7

LEMMA WriteHeadInv ==
  ASSUME LogInv, NEW o \in Ops, WriteHead(o)
  PROVE  LogInv'
<1> USE DEF LogInv
<1> DEFINE loc == "install_trans"
<1>a. /\ pc[o] = "write_head"
      /\ dhead' = lh
      /\ tail' = 1
      /\ pc' = [pc EXCEPT ![o] = loc]
      /\ UNCHANGED <<disk, dlog, lh, outstanding, committing, cache, pin, mode, buf, wrote>>
  BY Zenon DEF WriteHead, logVars
<1>w. /\ committing /\ mode = "up" /\ Active = {}
      /\ \A q \in Ops : /\ q # o => pc[q] \notin InCommit
                        /\ pc[q] \notin InOp /\ buf[q] = NoBlock /\ wrote[q] = {}
  BY Zenon, <1>a, Committer DEF InCommit
<1>n. /\ pc'[o] = loc /\ \A q \in Ops : pc'[q] \in InCommit => q = o
      /\ \A q \in Ops : q # o => pc'[q] \notin {"install_trans", "clear"}
  BY Zenon, <1>a, <1>w DEF TypeOK, InCommit
<1>s. lh \in Seq(Blocks) /\ Len(lh) \in Nat /\ Len(lh) <= LOGSIZE /\ LOGSIZE \in Nat /\ LOGSIZE >= 1
  BY LogAssumption DEF TypeOK, Headers
<1>f. CallInv' /\ CommitInv' /\ SpaceInv'
  BY Zenon, <1>a, CommitFrame DEF InCommit
<1>b. lh # <<>> /\ Copied(Len(lh))
  BY Zenon, <1>a DEF PhaseInv
<1>1. TypeOK'
  BY <1>a, <1>s DEF TypeOK, PCs, InCommit
<1>2. CallInv'
  BY Zenon, <1>f
<1>3. CommitInv'
  BY Zenon, <1>f
<1>4. HeadInv'
  BY <1>a DEF HeadInv, Header
<1>5. SpaceInv'
  BY Zenon, <1>f
<1>6. PhaseInv'
  <2>1. Copied(Len(lh))' /\ Home(tail - 1)' /\ tail' \in 1..Len(lh')
    <3> HIDE DEF LogInv
    <3> QED BY <1>a, <1>b, <1>s DEF Copied, Home
  <2> QED BY Zenon, <1>a, <1>n, <1>w, <2>1 DEF PhaseInv, InCommit
<1>7. PinInv'
  <2>1. \A q \in Ops : pc[q] \notin {"install_trans", "clear"}
    BY Zenon, <1>a, <1>w DEF InCommit
  <2>2. \A c \in Blocks : InLog(c, lh) <=> \E i \in tail'..Len(lh') : lh'[i] = c
    BY Zenon, <1>a DEF InLog
  <2> QED BY <1>a, <1>n, <1>w, <2>1, <2>2 DEF PinInv
<1> QED BY Zenon, <1>1, <1>2, <1>3, <1>4, <1>5, <1>6, <1>7

LEMMA InstallTransInv ==
  ASSUME LogInv, NEW o \in Ops, InstallTrans(o)
  PROVE  LogInv'
<1> USE DEF LogInv
<1> DEFINE loc == IF tail = Len(lh) THEN "clear" ELSE "install_trans"
           b == lh[tail]
<1>a. /\ pc[o] = "install_trans"
      /\ disk' = [disk EXCEPT ![b] = dlog[tail]]
      /\ cache' = [cache EXCEPT ![b] = dlog[tail]]
      /\ pin' = [pin EXCEPT ![b] = @ - 1]
      /\ tail' = tail + 1
      /\ pc' = [pc EXCEPT ![o] = loc]
      /\ UNCHANGED <<dlog, dhead, lh, outstanding, committing, mode, buf, wrote>>
  BY Zenon DEF InstallTrans, InstallBlock, logVars
<1>w. /\ committing /\ mode = "up" /\ Active = {}
      /\ \A q \in Ops : /\ q # o => pc[q] \notin InCommit
                        /\ pc[q] \notin InOp /\ buf[q] = NoBlock /\ wrote[q] = {}
  BY Zenon, <1>a, Committer DEF InCommit
<1>n. /\ pc'[o] = loc /\ \A q \in Ops : pc'[q] \in InCommit => q = o
      /\ \A q \in Ops : q # o => pc'[q] \notin {"install_trans", "clear"}
  BY Zenon, <1>a, <1>w DEF TypeOK, InCommit
<1>s. lh \in Seq(Blocks) /\ Len(lh) \in Nat /\ Len(lh) <= LOGSIZE /\ LOGSIZE \in Nat /\ LOGSIZE >= 1
  BY LogAssumption DEF TypeOK, Headers
<1>f. CallInv' /\ CommitInv' /\ SpaceInv'
  BY Zenon, <1>a, CommitFrame DEF InCommit
<1>b. tail \in 1..Len(lh) /\ dhead = lh /\ Copied(Len(lh)) /\ Home(tail - 1)
  BY Zenon, <1>a DEF PhaseInv
<1>c. b \in Blocks /\ dlog[tail] = cache[b] /\ dlog[tail] \in Vals /\ \A i \in 1..Len(lh) : lh[i] = b => i = tail
  BY <1>b, <1>s DEF Copied, TypeOK, HeadInv, Header
<1> HIDE DEF b
<1>d. cache' = cache
  BY Zenon, <1>a, <1>c DEF TypeOK
<1>1. TypeOK'
  BY <1>a, <1>b, <1>c, <1>d, <1>s DEF TypeOK, PCs, InCommit
<1>2. CallInv'
  BY Zenon, <1>f
<1>3. CommitInv'
  BY Zenon, <1>f
<1>4. HeadInv'
  BY Zenon, <1>a DEF HeadInv
<1>5. SpaceInv'
  BY Zenon, <1>f
<1>6. PhaseInv'
  <2>1. \A i \in 1..tail : disk'[lh[i]] = dlog[i]
    <3> SUFFICES ASSUME NEW i \in 1..tail PROVE disk'[lh[i]] = dlog[i]
      BY Zenon
    <3>1. CASE i = tail
      BY Zenon, <1>a, <1>c, <3>1 DEF TypeOK, b
    <3>2. CASE i # tail
      <4>1. i \in 1..(tail - 1) /\ i \in 1..Len(lh) /\ lh[i] # b /\ lh[i] \in Blocks
        <5> HIDE DEF LogInv
        <5>1. tail \in 1..Len(lh) /\ Len(lh) \in Nat
          BY Zenon, <1>b, <1>c, <1>s
        <5>2. i \in 1..(tail - 1) /\ i \in 1..Len(lh)
          BY <3>2, <5>1
        <5>3. lh[i] \in Blocks
          BY <1>s, <5>2
        <5> QED BY Zenon, <1>c, <3>2, <5>2, <5>3
      <4> QED BY Zenon, <1>a, <1>b, <4>1 DEF TypeOK, Home
    <3> QED BY Zenon, <3>1, <3>2
  <2>2. \A c \in Blocks : cache'[c] = disk'[c] \/ InLog(c, lh')
    <3> SUFFICES ASSUME NEW c \in Blocks, cache'[c] # disk'[c] PROVE InLog(c, lh)
      BY Zenon, <1>a
    <3>1. CASE c = b
      BY Zenon, <1>b, <3>1 DEF InLog, b
    <3>2. CASE c # b
      BY <1>a, <1>d, <1>w, <3>2, LogAssumption DEF TypeOK, PhaseInv
    <3> QED BY Zenon, <3>1, <3>2
  <2>3. Copied(Len(lh))'
    BY Zenon, <1>a, <1>b, <1>d DEF Copied
  <2>4. CASE tail = Len(lh)
    <3>1. pc'[o] = "clear"
      BY Zenon, <1>n, <2>4
    <3>2. Home(Len(lh))'
      BY Zenon, <1>a, <2>1, <2>4 DEF Home
    <3> QED BY Zenon, <1>a, <1>b, <1>n, <1>w, <2>2, <2>3, <3>1, <3>2 DEF PhaseInv, InCommit
  <2>5. CASE tail # Len(lh)
    <3>1. pc'[o] = "install_trans"
      BY Zenon, <1>n, <2>5
    <3>2. Home(tail - 1)' /\ tail' \in 1..Len(lh')
      <4>1. tail' = tail + 1 /\ lh' = lh /\ dlog' = dlog
        BY Zenon, <1>a
      <4>2. tail \in 1..Len(lh) /\ Len(lh) \in Nat
        BY Zenon, <1>b, <1>s
      <4> HIDE DEF LogInv
      <4>3. tail' - 1 = tail /\ tail' \in 1..Len(lh')
        BY <2>5, <4>1, <4>2
      <4> QED BY Zenon, <2>1, <4>1, <4>3 DEF Home
    <3> QED BY Zenon, <1>a, <1>b, <1>n, <1>w, <2>2, <2>3, <3>1, <3>2 DEF PhaseInv, InCommit
  <2> QED BY Zenon, <2>4, <2>5
<1>7. PinInv'
  <2> SUFFICES ASSUME ~CrashInstall PROVE PinInv'
    BY Zenon DEF PinInv
  <2>1. \A c \in Blocks : pin[c] = IF \E i \in tail..Len(lh) : lh[i] = c THEN 1 ELSE 0
    BY Zenon, <1>a DEF PinInv
  <2>2. \A c \in Blocks : pin'[c] = IF \E i \in (tail + 1)..Len(lh) : lh[i] = c THEN 1 ELSE 0
    <3> SUFFICES ASSUME NEW c \in Blocks
                 PROVE  pin'[c] = IF \E i \in (tail + 1)..Len(lh) : lh[i] = c THEN 1 ELSE 0
      BY Zenon
    <3>1. CASE c = b
      <4>1. pin[c] = 1
        <5>1. tail \in tail..Len(lh)
          BY <1>b, <1>s
        <5> QED BY Zenon, <2>1, <3>1, <5>1 DEF b
      <4>2. ~\E i \in (tail + 1)..Len(lh) : lh[i] = c
        BY <1>b, <1>c, <1>s, <3>1
      <4> QED BY <1>a, <3>1, <4>1, <4>2 DEF TypeOK
    <3>2. CASE c # b
      <4>1. pin'[c] = pin[c]
        BY Zenon, <1>a, <3>2 DEF TypeOK
      <4>2. (\E i \in tail..Len(lh) : lh[i] = c) <=> \E i \in (tail + 1)..Len(lh) : lh[i] = c
        BY <1>b, <1>s, <3>2 DEF b
      <4> QED BY Zenon, <2>1, <4>1, <4>2
    <3> QED BY Zenon, <3>1, <3>2
  <2>3. tail = Len(lh) => \A c \in Blocks : pin'[c] = 0
    BY <1>s, <2>2
  <2>4. mode' = "up" /\ lh' = lh /\ tail' = tail + 1 /\ pc'[o] \in {"install_trans", "clear"}
    BY Zenon, <1>a, <1>n, <1>w
  <2>5. pc'[o] = "clear" => tail = Len(lh)
    BY Zenon, <1>n
  <2>6. \A q \in Ops : pc'[q] \in {"install_trans", "clear"} => q = o
    BY Zenon, <1>n
  <2> QED BY Zenon, <2>2, <2>3, <2>4, <2>5, <2>6 DEF PinInv
<1> QED BY Zenon, <1>1, <1>2, <1>3, <1>4, <1>5, <1>6, <1>7

LEMMA ClearHeadInv ==
  ASSUME LogInv, NEW o \in Ops, ClearHead(o)
  PROVE  LogInv'
<1> USE DEF LogInv
<1> DEFINE loc == "end"
<1>a. /\ pc[o] = "clear"
      /\ lh' = <<>> /\ dhead' = <<>> /\ tail' = 1
      /\ pc' = [pc EXCEPT ![o] = loc]
      /\ UNCHANGED <<disk, dlog, outstanding, committing, cache, pin, mode, buf, wrote>>
  BY Zenon DEF ClearHead
<1>w. /\ committing /\ mode = "up" /\ Active = {}
      /\ \A q \in Ops : /\ q # o => pc[q] \notin InCommit
                        /\ pc[q] \notin InOp /\ buf[q] = NoBlock /\ wrote[q] = {}
  BY Zenon, <1>a, Committer DEF InCommit
<1>n. /\ pc'[o] = loc /\ \A q \in Ops : pc'[q] \in InCommit => q = o
      /\ \A q \in Ops : q # o => pc'[q] \notin {"install_trans", "clear"}
  BY Zenon, <1>a, <1>w DEF TypeOK, InCommit
<1>s. lh \in Seq(Blocks) /\ Len(lh) \in Nat /\ Len(lh) <= LOGSIZE /\ LOGSIZE \in Nat /\ LOGSIZE >= 1
  BY LogAssumption DEF TypeOK, Headers
<1>f. CallInv' /\ CommitInv' /\ SpaceInv'
  BY Zenon, <1>a, CommitFrame DEF InCommit
<1>b. Copied(Len(lh)) /\ Home(Len(lh))
  BY Zenon, <1>a DEF PhaseInv
<1>c. \A c \in Blocks : cache[c] = disk[c]
  BY <1>b, <1>w, LogAssumption DEF PhaseInv, Copied, Home, InLog
<1>e. <<>> \in Headers /\ Len(<<>>) = 0 /\ \A c : ~InLog(c, <<>>)
  BY <1>s DEF Headers, InLog
<1>1. TypeOK'
  BY <1>a, <1>e, <1>s DEF TypeOK, PCs, InCommit
<1>2. CallInv'
  BY Zenon, <1>f
<1>3. CommitInv'
  BY Zenon, <1>f
<1>4. HeadInv'
  BY <1>a, <1>e DEF HeadInv, Header
<1>5. SpaceInv'
  BY Zenon, <1>f
<1>6. PhaseInv'
  BY Zenon, <1>a, <1>c, <1>n, <1>w DEF PhaseInv, InCommit
<1>7. PinInv'
  BY Zenon, <1>a, <1>e, <1>n, <1>w DEF PinInv
<1> QED BY Zenon, <1>1, <1>2, <1>3, <1>4, <1>5, <1>6, <1>7

LEMMA EndCommitInv ==
  ASSUME LogInv, NEW o \in Ops, EndCommit(o)
  PROVE  LogInv'
<1> USE DEF LogInv
<1>a. /\ pc[o] = "end" /\ committing' = FALSE
      /\ UNCHANGED <<disk, dlog, dhead, lh, outstanding, cache, pin, mode, tail, buf, wrote>>
  BY Zenon DEF EndCommit, diskVars
<1>c. /\ pc'[o] = "idle" /\ pc' \in [Ops -> PCs]
      /\ \A q \in Ops : q # o => pc'[q] = IF pc[q] = "sleep" THEN "woken" ELSE pc[q]
  BY Zenon DEF EndCommit, Wakeup, TypeOK, PCs
<1>w. /\ committing /\ mode = "up" /\ Active = {}
      /\ \A q \in Ops : /\ q # o => pc[q] \notin InCommit
                        /\ pc[q] \notin InOp /\ buf[q] = NoBlock /\ wrote[q] = {}
  BY Zenon, <1>a, Committer DEF InCommit
<1>d. \A q \in Ops : pc'[q] \in {"idle", "woken"} \/ pc'[q] = pc[q]
  BY Zenon, <1>c
<1>e. \A q \in Ops : pc'[q] \notin InCommit /\ pc'[q] \notin InOp
  BY Zenon, <1>c, <1>w DEF InCommit, InOp
<1>b. Active' = Active
  BY Zenon, <1>e, <1>w DEF Active
<1>g. Pending' = Pending /\ Written' = Written
  BY Zenon, <1>a, <1>e, <1>w DEF Pending, Written, InOp
<1>h. lh = <<>> /\ dhead = <<>>
  BY Zenon, <1>a DEF PhaseInv
<1>1. TypeOK'
  BY Zenon, <1>a, <1>c DEF TypeOK
<1>2. CallInv'
  BY Zenon, <1>a, <1>e, <1>w DEF CallInv, InOp
<1>3. CommitInv'
  BY Zenon, <1>a, <1>b, <1>e, <1>h, <1>w DEF CommitInv
<1>4. HeadInv'
  BY Zenon, <1>a DEF HeadInv
<1>5. SpaceInv'
  BY Zenon, <1>a, <1>b, <1>g DEF SpaceInv
<1>6. PhaseInv'
  BY Zenon, <1>a, <1>e, <1>h, <1>w DEF PhaseInv, InCommit
<1>7. PinInv'
  BY Zenon, <1>a, <1>e, <1>w DEF PinInv, InCommit
<1> QED BY Zenon, <1>1, <1>2, <1>3, <1>4, <1>5, <1>6, <1>7

\* A buffer without references has nothing that its home block lacks.
LEMMA Unneeded ==
  ASSUME LogInv, ~CrashInstall, NEW b \in Blocks, pin[b] = 0, \A q \in Ops : buf[q] # b
  PROVE  cache[b] = disk[b]
<1> USE DEF LogInv
<1>1. CASE mode = "recover"
  BY Zenon, <1>1 DEF PhaseInv
<1>2. CASE mode = "up" /\ ~InLog(b, lh)
  BY Zenon, <1>2 DEF PhaseInv
<1>3. CASE mode = "up" /\ InLog(b, lh)
  <2>1. PICK i \in 1..Len(lh) : lh[i] = b
    BY Zenon, <1>3 DEF InLog
  <2>2. PICK q \in Ops : pc[q] \in {"install_trans", "clear"}
    BY <1>3 DEF PinInv
  <2>3. CASE pc[q] = "clear"
    BY <2>1, <2>3 DEF PhaseInv, Copied, Home
  <2>4. CASE pc[q] = "install_trans"
    <3>1. ~\E j \in tail..Len(lh) : lh[j] = b
      BY <2>4 DEF PinInv
    <3>2. tail \in 1..Len(lh) /\ Copied(Len(lh)) /\ Home(tail - 1)
      BY Zenon, <2>4 DEF PhaseInv
    <3>3. i \in 1..(tail - 1)
      BY <2>1, <3>1, <3>2
    <3> QED BY Zenon, <2>1, <3>2, <3>3 DEF Copied, Home
  <2> QED BY Zenon, <2>2, <2>3, <2>4
<1> QED BY Zenon, <1>1, <1>2, <1>3 DEF TypeOK

\* So recycling it changes nothing.
LEMMA RecycleKeeps ==
  ASSUME LogInv, CrashInstall => Recyclable = {}, NEW b \in Recyclable, Recycle(b)
  PROVE  UNCHANGED vars
<1>1. b \in Blocks /\ ~CrashInstall
  BY Zenon, LogAssumption
<1>2. cache[b] = disk[b]
  BY Zenon, <1>1, Unneeded DEF Recycle, Holds
<1>3. cache' = cache
  BY Zenon, <1>1, <1>2 DEF Recycle, LogInv, TypeOK
<1> QED BY Zenon, <1>3 DEF Recycle, vars, diskVars, logVars

LEMMA CrashInv ==
  ASSUME LogInv, Crash
  PROVE  LogInv'
<1> USE DEF LogInv
<1>a. /\ CrashInstall \/ dhead = <<>>
      /\ cache' = disk
      /\ pin' = [b \in Blocks |-> 0]
      /\ lh' = dhead /\ outstanding' = 0 /\ committing' = FALSE /\ mode' = "recover" /\ tail' = 1
      /\ pc' = [o \in Ops |-> "idle"]
      /\ buf' = [o \in Ops |-> NoBlock]
      /\ wrote' = [o \in Ops |-> {}]
      /\ UNCHANGED <<disk, dlog, dhead>>
  BY Zenon DEF Crash, diskVars
<1>b. Active' = {} /\ Pending' = {} /\ Written' = {}
  BY Zenon, <1>a DEF Active, Pending, Written, InOp
<1>c. Cardinality({}) = 0 /\ IsFiniteSet({}) /\ OpBlocks >= 0 /\ MAXOPBLOCKS \in Nat /\ LOGSIZE \in Nat
  BY FS_EmptySet, LogAssumption
<1>d. dhead \in Seq(Blocks) /\ Len(dhead) \in Nat /\ Len(dhead) <= LOGSIZE
  BY DEF TypeOK, Headers
<1>1. TypeOK'
  <2>1. pc' \in [Ops -> PCs] /\ buf' \in [Ops -> Blocks \cup {NoBlock}] /\ wrote' \in [Ops -> SUBSET Blocks]
    BY Zenon, <1>a DEF PCs
  <2>2. pin' \in [Blocks -> Int] /\ outstanding' \in Nat /\ tail' \in 1..(LOGSIZE + 1)
    BY <1>a, <1>c
  <2>3. committing' \in BOOLEAN /\ mode' \in {"recover", "up"}
    BY Zenon, <1>a
  <2> QED BY Zenon, <1>a, <2>1, <2>2, <2>3 DEF TypeOK
<1>2. CallInv'
  BY Zenon, <1>a, <1>c DEF CallInv
<1>3. CommitInv'
  BY Zenon, <1>a, <1>b, <1>c DEF CommitInv, InCommit
<1>4. HeadInv'
  BY Zenon, <1>a DEF HeadInv
<1>5. SpaceInv'
  BY <1>a, <1>b, <1>c, <1>d DEF SpaceInv
<1>6. PhaseInv'
  BY <1>a, <1>d DEF PhaseInv, Home
<1>7. PinInv'
  BY <1>a DEF PinInv, InLog
<1> QED BY Zenon, <1>1, <1>2, <1>3, <1>4, <1>5, <1>6, <1>7

LEMMA RecoverInstallInv ==
  ASSUME LogInv, RecoverInstall
  PROVE  LogInv'
<1> USE DEF LogInv
<1> DEFINE b == lh[tail]
<1>a. /\ mode = "recover" /\ tail <= Len(lh)
      /\ disk' = [disk EXCEPT ![b] = dlog[tail]]
      /\ cache' = [cache EXCEPT ![b] = dlog[tail]]
      /\ pin' = [pin EXCEPT ![b] = @ - 1]
      /\ tail' = tail + 1
      /\ UNCHANGED <<dlog, dhead, lh, outstanding, committing, mode, pc, buf, wrote>>
  BY Zenon DEF RecoverInstall, InstallBlock, logVars
<1>s. lh \in Seq(Blocks) /\ Len(lh) \in Nat /\ Len(lh) <= LOGSIZE /\ LOGSIZE \in Nat
  BY LogAssumption DEF TypeOK, Headers
<1>b. tail \in 1..Len(lh) /\ dhead = lh /\ cache = disk /\ Home(tail - 1)
  BY <1>a, <1>s DEF PhaseInv
<1>c. b \in Blocks /\ dlog[tail] \in Vals /\ \A i \in 1..Len(lh) : lh[i] = b => i = tail
  BY <1>b, <1>s DEF TypeOK, HeadInv, Header
<1> HIDE DEF b
<1>d. Active' = Active /\ Pending' = Pending /\ Written' = Written
  BY Zenon, <1>a DEF Active, Pending, Written
<1>e. \A o \in Ops : pc[o] = "idle"
  BY Zenon, <1>a DEF CommitInv
<1>1. TypeOK'
  BY <1>a, <1>b, <1>c, <1>s DEF TypeOK
<1>2. CallInv'
  BY Zenon, <1>a DEF CallInv
<1>3. CommitInv'
  BY Zenon, <1>a, <1>d DEF CommitInv
<1>4. HeadInv'
  BY Zenon, <1>a DEF HeadInv
<1>5. SpaceInv'
  BY Zenon, <1>a, <1>d DEF SpaceInv
<1>6. PhaseInv'
  <2>1. \A i \in 1..tail : disk'[lh[i]] = dlog[i]
    <3> SUFFICES ASSUME NEW i \in 1..tail PROVE disk'[lh[i]] = dlog[i]
      BY Zenon
    <3>1. CASE i = tail
      BY Zenon, <1>a, <1>c, <3>1 DEF TypeOK, b
    <3>2. CASE i # tail
      <4>1. i \in 1..(tail - 1) /\ i \in 1..Len(lh) /\ lh[i] # b /\ lh[i] \in Blocks
        <5> HIDE DEF LogInv
        <5>1. tail \in 1..Len(lh) /\ Len(lh) \in Nat
          BY Zenon, <1>b, <1>c, <1>s
        <5>2. i \in 1..(tail - 1) /\ i \in 1..Len(lh)
          BY <3>2, <5>1
        <5>3. lh[i] \in Blocks
          BY <1>s, <5>2
        <5> QED BY Zenon, <1>c, <3>2, <5>2, <5>3
      <4> QED BY Zenon, <1>a, <1>b, <4>1 DEF TypeOK, Home
    <3> QED BY Zenon, <3>1, <3>2
  <2>2. cache' = disk' /\ lh' = dhead'
    BY Zenon, <1>a, <1>b
  <2>3. tail' \in 1..(Len(lh') + 1) /\ Home(tail - 1)'
    BY <1>a, <1>b, <1>s, <2>1 DEF Home
  <2> QED BY Zenon, <1>a, <1>e, <2>2, <2>3 DEF PhaseInv
<1>7. PinInv'
  BY <1>a, <1>b, <1>s DEF PinInv
<1> QED BY Zenon, <1>1, <1>2, <1>3, <1>4, <1>5, <1>6, <1>7

LEMMA RecoverClearInv ==
  ASSUME LogInv, RecoverClear
  PROVE  LogInv'
<1> USE DEF LogInv
<1>a. /\ mode = "recover"
      /\ lh' = <<>> /\ dhead' = <<>> /\ mode' = "up" /\ tail' = 1
      /\ UNCHANGED <<disk, dlog, outstanding, committing, cache, pin, pc, buf, wrote>>
  BY Zenon DEF RecoverClear
<1>b. cache = disk /\ ~committing /\ \A o \in Ops : pc[o] = "idle" /\ buf[o] = NoBlock /\ wrote[o] = {}
  BY Zenon, <1>a DEF PhaseInv, CommitInv, CallInv, InOp
<1>c. Active' = {} /\ Pending' = {} /\ Written' = {} /\ Active = {}
  BY Zenon, <1>a, <1>b DEF Active, Pending, Written, InOp
<1>d. Cardinality({}) = 0 /\ MAXOPBLOCKS \in Nat /\ LOGSIZE \in Nat
  BY Zenon, FS_EmptySet, LogAssumption
<1>e. <<>> \in Headers /\ Len(<<>>) = 0 /\ \A c : ~InLog(c, <<>>)
  BY <1>d DEF Headers, InLog
<1>1. TypeOK'
  BY <1>a, <1>d, <1>e DEF TypeOK
<1>2. CallInv'
  BY Zenon, <1>a, <1>b DEF CallInv
<1>3. CommitInv'
  BY Zenon, <1>a, <1>b, <1>c DEF CommitInv, InCommit
<1>4. HeadInv'
  BY <1>a, <1>e DEF HeadInv, Header
<1>5. SpaceInv'
  BY <1>a, <1>c, <1>d, <1>e DEF SpaceInv
<1>6. PhaseInv'
  BY Zenon, <1>a, <1>b DEF PhaseInv
<1>7. PinInv'
  BY <1>a, <1>b, <1>e DEF PinInv
<1> QED BY Zenon, <1>1, <1>2, <1>3, <1>4, <1>5, <1>6, <1>7

LEMMA LogStep ==
  ASSUME LogInv, CrashInstall => Recyclable = {}, [Next]_vars
  PROVE  LogInv'
<1>1. CASE UNCHANGED vars
  <2>1. Active' = Active /\ Pending' = Pending /\ Written' = Written
    BY Zenon, <1>1 DEF vars, Active, Pending, Written
  <2>2. TypeOK' /\ CallInv' /\ CommitInv'
    BY Zenon, <1>1, <2>1 DEF vars, LogInv, TypeOK, CallInv, CommitInv
  <2>3. HeadInv' /\ SpaceInv'
    BY Zenon, <1>1, <2>1 DEF vars, LogInv, HeadInv, Header, SpaceInv
  <2>4. PhaseInv'
    <3>1. \A n : Copied(n)' <=> Copied(n)
      BY Zenon, <1>1 DEF vars, Copied
    <3>2. \A n : Home(n)' <=> Home(n)
      BY Zenon, <1>1 DEF vars, Home
    <3> QED BY <1>1, <3>1, <3>2 DEF vars, LogInv, PhaseInv
  <2>5. PinInv'
    BY Zenon, <1>1 DEF vars, LogInv, PinInv
  <2> QED BY Zenon, <2>2, <2>3, <2>4, <2>5 DEF LogInv
<1>2. CASE \E b \in Recyclable : Recycle(b)
  BY Zenon, <1>1, <1>2, RecycleKeeps
<1>3. ASSUME NEW o \in Ops, OpStep(o) PROVE LogInv'
  BY Zenon, <1>3, BeginSleepInv, BeginEnterInv, ModifyInv, LogCheckInv, LogAppendInv, EndOpEarlyInv, EndOpLastInv DEF OpStep
<1>4. ASSUME NEW o \in Ops, CommitStep(o) PROVE LogInv'
  BY Zenon, <1>4, WriteLogInv, WriteHeadInv, InstallTransInv, ClearHeadInv, EndCommitInv DEF CommitStep
<1> QED BY Zenon, <1>1, <1>2, <1>3, <1>4, CrashInv, RecoverInstallInv, RecoverClearInv DEF Next

LEMMA AloneStep ==
  ASSUME LogInv, AloneInv, CrashInstall => Recyclable = {}, [Next]_vars
  PROVE  AloneInv'
<1> USE DEF LogInv
<1>a. /\ Len(lh) \in Nat /\ Cardinality(Active) \in Nat
      /\ Cardinality(Pending) \in Nat /\ Cardinality(Written) \in Nat
  <2>1. Len(lh) \in Nat
    BY DEF TypeOK, Headers
  <2>2. Cardinality(Active) \in Nat
    BY ActiveFinite
  <2> QED BY Zenon, <2>1, <2>2, PendingBound, WrittenBound
<1>b. MAXOPBLOCKS \in Nat /\ OpBlocks \in Nat /\ LOGSIZE \in Nat
  BY LogAssumption
<1>c. ASSUME Active' = {} PROVE AloneInv'
  BY <1>c, FS_EmptySet DEF AloneInv
<1>d. ASSUME UNCHANGED <<lh, Active, Pending, Written>> PROVE AloneInv'
  BY Zenon, <1>d DEF AloneInv
<1>1. CASE UNCHANGED vars
  <2>1. UNCHANGED <<lh, Active, Pending, Written>>
    BY Zenon, <1>1 DEF vars, Active, Pending, Written
  <2> QED BY Zenon, <1>d, <2>1
<1>2. ASSUME NEW b \in Recyclable, Recycle(b) PROVE AloneInv'
  BY Zenon, <1>1, <1>2, RecycleKeeps
<1>3. ASSUME NEW o \in Ops, BeginSleep(o) PROVE AloneInv'
  <2>1. UNCHANGED <<lh, Active, Pending, Written>>
    BY Zenon, <1>3 DEF BeginSleep, logVars, Active, Pending, Written, InOp, TypeOK
  <2> QED BY Zenon, <1>d, <2>1
<1>4. ASSUME NEW o \in Ops, BeginEnter(o) PROVE AloneInv'
  <2>1. o \notin Active /\ Active' = Active \cup {o} /\ UNCHANGED <<lh, Pending, Written>>
    BY Zenon, <1>4 DEF BeginEnter, Active, Pending, Written, InOp, TypeOK
  <2>2. Cardinality(Active') = Cardinality(Active) + 1
    BY Zenon, <2>1, ActiveFinite, FS_AddElement
  <2>3. ASSUME Cardinality(Active') = 1 PROVE Len(lh) + Cardinality(Pending) <= Cardinality(Written)
    <3>1. Active = {}
      BY <1>a, <2>2, <2>3, ActiveFinite
    <3>2. lh = <<>>
      BY Zenon, <1>4, <3>1 DEF BeginEnter, CommitInv
    <3> QED BY <1>a, <3>2, PendingBound
  <2> QED BY Zenon, <2>1, <2>3 DEF AloneInv
<1>5. ASSUME NEW o \in Ops, NEW b \in Blocks, NEW v \in Vals, Modify(o, b, v) PROVE AloneInv'
  <2>1. /\ Active' = Active /\ lh' = lh
        /\ Cardinality(Pending') \in Nat /\ Cardinality(Written') \in Nat
        /\ Cardinality(Pending') + Cardinality(Written) <= Cardinality(Pending) + Cardinality(Written')
    BY Zenon, <1>5, ModifyCounts
  <2> HIDE DEF LogInv
  <2> QED BY SMTT(30), <1>a, <1>b, <2>1 DEF AloneInv
<1>6. ASSUME NEW o \in Ops, LogCheck(o) PROVE AloneInv'
  <2>1. UNCHANGED <<lh, Active, Pending, Written>>
    BY Zenon, <1>6 DEF LogCheck, logVars, Active, Pending, Written, InOp, TypeOK
  <2> QED BY Zenon, <1>d, <2>1
<1>7. ASSUME NEW o \in Ops, LogAppend(o) PROVE AloneInv'
  <2>1. /\ Active' = Active /\ Written' = Written
        /\ Len(lh') \in Nat /\ Cardinality(Pending') \in Nat
        /\ Len(lh') + Cardinality(Pending') <= Len(lh) + Cardinality(Pending)
    BY Zenon, <1>7, LogAppendCounts
  <2> HIDE DEF LogInv
  <2> QED BY SMTT(30), <1>a, <1>b, <2>1 DEF AloneInv
<1>8. ASSUME NEW o \in Ops, EndOpEarly(o) PROVE AloneInv'
  <2>1. /\ pc[o] = "op" /\ wrote' = [wrote EXCEPT ![o] = {}] /\ UNCHANGED <<lh, buf>>
        /\ pc'[o] = "idle" /\ \A q \in Ops : q # o => pc'[q] = IF pc[q] = "sleep" THEN "woken" ELSE pc[q]
    BY Zenon, <1>8 DEF EndOpEarly, Wakeup, TypeOK, PCs
  <2>2. o \in Active /\ Active' = Active \ {o} /\ Pending' = Pending
    BY Zenon, <2>1 DEF Active, Pending, InOp
  <2>3. Cardinality(Active') = Cardinality(Active) - 1
    BY Zenon, <2>2, ActiveFinite, FS_RemoveElement
  <2>4. Cardinality(Written') = Cardinality(Written) - Cardinality(wrote[o])
    BY Zenon, <2>1, WrittenEnds
  <2>5. Cardinality(wrote[o]) \in Nat /\ Cardinality(wrote[o]) <= OpBlocks
    BY Zenon, FS_CardinalityType DEF CallInv
  <2>6. ASSUME Cardinality(Active') = 1
        PROVE  Len(lh) + 2 * MAXOPBLOCKS + Cardinality(Pending) <= LOGSIZE + Cardinality(Written') + OpBlocks
    <3>1. Cardinality(Active) = 2
      BY <1>a, <2>3, <2>6
    <3>2. Len(lh) + 2 * MAXOPBLOCKS + Cardinality(Pending) <= LOGSIZE + Cardinality(Written)
      BY Zenon, <3>1 DEF SpaceInv
    <3> QED BY SMTT(30), <1>a, <1>b, <2>4, <2>5, <3>2
  <2> QED BY Zenon, <2>1, <2>2, <2>6 DEF AloneInv
<1>9. ASSUME NEW o \in Ops, EndOpLast(o) PROVE AloneInv'
  <2>1. pc[o] = "op" /\ outstanding = 1 /\ outstanding' = 0
    BY Zenon, <1>9 DEF EndOpLast
  <2>2. CommitInv'
    BY Zenon, <1>9, EndOpLastInv
  <2>3. Cardinality(Active') = 0
    BY Zenon, <2>1, <2>2 DEF CommitInv
  <2> QED BY <2>3 DEF AloneInv
<1>10. ASSUME NEW o \in Ops, CommitStep(o) PROVE AloneInv'
  <2>1. pc[o] \in InCommit
    BY Zenon, <1>10 DEF CommitStep, WriteLog, WriteHead, InstallTrans, ClearHead, EndCommit, InCommit
  <2>2. ASSUME NEW q \in Ops PROVE pc'[q] \notin InOp
    <3>1. pc[q] \notin InOp
      BY Zenon, <2>1 DEF CommitInv, Active
    <3> QED BY Zenon, <1>10, <2>1, <3>1 DEF CommitStep, WriteLog, WriteHead, InstallTrans, ClearHead, EndCommit, Wakeup, TypeOK, InOp, InCommit
  <2> QED BY Zenon, <1>c, <2>2 DEF Active
<1>11. ASSUME Crash \/ RecoverInstall \/ RecoverClear PROVE AloneInv'
  <2>1. \A q \in Ops : pc'[q] = "idle"
    BY <1>11 DEF Crash, RecoverInstall, RecoverClear, CommitInv
  <2> QED BY Zenon, <1>c, <2>1 DEF Active, InOp
<1> QED BY Zenon, <1>1, <1>2, <1>3, <1>4, <1>5, <1>6, <1>7, <1>8, <1>9, <1>10, <1>11 DEF Next, OpStep

LEMMA AloneInit == Init => AloneInv
<1>1. Init => Active = {}
  BY Zenon DEF Init, Active, InOp
<1>2. Cardinality({}) = 0
  BY Zenon, FS_EmptySet
<1>3. Active = {} => Cardinality(Active) # 1
  BY <1>2
<1> QED BY Zenon, <1>1, <1>3 DEF AloneInv

\* With a block to spare in every reservation, log_write() finds room.
LEMMA LogFits ==
  ASSUME LogInv, AloneInv, LogRoom
  PROVE  NoPanic /\ LogInBounds /\ QuiescentDurable
<1> USE DEF LogInv
<1>1. /\ LOGSIZE \in Nat /\ OpBlocks \in Nat /\ MAXOPBLOCKS \in Nat /\ NLog \in Nat
      /\ OpBlocks + 1 <= MAXOPBLOCKS /\ MAXOPBLOCKS + 1 <= LOGSIZE /\ LOGSIZE <= NLog
  BY LogAssumption DEF LogRoom
<1>2. lh \in Seq(Blocks) /\ Len(lh) \in Nat
  BY DEF TypeOK, Headers
<1>3. ASSUME Active # {} PROVE Len(lh) + 2 <= LOGSIZE
  <2> DEFINE a == Cardinality(Active)
             p == Cardinality(Pending)
             w == Cardinality(Written)
  <2>1. a \in Nat /\ a >= 1 /\ p \in Nat /\ w \in Nat /\ w <= a * OpBlocks
    BY Zenon, <1>3, ActiveFinite, PendingBound, WrittenBound
  <2>2. CASE a = 1
    <3>1. w <= OpBlocks
      BY <1>1, <2>1, <2>2
    <3>2. Len(lh) + p <= w \/ Len(lh) + 2 * MAXOPBLOCKS + p <= LOGSIZE + w + OpBlocks
      BY Zenon, <2>2 DEF AloneInv
    <3> HIDE DEF a, p, w
    <3> QED BY <1>1, <1>2, <2>1, <3>1, <3>2
  <2>3. CASE a # 1
    <3>1. Len(lh) + a * MAXOPBLOCKS + p <= LOGSIZE + w
      BY Zenon DEF SpaceInv
    <3> HIDE DEF a, p, w
    <3>2. a * MAXOPBLOCKS = a * OpBlocks + a * (MAXOPBLOCKS - OpBlocks)
      BY <1>1, <2>1
    <3>3. a * (MAXOPBLOCKS - OpBlocks) >= a
      <4>1. a * (MAXOPBLOCKS - OpBlocks) = a + a * (MAXOPBLOCKS - OpBlocks - 1)
        BY <1>1, <2>1
      <4>2. MAXOPBLOCKS - OpBlocks - 1 \in Nat
        BY <1>1
      <4>3. a * (MAXOPBLOCKS - OpBlocks - 1) \in Nat
        BY <2>1, <4>2
      <4> QED BY <2>1, <4>1, <4>3
    <3>4. a * OpBlocks \in Nat /\ a * (MAXOPBLOCKS - OpBlocks) \in Int /\ a >= 2
      BY <1>1, <2>1, <2>3
    <3> QED BY <1>1, <1>2, <2>1, <3>1, <3>2, <3>3, <3>4
  <2> QED BY Zenon, <2>2, <2>3
<1>4. ASSUME NEW o \in Ops, pc[o] \in InOp PROVE ~TooBig /\ outstanding >= 1 /\ ~committing
  <2>1. o \in Active
    BY Zenon, <1>4 DEF Active
  <2>2. ~TooBig
    BY <1>1, <1>2, <1>3, <2>1 DEF TooBig
  <2>3. outstanding >= 1
    BY Zenon, <2>1, ActiveFinite DEF CommitInv
  <2>4. ~committing
    BY Zenon, <2>1 DEF CommitInv
  <2> QED BY Zenon, <2>2, <2>3, <2>4
<1>5. NoPanic
  BY Zenon, <1>4 DEF NoPanic, InOp
<1>6. LogInBounds
  BY <1>1, <1>2 DEF LogInBounds, HeadInv, Header, MaxLog
<1>7. QuiescentDurable
  <2> SUFFICES ASSUME mode = "up", outstanding = 0, ~committing PROVE lh = <<>> /\ dhead = <<>> /\ cache = disk
    BY Zenon DEF QuiescentDurable
  <2>1. Active = {}
    BY ActiveFinite DEF CommitInv
  <2>2. lh = <<>> /\ dhead = <<>>
    BY Zenon, <2>1 DEF CommitInv, PhaseInv
  <2>3. \A b : ~InLog(b, lh)
    BY <2>2 DEF InLog
  <2>4. \A o \in Ops : buf[o] = NoBlock
    BY Zenon, <2>1 DEF Active, CallInv, InOp
  <2>5. \A b \in Blocks : cache[b] = disk[b]
    BY Zenon, <2>3, <2>4, LogAssumption DEF PhaseInv
  <2> QED BY <2>2, <2>5 DEF TypeOK
<1> QED BY Zenon, <1>5, <1>6, <1>7

\* log_write() never panics for want of room or outside a transaction, end_op()
\* never during a commit, the log stays within its blocks on disk, and without
\* calls everything is in its home block: also across crashes and recoveries.
THEOREM LogNeverPanics ==
  ASSUME LogRoom, CrashInstall => Recyclable = {}
  PROVE  Spec => [](TypeOK /\ NoPanic /\ LogInBounds /\ QuiescentDurable)
<1>1. LogInv /\ AloneInv => TypeOK /\ NoPanic /\ LogInBounds /\ QuiescentDurable
  BY Zenon, LogFits DEF LogInv
<1>2. LogInv /\ AloneInv /\ [Next]_vars => LogInv' /\ AloneInv'
  BY Zenon, LogStep, AloneStep
<1> QED BY <1>1, <1>2, InitInv, AloneInit, PTL DEF Spec

\* When no recovery has installed a transaction, a buffer without references can be
\* recycled as well.
THEOREM LogStaysSound ==
  ASSUME LogRoom, ~CrashInstall
  PROVE  Spec => []LogSound
<1>1. LogInv /\ AloneInv => LogSound
  BY Zenon, LogFits, Unneeded DEF LogInv, LogSound, RecycleSafe, Holds
<1>2. LogInv /\ AloneInv /\ [Next]_vars => LogInv' /\ AloneInv'
  BY Zenon, LogStep, AloneStep
<1> QED BY <1>1, <1>2, InitInv, AloneInit, PTL DEF Spec

-----------------------------------------------------------------------------
(* Refinement: what each step does to what a reboot would find.            *)

OverlayOf(d, l, h) ==
  [b \in Blocks |-> IF InLog(b, h) THEN l[CHOOSE i \in 1..Len(h) : h[i] = b] ELSE d[b]]

\* The header h names no block twice; its log blocks l hold what f has at their
\* homes; elsewhere the disk d has what f has.
Distinct(h) == \A i, j \in 1..Len(h) : h[i] = h[j] => i = j
LogHolds(l, h, f) == \A i \in 1..Len(h) : l[i] = f[h[i]]
Elsewhere(d, h, f) == \A b \in Blocks : InLog(b, h) \/ d[b] = f[b]

LEMMA OverlayAt ==
  ASSUME NEW d, NEW l, NEW h, Distinct(h), NEW b \in Blocks
  PROVE  /\ \A i \in 1..Len(h) : h[i] = b => OverlayOf(d, l, h)[b] = l[i]
         /\ ~InLog(b, h) => OverlayOf(d, l, h)[b] = d[b]
<1>1. ASSUME NEW i \in 1..Len(h), h[i] = b PROVE OverlayOf(d, l, h)[b] = l[i]
  <2>1. InLog(b, h)
    BY Zenon, <1>1 DEF InLog
  <2>2. (CHOOSE j \in 1..Len(h) : h[j] = b) = i
    BY Zenon, <1>1 DEF Distinct
  <2> QED BY Zenon, <2>1, <2>2 DEF OverlayOf
<1> QED BY Zenon, <1>1 DEF OverlayOf

\* Home blocks that the header names do not matter.
LEMMA OverlaySame ==
  ASSUME NEW d, NEW l, NEW e, NEW h, Distinct(h), Elsewhere(d, h, e)
  PROVE  OverlayOf(d, l, h) = OverlayOf(e, l, h)
<1>1. ASSUME NEW b \in Blocks PROVE OverlayOf(d, l, h)[b] = OverlayOf(e, l, h)[b]
  <2>1. CASE ~InLog(b, h)
    BY <2>1, OverlayAt DEF Elsewhere
  <2>2. CASE InLog(b, h)
    <3>1. PICK i \in 1..Len(h) : h[i] = b
      BY Zenon, <2>2 DEF InLog
    <3>2. OverlayOf(d, l, h)[b] = l[i]
      BY <3>1, OverlayAt
    <3>3. OverlayOf(e, l, h)[b] = l[i]
      BY <3>1, OverlayAt
    <3> QED BY Zenon, <3>2, <3>3
  <2> QED BY Zenon, <2>1, <2>2
<1>2. OverlayOf(d, l, h) = [b \in Blocks |-> OverlayOf(d, l, h)[b]]
  BY DEF OverlayOf
<1>3. OverlayOf(e, l, h) = [b \in Blocks |-> OverlayOf(e, l, h)[b]]
  BY DEF OverlayOf
<1> HIDE DEF OverlayOf
<1> QED BY Zenon, <1>1, <1>2, <1>3

\* With every logged block equal to f at its home, and f on disk elsewhere, a reboot
\* finds f.
LEMMA OverlayMeans ==
  ASSUME NEW d, NEW l, NEW h, Distinct(h), NEW f \in [Blocks -> Vals],
         LogHolds(l, h, f), Elsewhere(d, h, f)
  PROVE  OverlayOf(d, l, h) = f
<1>1. ASSUME NEW b \in Blocks PROVE OverlayOf(d, l, h)[b] = f[b]
  <2>1. CASE ~InLog(b, h)
    BY <2>1, OverlayAt DEF Elsewhere
  <2>2. CASE InLog(b, h)
    <3>1. PICK i \in 1..Len(h) : h[i] = b
      BY Zenon, <2>2 DEF InLog
    <3>2. OverlayOf(d, l, h)[b] = l[i]
      BY <3>1, OverlayAt
    <3> QED BY Zenon, <3>1, <3>2 DEF LogHolds
  <2> QED BY Zenon, <2>1, <2>2
<1>2. OverlayOf(d, l, h) = [b \in Blocks |-> OverlayOf(d, l, h)[b]]
  BY DEF OverlayOf
<1> HIDE DEF OverlayOf
<1> QED BY Zenon, <1>1, <1>2

LEMMA OverlayHome ==
  ASSUME NEW d \in [Blocks -> Vals], NEW l, NEW h, Distinct(h), LogHolds(l, h, d)
  PROVE  OverlayOf(d, l, h) = d
<1>1. Elsewhere(d, h, d)
  BY Zenon DEF Elsewhere
<1> QED BY Zenon, <1>1, OverlayMeans

\* An empty header leaves what is on disk.
LEMMA OverlayEmpty ==
  ASSUME TypeOK, dhead = <<>>
  PROVE  Overlay = disk
<1>1. \A b : ~InLog(b, dhead)
  BY DEF InLog
<1> QED BY Zenon, <1>1 DEF Overlay, TypeOK

Current == IF mode = "up" THEN cache ELSE Overlay

\* What the atomic disk does not see.
LEMMA Silent ==
  ASSUME Current' = Current, Overlay' = Overlay, Active' = Active
  PROVE  UNCHANGED Abstract!avars
BY Zenon DEF Current, Active, Abstract!avars

LEMMA FrameSilent ==
  ASSUME UNCHANGED <<disk, dlog, dhead, cache, mode>>
  PROVE  Overlay' = Overlay /\ Current' = Current
BY DEF Overlay, Current

\* begin_op(), a write and end_op() are those of the atomic disk.
LEMMA CallRefines ==
  ASSUME LogInv, NEW o \in Ops, OpStep(o)
  PROVE  [Abstract!ANext]_(Abstract!avars)
<1> USE DEF LogInv
<1>1. CASE BeginSleep(o)
  <2>1. Active' = Active
    BY Zenon, <1>1 DEF BeginSleep, TypeOK, Active, InOp
  <2> QED BY Zenon, <1>1, <2>1, FrameSilent, Silent DEF BeginSleep, diskVars
<1>2. CASE BeginEnter(o)
  <2>1. o \notin Active /\ Active' = Active \cup {o}
    BY Zenon, <1>2 DEF BeginEnter, TypeOK, Active, InOp
  <2>2. Overlay' = Overlay /\ Current' = Current
    BY Zenon, <1>2, FrameSilent DEF BeginEnter, diskVars
  <2>3. Abstract!ABegin(o)
    BY Zenon, <2>1, <2>2 DEF Abstract!ABegin, Current, Active
  <2> QED BY Zenon, <2>3 DEF Abstract!ANext
<1>3. ASSUME NEW b \in Blocks, NEW v \in Vals, Modify(o, b, v) PROVE [Abstract!ANext]_(Abstract!avars)
  <2>1. o \in Active /\ Active' = Active /\ mode = "up" /\ mode' = "up"
    BY Zenon, <1>3 DEF Modify, TypeOK, Active, InOp, CommitInv
  <2>2. Overlay' = Overlay
    BY <1>3 DEF Modify, Overlay, diskVars
  <2>3. Current = cache /\ Current' = [cache EXCEPT ![b] = v]
    BY Zenon, <1>3, <2>1 DEF Modify, Current
  <2>4. Current' = [Current EXCEPT ![b] = v]
    BY Zenon, <2>3
  <2>5. Abstract!AWrite(o, b, v)
    BY Zenon, <2>1, <2>2, <2>4 DEF Abstract!AWrite, Current, Active
  <2> QED BY Zenon, <2>5 DEF Abstract!ANext
<1>4. CASE LogCheck(o)
  <2>1. Active' = Active
    BY Zenon, <1>4 DEF LogCheck, TypeOK, Active, InOp
  <2> QED BY Zenon, <1>4, <2>1, FrameSilent, Silent DEF LogCheck, diskVars
<1>5. CASE LogAppend(o)
  <2>1. Active' = Active
    BY Zenon, <1>5 DEF LogAppend, TypeOK, Active, InOp
  <2> QED BY Zenon, <1>5, <2>1, FrameSilent, Silent DEF LogAppend, diskVars
<1>6. CASE EndOpEarly(o) \/ EndOpLast(o)
  <2>1. o \in Active
    BY Zenon, <1>6 DEF EndOpEarly, EndOpLast, Active, InOp
  <2>2. CASE EndOpEarly(o)
    <3>1. Wakeup(pc) \in [Ops -> PCs] /\ \A q \in Ops : Wakeup(pc)[q] \in InOp <=> pc[q] \in InOp
      BY Zenon DEF Wakeup, TypeOK, PCs, InOp
    <3>2. pc' = [Wakeup(pc) EXCEPT ![o] = "idle"]
      BY Zenon, <2>2 DEF EndOpEarly
    <3>3. \A q \in Ops : pc'[q] \in InOp <=> (q # o /\ pc[q] \in InOp)
      BY Zenon, <3>1, <3>2 DEF InOp
    <3>4. Active' = Active \ {o}
      BY Zenon, <3>3 DEF Active
    <3> QED BY Zenon, <2>1, <2>2, <3>4, FrameSilent DEF EndOpEarly, diskVars, Abstract!AEnd, Abstract!ANext, Current, Active
  <2>3. CASE EndOpLast(o)
    <3>1. Active' = Active \ {o}
      BY Zenon, <2>3 DEF EndOpLast, TypeOK, Active, InOp
    <3> QED BY Zenon, <2>1, <2>3, <3>1, FrameSilent DEF EndOpLast, diskVars, Abstract!AEnd, Abstract!ANext, Current, Active
  <2> QED BY Zenon, <1>6, <2>2, <2>3
<1> QED BY Zenon, <1>1, <1>2, <1>3, <1>4, <1>5, <1>6 DEF OpStep

\* The first write_head() is the atomic disk's commit; write_log(), install_trans()
\* and the second write_head() change nothing that a reboot would find.
LEMMA CommitRefines ==
  ASSUME LogInv, NEW o \in Ops, CommitStep(o)
  PROVE  [Abstract!ANext]_(Abstract!avars)
<1> USE DEF LogInv
<1>a. pc[o] \in InCommit
  BY Zenon DEF CommitStep, WriteLog, WriteHead, InstallTrans, ClearHead, EndCommit, InCommit
<1>b. committing /\ Active = {} /\ mode = "up"
  BY Zenon, <1>a DEF CommitInv, TypeOK, InCommit
<1>c. /\ \A i, j \in 1..Len(lh) : lh[i] = lh[j] => i = j
      /\ \A i, j \in 1..Len(dhead) : dhead[i] = dhead[j] => i = j
      /\ lh \in Seq(Blocks) /\ Len(lh) \in Nat /\ Len(lh) <= LOGSIZE /\ LOGSIZE \in Nat
  BY LogAssumption DEF HeadInv, Header, TypeOK, Headers
<1>d. \A b \in Blocks : InLog(b, lh) \/ disk[b] = cache[b]
  BY <1>b, LogAssumption DEF PhaseInv, CallInv, Active, InOp
<1>e. Overlay = OverlayOf(disk, dlog, dhead) /\ Overlay' = OverlayOf(disk', dlog', dhead')
  BY Zenon DEF Overlay, OverlayOf
<1>f. mode' = "up" /\ Active' = {}
  <2>1. mode' = mode
    BY Zenon DEF CommitStep, WriteLog, WriteHead, InstallTrans, ClearHead, EndCommit
  <2>2. ASSUME NEW q \in Ops PROVE pc'[q] \notin InOp
    <3>1. pc[q] \notin InOp
      BY Zenon, <1>b DEF Active
    <3> QED BY Zenon, <1>a, <3>1 DEF CommitStep, WriteLog, WriteHead, InstallTrans, ClearHead, EndCommit, Wakeup, TypeOK, InOp, InCommit
  <2> QED BY Zenon, <1>b, <2>1, <2>2 DEF Active
<1>1. CASE WriteLog(o)
  <2>1. dhead = <<>> /\ UNCHANGED <<disk, dhead, cache>>
    BY Zenon, <1>1 DEF WriteLog, PhaseInv
  <2>2. Overlay' = Overlay
    BY <2>1 DEF Overlay, InLog
  <2> QED BY Zenon, <1>b, <1>f, <2>1, <2>2, Silent DEF Current
<1>2. CASE WriteHead(o)
  <2>1. dhead' = lh /\ UNCHANGED <<disk, dlog, cache>> /\ Copied(Len(lh))
    BY Zenon, <1>2 DEF WriteHead, PhaseInv
  <2>2. OverlayOf(disk, dlog, lh) = cache
    <3>1. LogHolds(dlog, lh, cache) /\ Elsewhere(disk, lh, cache)
      BY Zenon, <1>d, <2>1 DEF Copied, LogHolds, Elsewhere
    <3>2. cache \in [Blocks -> Vals] /\ Distinct(lh)
      BY Zenon, <1>c DEF TypeOK, Distinct
    <3> QED BY Zenon, <3>1, <3>2, OverlayMeans
  <2>3. Overlay' = cache
    BY Zenon, <1>e, <2>1, <2>2
  <2>4. Current = cache /\ Current' = cache
    BY Zenon, <1>b, <1>f, <2>1 DEF Current
  <2>5. Abstract!ACommit
    BY Zenon, <1>b, <1>f, <2>3, <2>4 DEF Abstract!ACommit, Current, Active
  <2> QED BY Zenon, <2>5 DEF Abstract!ANext
<1>3. CASE InstallTrans(o)
  <2> DEFINE b == lh[tail]
  <2>1. /\ dhead = lh /\ tail \in 1..Len(lh) /\ Copied(Len(lh))
        /\ disk' = [disk EXCEPT ![b] = dlog[tail]]
        /\ cache' = [cache EXCEPT ![b] = dlog[tail]]
        /\ dlog' = dlog /\ dhead' = dhead
    BY Zenon, <1>3 DEF InstallTrans, InstallBlock, PhaseInv
  <2>2. b \in Blocks /\ dlog[tail] = cache[b] /\ InLog(b, dhead)
    BY <1>c, <2>1 DEF Copied, InLog
  <2> HIDE DEF b
  <2>3. cache' = cache
    BY Zenon, <2>1, <2>2 DEF TypeOK
  <2>4. Elsewhere(disk, dhead, disk')
    BY Zenon, <2>1, <2>2 DEF TypeOK, Elsewhere
  <2>5. OverlayOf(disk, dlog, dhead) = OverlayOf(disk', dlog, dhead)
    <3>1. Distinct(dhead)
      BY Zenon, <1>c DEF Distinct
    <3> HIDE DEF LogInv
    <3> QED BY <2>4, <3>1, OverlaySame
  <2>6. Overlay' = Overlay
    BY Zenon, <1>e, <2>1, <2>5
  <2> QED BY Zenon, <1>b, <1>f, <2>3, <2>6, Silent DEF Current
<1>4. CASE ClearHead(o)
  <2>1. dhead = lh /\ Copied(Len(lh)) /\ Home(Len(lh)) /\ dhead' = <<>> /\ UNCHANGED <<disk, dlog, cache>>
    BY Zenon, <1>4 DEF ClearHead, PhaseInv
  <2>2. OverlayOf(disk, dlog, dhead) = disk
    <3>1. LogHolds(dlog, dhead, disk)
      BY Zenon, <2>1 DEF Home, LogHolds
    <3>2. disk \in [Blocks -> Vals] /\ Distinct(dhead)
      BY Zenon, <1>c DEF TypeOK, Distinct
    <3> QED BY Zenon, <3>1, <3>2, OverlayHome
  <2>3. OverlayOf(disk', dlog', dhead') = disk
    <3>1. \A c : ~InLog(c, dhead')
      BY <2>1 DEF InLog
    <3> QED BY Zenon, <2>1, <3>1 DEF OverlayOf, TypeOK
  <2> QED BY Zenon, <1>b, <1>e, <1>f, <2>1, <2>2, <2>3, Silent DEF Current
<1>5. CASE EndCommit(o)
  BY Zenon, <1>b, <1>f, <1>5, FrameSilent, Silent DEF EndCommit, diskVars
<1> QED BY Zenon, <1>1, <1>2, <1>3, <1>4, <1>5 DEF CommitStep

\* A crash is the atomic disk's; the recovery that follows changes nothing that
\* the next reboot would find.
LEMMA CrashRefines ==
  ASSUME LogInv, Crash \/ RecoverInstall \/ RecoverClear
  PROVE  [Abstract!ANext]_(Abstract!avars)
<1> USE DEF LogInv
<1>c. /\ \A i, j \in 1..Len(dhead) : dhead[i] = dhead[j] => i = j
      /\ dhead \in Seq(Blocks) /\ Len(dhead) \in Nat
  BY DEF HeadInv, Header, TypeOK, Headers
<1>e. Overlay = OverlayOf(disk, dlog, dhead) /\ Overlay' = OverlayOf(disk', dlog', dhead')
  BY Zenon DEF Overlay, OverlayOf
<1>1. CASE Crash
  <2>1. Overlay' = Overlay /\ mode' = "recover" /\ Active' = {}
    BY <1>1 DEF Crash, diskVars, Overlay, Active, InOp
  <2>2. Abstract!ACrash
    BY Zenon, <2>1 DEF Abstract!ACrash, Active
  <2> QED BY Zenon, <2>2 DEF Abstract!ANext
<1>2. CASE RecoverInstall
  <2> DEFINE b == lh[tail]
  <2>1. /\ mode = "recover" /\ mode' = mode /\ pc' = pc /\ dlog' = dlog /\ dhead' = dhead
        /\ disk' = [disk EXCEPT ![b] = dlog[tail]]
        /\ tail <= Len(lh)
    BY Zenon, <1>2 DEF RecoverInstall, InstallBlock
  <2>2. dhead = lh /\ tail \in 1..Len(lh)
    BY <1>c, <2>1 DEF PhaseInv
  <2>3. b \in Blocks /\ InLog(b, dhead)
    BY <1>c, <2>2 DEF InLog
  <2> HIDE DEF b
  <2>4. Elsewhere(disk, dhead, disk')
    BY Zenon, <2>1, <2>3 DEF TypeOK, Elsewhere
  <2>5. OverlayOf(disk, dlog, dhead) = OverlayOf(disk', dlog, dhead)
    <3>1. Distinct(dhead)
      BY Zenon, <1>c DEF Distinct
    <3> HIDE DEF LogInv
    <3> QED BY <2>4, <3>1, OverlaySame
  <2>6. Overlay' = Overlay
    BY Zenon, <1>e, <2>1, <2>5
  <2>7. Active' = Active
    BY Zenon, <2>1 DEF Active
  <2> QED BY Zenon, <2>1, <2>6, <2>7, Silent DEF Current
<1>3. CASE RecoverClear
  <2>1. /\ mode = "recover" /\ tail > Len(lh)
        /\ dhead' = <<>> /\ mode' = "up" /\ UNCHANGED <<disk, dlog, cache, pc>>
    BY Zenon, <1>3 DEF RecoverClear
  <2>2. dhead = lh /\ cache = disk /\ tail - 1 = Len(dhead) /\ Home(tail - 1)
    BY <1>c, <2>1 DEF PhaseInv
  <2>3. OverlayOf(disk, dlog, dhead) = disk
    <3>1. LogHolds(dlog, dhead, disk)
      BY Zenon, <2>2 DEF Home, LogHolds
    <3>2. disk \in [Blocks -> Vals] /\ Distinct(dhead)
      BY Zenon, <1>c DEF TypeOK, Distinct
    <3> QED BY Zenon, <3>1, <3>2, OverlayHome
  <2>4. OverlayOf(disk', dlog', dhead') = disk
    <3>1. \A c : ~InLog(c, dhead')
      BY <2>1 DEF InLog
    <3> QED BY Zenon, <2>1, <3>1 DEF OverlayOf, TypeOK
  <2>5. Active' = Active
    BY Zenon, <2>1 DEF Active
  <2> QED BY Zenon, <1>e, <2>1, <2>2, <2>3, <2>4, <2>5, Silent DEF Current
<1> QED BY Zenon, <1>1, <1>2, <1>3

\* log.c implements the atomic disk: what a crash leaves, at any moment and during
\* recovery too, is what the last commit made durable, and every commit is taken
\* while no call is under way.  Buffers are recycled as long as no recovery has
\* left a block unpinned; otherwise it is proved for a cache that keeps them.
THEOREM LogIsAtomic ==
  ASSUME CrashInstall => Recyclable = {}
  PROVE  Spec => CrashAtomic
<1>1. Init => Abstract!AInit
  <2> SUFFICES ASSUME Init PROVE Abstract!AInit
    BY Zenon
  <2>1. LogInv
    BY Zenon, InitInv
  <2>2. Overlay = disk /\ disk \in [Blocks -> Vals] /\ mode = "recover"
    BY Zenon, <2>1, OverlayEmpty DEF Init, LogInv
  <2>3. {o \in Ops : pc[o] \in InOp} = {}
    BY Zenon DEF Init, InOp
  <2> QED BY Zenon, <2>2, <2>3 DEF Abstract!AInit
<1>2. LogInv /\ [Next]_vars => [Abstract!ANext]_(Abstract!avars)
  <2> SUFFICES ASSUME LogInv, [Next]_vars PROVE [Abstract!ANext]_(Abstract!avars)
    BY Zenon
  <2>1. CASE UNCHANGED vars
    BY Zenon, <2>1, FrameSilent, Silent DEF vars, Active
  <2>2. CASE \E b \in Recyclable : Recycle(b)
    BY Zenon, <2>1, <2>2, RecycleKeeps
  <2>3. CASE Next /\ ~\E b \in Recyclable : Recycle(b)
    BY Zenon, <2>3, CallRefines, CommitRefines, CrashRefines DEF Next
  <2> QED BY Zenon, <2>1, <2>2, <2>3
<1>3. LogInv /\ [Next]_vars => LogInv'
  BY Zenon, LogStep
<1> QED BY <1>1, <1>2, <1>3, InitInv, PTL DEF Spec, CrashAtomic, Abstract!ASpec
=============================================================================
