-------------------------------- MODULE Log --------------------------------
(***************************************************************************)
(* kernel/log.c: the redo log that makes file system calls atomic with     *)
(* respect to crashes, together with what it needs of the buffer cache     *)
(* (the contents bread() returns and the reference that bpin() holds) and  *)
(* of the disk (one block written per step, a crash between any two).      *)
(*                                                                         *)
(* Each critical section under log.lock is one step; a step that writes    *)
(* the disk writes one block.                                              *)
(***************************************************************************)
EXTENDS Integers, Sequences, FiniteSets

CONSTANTS
  Ops,          \* processes that execute file system calls
  Blocks,       \* home blocks (everything outside the log)
  NoBlock,      \* no block at all
  Vals,         \* block contents
  MAXOPBLOCKS,  \* what begin_op() reserves for a call
  LOGSIZE,      \* capacity of the in-memory header
  NLog,         \* sb->nlog: blocks of the on-disk log, its header included
  OpBlocks,     \* distinct blocks one call really writes
  Recyclable,   \* blocks whose buffer the cache may want for another block
  CrashInstall  \* may a crash leave a committed transaction to recover?

ASSUME LogAssumption ==
  /\ MAXOPBLOCKS \in Nat \ {0}
  /\ LOGSIZE \in Nat \ {0}
  /\ NLog \in Nat
  /\ OpBlocks \in 0..MAXOPBLOCKS
  /\ IsFiniteSet(Ops)
  /\ Vals # {}
  /\ Recyclable \subseteq Blocks
  /\ NoBlock \notin Blocks
  /\ CrashInstall \in BOOLEAN

VARIABLES
  disk,         \* home blocks on disk
  dlog,         \* data blocks of the on-disk log
  dhead,        \* block numbers in the on-disk header, block[0..n-1]
  cache,        \* contents of each block's buffer
  pin,          \* references to the buffer held by nobody's bread()
  lh,           \* log.lh: the in-memory header
  outstanding,  \* log.outstanding
  committing,   \* log.committing
  mode,         \* "recover" inside initlog(), "up" afterwards
  tail,         \* loop index of write_log() and install_trans()
  pc,           \* where each process is
  buf,          \* the buffer a process has modified and still holds
  wrote         \* blocks its current call has written

vars == <<disk, dlog, dhead, cache, pin, lh, outstanding, committing, mode,
          tail, pc, buf, wrote>>
diskVars == <<disk, dlog, dhead>>
logVars == <<lh, outstanding, committing>>

InOp == {"op", "log_write", "append"}
InCommit == {"write_log", "write_head", "install_trans", "clear", "end"}
PCs == {"idle", "sleep", "woken"} \cup InOp \cup InCommit

InLog(b, head) == \E i \in 1..Len(head) : head[i] = b

Holds(o, b) == buf[o] = b

\* wakeup(&log) moves every sleeper of begin_op() back to its loop.
Wakeup(locs) == [o \in Ops |-> IF locs[o] = "sleep" THEN "woken" ELSE locs[o]]

\* A fresh file system: mkfs fills the whole log with one value.
Init ==
  /\ disk \in [Blocks -> Vals]
  /\ dlog = [i \in 1..LOGSIZE |-> CHOOSE v \in Vals : TRUE]
  /\ dhead = <<>>
  /\ cache = disk
  /\ pin = [b \in Blocks |-> 0]
  /\ lh = <<>>
  /\ outstanding = 0
  /\ committing = FALSE
  /\ mode = "recover"
  /\ tail = 1
  /\ pc = [o \in Ops |-> "idle"]
  /\ buf = [o \in Ops |-> NoBlock]
  /\ wrote = [o \in Ops |-> {}]

-----------------------------------------------------------------------------
(* begin_op(): enter, or sleep until an end_op() or a commit wakes us.     *)

\* Might the calls under way and this one exhaust the log?
NoSpace == Len(lh) + (outstanding + 1) * MAXOPBLOCKS > LOGSIZE

BeginSleep(o) ==
  /\ mode = "up"
  /\ pc[o] \in {"idle", "woken"}
  /\ committing \/ NoSpace
  /\ pc' = [pc EXCEPT ![o] = "sleep"]
  /\ UNCHANGED <<diskVars, logVars, cache, pin, mode, tail, buf, wrote>>

BeginEnter(o) ==
  /\ mode = "up"
  /\ pc[o] \in {"idle", "woken"}
  /\ ~(committing \/ NoSpace)
  /\ outstanding' = outstanding + 1
  /\ pc' = [pc EXCEPT ![o] = "op"]
  /\ UNCHANGED <<diskVars, lh, committing, cache, pin, mode, tail, buf, wrote>>

-----------------------------------------------------------------------------
(* Inside a call: bread() a buffer, change it, log_write() it, brelse() it.*)

Modify(o, b, v) ==
  /\ pc[o] = "op"
  /\ \A q \in Ops : ~Holds(q, b)
  /\ b \in wrote[o] \/ Cardinality(wrote[o]) < OpBlocks
  /\ cache' = [cache EXCEPT ![b] = v]
  /\ buf' = [buf EXCEPT ![o] = b]
  /\ wrote' = [wrote EXCEPT ![o] = @ \cup {b}]
  /\ pc' = [pc EXCEPT ![o] = "log_write"]
  /\ UNCHANGED <<diskVars, logVars, pin, mode, tail>>

\* log_write() panics, even for a block that is already in the log.
TooBig == Len(lh) >= LOGSIZE \/ Len(lh) >= NLog - 1

\* log_write() reads the header for its panics before it takes log.lock ...
LogCheck(o) ==
  /\ pc[o] = "log_write"
  /\ ~TooBig
  /\ outstanding >= 1
  /\ pc' = [pc EXCEPT ![o] = "append"]
  /\ UNCHANGED <<diskVars, logVars, cache, pin, mode, tail, buf, wrote>>

\* Mutant: log_write() that forgets bpin().
LogAppend_NoPin(o) ==
  /\ pc[o] = "append"
  /\ lh' = IF InLog(buf[o], lh) THEN lh ELSE Append(lh, buf[o])
  /\ buf' = [buf EXCEPT ![o] = NoBlock]
  /\ pc' = [pc EXCEPT ![o] = "op"]
  /\ UNCHANGED <<diskVars, outstanding, committing, cache, pin, mode, tail,
                 wrote>>

\* ... and changes it under the lock: absorb, or append and pin.  The caller
\* then releases the buffer.
LogAppend(o) ==
  /\ pc[o] = "append"
  /\ IF InLog(buf[o], lh)
     THEN UNCHANGED <<lh, pin>>
     ELSE /\ lh' = Append(lh, buf[o])
          /\ pin' = [pin EXCEPT ![buf[o]] = @ + 1]
  /\ buf' = [buf EXCEPT ![o] = NoBlock]
  /\ pc' = [pc EXCEPT ![o] = "op"]
  /\ UNCHANGED <<diskVars, outstanding, committing, cache, mode, tail, wrote>>

-----------------------------------------------------------------------------
(* end_op(): the last call out commits, the others free their reservation. *)

EndOpEarly(o) ==
  /\ pc[o] = "op"
  /\ ~committing
  /\ outstanding # 1
  /\ outstanding' = outstanding - 1
  /\ wrote' = [wrote EXCEPT ![o] = {}]
  /\ pc' = [Wakeup(pc) EXCEPT ![o] = "idle"]
  /\ UNCHANGED <<diskVars, lh, committing, cache, pin, mode, tail, buf>>

EndOpLast(o) ==
  /\ pc[o] = "op"
  /\ ~committing
  /\ outstanding = 1
  /\ outstanding' = 0
  /\ committing' = TRUE
  /\ tail' = 1
  /\ wrote' = [wrote EXCEPT ![o] = {}]
  /\ pc' = [pc EXCEPT ![o] = IF lh = <<>> THEN "end" ELSE "write_log"]
  /\ UNCHANGED <<diskVars, lh, cache, pin, mode, buf>>

\* One iteration of write_log(): cached block to log block.
WriteLog(o) ==
  /\ pc[o] = "write_log"
  /\ dlog' = [dlog EXCEPT ![tail] = cache[lh[tail]]]
  /\ tail' = tail + 1
  /\ pc' = [pc EXCEPT ![o] = IF tail = Len(lh) THEN "write_head" ELSE @]
  /\ UNCHANGED <<disk, dhead, logVars, cache, pin, mode, buf, wrote>>

\* The first write_head() of commit(): the commit point.
WriteHead(o) ==
  /\ pc[o] = "write_head"
  /\ dhead' = lh
  /\ tail' = 1
  /\ pc' = [pc EXCEPT ![o] = "install_trans"]
  /\ UNCHANGED <<disk, dlog, logVars, cache, pin, mode, buf, wrote>>

\* The body of install_trans(), shared by commit() and recovery: log block
\* to home block, through the home block's buffer, which is then unpinned.
InstallBlock ==
  LET b == lh[tail] IN
  /\ disk' = [disk EXCEPT ![b] = dlog[tail]]
  /\ cache' = [cache EXCEPT ![b] = dlog[tail]]
  /\ pin' = [pin EXCEPT ![b] = @ - 1]
  /\ tail' = tail + 1

InstallTrans(o) ==
  /\ pc[o] = "install_trans"
  /\ InstallBlock
  /\ pc' = [pc EXCEPT ![o] = IF tail = Len(lh) THEN "clear" ELSE @]
  /\ UNCHANGED <<dlog, dhead, logVars, mode, buf, wrote>>

\* lh.n = 0 and the second write_head().
ClearHead(o) ==
  /\ pc[o] = "clear"
  /\ lh' = <<>>
  /\ dhead' = <<>>
  /\ tail' = 1
  /\ pc' = [pc EXCEPT ![o] = "end"]
  /\ UNCHANGED <<disk, dlog, outstanding, committing, cache, pin, mode, buf,
                 wrote>>

\* Mutant: end_op() that does not wake the sleepers after its commit.
EndCommit_NoWakeup(o) ==
  /\ pc[o] = "end"
  /\ committing' = FALSE
  /\ pc' = [pc EXCEPT ![o] = "idle"]
  /\ UNCHANGED <<diskVars, lh, outstanding, cache, pin, mode, tail, buf,
                 wrote>>

EndCommit(o) ==
  /\ pc[o] = "end"
  /\ committing' = FALSE
  /\ pc' = [Wakeup(pc) EXCEPT ![o] = "idle"]
  /\ UNCHANGED <<diskVars, lh, outstanding, cache, pin, mode, tail, buf,
                 wrote>>

-----------------------------------------------------------------------------
(* The buffer cache recycles an unreferenced buffer; the block's next      *)
(* bread() finds what is on disk.                                          *)

Recycle(b) ==
  /\ pin[b] = 0
  /\ \A q \in Ops : ~Holds(q, b)
  /\ cache' = [cache EXCEPT ![b] = disk[b]]
  /\ UNCHANGED <<diskVars, logVars, pin, mode, tail, pc, buf, wrote>>

-----------------------------------------------------------------------------
(* A crash loses memory; the reboot starts recover_from_log() with         *)
(* read_head().  Recovery can itself be cut short by a crash.              *)

Crash ==
  /\ CrashInstall \/ dhead = <<>>
  /\ cache' = disk
  /\ pin' = [b \in Blocks |-> 0]
  /\ lh' = dhead
  /\ outstanding' = 0
  /\ committing' = FALSE
  /\ mode' = "recover"
  /\ tail' = 1
  /\ pc' = [o \in Ops |-> "idle"]
  /\ buf' = [o \in Ops |-> NoBlock]
  /\ wrote' = [o \in Ops |-> {}]
  /\ UNCHANGED diskVars

RecoverInstall ==
  /\ mode = "recover"
  /\ tail <= Len(lh)
  /\ InstallBlock
  /\ UNCHANGED <<dlog, dhead, logVars, mode, pc, buf, wrote>>

\* Mutant: recover_from_log() that clears the log without installing it.
RecoverClear_NoInstall ==
  /\ mode = "recover"
  /\ lh' = <<>>
  /\ dhead' = <<>>
  /\ mode' = "up"
  /\ tail' = 1
  /\ UNCHANGED <<disk, dlog, outstanding, committing, cache, pin, pc, buf,
                 wrote>>

RecoverClear ==
  /\ mode = "recover"
  /\ tail > Len(lh)
  /\ lh' = <<>>
  /\ dhead' = <<>>
  /\ mode' = "up"
  /\ tail' = 1
  /\ UNCHANGED <<disk, dlog, outstanding, committing, cache, pin, pc, buf,
                 wrote>>

-----------------------------------------------------------------------------
OpStep(o) ==
  \/ BeginSleep(o) \/ BeginEnter(o)
  \/ \E b \in Blocks, v \in Vals : Modify(o, b, v)
  \/ LogCheck(o) \/ LogAppend(o)
  \/ EndOpEarly(o) \/ EndOpLast(o)

CommitStep(o) ==
  \/ WriteLog(o) \/ WriteHead(o) \/ InstallTrans(o) \/ ClearHead(o)
  \/ EndCommit(o)

Next ==
  \/ \E o \in Ops : OpStep(o) \/ CommitStep(o)
  \/ \E b \in Recyclable : Recycle(b)
  \/ Crash \/ RecoverInstall \/ RecoverClear

Spec == Init /\ [][Next]_vars

\* Recovery, commits and log_write() run to their end, and a system call
\* reaches its end_op(); nothing is assumed of new calls or of crashes.
Fairness ==
  /\ WF_vars(RecoverInstall \/ RecoverClear)
  /\ \A o \in Ops :
       /\ WF_vars(CommitStep(o))
       /\ WF_vars(LogCheck(o) \/ LogAppend(o))
       /\ SF_vars(EndOpEarly(o) \/ EndOpLast(o))

FairSpec == Spec /\ Fairness

-----------------------------------------------------------------------------
(* Type correctness: every variable keeps its C type's range; the headers  *)
(* name home blocks only and never more of them than block[LOGSIZE] holds. *)
Headers == {s \in Seq(Blocks) : Len(s) <= LOGSIZE}

TypeOK ==
  /\ disk \in [Blocks -> Vals]
  /\ dlog \in [1..LOGSIZE -> Vals]
  /\ dhead \in Headers
  /\ cache \in [Blocks -> Vals]
  /\ pin \in [Blocks -> Int]
  /\ lh \in Headers
  /\ outstanding \in Nat
  /\ committing \in BOOLEAN
  /\ mode \in {"recover", "up"}
  /\ tail \in 1..(LOGSIZE + 1)
  /\ pc \in [Ops -> PCs]
  /\ buf \in [Ops -> Blocks \cup {NoBlock}]
  /\ wrote \in [Ops -> SUBSET Blocks]

(* The panics of log.c: log_write() never finds the log full ("too big a   *)
(* transaction") or no call under way ("log_write outside of trans"), and  *)
(* end_op() never finds a commit running ("log[dev].committing").          *)
NoPanic ==
  \A o \in Ops :
    /\ pc[o] = "log_write" => ~TooBig
    /\ pc[o] \in InOp => outstanding >= 1 /\ ~committing

(* The log stays inside its blocks on disk: although log_write() checks    *)
(* the size before it takes log.lock, calls that race past the check never *)
(* make write_log() run over the sb->nlog blocks, header included.         *)
LogInBounds == Len(lh) < NLog

(* Between transactions everything that was written is in its home block:  *)
(* when no call and no commit is under way, memory and disk agree and the  *)
(* log is empty on disk too.                                               *)
QuiescentDurable ==
  mode = "up" /\ outstanding = 0 /\ ~committing =>
    lh = <<>> /\ dhead = <<>> /\ cache = disk

(* A buffer nobody holds a reference to can be recycled without losing     *)
(* anything: what log_write() recorded only in memory stays pinned there   *)
(* until install_trans() has written it home.                              *)
RecycleSafe ==
  \A b \in Blocks :
    pin[b] = 0 /\ (\A o \in Ops : ~Holds(o, b)) /\ mode = "up"
      => cache[b] = disk[b]

(* No lost wakeup of begin_op(): a process that sleeps for a commit or for *)
(* log space is woken, by an end_op() or by the end of the commit.         *)
SleepersWoken == \A o \in Ops : pc[o] = "sleep" ~> pc[o] # "sleep"

-----------------------------------------------------------------------------
(* Refinement.  What a reboot would find is the home blocks overlaid with  *)
(* the log blocks that the on-disk header names.                           *)
Overlay ==
  [b \in Blocks |->
     IF InLog(b, dhead)
     THEN dlog[CHOOSE i \in 1..Len(dhead) : dhead[i] = b]
     ELSE disk[b]]

Abstract == INSTANCE AtomicDisk WITH
  current <- IF mode = "up" THEN cache ELSE Overlay,
  durable <- Overlay,
  active <- {o \in Ops : pc[o] \in InOp}

(* Crash atomicity: the log implements the disk of AtomicDisk, on which    *)
(* all writes of the calls of a transaction become durable in one step,    *)
(* taken while no call is under way, and a crash undoes the rest.          *)
CrashAtomic == Abstract!ASpec

(* The log in memory is right: inside its blocks, no panic, and every      *)
(* buffer that is newer than its home block is pinned or in the log.       *)
LogSound == TypeOK /\ NoPanic /\ LogInBounds /\ QuiescentDurable /\ RecycleSafe
=============================================================================
