-------------------------------- MODULE Pipe --------------------------------
(***************************************************************************)
(* kernel/pipe.c: one pipe, the processes that read and write it, the      *)
(* close of its two ends (from fileclose()) and kill().                    *)
(*                                                                         *)
(* Every iteration of the loops under pi->lock is a step, because kill()   *)
(* does not take that lock.  The counters are unsigned ints and wrap.      *)
(***************************************************************************)
EXTENDS Integers, Sequences

CONSTANTS
  Procs,
  NoProc,
  Bytes,
  PIPESIZE,
  UINT,      \* 2^32 in the code
  MaxN,      \* bound on the n of one read() or write()
  Victims,   \* processes that kill() may hit
  BadAddr    \* may copyin() and copyout() fail?

ASSUME PipeAssumption ==
  /\ NoProc \notin Procs
  /\ Bytes # {}
  /\ PIPESIZE \in Nat \ {0}
  /\ UINT \in Nat
  /\ UINT >= 2 * PIPESIZE
  /\ UINT % PIPESIZE = 0
  /\ MaxN \in Nat
  /\ Victims \subseteq Procs
  /\ BadAddr \in BOOLEAN

VARIABLES
  data, nread, nwrite, readopen, writeopen,   \* struct pipe
  lock,      \* pi->lock: the process that holds it
  freed,     \* has pipeclose() freed the pipe?
  rd, wr,    \* processes with a descriptor for the read and the write end
  pc, n, i,  \* of each process: location, argument and loop index
  killed,
  ret        \* what its last read() or write() returned

vars == <<data, nread, nwrite, readopen, writeopen, lock, freed, rd, wr, pc, n,
          i, killed, ret>>
ring == <<data, nread, nwrite>>
ends == <<readopen, writeopen, freed, rd, wr>>

PCs == {"idle", "wlock", "w", "wfull", "wsleep", "rlock", "r0", "rempty",
        "rsleep", "r"}

\* pipealloc(), and any sharing of the two ends by fork() and close().
Init ==
  /\ data = [k \in 0..(PIPESIZE - 1) |-> CHOOSE v \in Bytes : TRUE]
  /\ nread = 0
  /\ nwrite = 0
  /\ readopen = TRUE
  /\ writeopen = TRUE
  /\ lock = NoProc
  /\ freed = FALSE
  /\ rd \in (SUBSET Procs) \ {{}}
  /\ wr \in (SUBSET Procs) \ {{}}
  /\ pc = [p \in Procs |-> "idle"]
  /\ n = [p \in Procs |-> 0]
  /\ i = [p \in Procs |-> 0]
  /\ killed = [p \in Procs |-> FALSE]
  /\ ret = [p \in Procs |-> 0]

Empty == nread = nwrite
Full == nwrite = (nread + PIPESIZE) % UINT

\* wakeup() on the channel of location l, seen from locations f: sleepers go
\* on to reacquire pi->lock.
Wakeup(f, l) ==
  [p \in Procs |->
     IF f[p] # l THEN f[p] ELSE IF l = "wsleep" THEN "wlock" ELSE "rlock"]

At(p, l) == pc[p] = l

Goto(p, l) == pc' = [pc EXCEPT ![p] = l]

\* read() and write() of p on a descriptor it has, up to the acquire.
Call(p, l, len) ==
  /\ At(p, "idle")
  /\ ~killed[p]
  /\ p \in (IF l = "rlock" THEN rd ELSE wr)
  /\ Goto(p, l)
  /\ n' = [n EXCEPT ![p] = len]
  /\ ret' = [ret EXCEPT ![p] = 0]
  /\ UNCHANGED <<ring, ends, lock, i, killed>>

\* acquire(&pi->lock), at the start or at the end of sleep().
Acquire(p) ==
  /\ pc[p] \in {"wlock", "rlock"}
  /\ lock = NoProc
  /\ lock' = p
  /\ Goto(p, IF pc[p] = "wlock" THEN "w" ELSE "r0")
  /\ UNCHANGED <<ring, ends, n, i, killed, ret>>

\* release(&pi->lock) and return r, with the processes at locations f.
Return(p, r, f) ==
  /\ lock' = NoProc
  /\ ret' = [ret EXCEPT ![p] = r]
  /\ n' = [n EXCEPT ![p] = 0]
  /\ i' = [i EXCEPT ![p] = 0]
  /\ pc' = [f EXCEPT ![p] = "idle"]
  /\ UNCHANGED <<ends, killed>>

-----------------------------------------------------------------------------
(* pipewrite() *)

WriteFail(p) ==
  /\ At(p, "w") /\ i[p] < n[p]
  /\ Full
  /\ ~readopen \/ killed[p]
  /\ Return(p, -1, pc)
  /\ UNCHANGED ring

WriteFull(p) ==
  /\ At(p, "w") /\ i[p] < n[p]
  /\ Full
  /\ readopen /\ ~killed[p]
  /\ pc' = [Wakeup(pc, "rsleep") EXCEPT ![p] = "wfull"]
  /\ UNCHANGED <<ring, ends, lock, n, i, killed, ret>>

\* Mutant: a ring index that does not wrap together with the counter.
WriteByte_Index(p, v) ==
  /\ At(p, "w") /\ i[p] < n[p]
  /\ ~Full
  /\ data' = [data EXCEPT ![(nwrite + nread) % PIPESIZE] = v]
  /\ nwrite' = (nwrite + 1) % UINT
  /\ i' = [i EXCEPT ![p] = @ + 1]
  /\ UNCHANGED <<nread, ends, lock, pc, n, killed, ret>>

WriteByte(p, v) ==
  /\ At(p, "w") /\ i[p] < n[p]
  /\ ~Full
  /\ data' = [data EXCEPT ![nwrite % PIPESIZE] = v]
  /\ nwrite' = (nwrite + 1) % UINT
  /\ i' = [i EXCEPT ![p] = @ + 1]
  /\ UNCHANGED <<nread, ends, lock, pc, n, killed, ret>>

\* Mutant: pipewrite() without its last wakeup.
WriteDone_NoWakeup(p) ==
  /\ At(p, "w")
  /\ i[p] = n[p] \/ (BadAddr /\ ~Full)
  /\ Return(p, n[p], pc)
  /\ UNCHANGED ring

\* The end of the loop, or a break out of it because copyin() failed.
WriteDone(p) ==
  /\ At(p, "w")
  /\ i[p] = n[p] \/ (BadAddr /\ ~Full)
  /\ Return(p, n[p], Wakeup(pc, "rsleep"))
  /\ UNCHANGED ring

-----------------------------------------------------------------------------
(* piperead() *)

ReadFail(p) ==
  /\ At(p, "r0")
  /\ Empty /\ writeopen
  /\ killed[p]
  /\ Return(p, -1, pc)
  /\ UNCHANGED ring

ReadEmpty(p) ==
  /\ At(p, "r0")
  /\ Empty /\ writeopen
  /\ ~killed[p]
  /\ Goto(p, "rempty")
  /\ UNCHANGED <<ring, ends, lock, n, i, killed, ret>>

\* Mutant: piperead() with an if in place of the while.
ReadStart_If(p) ==
  /\ At(p, "r0")
  /\ Goto(p, "r")
  /\ UNCHANGED <<ring, ends, lock, n, i, killed, ret>>

ReadStart(p) ==
  /\ At(p, "r0")
  /\ ~(Empty /\ writeopen)
  /\ Goto(p, "r")
  /\ UNCHANGED <<ring, ends, lock, n, i, killed, ret>>

ReadByte(p) ==
  /\ At(p, "r") /\ i[p] < n[p]
  /\ ~Empty
  /\ nread' = (nread + 1) % UINT
  /\ i' = [i EXCEPT ![p] = @ + 1]
  /\ UNCHANGED <<data, nwrite, ends, lock, pc, n, killed, ret>>

\* copyout() fails: the byte is gone from the pipe and not counted.
ReadBad(p) ==
  /\ BadAddr
  /\ At(p, "r") /\ i[p] < n[p]
  /\ ~Empty
  /\ nread' = (nread + 1) % UINT
  /\ Return(p, i[p], Wakeup(pc, "wsleep"))
  /\ UNCHANGED <<data, nwrite>>

ReadDone(p) ==
  /\ At(p, "r")
  /\ i[p] = n[p] \/ Empty
  /\ Return(p, i[p], Wakeup(pc, "wsleep"))
  /\ UNCHANGED ring

-----------------------------------------------------------------------------
\* The second half of sleep(&pi->nwrite, &pi->lock) or sleep(&pi->nread, ...).
Sleep(p) ==
  /\ pc[p] \in {"wfull", "rempty"}
  /\ lock' = NoProc
  /\ Goto(p, IF pc[p] = "wfull" THEN "wsleep" ELSE "rsleep")
  /\ UNCHANGED <<ring, ends, n, i, killed, ret>>

PipeFree(r, w) == ~r /\ ~w

\* Mutant: pipeclose() of the write end without its wakeup.
CloseWrite_NoWakeup(p) ==
  /\ At(p, "idle") /\ p \in wr
  /\ wr' = wr \ {p}
  /\ wr' = {} => lock = NoProc
  /\ writeopen' = (wr' # {})
  /\ freed' = PipeFree(readopen, writeopen')
  /\ UNCHANGED <<ring, readopen, lock, rd, pc, n, i, killed, ret>>

\* fileclose() of a write end; the last one calls pipeclose(pi, 1).
CloseWrite(p) ==
  /\ At(p, "idle") /\ p \in wr
  /\ wr' = wr \ {p}
  /\ wr' = {} => lock = NoProc
  /\ writeopen' = (wr' # {})
  /\ freed' = PipeFree(readopen, writeopen')
  /\ pc' = IF wr' = {} THEN Wakeup(pc, "rsleep") ELSE pc
  /\ UNCHANGED <<ring, readopen, lock, rd, n, i, killed, ret>>

\* fileclose() of a read end; the last one calls pipeclose(pi, 0).
CloseRead(p) ==
  /\ At(p, "idle") /\ p \in rd
  /\ rd' = rd \ {p}
  /\ rd' = {} => lock = NoProc
  /\ readopen' = (rd' # {})
  /\ freed' = PipeFree(readopen', writeopen)
  /\ pc' = IF rd' = {} THEN Wakeup(pc, "wsleep") ELSE pc
  /\ UNCHANGED <<ring, writeopen, lock, wr, n, i, killed, ret>>

\* kill(): it needs p->lock only, and wakes p wherever it sleeps.
Kill(p) ==
  /\ ~killed[p]
  /\ killed' = [killed EXCEPT ![p] = TRUE]
  /\ Goto(p, CASE At(p, "wsleep") -> "wlock"
               [] At(p, "rsleep") -> "rlock"
               [] OTHER -> pc[p])
  /\ UNCHANGED <<ring, ends, lock, n, i, ret>>

-----------------------------------------------------------------------------
\* The steps of a process inside pipewrite() and piperead().
Step(p) ==
  \/ Acquire(p) \/ Sleep(p)
  \/ WriteFail(p) \/ WriteFull(p) \/ WriteDone(p)
  \/ \E v \in Bytes : WriteByte(p, v)
  \/ ReadFail(p) \/ ReadEmpty(p) \/ ReadStart(p) \/ ReadByte(p) \/ ReadBad(p)
  \/ ReadDone(p)

Next ==
  \/ \E p \in Procs :
       \/ Step(p)
       \/ \E len \in 0..MaxN : Call(p, "rlock", len) \/ Call(p, "wlock", len)
       \/ CloseWrite(p) \/ CloseRead(p)
  \/ \E p \in Victims : Kill(p)

Spec == Init /\ [][Next]_vars

\* Processes finish what they do under the lock, and acquire() is fair.
Fairness == \A p \in Procs : SF_vars(Step(p))

FairSpec == Spec /\ Fairness

-----------------------------------------------------------------------------
(* Type correctness of the pipe and of its users.                          *)
TypeOK ==
  /\ data \in [0..(PIPESIZE - 1) -> Bytes]
  /\ nread \in 0..(UINT - 1)
  /\ nwrite \in 0..(UINT - 1)
  /\ readopen \in BOOLEAN /\ writeopen \in BOOLEAN /\ freed \in BOOLEAN
  /\ lock \in Procs \cup {NoProc}
  /\ rd \subseteq Procs /\ wr \subseteq Procs
  /\ pc \in [Procs -> PCs]
  /\ n \in [Procs -> Nat] /\ i \in [Procs -> Nat]
  /\ killed \in [Procs -> BOOLEAN]
  /\ ret \in [Procs -> Int]

\* Once pi->lock is free, a reader sleeps only on an empty pipe that somebody
\* can still write, a writer only on a full one that somebody can still read.
SleepersWait ==
  lock = NoProc =>
    \A p \in Procs :
      /\ At(p, "rsleep") => Empty /\ writeopen
      /\ At(p, "wsleep") => Full /\ readopen

(* No lost wakeup, as long as no process is killed: read(), write() and    *)
(* close() wake everyone who sleeps for what they did.                     *)
NoLostWakeup == (\A p \in Procs : ~killed[p]) => SleepersWait

(* pipeclose() frees the pipe only when nobody is inside read() or write() *)
(* on it, or asleep in them.                                               *)
NoUseAfterFree == freed => \A p \in Procs : At(p, "idle")

\* pi->lock is held by the process that is inside the loops.
Locked == {"w", "wfull", "r0", "rempty", "r"}
LockInv == \A p \in Procs : lock = p <=> pc[p] \in Locked

\* readopen, writeopen and freed follow the descriptors, and a process inside a
\* call has one.
EndsInv ==
  /\ readopen = (rd # {}) /\ writeopen = (wr # {})
  /\ freed = (rd = {} /\ wr = {})
  /\ \A p \in Procs :
       /\ pc[p] \in {"wlock", "w", "wfull", "wsleep"} => p \in wr
       /\ pc[p] \in {"rlock", "r0", "rempty", "rsleep", "r"} => p \in rd

\* While pi->lock is held: bytes may have come in beside sleeping readers only
\* under a writer that has not yet woken them, and the other way round.
SleepInv ==
  \A p \in Procs :
    /\ At(p, "rempty") => Empty /\ writeopen
    /\ At(p, "wfull") => Full /\ readopen
    /\ At(p, "rsleep") => writeopen /\ (Empty \/ \E q \in Procs : At(q, "w"))
    /\ At(p, "wsleep") => readopen /\ (Full \/ \E q \in Procs : At(q, "r"))

\* piperead() has gone past its first loop, and taken nothing yet.
EofInv == \A p \in Procs : At(p, "r") /\ i[p] = 0 => ~(Empty /\ writeopen)

(* The invariant by which pipe.c keeps its promises: who may sleep beside  *)
(* what while the lock is held, who may be inside which call, and nobody   *)
(* inside after the last close has freed the pipe.                         *)
PipeInv ==
  /\ TypeOK /\ LockInv /\ EndsInv /\ EofInv
  /\ (\A p \in Procs : ~killed[p]) => SleepInv

(* read() reports end of file (0 for a nonzero n, no byte taken) only      *)
(* when the pipe is empty and no process has the write end open.           *)
EofMeansClosed ==
  [][\A p \in Procs :
       At(p, "r") /\ pc'[p] = "idle" /\ n[p] > 0 /\ ret'[p] = 0 /\ nread' = nread
         => Empty /\ wr = {}]_vars

(* The last close of an end lets everyone blocked on the other one go.     *)
CloseUnblocks ==
  \A p \in Procs :
    /\ At(p, "rsleep") /\ ~writeopen ~> At(p, "idle")
    /\ At(p, "wsleep") /\ ~readopen ~> At(p, "idle")

-----------------------------------------------------------------------------
(* Refinement: the bytes between the two counters, modulo their width.     *)
Stream == INSTANCE ByteStream WITH
  Capacity <- PIPESIZE,
  queue <- [k \in 1..((nwrite - nread) % UINT) |->
              data[(nread + k - 1) % PIPESIZE]],
  reading <- readopen,
  writing <- writeopen

(* The pipe is a first-in first-out byte stream, also across the wrap of   *)
(* its unsigned counters and with several readers and writers.             *)
Fifo == Stream!BSpec
=============================================================================
