-------------------------------- MODULE Proc --------------------------------
(***************************************************************************)
(* kernel/proc.c: the process table and the life of a process: allocproc,  *)
(* fork, exit, reparent, wait, kill, scheduler, sched and yield, on        *)
(* several CPUs, with every p->lock.                                       *)
(*                                                                         *)
(* A critical section that takes one lock and touches only what that lock  *)
(* protects is one step.  Where the code holds a lock while it waits for   *)
(* another (exit, reparent, wait) or across swtch() every acquire is a     *)
(* step of its own.  Locks are held by CPUs, as in lk->cpu.                *)
(***************************************************************************)
EXTENDS Integers, FiniteSets

CONSTANTS
  NPROC,      \* slots of the process table
  CPUS,
  NoCPU,
  MaxPid,     \* bound on nextpid
  KillPids,   \* arguments that processes pass to kill()
  Faulty      \* slots whose program may cause a fault, never init's

ASSUME ProcAssumption ==
  /\ NPROC \in Nat \ {0}
  /\ NoCPU \notin CPUS
  /\ MaxPid \in Nat
  /\ KillPids \subseteq Nat
  /\ Faulty \subseteq 2..NPROC

VARIABLES
  state, parent, killed, pid,   \* fields of struct proc
  lock,      \* p->lock: the CPU that holds it
  cpu,       \* c->proc: the process on each CPU, 0 in the scheduler
  nextpid,
  pc,        \* where the process's kernel thread is
  scan,      \* loop index np of wait()
  havekids,  \* havekids of wait()
  orig,      \* original_parent of exit()
  asked      \* history: <<"pid", n>> once kill() has found a process by its pid n,
             \* <<"slot", q>> once it has found q free, until the slot is freed

vars == <<state, parent, killed, pid, lock, cpu, nextpid, pc, scan, havekids,
          orig, asked>>
table == <<state, parent, killed, pid>>
locals == <<scan, havekids, orig>>

Procs == 1..NPROC
initproc == 1
NoProc == 0

States == {"UNUSED", "SLEEPING", "RUNNABLE", "RUNNING", "ZOMBIE"}
ExitPCs == {"exit1", "exit2", "exit3", "exit4", "exit5"}
PCs == {"user", "wait0", "wait", "panic"} \cup ExitPCs

\* userinit(): the first process is ready to run, every other slot is free.
Init ==
  /\ state = [p \in Procs |-> IF p = initproc THEN "RUNNABLE" ELSE "UNUSED"]
  /\ parent = [p \in Procs |-> NoProc]
  /\ killed = [p \in Procs |-> FALSE]
  /\ pid = [p \in Procs |-> IF p = initproc THEN 1 ELSE 0]
  /\ lock = [p \in Procs |-> NoCPU]
  /\ cpu = [c \in CPUS |-> NoProc]
  /\ nextpid = 2
  /\ pc = [p \in Procs |-> "user"]
  /\ scan = [p \in Procs |-> 1]
  /\ havekids = [p \in Procs |-> FALSE]
  /\ orig = [p \in Procs |-> NoProc]
  /\ asked = {}

Free(p) == lock[p] = NoCPU

\* CPU c executes the code of process p at location l.
At(c, p, l) == cpu[c] = p /\ p # NoProc /\ state[p] = "RUNNING" /\ pc[p] = l

Goto(p, l) == pc' = [pc EXCEPT ![p] = l]

-----------------------------------------------------------------------------
(* scheduler(), yield() and sched().  A process leaves the CPU in two      *)
(* steps, the change of its state and the swtch(), with p->lock held from  *)
(* the one to the other; the scheduler it lands in releases the lock.      *)

\* Resumed in wait()'s sleep() the process keeps the lock; resumed in
\* yield() or forkret() it releases it at once.
Scheduler(c, p) ==
  /\ cpu[c] = NoProc
  /\ state[p] = "RUNNABLE"
  /\ Free(p)
  /\ state' = [state EXCEPT ![p] = "RUNNING"]
  /\ cpu' = [cpu EXCEPT ![c] = p]
  /\ lock' = IF pc[p] = "wait" THEN [lock EXCEPT ![p] = c] ELSE lock
  /\ UNCHANGED <<parent, killed, pid, nextpid, pc, locals, asked>>

\* A timer interrupt, in user mode or in the kernel with no lock held.
Yield(c) ==
  LET p == cpu[c] IN
  /\ p # NoProc
  /\ state[p] = "RUNNING"
  /\ pc[p] # "panic"
  /\ \A q \in Procs : lock[q] # c
  /\ Free(p)
  /\ lock' = [lock EXCEPT ![p] = c]
  /\ state' = [state EXCEPT ![p] = "RUNNABLE"]
  /\ UNCHANGED <<parent, killed, pid, cpu, nextpid, pc, locals, asked>>

Sched(c) ==
  LET p == cpu[c] IN
  /\ p # NoProc
  /\ state[p] # "RUNNING"
  /\ cpu' = [cpu EXCEPT ![c] = NoProc]
  /\ lock' = [lock EXCEPT ![p] = NoCPU]
  /\ UNCHANGED <<table, nextpid, pc, locals, asked>>

-----------------------------------------------------------------------------
(* fork() and kill().  Their loops over the table take and drop one lock   *)
(* at a time and change nothing on the slots they pass by.                 *)

\* Mutant: freeproc() that leaves p->killed set.
FreeProc_KeepKilled(q) ==
  /\ state' = [state EXCEPT ![q] = "UNUSED"]
  /\ parent' = [parent EXCEPT ![q] = NoProc]
  /\ pid' = [pid EXCEPT ![q] = 0]
  /\ asked' = asked \ {<<"slot", q>>, <<"pid", pid[q]>>}
  /\ UNCHANGED killed

\* freeproc()
FreeProc(q) ==
  /\ state' = [state EXCEPT ![q] = "UNUSED"]
  /\ parent' = [parent EXCEPT ![q] = NoProc]
  /\ killed' = [killed EXCEPT ![q] = FALSE]
  /\ pid' = [pid EXCEPT ![q] = 0]
  /\ asked' = asked \ {<<"slot", q>>, <<"pid", pid[q]>>}

\* allocproc() finds the free slot q for p's fork().
AllocProc(c, p, q) ==
  /\ At(c, p, "user")
  /\ ~killed[p]
  /\ nextpid <= MaxPid
  /\ state[q] = "UNUSED"
  /\ Free(q)

\* No page for the trapframe: the slot stays free and keeps its new pid.
ForkNoPage(c, p, q) ==
  /\ AllocProc(c, p, q)
  /\ nextpid' = nextpid + 1
  /\ pid' = [pid EXCEPT ![q] = nextpid]
  /\ UNCHANGED <<state, parent, killed, lock, cpu, pc, locals, asked>>

\* uvmcopy() fails and freeproc() undoes the allocation.
ForkNoMemory(c, p, q) ==
  /\ AllocProc(c, p, q)
  /\ nextpid' = nextpid + 1
  /\ FreeProc(q)
  /\ UNCHANGED <<lock, cpu, pc, locals>>

Fork(c, p, q) ==
  /\ AllocProc(c, p, q)
  /\ nextpid' = nextpid + 1
  /\ pid' = [pid EXCEPT ![q] = nextpid]
  /\ parent' = [parent EXCEPT ![q] = p]
  /\ state' = [state EXCEPT ![q] = "RUNNABLE"]
  /\ Goto(q, "user")
  /\ UNCHANGED <<killed, lock, cpu, locals, asked>>

Found(q) == IF state[q] = "UNUSED" THEN <<"slot", q>> ELSE <<"pid", pid[q]>>

\* Mutant: kill() that does not wake a sleeping victim.
Kill_NoWakeup(c, p, n) ==
  /\ At(c, p, "user")
  /\ ~killed[p]
  /\ \E q \in Procs :
       /\ pid[q] = n
       /\ \A r \in 1..(q - 1) : pid[r] # n
       /\ Free(q)
       /\ killed' = [killed EXCEPT ![q] = TRUE]
       /\ asked' = asked \cup {Found(q)}
  /\ UNCHANGED <<state, parent, pid, lock, cpu, nextpid, pc, locals>>

\* The slot is found by its pid alone: it may be free, with pid 0 or the pid that a
\* failed allocproc() left.
Kill(c, p, n) ==
  /\ At(c, p, "user")
  /\ ~killed[p]
  /\ \E q \in Procs :
       /\ pid[q] = n
       /\ \A r \in 1..(q - 1) : pid[r] # n
       /\ Free(q)
       /\ killed' = [killed EXCEPT ![q] = TRUE]
       /\ state' = [state EXCEPT ![q] = IF @ = "SLEEPING" THEN "RUNNABLE" ELSE @]
       /\ asked' = asked \cup {Found(q)}
  /\ UNCHANGED <<parent, pid, lock, cpu, nextpid, pc, locals>>

-----------------------------------------------------------------------------
(* wait(): p->lock is held from the first acquire until the return or the  *)
(* sleep(); the children's locks are taken one at a time in table order.   *)

\* usertrap() saw p->killed clear and the system call is on its way.
WaitCall(c, p) ==
  /\ At(c, p, "user")
  /\ ~killed[p]
  /\ Goto(p, "wait0")
  /\ UNCHANGED <<table, lock, cpu, nextpid, locals, asked>>

WaitLock(c, p) ==
  /\ At(c, p, "wait0")
  /\ Free(p)
  /\ lock' = [lock EXCEPT ![p] = c]
  /\ Goto(p, "wait")
  /\ UNCHANGED <<table, cpu, nextpid, locals, asked>>

NextChild(p, n) == {q \in n..NPROC : parent[q] = p}

WaitReturn(p) ==
  /\ lock' = [lock EXCEPT ![p] = NoCPU]
  /\ scan' = [scan EXCEPT ![p] = 1]
  /\ havekids' = [havekids EXCEPT ![p] = FALSE]
  /\ Goto(p, "user")

\* The loop over the table reaches child q, whose lock is free.
ScanReaches(c, p, q) ==
  /\ At(c, p, "wait")
  /\ q \in NextChild(p, scan[p])
  /\ \A r \in NextChild(p, scan[p]) : q <= r
  /\ Free(q)

WaitReap(c, p, q) ==
  /\ ScanReaches(c, p, q)
  /\ state[q] = "ZOMBIE"
  /\ FreeProc(q)
  /\ WaitReturn(p)
  /\ UNCHANGED <<cpu, nextpid, orig>>

\* copyout() of the exit status fails; init calls wait(0) and copies nothing.
WaitBadAddr(c, p, q) ==
  /\ ScanReaches(c, p, q)
  /\ state[q] = "ZOMBIE"
  /\ p # initproc
  /\ WaitReturn(p)
  /\ UNCHANGED <<table, cpu, nextpid, orig, asked>>

WaitSkip(c, p, q) ==
  /\ ScanReaches(c, p, q)
  /\ state[q] # "ZOMBIE"
  /\ scan' = [scan EXCEPT ![p] = q + 1]
  /\ havekids' = [havekids EXCEPT ![p] = TRUE]
  /\ UNCHANGED <<table, lock, cpu, nextpid, pc, orig, asked>>

\* The loop ends without a zombie: return -1 ...
WaitFail(c, p) ==
  /\ At(c, p, "wait")
  /\ NextChild(p, scan[p]) = {}
  /\ ~havekids[p] \/ killed[p]
  /\ WaitReturn(p)
  /\ UNCHANGED <<table, cpu, nextpid, orig, asked>>

\* ... or sleep(p, &p->lock), to scan again from the start.
WaitSleep(c, p) ==
  /\ At(c, p, "wait")
  /\ NextChild(p, scan[p]) = {}
  /\ havekids[p] /\ ~killed[p]
  /\ state' = [state EXCEPT ![p] = "SLEEPING"]
  /\ scan' = [scan EXCEPT ![p] = 1]
  /\ havekids' = [havekids EXCEPT ![p] = FALSE]
  /\ UNCHANGED <<parent, killed, pid, lock, cpu, nextpid, pc, orig, asked>>

-----------------------------------------------------------------------------
(* exit() *)

\* wakeup1(p); only wait() sleeps here, so a sleeper sleeps on itself.
Wakeup1(p) == [state EXCEPT ![p] = IF @ = "SLEEPING" THEN "RUNNABLE" ELSE @]

\* The exit system call, or usertrap() acting on p->killed.  exit() panics for
\* init, which calls it only when it is killed (user/init.c would also call
\* it after a failed fork(), which is left out).
ExitCall(c, p) ==
  /\ At(c, p, "user")
  /\ p = initproc => killed[p]
  /\ Goto(p, IF p = initproc THEN "panic" ELSE "exit1")
  /\ UNCHANGED <<table, lock, cpu, nextpid, locals, asked>>

\* usertrap() finds a fault: the process marks itself killed and exits.
Fault(c, p) ==
  /\ At(c, p, "user")
  /\ p \in Faulty
  /\ killed' = [killed EXCEPT ![p] = TRUE]
  /\ Goto(p, "exit1")
  /\ UNCHANGED <<state, parent, pid, lock, cpu, nextpid, locals, asked>>

ExitWakeInit(c, p) ==
  /\ At(c, p, "exit1")
  /\ Free(initproc)
  /\ state' = Wakeup1(initproc)
  /\ Goto(p, "exit2")
  /\ UNCHANGED <<parent, killed, pid, lock, cpu, nextpid, locals, asked>>

ExitCopyParent(c, p) ==
  /\ At(c, p, "exit2")
  /\ Free(p)
  /\ orig' = [orig EXCEPT ![p] = parent[p]]
  /\ Goto(p, "exit3")
  /\ UNCHANGED <<table, lock, cpu, nextpid, scan, havekids, asked>>

ExitLockParent(c, p) ==
  /\ At(c, p, "exit3")
  /\ Free(orig[p])
  /\ lock' = [lock EXCEPT ![orig[p]] = c]
  /\ Goto(p, "exit4")
  /\ UNCHANGED <<table, cpu, nextpid, locals, asked>>

ExitLockSelf(c, p) ==
  /\ At(c, p, "exit4")
  /\ Free(p)
  /\ lock' = [lock EXCEPT ![p] = c]
  /\ Goto(p, "exit5")
  /\ UNCHANGED <<table, cpu, nextpid, locals, asked>>

\* One child of reparent(), in table order.
Reparent(c, p, q) ==
  /\ At(c, p, "exit5")
  /\ q \in NextChild(p, 1)
  /\ \A r \in NextChild(p, 1) : q <= r
  /\ Free(q)
  /\ parent' = [parent EXCEPT ![q] = initproc]
  /\ UNCHANGED <<state, killed, pid, lock, cpu, nextpid, pc, locals, asked>>

\* Mutant: exit() without the wakeup of its parent.
ExitZombie_NoWakeup(c, p) ==
  /\ At(c, p, "exit5")
  /\ NextChild(p, 1) = {}
  /\ state' = [state EXCEPT ![p] = "ZOMBIE"]
  /\ lock' = [lock EXCEPT ![orig[p]] = NoCPU]
  /\ orig' = [orig EXCEPT ![p] = NoProc]
  /\ UNCHANGED <<parent, killed, pid, cpu, nextpid, pc, scan, havekids, asked>>

\* Mutant: exit() without reparent().
ExitZombie_NoReparent(c, p) ==
  /\ At(c, p, "exit5")
  /\ state' = [Wakeup1(orig[p]) EXCEPT ![p] = "ZOMBIE"]
  /\ lock' = [lock EXCEPT ![orig[p]] = NoCPU]
  /\ orig' = [orig EXCEPT ![p] = NoProc]
  /\ UNCHANGED <<parent, killed, pid, cpu, nextpid, pc, scan, havekids, asked>>

\* Wake the parent, become a zombie, release the parent's lock, call sched().
ExitZombie(c, p) ==
  /\ At(c, p, "exit5")
  /\ NextChild(p, 1) = {}
  /\ state' = [Wakeup1(orig[p]) EXCEPT ![p] = "ZOMBIE"]
  /\ lock' = [lock EXCEPT ![orig[p]] = NoCPU]
  /\ orig' = [orig EXCEPT ![p] = NoProc]
  /\ UNCHANGED <<parent, killed, pid, cpu, nextpid, pc, scan, havekids, asked>>

-----------------------------------------------------------------------------
\* The steps a process takes inside wait() and exit(), none of them its choice.
KernelStep(c, p) ==
  \/ WaitLock(c, p) \/ WaitFail(c, p) \/ WaitSleep(c, p)
  \/ ExitWakeInit(c, p) \/ ExitCopyParent(c, p) \/ ExitLockParent(c, p)
  \/ ExitLockSelf(c, p) \/ ExitZombie(c, p)
  \/ \E q \in Procs :
       \/ WaitReap(c, p, q) \/ WaitBadAddr(c, p, q) \/ WaitSkip(c, p, q)
       \/ Reparent(c, p, q)

UserStep(c, p) ==
  \/ WaitCall(c, p) \/ ExitCall(c, p) \/ Fault(c, p)
  \/ \E n \in KillPids : Kill(c, p, n)
  \/ \E q \in Procs : ForkNoPage(c, p, q) \/ ForkNoMemory(c, p, q) \/ Fork(c, p, q)

Next ==
  \E c \in CPUS :
    \/ Yield(c) \/ Sched(c)
    \/ \E p \in Procs : Scheduler(c, p) \/ KernelStep(c, p) \/ UserStep(c, p)

Spec == Init /\ [][Next]_vars

\* The same while no allocation fails: a fork() that finds a slot succeeds.
ForksSucceed ==
  nextpid' # nextpid => \E q \in Procs : state[q] = "UNUSED" /\ state'[q] = "RUNNABLE"
NextNoFail == Next /\ ForksSucceed
SpecNoFail == Init /\ [][NextNoFail]_vars

\* The lock whose acquire() comes next for the process on c (of several children's
\* the first), and the CPU that c spins for because it holds that lock.
Wanted(c) ==
  LET p == cpu[c] IN
  CASE At(c, p, "exit1") -> {initproc}
    [] At(c, p, "exit3") -> {orig[p]}
    [] At(c, p, "wait0") \/ At(c, p, "exit2") \/ At(c, p, "exit4") -> {p}
    [] At(c, p, "exit5") -> NextChild(p, 1)
    [] At(c, p, "wait") -> NextChild(p, scan[p])
    [] OTHER -> {}

SpinsFor(c) ==
  {lock[q] : q \in {q \in Wanted(c) : \A r \in Wanted(c) : q <= r}} \ {NoCPU}

\* acquire() turns interrupts off before it spins: no timer takes the CPU away.
KeepsSpinning ==
  \A c \in CPUS : SpinsFor(c) # {} => state'[cpu[c]] = state[cpu[c]]

\* allocproc() scans the table in order; a slot that is freed behind the scan
\* is left to the safety runs.
TakesFirstFree ==
  \A q, r \in Procs :
    state[q] = "UNUSED" /\ state'[q] = "RUNNABLE" /\ state[r] = "UNUSED" => q <= r
NextFair == NextNoFail /\ KeepsSpinning /\ TakesFirstFree

\* What a process does next without a choice of its user program: finish
\* wait() or exit(), exit once killed, and, for init, call wait().
MustStep(c, p) ==
  \/ KernelStep(c, p)
  \/ killed[p] /\ ExitCall(c, p)
  \/ p = initproc /\ WaitCall(c, p)

\* The scheduler's scan reaches every runnable process, the timer fires on
\* every CPU, and a process that is run again and again gets its next step
\* done: timer interrupts do not starve it for ever, nor do other CPUs that take
\* the lock it spins for.
Fairness ==
  /\ \A c \in CPUS : WF_vars(Yield(c)) /\ WF_vars(Sched(c))
  /\ \A p \in Procs :
       /\ SF_vars(\E c \in CPUS : Scheduler(c, p))
       /\ SF_vars(\E c \in CPUS : MustStep(c, p))

FairSpec == Init /\ [][NextFair]_vars /\ Fairness

-----------------------------------------------------------------------------
(* Type correctness of the process table, the locks and the CPUs.          *)
TypeOK ==
  /\ state \in [Procs -> States]
  /\ parent \in [Procs -> Procs \cup {NoProc}]
  /\ killed \in [Procs -> BOOLEAN]
  /\ pid \in [Procs -> Nat]
  /\ lock \in [Procs -> CPUS \cup {NoCPU}]
  /\ cpu \in [CPUS -> Procs \cup {NoProc}]
  /\ nextpid \in Nat
  /\ pc \in [Procs -> PCs]
  /\ scan \in [Procs -> 1..(NPROC + 1)]
  /\ havekids \in [Procs -> BOOLEAN]
  /\ orig \in [Procs -> Procs \cup {NoProc}]
  /\ asked \subseteq {"pid", "slot"} \X Nat

(* No process runs on two CPUs at once: p->lock is held from the moment a  *)
(* process is marked runnable until its CPU has left its kernel stack.     *)
OneCpuPerProcess ==
  \A c, d \in CPUS : cpu[c] = cpu[d] /\ cpu[c] # NoProc => c = d

(* The checks of sched() pass: a process that gives up the CPU holds its   *)
(* own lock and no other.                                                  *)
SchedLocks ==
  \A c \in CPUS :
    cpu[c] # NoProc /\ state[cpu[c]] # "RUNNING"
      => {p \in Procs : lock[p] = c} = {cpu[c]}

(* Every process but init has a parent that can still wait() for it: not   *)
(* a zombie, not a free slot.                                              *)
ParentLive ==
  \A p \in Procs \ {initproc} :
    state[p] # "UNUSED" =>
      parent[p] # NoProc /\ state[parent[p]] \notin {"UNUSED", "ZOMBIE"}

(* No lost wakeup between exit() and wait(): a process other than init     *)
(* never sleeps in wait() while one of its children is a zombie.           *)
NoMissedExit ==
  \A p, q \in Procs :
    p # initproc /\ state[p] = "SLEEPING" /\ parent[q] = p
      => state[q] # "ZOMBIE"

(* No lock deadlock: there is no set of CPUs each of which spins for a     *)
(* p->lock that another one of them (or itself) holds.                     *)
NoLockDeadlock ==
  \A S \in SUBSET CPUS \ {{}} : \E c \in S : SpinsFor(c) \cap S = {}

(* pids name processes: no two used slots have the same one.               *)
PidsUnique ==
  \A p, q \in Procs :
    p # q /\ state[p] # "UNUSED" /\ state[q] # "UNUSED" => pid[p] # pid[q]

(* A mark that kill() makes stays with the process it was made for: a      *)
(* process marked killed was found by kill() under its own pid, or caused  *)
(* a fault and is in exit(), or took a slot that kill() had found free (by *)
(* pid 0 or the pid of a failed fork()).  None inherits it from the slot's *)
(* last process, whatever allocations fail.                                *)
KilledWasAsked ==
  \A p \in Procs :
    state[p] # "UNUSED" /\ killed[p] =>
      <<"pid", pid[p]>> \in asked \/ <<"slot", p>> \in asked \/ pc[p] \in ExitPCs

(* The process table is right: no process on two CPUs, the locks that      *)
(* sched() expects, parents that can wait, no exit that wait() misses, and *)
(* no pid given twice.                                                     *)
TableSound ==
  TypeOK /\ OneCpuPerProcess /\ SchedLocks /\ ParentLive /\ NoMissedExit /\ PidsUnique

(* A killed process dies: kill() wakes it out of wait(), and it exits when *)
(* it is about to return to user space.                                    *)
KilledExits ==
  \A p \in Procs \ {initproc} :
    killed[p] /\ state[p] # "UNUSED" ~> state[p] \in {"ZOMBIE", "UNUSED"}

(* A process other than init that is inside wait() while one of its        *)
(* children is a zombie returns from wait().                               *)
WaitReturns ==
  \A p \in Procs \ {initproc} :
    (pc[p] = "wait" /\ \E q \in Procs : parent[q] = p /\ state[q] = "ZOMBIE")
      ~> pc[p] # "wait"

(* init, which perpetually calls wait(), cleans up after every zombie that *)
(* is its child.                                                           *)
OrphansReaped ==
  \A q \in Procs :
    state[q] = "ZOMBIE" /\ parent[q] = initproc ~> state[q] = "UNUSED"

=============================================================================
