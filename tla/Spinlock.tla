------------------------------- MODULE Spinlock -------------------------------
(***************************************************************************)
(* Spin locks and the interrupt state of the harts: acquire(), release(),  *)
(* push_off() and pop_off() (spinlock.c), myproc(), scheduler(), sched(),  *)
(* yield() and sleep() (proc.c) as far as they touch locks and interrupts, *)
(* and usertrap(), kerneltrap(), clockintr() and usertrapret() (trap.c).   *)
(*                                                                         *)
(* A context is a process's kernel thread or the scheduler thread of a     *)
(* hart.  code[c] is what context c still has to execute, the next step    *)
(* first; an interrupt puts its handler in front of what it interrupts,    *)
(* as it runs on the same kernel stack.  With interrupts off nothing else  *)
(* touches a hart's own registers and struct cpu, so that steps on these   *)
(* alone are joined to a neighbour.  All processes sleep on &ticks.        *)
(***************************************************************************)
EXTENDS Naturals, Sequences, FiniteSets, SequencesExt

CONSTANTS
    Harts,      \* the CPUs; BootHart has cpuid() 0
    BootHart,
    Threads,    \* processes, by their kernel threads
    MaxTraps    \* bound: system calls and interrupts taken

NoOne == "none"

VARIABLES
    sie,        \* SSTATUS_SIE of each hart
    noff,       \* struct cpu: depth of push_off()
    intena,     \* struct cpu: interrupts were on before the first push_off()
    locked,     \* struct spinlock: locked
    owner,      \* struct spinlock: cpu
    onCpu,      \* struct cpu: proc
    pstate,     \* p->state
    code,       \* what each context has yet to do
    got,        \* what a thread's last myproc() returned
    traps,      \* traps taken so far
    spanic      \* the panic() that was reached, or ""

spinVars == <<sie, noff, intena, locked, owner, onCpu, pstate, code, got, traps, spanic>>

Tickslock == "tickslock"
SpinLocks == Threads \cup {Tickslock}     \* thread t names its p->lock
Contexts == Threads \cup Harts

\* The context that a hart executes.
cur(h) == IF onCpu[h] = NoOne THEN h ELSE onCpu[h]
next(h) == Head(code[cur(h)])
afterwards(h) == Tail(code[cur(h)])
SpinAt(h, op) == spanic = "" /\ code[cur(h)] # <<>> /\ next(h)[1] = op

\* holding(): only the hart itself ever stores its number in lk->cpu.
holding(h, l) == locked[l] /\ owner[l] = h

\* The steps of the functions, as sequences of <<operation, argument>>.
acquire(l) == <<<<"acquire", l>>>>
release(l) == <<<<"release", l>>>>
Work == <<<<"work">>>>

myproc == <<<<"push_off">>, <<"mycpu">>, <<"pop_off">>>>

sleep(t) == acquire(t) \o release(Tickslock) \o <<<<"sched", "SLEEPING">>>>
            \o release(t) \o acquire(Tickslock)
yield(t) == acquire(t) \o <<<<"sched", "RUNNABLE">>>> \o release(t)

\* wakeup() visits every process; clockintr() calls it under tickslock.
wakeup == FlattenSeq([i \in 1..Cardinality(Threads) |->
             LET t == SetToSeq(Threads)[i]
             IN acquire(t) \o <<<<"wake", t>>>> \o release(t)])
clockintr == acquire(Tickslock) \o wakeup \o release(Tickslock)

\* devintr() on a timer interrupt: only hart 0 counts the tick.
devintr(h) == IF h = BootHart THEN clockintr ELSE <<>>

usertrapret == <<<<"intr_off">>, <<"sret">>>>

\* System calls: sys_sleep(), and one that uses myproc() and takes a lock.
syscall(t) ==
    {acquire(Tickslock) \o sleep(t) \o release(Tickslock),
     myproc \o acquire(Tickslock) \o release(Tickslock)}

\* One round of scheduler(): a window with interrupts on, then every process.
round == <<<<"intr_on">>, <<"intr_off">>>> \o
    FlattenSeq([i \in 1..Cardinality(Threads) |->
       LET t == SetToSeq(Threads)[i]
       IN acquire(t) \o <<<<"run", t>>, <<"noIntena">>>> \o release(t)])

-----------------------------------------------------------------------------
\* userinit() and fork() leave each process at forkret(), its lock held.
SpinInit ==
    /\ sie = [h \in Harts |-> FALSE]
    /\ noff = [h \in Harts |-> 0] /\ intena = [h \in Harts |-> FALSE]
    /\ locked = [l \in SpinLocks |-> FALSE] /\ owner = [l \in SpinLocks |-> NoOne]
    /\ onCpu = [h \in Harts |-> NoOne]
    /\ pstate = [t \in Threads |-> "RUNNABLE"]
    /\ code = [c \in Contexts |-> IF c \in Harts THEN <<>> ELSE release(c) \o usertrapret]
    /\ got = [t \in Threads |-> t]
    /\ traps = 0 /\ spanic = ""

Do(h, steps) == code' = [code EXCEPT ![cur(h)] = steps]
SpinPanic(what) == spanic' = what /\ UNCHANGED code

\* push_off() after it has read the interrupt state: intr_off(), then count.
pushOff(h, old) ==
    /\ sie' = [sie EXCEPT ![h] = FALSE]
    /\ intena' = IF noff[h] = 0 THEN [intena EXCEPT ![h] = old] ELSE intena
    /\ noff' = [noff EXCEPT ![h] = @ + 1]

popOff(h) ==
    /\ noff' = [noff EXCEPT ![h] = @ - 1]
    /\ sie' = [sie EXCEPT ![h] = noff[h] = 1 /\ intena[h]]
    /\ UNCHANGED intena

\* old = intr_get(): with interrupts on, an interrupt may come before intr_off().
ReadIntr(h, op) ==
    /\ sie[h]
    /\ Do(h, <<<<op>> \o Tail(next(h))>> \o afterwards(h))
    /\ UNCHANGED <<sie, noff, intena, locked, owner, onCpu, pstate, got, traps, spanic>>

PushOff(h) ==
    \/ SpinAt(h, "push_off") /\ ReadIntr(h, "push_off2")
    \/ /\ SpinAt(h, "push_off2") \/ (SpinAt(h, "push_off") /\ ~sie[h])
       /\ pushOff(h, next(h)[1] = "push_off2")
       /\ Do(h, afterwards(h))
       /\ UNCHANGED <<locked, owner, onCpu, pstate, got, traps, spanic>>

\* acquire() up to its spin: push_off() and the check of holding().
AcquireStep(h) ==
    \/ SpinAt(h, "acquire") /\ ReadIntr(h, "acquire2")
    \/ /\ SpinAt(h, "acquire2") \/ (SpinAt(h, "acquire") /\ ~sie[h])
       /\ pushOff(h, next(h)[1] = "acquire2")
       /\ LET l == next(h)[2] IN
          IF holding(h, l) THEN SpinPanic("acquire")
          ELSE Do(h, <<<<"swap", l>>>> \o afterwards(h)) /\ UNCHANGED spanic
       /\ UNCHANGED <<locked, owner, onCpu, pstate, got, traps>>

\* __sync_lock_test_and_set() that found 0; a hart that finds 1 spins.
Swap_NotAtomic(h) ==
    /\ SpinAt(h, "swap")
    /\ locked' = [locked EXCEPT ![next(h)[2]] = TRUE]
    /\ Do(h, <<<<"own", next(h)[2]>>>> \o afterwards(h))
    /\ UNCHANGED <<sie, noff, intena, owner, onCpu, pstate, got, traps, spanic>>
Swap(h) ==
    /\ SpinAt(h, "swap") /\ ~locked[next(h)[2]]
    /\ locked' = [locked EXCEPT ![next(h)[2]] = TRUE]
    /\ Do(h, <<<<"own", next(h)[2]>>>> \o afterwards(h))
    /\ UNCHANGED <<sie, noff, intena, owner, onCpu, pstate, got, traps, spanic>>

\* lk->cpu = mycpu()
Own(h) ==
    /\ SpinAt(h, "own")
    /\ owner' = [owner EXCEPT ![next(h)[2]] = h]
    /\ Do(h, afterwards(h))
    /\ UNCHANGED <<sie, noff, intena, locked, onCpu, pstate, got, traps, spanic>>

\* release() up to lk->cpu = 0.
Release(h) ==
    /\ SpinAt(h, "release")
    /\ LET l == next(h)[2] IN
       IF ~holding(h, l) THEN SpinPanic("release") /\ UNCHANGED owner
       ELSE /\ owner' = [owner EXCEPT ![l] = NoOne]
            /\ Do(h, <<<<"unlock", l>>>> \o afterwards(h)) /\ UNCHANGED spanic
    /\ UNCHANGED <<sie, noff, intena, locked, onCpu, pstate, got, traps>>

\* The pop_off() at the end of release(), or by itself.
PopOff(h) ==
    /\ SpinAt(h, "unlock") \/ SpinAt(h, "pop_off")
    /\ locked' = IF SpinAt(h, "unlock") THEN [locked EXCEPT ![next(h)[2]] = FALSE] ELSE locked
    /\ IF sie[h] \/ noff[h] < 1
       THEN SpinPanic("pop_off") /\ UNCHANGED <<sie, noff, intena>>
       ELSE popOff(h) /\ Do(h, afterwards(h)) /\ UNCHANGED spanic
    /\ UNCHANGED <<owner, onCpu, pstate, got, traps>>

\* myproc(): c = mycpu(), and then c->proc of that hart.
MyCpu(h) ==
    /\ SpinAt(h, "mycpu")
    /\ Do(h, <<<<"deref", h>>>> \o afterwards(h))
    /\ UNCHANGED <<sie, noff, intena, locked, owner, onCpu, pstate, got, traps, spanic>>
MyProc(h) ==
    /\ SpinAt(h, "deref")
    /\ got' = [got EXCEPT ![cur(h)] = onCpu[next(h)[2]]]
    /\ Do(h, afterwards(h))
    /\ UNCHANGED <<sie, noff, intena, locked, owner, onCpu, pstate, traps, spanic>>

\* intr_on(), intr_off(), and sret into code that ran with interrupts on.
Intr(h) ==
    /\ SpinAt(h, "intr_on") \/ SpinAt(h, "intr_off") \/ SpinAt(h, "sret") \/ SpinAt(h, "work")
    /\ sie' = IF SpinAt(h, "work") THEN sie ELSE [sie EXCEPT ![h] = next(h)[1] # "intr_off"]
    /\ Do(h, afterwards(h))
    /\ UNCHANGED <<noff, intena, locked, owner, onCpu, pstate, got, traps, spanic>>

\* sched(): its checks, then swtch() to the scheduler, which clears c->proc.
saved_Forgets(h) == <<>>
saved(h) == <<<<"restore", intena[h]>>>>
Sched(h) ==
    /\ SpinAt(h, "sched")
    /\ LET t == cur(h) IN
       IF ~holding(h, t) \/ noff[h] # 1 \/ sie[h]
       THEN SpinPanic("sched") /\ UNCHANGED <<onCpu, pstate>>
       ELSE /\ pstate' = [pstate EXCEPT ![t] = next(h)[2]]
            /\ Do(h, saved(h) \o afterwards(h))
            /\ onCpu' = [onCpu EXCEPT ![h] = NoOne]
            /\ UNCHANGED spanic
    /\ UNCHANGED <<sie, noff, intena, locked, owner, got, traps>>

\* The end of sched(), on whatever hart the thread is resumed; and the
\* scheduler's c->intena = 0.
SetIntena(h) ==
    /\ SpinAt(h, "restore") \/ SpinAt(h, "noIntena")
    /\ intena' = [intena EXCEPT ![h] = SpinAt(h, "restore") /\ next(h)[2]]
    /\ Do(h, afterwards(h))
    /\ UNCHANGED <<sie, noff, locked, owner, onCpu, pstate, got, traps, spanic>>

\* scheduler(): swtch() to a process that is RUNNABLE.
Run(h) ==
    /\ SpinAt(h, "run")
    /\ LET t == next(h)[2] IN
       /\ Do(h, afterwards(h))
       /\ IF pstate[t] = "RUNNABLE"
          THEN pstate' = [pstate EXCEPT ![t] = "RUNNING"] /\ onCpu' = [onCpu EXCEPT ![h] = t]
          ELSE UNCHANGED <<pstate, onCpu>>
    /\ UNCHANGED <<sie, noff, intena, locked, owner, got, traps, spanic>>

\* wakeup() of one process, under its lock.
Wake(h) ==
    /\ SpinAt(h, "wake")
    /\ pstate' = [pstate EXCEPT ![next(h)[2]] = IF @ = "SLEEPING" THEN "RUNNABLE" ELSE @]
    /\ Do(h, afterwards(h))
    /\ UNCHANGED <<sie, noff, intena, locked, owner, onCpu, got, traps, spanic>>

\* The end of the trap handler of a timer interrupt: yield() if a process runs.
Timer(h) ==
    /\ SpinAt(h, "timer")
    /\ Do(h, (IF onCpu[h] # NoOne /\ pstate[cur(h)] = "RUNNING" THEN yield(cur(h)) ELSE <<>>)
             \o afterwards(h))
    /\ UNCHANGED <<sie, noff, intena, locked, owner, onCpu, pstate, got, traps, spanic>>

\* A trap clears SIE.  usertrap(): a system call runs with interrupts on.
Trap(h, steps) ==
    /\ spanic = "" /\ traps < MaxTraps
    /\ traps' = traps + 1
    /\ sie' = [sie EXCEPT ![h] = FALSE]
    /\ Do(h, steps \o code[cur(h)])
    /\ UNCHANGED <<noff, intena, locked, owner, onCpu, pstate, got, spanic>>
UserMode(h) == onCpu[h] # NoOne /\ code[cur(h)] = <<>>
Syscall(h) ==
    /\ UserMode(h)
    /\ \E body \in syscall(cur(h)) :
          Trap(h, <<<<"intr_on">>>> \o Work \o body \o Work \o usertrapret)
UserTrap(h) == UserMode(h) /\ Trap(h, devintr(h) \o <<<<"timer">>>> \o usertrapret)
KernelTrap(h) ==
    /\ sie[h] /\ code[cur(h)] # <<>>
    /\ Trap(h, devintr(h) \o <<<<"timer">>, <<"sret">>>>)

\* The scheduler begins its loop again.
SchedulerLoop(h) ==
    /\ spanic = "" /\ onCpu[h] = NoOne /\ code[h] = <<>>
    /\ Do(h, round)
    /\ UNCHANGED <<sie, noff, intena, locked, owner, onCpu, pstate, got, traps, spanic>>

SpinNext == \E h \in Harts :
    \/ PushOff(h) \/ AcquireStep(h) \/ Swap(h) \/ Own(h) \/ Release(h) \/ PopOff(h)
    \/ MyCpu(h) \/ MyProc(h) \/ Intr(h) \/ Sched(h) \/ SetIntena(h) \/ Run(h)
    \/ Wake(h) \/ Timer(h) \/ Syscall(h) \/ UserTrap(h) \/ KernelTrap(h) \/ SchedulerLoop(h)

SpinSpec == SpinInit /\ [][SpinNext]_spinVars

-----------------------------------------------------------------------------
\* Type invariant.  noff is bounded by the deepest nesting of locks:
\* tickslock and then the lock of the process that is woken or put to sleep.
SpinTypeOK ==
    /\ sie \in [Harts -> BOOLEAN] /\ intena \in [Harts -> BOOLEAN]
    /\ noff \in [Harts -> 0..2]
    /\ locked \in [SpinLocks -> BOOLEAN]
    /\ owner \in [SpinLocks -> Harts \cup {NoOne}]
    /\ onCpu \in [Harts -> Threads \cup {NoOne}]
    /\ pstate \in [Threads -> {"RUNNABLE", "RUNNING", "SLEEPING"}]
    /\ DOMAIN code = Contexts
    /\ traps \in 0..MaxTraps

\* spinlock.c:36 says that acquire() disables interrupts "to avoid deadlock":
\* a hart that can be interrupted is inside no push_off() and owns no lock,
\* whatever was nested, yielded, slept and migrated before.
InterruptibleHoldsNothing ==
    \A h \in Harts : sie[h] => noff[h] = 0 /\ \A l \in SpinLocks : owner[l] # h

\* Context c is between its acquire() and its release() of lock l.
Inside(c, l) ==
    \E i \in 1..Len(code[c]) :
       /\ code[c][i][1] \in {"own", "release", "unlock"} /\ code[c][i][2] = l
       /\ \A j \in 1..(i - 1) :
             code[c][j][1] \in {"acquire", "acquire2", "swap"} => code[c][j][2] # l

\* Mutual exclusion (acquire() and release()): no two harts execute inside the
\* same lock, although sched() hands p->lock from a thread to the scheduler;
\* and no context, running or not, is inside tickslock beside another.
MutualExclusion ==
    /\ \A l \in SpinLocks : Cardinality({h \in Harts : Inside(cur(h), l)}) <= 1
    /\ Cardinality({c \in Contexts : Inside(c, Tickslock)}) <= 1

\* sched() "saves and restores intena because intena is a property of this
\* kernel thread, not this CPU" (proc.c:491): system call code outside every
\* lock runs with interrupts on, also after it slept or was preempted and
\* resumed on another hart.
WorkIsInterruptible == \A h \in Harts : SpinAt(h, "work") => sie[h]

\* myproc() (proc.c) reads mycpu() and c->proc with interrupts off: it returns
\* the process that calls it, though timer interrupts move processes between
\* harts at any instruction.
MyprocIsCaller == \A t \in Threads : got[t] = t

\* NoOne of the panics of acquire(), release(), pop_off() and sched() is reached.
SpinNoPanic == spanic = ""

\* What acquire() and release() are for: mutual exclusion, without reaching one of
\* the panics that guard it.
LocksExclude == SpinTypeOK /\ MutualExclusion /\ SpinNoPanic

\* The state of a hart fits the thread that runs on it, however threads migrate.
HartFitsThread == InterruptibleHoldsNothing /\ WorkIsInterruptible /\ MyprocIsCaller
===============================================================================
