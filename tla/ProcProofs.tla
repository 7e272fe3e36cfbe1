----------------------------- MODULE ProcProofs -----------------------------
(***************************************************************************)
(* The inductive invariant of Proc, for every number of slots and CPUs;    *)
(* that it holds initially; that scheduler(), yield(), sched(), fork(),    *)
(* kill(), wait() and exit() preserve it; and the properties of Proc that  *)
(* it implies.                                                             *)
(***************************************************************************)
EXTENDS Proc, TLAPS

\* The p->locks that CPU c holds, read off the code it executes.
HeldBy(c) ==
  LET p == cpu[c] IN
  IF p = NoProc THEN {}
  ELSE IF state[p] # "RUNNING" \/ pc[p] = "wait" THEN {p}
  ELSE IF pc[p] = "exit4" THEN {orig[p]}
  ELSE IF pc[p] = "exit5" THEN {orig[p], p}
  ELSE {}

LockInv == \A c \in CPUS : \A q \in Procs : lock[q] = c <=> q \in HeldBy(c)

\* Off the CPU a process is where no foreign lock is held.
PcInv ==
  \A p \in Procs :
    /\ state[p] = "RUNNABLE" => pc[p] \notin {"exit4", "exit5"}
    /\ state[p] = "SLEEPING" => pc[p] = "wait"
    /\ state[p] = "RUNNING" => \E c \in CPUS : cpu[c] = p

\* init is nobody's child and never exits.
InitInv ==
  /\ parent[initproc] = NoProc
  /\ state[initproc] \notin {"UNUSED", "ZOMBIE"}
  /\ pc[initproc] \notin ExitPCs

\* exit()'s copy of the parent is a real parent, and the current one unless
\* the process has been given to init.
OrigInv ==
  \A p \in Procs :
    /\ parent[p] # p
    /\ state[p] \notin {"UNUSED", "ZOMBIE"} /\ pc[p] \in {"exit3", "exit4", "exit5"}
         => /\ orig[p] \in Procs \ {p}
            /\ parent[p] = initproc \/ orig[p] = parent[p]

\* wait() has passed no zombie child, and is only inside its loop on a CPU.
ScanInv ==
  /\ \A p \in Procs : scan[p] # 1 => pc[p] = "wait" /\ state[p] = "RUNNING"
  /\ \A p, q \in Procs :
       p # initproc /\ parent[q] = p /\ q < scan[p] => state[q] # "ZOMBIE"

IInv ==
  /\ TypeOK
  /\ LockInv
  /\ OneCpuPerProcess
  /\ PcInv
  /\ InitInv
  /\ OrigInv
  /\ ParentLive
  /\ ScanInv
  /\ NoMissedExit

\* All that most of the proofs need to know of the constants.
LEMMA Distinct ==
  /\ initproc \in Procs
  /\ NoProc \notin Procs
  /\ NoCPU \notin CPUS
  BY ProcAssumption DEF Procs, initproc, NoProc

LEMMA InitIInv == Init => IInv
  BY ProcAssumption DEF Procs, initproc, NoProc, Init, IInv, TypeOK, LockInv, OneCpuPerProcess, PcInv, InitInv, OrigInv,
     ParentLive, ScanInv, NoMissedExit, HeldBy, States, PCs, ExitPCs

USE Distinct

\* A process that is not running and whose lock is free is on no CPU.
LEMMA OffCpu ==
  ASSUME NEW p \in Procs, IInv, Free(p), state[p] # "RUNNING", NEW e \in CPUS
  PROVE cpu[e] # p
<1> SUFFICES ASSUME cpu[e] = p PROVE FALSE
  BY Zenon
<1>1. p \in HeldBy(e)
  BY Zenon DEF HeldBy
<1>2. lock[p] = e
  BY Zenon, <1>1 DEF IInv, LockInv
<1> QED BY Zenon, <1>2 DEF Free

\* A CPU whose process does not move holds what it held.
LEMMA HeldByFrame ==
  ASSUME NEW d \in CPUS, cpu'[d] = cpu[d],
         cpu[d] # NoProc => /\ state'[cpu[d]] = state[cpu[d]]
                            /\ pc'[cpu[d]] = pc[cpu[d]]
                            /\ orig'[cpu[d]] = orig[cpu[d]]
  PROVE HeldBy(d)' = HeldBy(d)
  BY Zenon DEF HeldBy

LEMMA SchedulerIInv ==
  ASSUME NEW c \in CPUS, NEW p \in Procs, IInv, Scheduler(c, p)
  PROVE IInv'
<1> USE DEF Scheduler, locals, Free
<1>1. TypeOK' BY Zenon DEF IInv, TypeOK, States
<1>2. LockInv'
  <2> SUFFICES ASSUME NEW d \in CPUS, NEW q \in Procs
               PROVE (lock[q] = d <=> q \in HeldBy(d))'
    BY Zenon DEF LockInv
  <2>1. \A e \in CPUS : cpu[e] # p
    BY Zenon, OffCpu
  <2>2. CASE d = c
    <3>1. lock[q] # c
      BY Zenon, <2>2 DEF IInv, TypeOK, LockInv, HeldBy
    <3>2. pc[p] \notin {"exit4", "exit5"}
      BY Zenon DEF IInv, PcInv
    <3> QED BY Zenon, <2>2, <3>1, <3>2 DEF IInv, TypeOK, HeldBy
  <2>3. CASE d # c
    <3>1. HeldBy(d)' = HeldBy(d)
      BY Zenon, <2>1, <2>3 DEF IInv, TypeOK, HeldBy
    <3>2. lock'[q] = d <=> lock[q] = d
      BY Zenon, <2>3 DEF IInv, TypeOK
    <3> QED BY <3>1, <3>2 DEF IInv, LockInv
  <2> QED BY Zenon, <2>2, <2>3
<1>3. OneCpuPerProcess' BY DEF IInv, TypeOK, LockInv, HeldBy, OneCpuPerProcess
<1>4. PcInv' BY DEF IInv, TypeOK, PcInv
<1>5. InitInv' BY Zenon DEF IInv, TypeOK, InitInv
<1>6. OrigInv' BY DEF IInv, TypeOK, OrigInv
<1>7. ParentLive' BY DEF IInv, TypeOK, ParentLive
<1>8. ScanInv' BY Zenon DEF IInv, TypeOK, ScanInv
<1>9. NoMissedExit' BY Zenon DEF IInv, TypeOK, NoMissedExit
<1> QED BY <1>1, <1>2, <1>3, <1>4, <1>5, <1>6, <1>7, <1>8, <1>9, Zenon DEF IInv

LEMMA YieldIInv ==
  ASSUME NEW c \in CPUS, IInv, Yield(c)
  PROVE IInv'
<1> USE DEF Yield, locals, Free
<1>1. TypeOK' BY Zenon DEF IInv, TypeOK, States, PCs, ExitPCs
<1>2. LockInv' BY DEF IInv, TypeOK, LockInv, HeldBy, OneCpuPerProcess, PcInv, OrigInv
<1>3. OneCpuPerProcess' BY Zenon DEF IInv, OneCpuPerProcess
<1>a. pc[cpu[c]] \notin {"wait", "exit4", "exit5"}
  <2>1. \A q \in Procs : q \notin HeldBy(c)
    BY Zenon DEF IInv, LockInv
  <2> QED BY <2>1 DEF IInv, TypeOK, OrigInv, HeldBy
<1>4. PcInv' BY <1>a DEF IInv, TypeOK, PcInv
<1>5. InitInv' BY Zenon DEF IInv, TypeOK, InitInv, ExitPCs
<1>6. OrigInv' BY DEF IInv, TypeOK, OrigInv, InitInv, ParentLive, ExitPCs
<1>7. ParentLive' BY DEF IInv, TypeOK, ParentLive, InitInv, ExitPCs
<1>8. ScanInv' BY Zenon, <1>a DEF IInv, TypeOK, ScanInv
<1>9. NoMissedExit' BY DEF IInv, TypeOK, NoMissedExit, ScanInv, OrigInv, InitInv, ParentLive
<1> QED BY <1>1, <1>2, <1>3, <1>4, <1>5, <1>6, <1>7, <1>8, <1>9, Zenon DEF IInv

LEMMA SchedIInv ==
  ASSUME NEW c \in CPUS, IInv, Sched(c)
  PROVE IInv'
<1> USE DEF Sched, locals, table
<1>1. TypeOK' BY Zenon DEF IInv, TypeOK, States, PCs, ExitPCs
<1>2. LockInv' BY DEF IInv, TypeOK, LockInv, HeldBy, OneCpuPerProcess, PcInv, OrigInv
<1>3. OneCpuPerProcess' BY Zenon DEF IInv, TypeOK, OneCpuPerProcess
<1>4. PcInv' BY DEF IInv, TypeOK, PcInv, LockInv, HeldBy, OneCpuPerProcess
<1>5. InitInv' BY Zenon DEF IInv, InitInv
<1>6. OrigInv' BY Zenon DEF IInv, OrigInv
<1>7. ParentLive' BY Zenon DEF IInv, ParentLive
<1>8. ScanInv' BY Zenon DEF IInv, ScanInv
<1>9. NoMissedExit' BY Zenon DEF IInv, NoMissedExit
<1> QED BY <1>1, <1>2, <1>3, <1>4, <1>5, <1>6, <1>7, <1>8, <1>9, Zenon DEF IInv

LEMMA ForkNoPageIInv ==
  ASSUME NEW c \in CPUS, NEW p \in Procs, NEW q \in Procs, IInv, ForkNoPage(c, p, q)
  PROVE IInv'
<1> USE DEF ForkNoPage, AllocProc, At, locals, Free
<1>1. TypeOK'
  <2>1. pid' \in [Procs -> Nat] /\ nextpid' \in Nat
    BY DEF IInv, TypeOK
  <2> QED BY Zenon, <2>1 DEF IInv, TypeOK
<1>2. LockInv' BY DEF IInv, LockInv, HeldBy
<1>3. OneCpuPerProcess' BY Zenon DEF IInv, OneCpuPerProcess
<1>4. PcInv' BY Zenon DEF IInv, PcInv
<1>5. InitInv' BY Zenon DEF IInv, InitInv
<1>6. OrigInv' BY Zenon DEF IInv, OrigInv
<1>7. ParentLive' BY Zenon DEF IInv, ParentLive
<1>8. ScanInv' BY Zenon DEF IInv, ScanInv
<1>9. NoMissedExit' BY Zenon DEF IInv, NoMissedExit
<1> QED BY <1>1, <1>2, <1>3, <1>4, <1>5, <1>6, <1>7, <1>8, <1>9, Zenon DEF IInv

LEMMA ForkNoMemoryIInv ==
  ASSUME NEW c \in CPUS, NEW p \in Procs, NEW q \in Procs, IInv, ForkNoMemory(c, p, q)
  PROVE IInv'
<1> USE DEF ForkNoMemory, AllocProc, FreeProc, At, locals, Free
<1>1. TypeOK'
  <2>1. state' \in [Procs -> States] /\ parent' \in [Procs -> Procs \cup {NoProc}]
    BY Zenon DEF IInv, TypeOK, States
  <2>2. pid' \in [Procs -> Nat] /\ nextpid' \in Nat
    BY DEF IInv, TypeOK
  <2>3. killed' \in [Procs -> BOOLEAN]
    BY Zenon DEF IInv, TypeOK
  <2> QED BY Zenon, <2>1, <2>2, <2>3 DEF IInv, TypeOK
<1>2. LockInv' BY DEF IInv, TypeOK, LockInv, HeldBy, OneCpuPerProcess, PcInv, OrigInv
<1>3. OneCpuPerProcess' BY Zenon DEF IInv, OneCpuPerProcess
<1>4. PcInv' BY DEF IInv, TypeOK, PcInv, LockInv, HeldBy, OneCpuPerProcess
<1>5. InitInv' BY Zenon DEF IInv, TypeOK, InitInv, ExitPCs
<1>6. OrigInv' BY DEF IInv, TypeOK, OrigInv, InitInv, ParentLive, ExitPCs
<1>7. ParentLive' BY DEF IInv, TypeOK, ParentLive, InitInv, ExitPCs
<1>8. ScanInv' BY DEF IInv, TypeOK, ScanInv, ParentLive, OrigInv, InitInv
<1>9. NoMissedExit' BY DEF IInv, TypeOK, NoMissedExit, ScanInv, OrigInv, InitInv, ParentLive
<1> QED BY <1>1, <1>2, <1>3, <1>4, <1>5, <1>6, <1>7, <1>8, <1>9, Zenon DEF IInv

LEMMA ForkIInv ==
  ASSUME NEW c \in CPUS, NEW p \in Procs, NEW q \in Procs, IInv, Fork(c, p, q)
  PROVE IInv'
<1> USE DEF Fork, AllocProc, Goto, At, locals, Free
<1>1. TypeOK'
  <2>1. state' \in [Procs -> States] /\ parent' \in [Procs -> Procs \cup {NoProc}]
    BY Zenon DEF IInv, TypeOK, States
  <2>2. pid' \in [Procs -> Nat] /\ nextpid' \in Nat
    BY DEF IInv, TypeOK
  <2>3. pc' \in [Procs -> PCs]
    BY Zenon DEF IInv, TypeOK, PCs, ExitPCs
  <2> QED BY Zenon, <2>1, <2>2, <2>3 DEF IInv, TypeOK
<1>2. LockInv'
  <2>1. \A d \in CPUS : cpu[d] # q
    BY Zenon, OffCpu
  <2>2. \A d \in CPUS : HeldBy(d)' = HeldBy(d)
    BY Zenon, <2>1, HeldByFrame DEF IInv, TypeOK
  <2> QED BY <2>2 DEF IInv, LockInv
<1>3. OneCpuPerProcess' BY Zenon DEF IInv, OneCpuPerProcess
<1>4. PcInv' BY DEF IInv, TypeOK, PcInv, LockInv, HeldBy, OneCpuPerProcess
<1>5. InitInv' BY Zenon DEF IInv, TypeOK, InitInv, ExitPCs
<1>6. OrigInv' BY DEF IInv, TypeOK, OrigInv, InitInv, ParentLive, ExitPCs
<1>7. ParentLive' BY DEF IInv, TypeOK, ParentLive, InitInv, ExitPCs
<1>8. ScanInv' BY DEF IInv, TypeOK, ScanInv, ParentLive, OrigInv, InitInv
<1>9. NoMissedExit' BY DEF IInv, TypeOK, NoMissedExit, ScanInv, OrigInv, InitInv, ParentLive
<1> QED BY <1>1, <1>2, <1>3, <1>4, <1>5, <1>6, <1>7, <1>8, <1>9, Zenon DEF IInv

LEMMA KillIInv ==
  ASSUME NEW c \in CPUS, NEW p \in Procs, NEW n \in KillPids, IInv, Kill(c, p, n)
  PROVE IInv'
<1> USE DEF Kill, At, locals, Free
<1>q. PICK q \in Procs :
        /\ Free(q)
        /\ killed' = [killed EXCEPT ![q] = TRUE]
        /\ state' = [state EXCEPT ![q] = IF @ = "SLEEPING" THEN "RUNNABLE" ELSE @]
        /\ asked' = asked \cup {Found(q)}
  BY Zenon
<1>1. TypeOK'
  <2>1. state' \in [Procs -> States]
    BY Zenon, <1>q DEF IInv, TypeOK, States
  <2>2. killed' \in [Procs -> BOOLEAN]
    BY Zenon, <1>q DEF IInv, TypeOK
  <2>3. asked' \subseteq {"pid", "slot"} \X Nat
    BY <1>q DEF IInv, TypeOK, Procs, Found
  <2> QED BY <2>1, <2>2, <2>3, Zenon DEF IInv, TypeOK
<1>2. LockInv'
  <2>1. \A d \in CPUS : cpu[d] = q => state[q] = "RUNNING"
    BY Zenon, <1>q, OffCpu
  <2>2. \A d \in CPUS : cpu[d] # NoProc => state'[cpu[d]] = state[cpu[d]]
    BY <1>q, <2>1 DEF IInv, TypeOK
  <2>3. \A d \in CPUS : HeldBy(d)' = HeldBy(d)
    BY Zenon, <2>2, HeldByFrame DEF IInv, TypeOK
  <2> QED BY <2>3 DEF IInv, LockInv
<1>3. OneCpuPerProcess' BY Zenon DEF IInv, OneCpuPerProcess
<1>4. PcInv' BY DEF IInv, TypeOK, PcInv, LockInv, HeldBy, OneCpuPerProcess
<1>5. InitInv' BY DEF IInv, TypeOK, InitInv, ExitPCs
<1>6. OrigInv'
  <2>1. \A r \in Procs : state'[r] \notin {"UNUSED", "ZOMBIE"} => state[r] \notin {"UNUSED", "ZOMBIE"}
    BY Zenon, <1>q DEF IInv, TypeOK
  <2> QED BY Zenon, <2>1 DEF IInv, OrigInv
<1>7. ParentLive' BY DEF IInv, TypeOK, ParentLive, InitInv, ExitPCs
<1>8. ScanInv'
  <2>1. \A r \in Procs : state[r] = "RUNNING" => state'[r] = "RUNNING"
    BY Zenon, <1>q DEF IInv, TypeOK
  <2>2. \A r \in Procs : state'[r] = "ZOMBIE" => state[r] = "ZOMBIE"
    BY Zenon, <1>q DEF IInv, TypeOK
  <2>3. scan' = scan /\ pc' = pc /\ parent' = parent
    BY Zenon
  <2> QED BY <2>1, <2>2, <2>3 DEF IInv, ScanInv
<1>9. NoMissedExit' BY DEF IInv, TypeOK, NoMissedExit, ScanInv, OrigInv, InitInv, ParentLive
<1> QED BY <1>1, <1>2, <1>3, <1>4, <1>5, <1>6, <1>7, <1>8, <1>9, Zenon DEF IInv
-----------------------------------------------------------------------------
(* wait()                                                                  *)

LEMMA WaitCallIInv ==
  ASSUME NEW c \in CPUS, NEW p \in Procs, IInv, WaitCall(c, p)
  PROVE IInv'
<1> USE DEF WaitCall, At, Goto, table, locals
<1>1. TypeOK' BY Zenon DEF IInv, TypeOK, States, PCs, ExitPCs
<1>2. LockInv' BY DEF IInv, TypeOK, LockInv, HeldBy, OneCpuPerProcess, PcInv, OrigInv
<1>3. OneCpuPerProcess' BY Zenon DEF IInv, OneCpuPerProcess
<1>4. PcInv' BY DEF IInv, TypeOK, PcInv, LockInv, HeldBy, OneCpuPerProcess
<1>5. InitInv' BY Zenon DEF IInv, TypeOK, InitInv, ExitPCs
<1>6. OrigInv' BY DEF IInv, TypeOK, OrigInv, InitInv, ParentLive, ExitPCs
<1>7. ParentLive' BY Zenon DEF IInv, ParentLive
<1>8. ScanInv' BY DEF IInv, TypeOK, ScanInv, ParentLive, OrigInv, InitInv
<1>9. NoMissedExit' BY Zenon DEF IInv, NoMissedExit
<1> QED BY <1>1, <1>2, <1>3, <1>4, <1>5, <1>6, <1>7, <1>8, <1>9, Zenon DEF IInv

LEMMA WaitLockIInv ==
  ASSUME NEW c \in CPUS, NEW p \in Procs, IInv, WaitLock(c, p)
  PROVE IInv'
<1> USE DEF WaitLock, At, Goto, Free, table, locals
<1>1. TypeOK' BY Zenon DEF IInv, TypeOK, States, PCs, ExitPCs
<1>2. LockInv' BY DEF IInv, TypeOK, LockInv, HeldBy, OneCpuPerProcess, PcInv, OrigInv
<1>3. OneCpuPerProcess' BY Zenon DEF IInv, OneCpuPerProcess
<1>4. PcInv' BY DEF IInv, TypeOK, PcInv, LockInv, HeldBy, OneCpuPerProcess
<1>5. InitInv' BY Zenon DEF IInv, TypeOK, InitInv, ExitPCs
<1>6. OrigInv' BY DEF IInv, TypeOK, OrigInv, InitInv, ParentLive, ExitPCs
<1>7. ParentLive' BY Zenon DEF IInv, ParentLive
<1>8. ScanInv' BY DEF IInv, TypeOK, ScanInv, ParentLive, OrigInv, InitInv
<1>9. NoMissedExit' BY Zenon DEF IInv, NoMissedExit
<1> QED BY <1>1, <1>2, <1>3, <1>4, <1>5, <1>6, <1>7, <1>8, <1>9, Zenon DEF IInv

LEMMA WaitReapIInv ==
  ASSUME NEW c \in CPUS, NEW p \in Procs, NEW q \in Procs, IInv, WaitReap(c, p, q)
  PROVE IInv'
<1> USE DEF WaitReap, ScanReaches, WaitReturn, FreeProc, NextChild, At, Goto, Free
<1>1. TypeOK'
  <2>1. state' \in [Procs -> States] /\ parent' \in [Procs -> Procs \cup {NoProc}]
    BY Zenon DEF IInv, TypeOK, States
  <2>2. pid' \in [Procs -> Nat] /\ lock' \in [Procs -> CPUS \cup {NoCPU}]
    BY Zenon DEF IInv, TypeOK
  <2>3. killed' \in [Procs -> BOOLEAN] /\ havekids' \in [Procs -> BOOLEAN]
    BY Zenon DEF IInv, TypeOK
  <2>4. pc' \in [Procs -> PCs] /\ scan' \in [Procs -> 1..(NPROC + 1)]
    BY ProcAssumption DEF IInv, TypeOK, PCs, ExitPCs
  <2> QED BY <2>1, <2>2, <2>3, <2>4, Zenon DEF IInv, TypeOK
<1>2. LockInv'
  <2> SUFFICES ASSUME NEW d \in CPUS, NEW r \in Procs
               PROVE (lock[r] = d <=> r \in HeldBy(d))'
    BY Zenon DEF LockInv
  <2>1. \A e \in CPUS : cpu[e] # q
    BY Zenon, OffCpu
  <2>h. HeldBy(c) = {p} /\ HeldBy(c)' = {}
    BY Zenon, <2>1 DEF IInv, TypeOK, HeldBy
  <2>p. lock[p] = c
    BY Zenon, <2>h DEF IInv, LockInv
  <2>2. CASE d = c
    <3>1. lock[r] = c <=> r = p
      BY Zenon, <2>h DEF IInv, LockInv
    <3> QED BY Zenon, <2>2, <2>h, <3>1 DEF IInv, TypeOK
  <2>3. CASE d # c
    <3>1. cpu[d] # p
      BY Zenon, <2>3 DEF IInv, OneCpuPerProcess
    <3>2. HeldBy(d)' = HeldBy(d)
      BY Zenon, <2>1, <3>1, HeldByFrame DEF IInv, TypeOK
    <3>3. lock'[r] = d <=> lock[r] = d
      BY Zenon, <2>3, <2>p DEF IInv, TypeOK
    <3> QED BY <3>2, <3>3 DEF IInv, LockInv
  <2> QED BY Zenon, <2>2, <2>3
<1>3. OneCpuPerProcess' BY Zenon DEF IInv, OneCpuPerProcess
<1>4. PcInv' BY DEF IInv, TypeOK, PcInv, LockInv, HeldBy, OneCpuPerProcess
<1>5. InitInv' BY Zenon DEF IInv, TypeOK, InitInv, ExitPCs
<1>6. OrigInv' BY DEF IInv, TypeOK, OrigInv, InitInv, ParentLive, ExitPCs
<1>7. ParentLive' BY DEF IInv, TypeOK, ParentLive, InitInv, ExitPCs
<1>8. ScanInv'
  <2>1. \A r \in Procs : scan'[r] # 1 => pc'[r] = "wait" /\ state'[r] = "RUNNING"
    BY Zenon DEF IInv, TypeOK, ScanInv
  <2>2. ASSUME NEW r \in Procs, NEW t \in Procs,
               r # initproc, parent'[t] = r, t < scan'[r]
        PROVE state'[t] # "ZOMBIE"
    <3>1. r # p
      BY <2>2 DEF IInv, TypeOK, Procs
    <3> QED BY <2>2, <3>1 DEF IInv, TypeOK, ScanInv
  <2> QED BY <2>1, <2>2 DEF ScanInv
<1>9. NoMissedExit' BY DEF IInv, TypeOK, NoMissedExit, ScanInv, OrigInv, InitInv, ParentLive
<1> QED BY <1>1, <1>2, <1>3, <1>4, <1>5, <1>6, <1>7, <1>8, <1>9, Zenon DEF IInv

LEMMA WaitBadAddrIInv ==
  ASSUME NEW c \in CPUS, NEW p \in Procs, NEW q \in Procs, IInv, WaitBadAddr(c, p, q)
  PROVE IInv'
<1> USE DEF WaitBadAddr, ScanReaches, WaitReturn, NextChild, At, Goto, Free, table
<1>1. TypeOK'
  <2>1. lock' \in [Procs -> CPUS \cup {NoCPU}] /\ scan' \in [Procs -> 1..(NPROC + 1)]
    BY ProcAssumption DEF IInv, TypeOK
  <2>2. havekids' \in [Procs -> BOOLEAN] /\ pc' \in [Procs -> PCs]
    BY Zenon DEF IInv, TypeOK, PCs, ExitPCs
  <2> QED BY <2>1, <2>2, Zenon DEF IInv, TypeOK
<1>2. LockInv'
  <2> SUFFICES ASSUME NEW d \in CPUS, NEW r \in Procs
               PROVE (lock[r] = d <=> r \in HeldBy(d))'
    BY Zenon DEF LockInv
  <2>h. HeldBy(c) = {p} /\ HeldBy(c)' = {}
    BY Zenon DEF IInv, TypeOK, HeldBy
  <2>p. lock[p] = c
    BY Zenon, <2>h DEF IInv, LockInv
  <2>2. CASE d = c
    <3>1. lock[r] = c <=> r = p
      BY Zenon, <2>h DEF IInv, LockInv
    <3> QED BY Zenon, <2>2, <2>h, <3>1 DEF IInv, TypeOK
  <2>3. CASE d # c
    <3>1. cpu[d] # p
      BY Zenon, <2>3 DEF IInv, OneCpuPerProcess
    <3>2. HeldBy(d)' = HeldBy(d)
      BY Zenon, <3>1, HeldByFrame DEF IInv, TypeOK
    <3>3. lock'[r] = d <=> lock[r] = d
      BY Zenon, <2>3, <2>p DEF IInv, TypeOK
    <3> QED BY <3>2, <3>3 DEF IInv, LockInv
  <2> QED BY Zenon, <2>2, <2>3
<1>3. OneCpuPerProcess' BY Zenon DEF IInv, OneCpuPerProcess
<1>4. PcInv' BY DEF IInv, TypeOK, PcInv, LockInv, HeldBy, OneCpuPerProcess
<1>5. InitInv' BY Zenon DEF IInv, TypeOK, InitInv, ExitPCs
<1>6. OrigInv' BY DEF IInv, TypeOK, OrigInv, InitInv, ParentLive, ExitPCs
<1>7. ParentLive' BY Zenon DEF IInv, ParentLive
<1>8. ScanInv'
  <2>1. \A r \in Procs : scan'[r] # 1 => pc'[r] = "wait" /\ state'[r] = "RUNNING"
    BY Zenon DEF IInv, TypeOK, ScanInv
  <2>2. ASSUME NEW r \in Procs, NEW t \in Procs,
               r # initproc, parent'[t] = r, t < scan'[r]
        PROVE state'[t] # "ZOMBIE"
    <3>1. r # p
      BY <2>2 DEF IInv, TypeOK, Procs
    <3> QED BY Zenon, <2>2, <3>1 DEF IInv, TypeOK, ScanInv
  <2> QED BY Zenon, <2>1, <2>2 DEF ScanInv
<1>9. NoMissedExit' BY Zenon DEF IInv, NoMissedExit
<1> QED BY <1>1, <1>2, <1>3, <1>4, <1>5, <1>6, <1>7, <1>8, <1>9, Zenon DEF IInv

LEMMA WaitSkipIInv ==
  ASSUME NEW c \in CPUS, NEW p \in Procs, NEW q \in Procs, IInv, WaitSkip(c, p, q)
  PROVE IInv'
<1> USE DEF WaitSkip, ScanReaches, NextChild, At, Free, table
<1>1. TypeOK'
  <2>1. scan' \in [Procs -> 1..(NPROC + 1)]
    BY ProcAssumption, SMTT(30) DEF IInv, TypeOK, Procs
  <2>2. havekids' \in [Procs -> BOOLEAN]
    BY Zenon DEF IInv, TypeOK
  <2> QED BY <2>1, <2>2, Zenon DEF IInv, TypeOK
<1>2. LockInv' BY DEF IInv, LockInv, HeldBy
<1>3. OneCpuPerProcess' BY Zenon DEF IInv, OneCpuPerProcess
<1>4. PcInv' BY DEF IInv, PcInv
<1>5. InitInv' BY Zenon DEF IInv, InitInv
<1>6. OrigInv' BY Zenon DEF IInv, OrigInv
<1>7. ParentLive' BY Zenon DEF IInv, ParentLive
<1>8. ScanInv'
  <2>1. \A r \in Procs : scan'[r] # 1 => pc'[r] = "wait" /\ state'[r] = "RUNNING"
    BY Zenon DEF IInv, TypeOK, ScanInv
  <2>2. ASSUME NEW r \in Procs, NEW t \in Procs,
               r # initproc, parent'[t] = r, t < scan'[r]
        PROVE state'[t] # "ZOMBIE"
    <3>1. CASE r # p
      BY Zenon, <2>2, <3>1 DEF IInv, TypeOK, ScanInv
    <3>2. CASE r = p
      <4>1. t < scan[p] \/ t = q
        <5>1. scan[p] \in Nat /\ scan'[p] = q + 1 /\ t \in 1..NPROC /\ q \in Nat
          BY SMTT(30), <3>2, ProcAssumption DEF IInv, TypeOK, Procs
        <5>2. t \in scan[p]..NPROC => q <= t
          BY Zenon, <2>2, <3>2, <5>1
        <5> HIDE DEF WaitSkip, ScanReaches
        <5> QED BY <2>2, <3>2, <5>1, <5>2, ProcAssumption
      <4> QED BY Zenon, <2>2, <3>2, <4>1 DEF IInv, TypeOK, ScanInv
    <3> QED BY Zenon, <3>1, <3>2
  <2> QED BY Zenon, <2>1, <2>2 DEF ScanInv
<1>9. NoMissedExit' BY Zenon DEF IInv, NoMissedExit
<1> QED BY <1>1, <1>2, <1>3, <1>4, <1>5, <1>6, <1>7, <1>8, <1>9, Zenon DEF IInv

LEMMA WaitFailIInv ==
  ASSUME NEW c \in CPUS, NEW p \in Procs, IInv, WaitFail(c, p)
  PROVE IInv'
<1> USE DEF WaitFail, WaitReturn, NextChild, At, Goto, table
<1>1. TypeOK'
  <2>1. lock' \in [Procs -> CPUS \cup {NoCPU}] /\ scan' \in [Procs -> 1..(NPROC + 1)]
    BY ProcAssumption DEF IInv, TypeOK
  <2>2. havekids' \in [Procs -> BOOLEAN] /\ pc' \in [Procs -> PCs]
    BY Zenon DEF IInv, TypeOK, PCs, ExitPCs
  <2> QED BY <2>1, <2>2, Zenon DEF IInv, TypeOK
<1>2. LockInv'
  <2> SUFFICES ASSUME NEW d \in CPUS, NEW r \in Procs
               PROVE (lock[r] = d <=> r \in HeldBy(d))'
    BY Zenon DEF LockInv
  <2>h. HeldBy(c) = {p} /\ HeldBy(c)' = {}
    BY Zenon DEF IInv, TypeOK, HeldBy
  <2>p. lock[p] = c
    BY Zenon, <2>h DEF IInv, LockInv
  <2>2. CASE d = c
    <3>1. lock[r] = c <=> r = p
      BY <2>h DEF IInv, LockInv
    <3> QED BY Zenon, <2>2, <2>h, <3>1 DEF IInv, TypeOK
  <2>3. CASE d # c
    <3>1. cpu[d] # p
      BY Zenon, <2>3 DEF IInv, OneCpuPerProcess
    <3>2. HeldBy(d)' = HeldBy(d)
      BY Zenon, <3>1, HeldByFrame DEF IInv, TypeOK
    <3>3. lock'[r] = d <=> lock[r] = d
      BY Zenon, <2>3, <2>p DEF IInv, TypeOK
    <3> QED BY <3>2, <3>3 DEF IInv, LockInv
  <2> QED BY Zenon, <2>2, <2>3
<1>3. OneCpuPerProcess' BY Zenon DEF IInv, OneCpuPerProcess
<1>4. PcInv' BY DEF IInv, TypeOK, PcInv, LockInv, HeldBy, OneCpuPerProcess
<1>5. InitInv' BY Zenon DEF IInv, TypeOK, InitInv, ExitPCs
<1>6. OrigInv' BY DEF IInv, TypeOK, OrigInv, InitInv, ParentLive, ExitPCs
<1>7. ParentLive' BY Zenon DEF IInv, ParentLive
<1>8. ScanInv'
  <2>1. \A r \in Procs : scan'[r] # 1 => pc'[r] = "wait" /\ state'[r] = "RUNNING"
    BY Zenon DEF IInv, TypeOK, ScanInv
  <2>2. ASSUME NEW r \in Procs, NEW t \in Procs,
               r # initproc, parent'[t] = r, t < scan'[r]
        PROVE state'[t] # "ZOMBIE"
    <3>1. r # p
      BY <2>2 DEF IInv, TypeOK, Procs
    <3> QED BY Zenon, <2>2, <3>1 DEF IInv, TypeOK, ScanInv
  <2> QED BY <2>1, <2>2 DEF ScanInv
<1>9. NoMissedExit' BY Zenon DEF IInv, NoMissedExit
<1> QED BY <1>1, <1>2, <1>3, <1>4, <1>5, <1>6, <1>7, <1>8, <1>9, Zenon DEF IInv

LEMMA WaitSleepIInv ==
  ASSUME NEW c \in CPUS, NEW p \in Procs, IInv, WaitSleep(c, p)
  PROVE IInv'
<1> USE DEF WaitSleep, NextChild, At
<1>1. TypeOK'
  <2>1. state' \in [Procs -> States]
    BY Zenon DEF IInv, TypeOK, States
  <2>2. scan' \in [Procs -> 1..(NPROC + 1)]
    BY ProcAssumption DEF IInv, TypeOK
  <2>3. havekids' \in [Procs -> BOOLEAN]
    BY Zenon DEF IInv, TypeOK
  <2> QED BY <2>1, <2>2, <2>3, Zenon DEF IInv, TypeOK
<1>2. LockInv' BY DEF IInv, TypeOK, LockInv, HeldBy, OneCpuPerProcess, PcInv, OrigInv
<1>3. OneCpuPerProcess' BY Zenon DEF IInv, OneCpuPerProcess
<1>4. PcInv' BY DEF IInv, TypeOK, PcInv, LockInv, HeldBy, OneCpuPerProcess
<1>5. InitInv' BY Zenon DEF IInv, TypeOK, InitInv, ExitPCs
<1>6. OrigInv' BY DEF IInv, TypeOK, OrigInv, InitInv, ParentLive, ExitPCs
<1>7. ParentLive' BY Zenon DEF IInv, TypeOK, ParentLive, InitInv, ExitPCs
<1>8. ScanInv'
  <2>1. \A r \in Procs : scan'[r] # 1 => pc'[r] = "wait" /\ state'[r] = "RUNNING"
    BY Zenon DEF IInv, TypeOK, ScanInv
  <2>2. ASSUME NEW r \in Procs, NEW t \in Procs,
               r # initproc, parent'[t] = r, t < scan'[r]
        PROVE state'[t] # "ZOMBIE"
    <3>1. r # p
      BY <2>2 DEF IInv, TypeOK, Procs
    <3> QED BY Zenon, <2>2, <3>1 DEF IInv, TypeOK, ScanInv
  <2> QED BY <2>1, <2>2 DEF ScanInv
<1>9. NoMissedExit'
  <2> SUFFICES ASSUME NEW r \in Procs, NEW t \in Procs, r # initproc,
                      state'[r] = "SLEEPING", parent[t] = r
               PROVE state'[t] # "ZOMBIE"
    BY Zenon DEF NoMissedExit
  <2>1. CASE r # p
    BY Zenon, <2>1 DEF IInv, TypeOK, NoMissedExit
  <2>2. CASE r = p
    <3>1. t \notin scan[p]..NPROC
      BY Zenon, <2>2
    <3>2. t < scan[p]
      <4>1. scan[p] \in Nat /\ t \in 1..NPROC
        BY SMTT(30), ProcAssumption DEF IInv, TypeOK, Procs
      <4> HIDE DEF WaitSleep
      <4> QED BY <3>1, <4>1
    <3>3. t # p
      BY Zenon, <2>2 DEF IInv, OrigInv
    <3> QED BY Zenon, <2>2, <3>2, <3>3 DEF IInv, TypeOK, ScanInv
  <2> QED BY Zenon, <2>1, <2>2
<1> QED BY <1>1, <1>2, <1>3, <1>4, <1>5, <1>6, <1>7, <1>8, <1>9, Zenon DEF IInv
-----------------------------------------------------------------------------
(* exit(), and what follows.                                               *)

LEMMA ExitCallIInv ==
  ASSUME NEW c \in CPUS, NEW p \in Procs, IInv, ExitCall(c, p)
  PROVE IInv'
<1> USE DEF ExitCall, At, Goto, table, locals
<1>1. TypeOK' BY Zenon DEF IInv, TypeOK, States, PCs, ExitPCs
<1>2. LockInv' BY DEF IInv, TypeOK, LockInv, HeldBy, OneCpuPerProcess, PcInv, OrigInv
<1>3. OneCpuPerProcess' BY Zenon DEF IInv, OneCpuPerProcess
<1>4. PcInv' BY DEF IInv, TypeOK, PcInv, LockInv, HeldBy, OneCpuPerProcess
<1>5. InitInv' BY Zenon DEF IInv, TypeOK, InitInv, ExitPCs
<1>6. OrigInv' BY DEF IInv, TypeOK, OrigInv, InitInv, ParentLive, ExitPCs
<1>7. ParentLive' BY Zenon DEF IInv, ParentLive
<1>8. ScanInv' BY DEF IInv, TypeOK, ScanInv, ParentLive, OrigInv, InitInv
<1>9. NoMissedExit' BY Zenon DEF IInv, NoMissedExit
<1> QED BY <1>1, <1>2, <1>3, <1>4, <1>5, <1>6, <1>7, <1>8, <1>9, Zenon DEF IInv

LEMMA FaultIInv ==
  ASSUME NEW c \in CPUS, NEW p \in Procs, IInv, Fault(c, p)
  PROVE IInv'
<1> USE DEF Fault, At, Goto, locals
<1>a. p # initproc
  BY ProcAssumption DEF initproc
<1>1. TypeOK' BY Zenon DEF IInv, TypeOK, States, PCs, ExitPCs
<1>2. LockInv' BY DEF IInv, TypeOK, LockInv, HeldBy, OneCpuPerProcess, PcInv, OrigInv
<1>3. OneCpuPerProcess' BY Zenon DEF IInv, OneCpuPerProcess
<1>4. PcInv' BY DEF IInv, TypeOK, PcInv, LockInv, HeldBy, OneCpuPerProcess
<1>5. InitInv' BY Zenon, <1>a DEF IInv, TypeOK, InitInv, ExitPCs
<1>6. OrigInv' BY DEF IInv, TypeOK, OrigInv, InitInv, ParentLive, ExitPCs
<1>7. ParentLive' BY Zenon DEF IInv, ParentLive
<1>8. ScanInv' BY DEF IInv, TypeOK, ScanInv, ParentLive, OrigInv, InitInv
<1>9. NoMissedExit' BY Zenon DEF IInv, NoMissedExit
<1> QED BY <1>1, <1>2, <1>3, <1>4, <1>5, <1>6, <1>7, <1>8, <1>9, Zenon DEF IInv

LEMMA ExitWakeInitIInv ==
  ASSUME NEW c \in CPUS, NEW p \in Procs, IInv, ExitWakeInit(c, p)
  PROVE IInv'
<1> USE DEF ExitWakeInit, Wakeup1, At, Goto, Free, locals
<1>1. TypeOK' BY Zenon DEF IInv, TypeOK, States, PCs, ExitPCs
<1>2. LockInv'
  <2>1. \A d \in CPUS : cpu[d] = initproc => state[initproc] = "RUNNING"
    BY Zenon, OffCpu
  <2>2. \A d \in CPUS : cpu[d] # NoProc => state'[cpu[d]] = state[cpu[d]]
    BY Zenon, <2>1 DEF IInv, TypeOK
  <2>3. \A d \in CPUS \ {c} : cpu[d] # p
    BY Zenon DEF IInv, OneCpuPerProcess
  <2>4. \A d \in CPUS \ {c} : HeldBy(d)' = HeldBy(d)
    BY Zenon, <2>2, <2>3, HeldByFrame DEF IInv, TypeOK
  <2>5. HeldBy(c) = {} /\ HeldBy(c)' = {}
    BY Zenon, <2>2 DEF IInv, TypeOK, HeldBy
  <2> QED BY <2>4, <2>5 DEF IInv, LockInv
<1>3. OneCpuPerProcess' BY Zenon DEF IInv, OneCpuPerProcess
<1>4. PcInv' BY DEF IInv, TypeOK, PcInv, LockInv, HeldBy, OneCpuPerProcess
<1>5. InitInv' BY Zenon DEF IInv, TypeOK, InitInv, ExitPCs
<1>6. OrigInv' BY DEF IInv, TypeOK, OrigInv, InitInv, ParentLive, ExitPCs
<1>7. ParentLive' BY Zenon DEF IInv, TypeOK, ParentLive, InitInv, ExitPCs
<1>8. ScanInv' BY DEF IInv, TypeOK, ScanInv, ParentLive, OrigInv, InitInv
<1>9. NoMissedExit' BY DEF IInv, TypeOK, NoMissedExit, ScanInv, OrigInv, InitInv, ParentLive
<1> QED BY <1>1, <1>2, <1>3, <1>4, <1>5, <1>6, <1>7, <1>8, <1>9, Zenon DEF IInv

LEMMA ExitCopyParentIInv ==
  ASSUME NEW c \in CPUS, NEW p \in Procs, IInv, ExitCopyParent(c, p)
  PROVE IInv'
<1> USE DEF ExitCopyParent, At, Goto, Free, table
<1>1. TypeOK' BY Zenon DEF IInv, TypeOK, States, PCs, ExitPCs
<1>2. LockInv' BY DEF IInv, TypeOK, LockInv, HeldBy, OneCpuPerProcess, PcInv, OrigInv
<1>3. OneCpuPerProcess' BY Zenon DEF IInv, OneCpuPerProcess
<1>4. PcInv' BY DEF IInv, TypeOK, PcInv, LockInv, HeldBy, OneCpuPerProcess
<1>5. InitInv' BY Zenon DEF IInv, TypeOK, InitInv, ExitPCs
<1>6. OrigInv' BY DEF IInv, TypeOK, OrigInv, InitInv, ParentLive, ExitPCs
<1>7. ParentLive' BY Zenon DEF IInv, ParentLive
<1>8. ScanInv' BY DEF IInv, TypeOK, ScanInv, ParentLive, OrigInv, InitInv
<1>9. NoMissedExit' BY Zenon DEF IInv, NoMissedExit
<1> QED BY <1>1, <1>2, <1>3, <1>4, <1>5, <1>6, <1>7, <1>8, <1>9, Zenon DEF IInv

LEMMA ExitLockParentIInv ==
  ASSUME NEW c \in CPUS, NEW p \in Procs, IInv, ExitLockParent(c, p)
  PROVE IInv'
<1> USE DEF ExitLockParent, At, Goto, Free, table, locals
<1>1. TypeOK' BY Zenon DEF IInv, TypeOK, States, PCs, ExitPCs
<1>2. LockInv'
  <2>1. orig[p] \in Procs \ {p}
    BY Zenon DEF IInv, OrigInv
  <2>2. HeldBy(c) = {} /\ HeldBy(c)' = {orig[p]}
    BY Zenon DEF IInv, TypeOK, HeldBy
  <2>3. \A d \in CPUS \ {c} : cpu[d] # p
    BY Zenon DEF IInv, OneCpuPerProcess
  <2>4. \A d \in CPUS \ {c} : HeldBy(d)' = HeldBy(d)
    BY Zenon, <2>3, HeldByFrame DEF IInv, TypeOK
  <2>5. ASSUME NEW d \in CPUS, NEW r \in Procs
        PROVE (lock[r] = d <=> r \in HeldBy(d))'
    <3>1. CASE r = orig[p]
      <4>1. lock'[r] = c
        BY Zenon, <2>1, <3>1 DEF IInv, TypeOK
      <4>2. \A e \in CPUS : r \notin HeldBy(e)
        BY <3>1 DEF IInv, LockInv
      <4> QED BY Zenon, <2>2, <2>4, <3>1, <4>1, <4>2
    <3>2. CASE r # orig[p]
      <4>1. lock'[r] = lock[r]
        BY Zenon, <2>1, <3>2 DEF IInv, TypeOK
      <4> QED BY <2>2, <2>4, <3>2, <4>1 DEF IInv, LockInv
    <3> QED BY Zenon, <3>1, <3>2
  <2> QED BY Zenon, <2>5 DEF LockInv
<1>3. OneCpuPerProcess' BY Zenon DEF IInv, OneCpuPerProcess
<1>4. PcInv' BY DEF IInv, TypeOK, PcInv, LockInv, HeldBy, OneCpuPerProcess
<1>5. InitInv' BY Zenon DEF IInv, TypeOK, InitInv, ExitPCs
<1>6. OrigInv' BY DEF IInv, TypeOK, OrigInv, InitInv, ParentLive, ExitPCs
<1>7. ParentLive' BY Zenon DEF IInv, ParentLive
<1>8. ScanInv' BY DEF IInv, TypeOK, ScanInv, ParentLive, OrigInv, InitInv
<1>9. NoMissedExit' BY Zenon DEF IInv, NoMissedExit
<1> QED BY <1>1, <1>2, <1>3, <1>4, <1>5, <1>6, <1>7, <1>8, <1>9, Zenon DEF IInv

LEMMA ExitLockSelfIInv ==
  ASSUME NEW c \in CPUS, NEW p \in Procs, IInv, ExitLockSelf(c, p)
  PROVE IInv'
<1> USE DEF ExitLockSelf, At, Goto, Free, table, locals
<1>1. TypeOK' BY Zenon DEF IInv, TypeOK, States, PCs, ExitPCs
<1>2. LockInv' BY DEF IInv, TypeOK, LockInv, HeldBy, OneCpuPerProcess, PcInv, OrigInv
<1>3. OneCpuPerProcess' BY Zenon DEF IInv, OneCpuPerProcess
<1>4. PcInv' BY DEF IInv, TypeOK, PcInv, LockInv, HeldBy, OneCpuPerProcess
<1>5. InitInv' BY Zenon DEF IInv, TypeOK, InitInv, ExitPCs
<1>6. OrigInv' BY DEF IInv, TypeOK, OrigInv, InitInv, ParentLive, ExitPCs
<1>7. ParentLive' BY Zenon DEF IInv, ParentLive
<1>8. ScanInv' BY DEF IInv, TypeOK, ScanInv, ParentLive, OrigInv, InitInv
<1>9. NoMissedExit' BY Zenon DEF IInv, NoMissedExit
<1> QED BY <1>1, <1>2, <1>3, <1>4, <1>5, <1>6, <1>7, <1>8, <1>9, Zenon DEF IInv

LEMMA ReparentIInv ==
  ASSUME NEW c \in CPUS, NEW p \in Procs, NEW q \in Procs, IInv, Reparent(c, p, q)
  PROVE IInv'
<1> USE DEF Reparent, NextChild, At, Free, locals
<1>1. TypeOK'
  <2>1. parent' \in [Procs -> Procs \cup {NoProc}]
    BY Zenon DEF IInv, TypeOK
  <2> QED BY Zenon, <2>1 DEF IInv, TypeOK
<1>2. LockInv' BY DEF IInv, LockInv, HeldBy
<1>3. OneCpuPerProcess' BY Zenon DEF IInv, OneCpuPerProcess
<1>4. PcInv' BY DEF IInv, PcInv
<1>5. InitInv' BY Zenon DEF IInv, TypeOK, InitInv, ExitPCs
<1>6. OrigInv' BY DEF IInv, TypeOK, OrigInv, InitInv, ParentLive, ExitPCs
<1>7. ParentLive' BY Zenon DEF IInv, TypeOK, ParentLive, InitInv, ExitPCs
<1>8. ScanInv' BY DEF IInv, TypeOK, ScanInv, ParentLive, OrigInv, InitInv
<1>9. NoMissedExit' BY DEF IInv, TypeOK, NoMissedExit, ScanInv, OrigInv, InitInv, ParentLive
<1> QED BY <1>1, <1>2, <1>3, <1>4, <1>5, <1>6, <1>7, <1>8, <1>9, Zenon DEF IInv

LEMMA ExitZombieIInv ==
  ASSUME NEW c \in CPUS, NEW p \in Procs, IInv, ExitZombie(c, p)
  PROVE IInv'
<1> USE DEF ExitZombie, Wakeup1, NextChild, At
<1>1. TypeOK'
  <2>1. Wakeup1(orig[p]) \in [Procs -> States]
    BY Zenon DEF IInv, TypeOK, States
  <2>2. state' \in [Procs -> States]
    BY Zenon, <2>1 DEF States
  <2>3. lock' \in [Procs -> CPUS \cup {NoCPU}] /\ orig' \in [Procs -> Procs \cup {NoProc}]
    BY Zenon DEF IInv, TypeOK
  <2> QED BY <2>2, <2>3, Zenon DEF IInv, TypeOK
<1>p. /\ orig[p] \in Procs \ {p}
      /\ parent[p] = initproc \/ orig[p] = parent[p]
  BY Zenon DEF IInv, OrigInv
<1>l. HeldBy(c) = {orig[p], p}
  BY Zenon DEF HeldBy
<1>m. lock[orig[p]] = c /\ lock[p] = c
  BY Zenon, <1>p, <1>l DEF IInv, LockInv
<1>s. /\ \A r \in Procs \ {p, orig[p]} : state'[r] = state[r]
      /\ state'[p] = "ZOMBIE"
      /\ state'[orig[p]] # "SLEEPING"
      /\ state[orig[p]] # "SLEEPING" => state'[orig[p]] = state[orig[p]]
      /\ state[orig[p]] = "SLEEPING" => state'[orig[p]] = "RUNNABLE"
  BY Zenon, <1>p DEF IInv, TypeOK
<1>d. \A d \in CPUS \ {c} :
        /\ cpu[d] # p
        /\ cpu[d] = orig[p] => state[orig[p]] = "RUNNING"
  <2> TAKE d \in CPUS \ {c}
  <2>1. cpu[d] # p
    BY Zenon DEF IInv, OneCpuPerProcess
  <2>2. ASSUME cpu[d] = orig[p], state[orig[p]] # "RUNNING" PROVE FALSE
    <3>1. orig[p] \in HeldBy(d)
      BY Zenon, <1>p, <2>2 DEF HeldBy
    <3> QED BY <1>p, <1>m, <3>1 DEF IInv, LockInv
  <2> QED BY Zenon, <2>1, <2>2
<1>2. LockInv'
  <2>1. \A d \in CPUS \ {c} : HeldBy(d)' = HeldBy(d)
    <3> TAKE d \in CPUS \ {c}
    <3>1. cpu[d] # NoProc => state'[cpu[d]] = state[cpu[d]] /\ orig'[cpu[d]] = orig[cpu[d]]
      BY <1>s, <1>d DEF IInv, TypeOK
    <3> QED BY <3>1, HeldByFrame, Zenon
  <2>2. HeldBy(c)' = {p}
    BY Zenon, <1>s DEF HeldBy
  <2>3. ASSUME NEW d \in CPUS, NEW r \in Procs
        PROVE (lock[r] = d <=> r \in HeldBy(d))'
    <3>1. CASE r = orig[p]
      <4>1. lock'[r] = NoCPU
        BY Zenon, <1>p, <3>1 DEF IInv, TypeOK
      <4>2. \A e \in CPUS \ {c} : r \notin HeldBy(e)
        BY <1>m, <3>1 DEF IInv, LockInv
      <4> QED BY Zenon, <1>p, <2>1, <2>2, <3>1, <4>1, <4>2
    <3>2. CASE r # orig[p]
      <4>1. lock'[r] = lock[r]
        BY Zenon, <1>p, <3>2 DEF IInv, TypeOK
      <4> QED BY <1>l, <2>1, <2>2, <3>2, <4>1 DEF IInv, LockInv
    <3> QED BY Zenon, <3>1, <3>2
  <2> QED BY Zenon, <2>3 DEF LockInv
<1>3. OneCpuPerProcess' BY Zenon DEF IInv, OneCpuPerProcess
<1>4. PcInv'
  <2>1. orig[p] # p /\ PcInv /\ pc' = pc /\ cpu' = cpu
    BY Zenon, <1>p DEF IInv
  <2>2. pc[orig[p]] \notin {"exit4", "exit5"} \/ state[orig[p]] # "SLEEPING"
    BY Zenon, <1>p, <2>1 DEF PcInv
  <2> HIDE DEF ExitZombie
  <2> QED BY <1>p, <1>s, <2>1, <2>2 DEF PcInv
<1>5. InitInv' BY Zenon DEF IInv, TypeOK, InitInv, ExitPCs
<1>6. OrigInv' BY DEF IInv, TypeOK, OrigInv, InitInv, ParentLive, ExitPCs
<1>7. ParentLive'
  <2>1. ASSUME NEW r \in Procs \ {initproc}, state'[r] # "UNUSED"
        PROVE parent[r] # NoProc /\ state'[parent[r]] \notin {"UNUSED", "ZOMBIE"}
    <3>1. state[r] # "UNUSED"
      BY <1>s, <2>1, Zenon
    <3>2. parent[r] \in Procs /\ state[parent[r]] \notin {"UNUSED", "ZOMBIE"}
      BY Zenon, <3>1 DEF IInv, TypeOK, ParentLive
    <3>3. parent[r] # p
      BY Zenon DEF Procs
    <3> HIDE DEF ExitZombie
    <3> QED BY Zenon, <1>s, <3>2, <3>3
  <2> QED BY <2>1, Zenon DEF ParentLive
<1>8. ScanInv'
  <2>1. ASSUME NEW r \in Procs, scan[r] # 1
        PROVE pc[r] = "wait" /\ state'[r] = "RUNNING"
    BY <1>p, <1>s, <2>1 DEF IInv, TypeOK, ScanInv
  <2>2. ASSUME NEW r \in Procs, NEW t \in Procs,
               r # initproc, parent[t] = r, t < scan[r]
        PROVE state'[t] # "ZOMBIE"
    <3>1. CASE t # p
      BY <1>s, <2>2, <3>1 DEF IInv, TypeOK, ScanInv
    <3>2. CASE t = p
      <4>1. r = orig[p] /\ scan[r] # 1
        BY <1>p, <2>2, <3>2 DEF IInv, TypeOK, Procs
      <4>2. pc[r] = "wait" /\ state[r] = "RUNNING"
        BY Zenon, <4>1 DEF IInv, ScanInv
      <4>3. PICK e \in CPUS : cpu[e] = r
        BY Zenon, <4>2 DEF IInv, PcInv
      <4>4. r \in HeldBy(e)
        BY Zenon, <4>2, <4>3 DEF HeldBy
      <4>5. e = c
        BY <1>m, <4>1, <4>4 DEF IInv, LockInv
      <4> QED BY Zenon, <1>p, <4>1, <4>3, <4>5
    <3> QED BY Zenon, <3>1, <3>2
  <2> QED BY <2>1, <2>2, Zenon DEF ScanInv
<1>9. NoMissedExit'
  <2> SUFFICES ASSUME NEW r \in Procs, NEW t \in Procs, r # initproc,
                      state'[r] = "SLEEPING", parent[t] = r
               PROVE state'[t] # "ZOMBIE"
    BY Zenon DEF NoMissedExit
  <2>1. state[r] = "SLEEPING" /\ r # orig[p]
    BY <1>s, Zenon
  <2>2. t # p
    BY Zenon, <1>p, <2>1
  <2>3. state[t] # "ZOMBIE"
    BY Zenon, <2>1 DEF IInv, NoMissedExit
  <2> HIDE DEF ExitZombie
  <2> QED BY Zenon, <1>s, <2>2, <2>3
<1> QED BY <1>1, <1>2, <1>3, <1>4, <1>5, <1>6, <1>7, <1>8, <1>9, Zenon DEF IInv

-----------------------------------------------------------------------------
\* Every step of the kernel preserves the inductive invariant.
LEMMA NextIInv == IInv /\ [Next]_vars => IInv'
<1> SUFFICES ASSUME IInv, [Next]_vars PROVE IInv'
  BY Zenon
<1>1. CASE UNCHANGED vars
  <2> USE DEF vars, IInv
  <2>1. TypeOK' /\ OneCpuPerProcess' /\ InitInv' /\ OrigInv' /\ ParentLive'
    BY Zenon, <1>1 DEF TypeOK, OneCpuPerProcess, InitInv, OrigInv, ParentLive
  <2>a. ASSUME NEW c \in CPUS PROVE HeldBy(c)' = HeldBy(c)
    BY Zenon, <1>1 DEF HeldBy
  <2>b. lock' = lock
    BY Zenon, <1>1
  <2>c. LockInv
    BY Zenon
  <2> HIDE DEF IInv
  <2>2. LockInv'
    <3>1. ASSUME NEW c \in CPUS, NEW q \in Procs PROVE lock'[q] = c <=> q \in HeldBy(c)'
      BY <2>a, <2>b, <2>c DEF LockInv
    <3> QED BY Zenon, <3>1 DEF LockInv
  <2> USE DEF IInv
  <2>4. PcInv'
    BY Zenon, <1>1 DEF PcInv
  <2>3. ScanInv' /\ NoMissedExit'
    BY Zenon, <1>1 DEF ScanInv, NoMissedExit
  <2> QED BY Zenon, <2>1, <2>2, <2>3, <2>4
<1>2. ASSUME NEW c \in CPUS, Yield(c) \/ Sched(c) PROVE IInv'
  BY Zenon, <1>2, YieldIInv, SchedIInv
<1>3. ASSUME NEW c \in CPUS, NEW p \in Procs, Scheduler(c, p) PROVE IInv'
  BY Zenon, <1>3, SchedulerIInv
<1>4. ASSUME NEW c \in CPUS, NEW p \in Procs, KernelStep(c, p) PROVE IInv'
  BY Zenon, <1>4, WaitLockIInv, WaitFailIInv, WaitSleepIInv, ExitWakeInitIInv,
     ExitCopyParentIInv, ExitLockParentIInv, ExitLockSelfIInv, ExitZombieIInv,
     WaitReapIInv, WaitBadAddrIInv, WaitSkipIInv, ReparentIInv DEF KernelStep
<1>5. ASSUME NEW c \in CPUS, NEW p \in Procs, UserStep(c, p) PROVE IInv'
  BY Zenon, <1>5, WaitCallIInv, ExitCallIInv, FaultIInv, KillIInv, ForkNoPageIInv,
     ForkNoMemoryIInv, ForkIInv DEF UserStep
<1> QED BY Zenon, <1>1, <1>2, <1>3, <1>4, <1>5 DEF Next

\* IInv is an invariant of the process table.
THEOREM Invariance == Spec => []IInv
<1>1. IInv /\ [Next]_vars => IInv'
  BY Zenon, NextIInv
<1> QED BY <1>1, InitIInv, PTL DEF Spec

(* The process table, the locks and the CPUs keep their types.             *)
THEOREM TypeCorrect == Spec => []TypeOK
<1>1. IInv => TypeOK
  BY Zenon DEF IInv
<1> QED BY <1>1, Invariance, PTL

(* scheduler(), yield() and sched() never let two CPUs run one process,    *)
(* whatever the number of slots and CPUs.                                  *)
THEOREM OneCpu == Spec => []OneCpuPerProcess
<1>1. IInv => OneCpuPerProcess
  BY Zenon DEF IInv
<1> QED BY <1>1, Invariance, PTL

(* Whoever calls sched() holds its own p->lock and no other, so that       *)
(* sched()'s panics are never reached.                                     *)
THEOREM SchedLocksHeld == Spec => []SchedLocks
<1>1. IInv => SchedLocks
  <2> SUFFICES ASSUME IInv, NEW c \in CPUS, cpu[c] # NoProc, state[cpu[c]] # "RUNNING"
               PROVE {p \in Procs : lock[p] = c} = {cpu[c]}
    BY Zenon DEF SchedLocks
  <2>1. HeldBy(c) = {cpu[c]} /\ cpu[c] \in Procs
    BY Zenon DEF HeldBy, IInv, TypeOK
  <2> QED BY <2>1 DEF IInv, LockInv
<1> QED BY <1>1, Invariance, PTL

(* fork(), exit() with reparent(), and wait() never leave a process with a *)
(* dead or missing parent.                                                 *)
THEOREM ParentsLive == Spec => []ParentLive
<1>1. IInv => ParentLive
  BY Zenon DEF IInv
<1> QED BY <1>1, Invariance, PTL

(* exit()'s wakeup of its parent is never lost for a parent other than     *)
(* init: wait() does not sleep over a zombie child.                        *)
THEOREM NoExitMissed == Spec => []NoMissedExit
<1>1. IInv => NoMissedExit
  BY Zenon DEF IInv
<1> QED BY <1>1, Invariance, PTL

-----------------------------------------------------------------------------
\* Every pid given out is below nextpid, and no two slots, free ones included,
\* have the same one.
PidInv ==
  /\ nextpid > 0
  /\ \A p \in Procs : pid[p] < nextpid /\ (state[p] # "UNUSED" => pid[p] # 0)
  /\ \A p, q \in Procs : p # q /\ pid[p] # 0 => pid[p] # pid[q]

\* What the steps other than fork() and freeproc() do to the pids: nothing, and
\* they take no free slot.
PidFrame ==
  /\ UNCHANGED <<pid, nextpid>>
  /\ \A q \in Procs : state[q] = "UNUSED" => state'[q] = "UNUSED"

LEMMA PidFrameInv == ASSUME PidInv, PidFrame PROVE PidInv'
  BY Zenon DEF PidInv, PidFrame

\* allocpid() gives a fork() the next pid; freeproc() clears it.
LEMMA AllocPidInv ==
  ASSUME TypeOK, PidInv, NEW c \in CPUS, NEW p \in Procs, NEW q \in Procs,
         ForkNoPage(c, p, q) \/ ForkNoMemory(c, p, q) \/ Fork(c, p, q)
  PROVE PidInv'
  BY DEF TypeOK, PidInv, AllocProc, ForkNoPage, ForkNoMemory, Fork, FreeProc

LEMMA FreeProcPidInv ==
  ASSUME TypeOK, PidInv, NEW q \in Procs, FreeProc(q), UNCHANGED nextpid
  PROVE PidInv'
  BY DEF TypeOK, PidInv, FreeProc

LEMMA NextPidInv == IInv /\ PidInv /\ [Next]_vars => PidInv'
<1> SUFFICES ASSUME IInv, TypeOK, PidInv, [Next]_vars PROVE PidInv'
  BY Zenon DEF IInv
<1>1. CASE UNCHANGED vars
  BY Zenon, <1>1 DEF vars, PidInv
<1>2. ASSUME NEW c \in CPUS, Yield(c) \/ Sched(c) PROVE PidInv'
  <2>1. PidFrame
    BY Zenon, <1>2 DEF Yield, Sched, TypeOK, PidFrame, table
  <2> QED BY Zenon, <2>1, PidFrameInv
<1>3. ASSUME NEW c \in CPUS, NEW p \in Procs, Scheduler(c, p) PROVE PidInv'
  <2>1. PidFrame
    BY Zenon, <1>3 DEF Scheduler, TypeOK, PidFrame
  <2> QED BY Zenon, <2>1, PidFrameInv
<1>4. ASSUME NEW c \in CPUS, NEW p \in Procs, KernelStep(c, p) PROVE PidInv'
  <2>1. ASSUME NEW q \in Procs, WaitReap(c, p, q) PROVE PidInv'
    BY Zenon, <2>1, FreeProcPidInv DEF WaitReap
  <2>2. CASE WaitLock(c, p) \/ WaitFail(c, p) \/ ExitCopyParent(c, p)
               \/ ExitLockParent(c, p) \/ ExitLockSelf(c, p)
               \/ \E q \in Procs : WaitBadAddr(c, p, q) \/ WaitSkip(c, p, q)
                                     \/ Reparent(c, p, q)
    <3>1. PidFrame
      BY Zenon, <2>2 DEF WaitLock, WaitFail, ExitCopyParent, ExitLockParent, ExitLockSelf,
         WaitBadAddr, WaitSkip, Reparent, table, PidFrame
    <3> QED BY Zenon, <3>1, PidFrameInv
  <2>3. CASE WaitSleep(c, p) \/ ExitWakeInit(c, p) \/ ExitZombie(c, p)
    <3>1. PidFrame
      BY <2>3 DEF WaitSleep, ExitWakeInit, ExitZombie, Wakeup1, At, TypeOK, PidFrame
    <3> QED BY Zenon, <3>1, PidFrameInv
  <2> QED BY Zenon, <1>4, <2>1, <2>2, <2>3 DEF KernelStep
<1>5. ASSUME NEW c \in CPUS, NEW p \in Procs, UserStep(c, p) PROVE PidInv'
  <2>1. CASE WaitCall(c, p) \/ ExitCall(c, p) \/ Fault(c, p)
               \/ \E m \in KillPids : Kill(c, p, m)
    <3>1. PidFrame
      BY <2>1 DEF WaitCall, ExitCall, Fault, Kill, table, TypeOK, PidFrame
    <3> QED BY Zenon, <3>1, PidFrameInv
  <2> QED BY Zenon, <1>5, <2>1, AllocPidInv DEF UserStep
<1> QED BY Zenon, <1>1, <1>2, <1>3, <1>4, <1>5 DEF Next

(* allocpid() never gives a pid that a process still has.                  *)
THEOREM PidsAreUnique == Spec => []PidsUnique
<1>1. Init => PidInv
  BY ProcAssumption DEF Init, PidInv, Procs, initproc
<1>2. IInv /\ PidInv /\ [Next]_vars => PidInv'
  BY Zenon, NextPidInv
<1>3. PidInv => PidsUnique
  BY Zenon DEF PidInv, PidsUnique
<1> QED BY <1>1, <1>2, <1>3, Invariance, PTL DEF Spec

(* The process table is right for any number of slots and CPUs: the        *)
(* conjunction that TLC checks, proved.                                    *)
THEOREM TableCorrect == Spec => []TableSound
<1>1. TypeOK /\ OneCpuPerProcess /\ SchedLocks /\ ParentLive /\ NoMissedExit /\ PidsUnique
        => TableSound
  BY Zenon DEF TableSound
<1> QED BY <1>1, TypeCorrect, OneCpu, SchedLocksHeld, ParentsLive, NoExitMissed,
           PidsAreUnique, PTL

-----------------------------------------------------------------------------
\* A free slot that is marked killed was found free by kill(), a used one as
\* KilledWasAsked says.
KilledInv ==
  \A p \in Procs :
    killed[p] =>
      \/ <<"slot", p>> \in asked
      \/ /\ state[p] # "UNUSED"
         /\ <<"pid", pid[p]>> \in asked \/ pc[p] \in ExitPCs

\* What most steps do to the slots: they free none, and no process leaves exit().
KilledFrame ==
  /\ UNCHANGED <<pid, killed, asked>>
  /\ \A q \in Procs : state[q] # "UNUSED" => state'[q] # "UNUSED"
  /\ \A q \in Procs : pc[q] \in ExitPCs => pc'[q] \in ExitPCs

LEMMA KilledFrameInv == ASSUME KilledInv, KilledFrame PROVE KilledInv'
  BY Zenon DEF KilledInv, KilledFrame

\* freeproc() forgets only what was asked of the slot and of its pid.
LEMMA FreeProcKilledInv ==
  ASSUME TypeOK, PidInv, KilledInv, NEW q \in Procs, FreeProc(q),
         \A p \in Procs : pc[p] \in ExitPCs => pc'[p] \in ExitPCs
  PROVE KilledInv'
<1> SUFFICES ASSUME NEW p \in Procs, killed'[p]
             PROVE  \/ <<"slot", p>> \in asked'
                    \/ /\ state'[p] # "UNUSED"
                       /\ <<"pid", pid'[p]>> \in asked' \/ pc'[p] \in ExitPCs
  BY Zenon DEF KilledInv
<1>1. p # q /\ killed[p]
  BY Zenon DEF FreeProc, TypeOK
<1>2. state'[p] = state[p] /\ pid'[p] = pid[p]
  BY Zenon, <1>1 DEF FreeProc, TypeOK
<1>3. state[p] # "UNUSED" => pid[p] # pid[q]
  BY Zenon, <1>1 DEF PidInv
<1>4. <<"slot", p>> \in asked => <<"slot", p>> \in asked'
  BY <1>1 DEF FreeProc
<1>5. state[p] # "UNUSED" /\ <<"pid", pid[p]>> \in asked => <<"pid", pid[p]>> \in asked'
  BY <1>3 DEF FreeProc
<1> QED BY Zenon, <1>1, <1>2, <1>4, <1>5 DEF KilledInv

LEMMA KillKilledInv ==
  ASSUME TypeOK, KilledInv, NEW c \in CPUS, NEW p \in Procs, NEW n \in KillPids,
         Kill(c, p, n)
  PROVE KilledInv'
<1>q. PICK q \in Procs :
        /\ killed' = [killed EXCEPT ![q] = TRUE]
        /\ state' = [state EXCEPT ![q] = IF @ = "SLEEPING" THEN "RUNNABLE" ELSE @]
        /\ asked' = asked \cup {Found(q)}
  BY Zenon DEF Kill
<1>1. pid' = pid /\ pc' = pc
  BY Zenon DEF Kill
<1>2. \A r \in Procs : state[r] # "UNUSED" => state'[r] # "UNUSED"
  BY Zenon, <1>q DEF TypeOK
<1>3. asked \subseteq asked' /\ Found(q) \in asked'
  BY Zenon, <1>q
<1>4. \A r \in Procs : killed'[r] => killed[r] \/ r = q
  BY Zenon, <1>q DEF TypeOK
<1> QED BY Zenon, <1>1, <1>2, <1>3, <1>4 DEF KilledInv, Found

LEMMA NextKilledInv == IInv /\ PidInv /\ KilledInv /\ [Next]_vars => KilledInv'
<1> SUFFICES ASSUME IInv, TypeOK, PidInv, KilledInv, [Next]_vars PROVE KilledInv'
  BY Zenon DEF IInv
<1>1. CASE UNCHANGED vars
  BY Zenon, <1>1 DEF vars, KilledInv
<1>2. ASSUME NEW c \in CPUS, Yield(c) \/ Sched(c) PROVE KilledInv'
  <2>1. KilledFrame
    BY Zenon, <1>2 DEF Yield, Sched, TypeOK, KilledFrame, table
  <2> QED BY Zenon, <2>1, KilledFrameInv
<1>3. ASSUME NEW c \in CPUS, NEW p \in Procs, Scheduler(c, p) PROVE KilledInv'
  <2>1. KilledFrame
    BY Zenon, <1>3 DEF Scheduler, TypeOK, KilledFrame
  <2> QED BY Zenon, <2>1, KilledFrameInv
<1>4. ASSUME NEW c \in CPUS, NEW p \in Procs, KernelStep(c, p) PROVE KilledInv'
  <2>1. ASSUME NEW q \in Procs, WaitReap(c, p, q) PROVE KilledInv'
    <3>1. \A r \in Procs : pc[r] \in ExitPCs => pc'[r] \in ExitPCs
      BY Zenon, <2>1 DEF WaitReap, ScanReaches, At, WaitReturn, Goto, TypeOK, ExitPCs
    <3> QED BY Zenon, <2>1, <3>1, FreeProcKilledInv DEF WaitReap
  <2>2. CASE WaitLock(c, p) \/ WaitFail(c, p) \/ ExitCopyParent(c, p)
               \/ ExitLockParent(c, p) \/ ExitLockSelf(c, p)
    <3>1. KilledFrame
      BY Zenon, <2>2 DEF WaitLock, WaitFail, WaitReturn, ExitCopyParent, ExitLockParent,
         ExitLockSelf, At, Goto, table, TypeOK, ExitPCs, KilledFrame
    <3> QED BY Zenon, <3>1, KilledFrameInv
  <2>3. CASE \E q \in Procs : WaitBadAddr(c, p, q) \/ WaitSkip(c, p, q) \/ Reparent(c, p, q)
    <3>1. KilledFrame
      BY Zenon, <2>3 DEF WaitBadAddr, WaitSkip, Reparent, ScanReaches, WaitReturn, At, Goto,
         table, TypeOK, ExitPCs, KilledFrame
    <3> QED BY Zenon, <3>1, KilledFrameInv
  <2>4. CASE WaitSleep(c, p) \/ ExitWakeInit(c, p) \/ ExitZombie(c, p)
    <3>1. KilledFrame
      BY <2>4 DEF WaitSleep, ExitWakeInit, ExitZombie, Wakeup1, At, Goto, TypeOK, ExitPCs,
         KilledFrame
    <3> QED BY Zenon, <3>1, KilledFrameInv
  <2> QED BY Zenon, <1>4, <2>1, <2>2, <2>3, <2>4 DEF KernelStep
<1>5. ASSUME NEW c \in CPUS, NEW p \in Procs, UserStep(c, p) PROVE KilledInv'
  <2>1. CASE WaitCall(c, p) \/ ExitCall(c, p)
    <3>1. KilledFrame
      BY Zenon, <2>1 DEF WaitCall, ExitCall, At, Goto, table, TypeOK, ExitPCs, KilledFrame
    <3> QED BY Zenon, <3>1, KilledFrameInv
  <2>2. CASE Fault(c, p)
    <3>1. state[p] = "RUNNING" /\ pc'[p] \in ExitPCs
      BY Zenon, <2>2 DEF Fault, At, Goto, TypeOK, ExitPCs
    <3>2. \A r \in Procs : r # p => killed'[r] = killed[r] /\ pc'[r] = pc[r]
      BY Zenon, <2>2 DEF Fault, Goto, TypeOK
    <3> QED BY Zenon, <2>2, <3>1, <3>2 DEF Fault, KilledInv
  <2>3. ASSUME NEW q \in Procs, Fork(c, p, q) PROVE KilledInv'
    <3>1. killed[q] => <<"slot", q>> \in asked
      BY Zenon, <2>3 DEF Fork, AllocProc, KilledInv
    <3>2. \A r \in Procs : r # q => state'[r] = state[r] /\ pid'[r] = pid[r] /\ pc'[r] = pc[r]
      BY Zenon, <2>3 DEF Fork, Goto, TypeOK
    <3>3. killed' = killed /\ asked' = asked
      BY Zenon, <2>3 DEF Fork
    <3> QED BY Zenon, <3>1, <3>2, <3>3 DEF KilledInv
  <2>4. ASSUME NEW q \in Procs, ForkNoPage(c, p, q) PROVE KilledInv'
    <3>1. killed[q] => <<"slot", q>> \in asked
      BY Zenon, <2>4 DEF ForkNoPage, AllocProc, KilledInv
    <3>2. \A r \in Procs : r # q => pid'[r] = pid[r]
      BY Zenon, <2>4 DEF ForkNoPage, TypeOK
    <3>3. UNCHANGED <<state, killed, pc, asked>>
      BY Zenon, <2>4 DEF ForkNoPage
    <3> QED BY Zenon, <3>1, <3>2, <3>3 DEF KilledInv
  <2>5. ASSUME NEW q \in Procs, ForkNoMemory(c, p, q) PROVE KilledInv'
    BY Zenon, <2>5, FreeProcKilledInv DEF ForkNoMemory
  <2> QED BY Zenon, <1>5, <2>1, <2>2, <2>3, <2>4, <2>5, KillKilledInv DEF UserStep
<1> QED BY Zenon, <1>1, <1>2, <1>3, <1>4, <1>5 DEF Next

(* A mark that kill() or a fault makes in p->killed never passes to        *)
(* another process: freeproc() clears it with the slot, for any number of  *)
(* slots and CPUs, whatever pids are killed and whichever allocations fail.*)
THEOREM KillHitsItsPid == Spec => []KilledWasAsked
<1>1. Init => PidInv /\ KilledInv
  BY ProcAssumption DEF Init, PidInv, KilledInv, Procs, initproc
<1>2. IInv /\ PidInv /\ [Next]_vars => PidInv'
  BY Zenon, NextPidInv
<1>3. IInv /\ PidInv /\ KilledInv /\ [Next]_vars => KilledInv'
  BY Zenon, NextKilledInv
<1>4. KilledInv => KilledWasAsked
  BY Zenon DEF KilledInv, KilledWasAsked
<1> QED BY <1>1, <1>2, <1>3, <1>4, Invariance, PTL DEF Spec
=============================================================================
