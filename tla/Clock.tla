-------------------------------- MODULE Clock --------------------------------
(***************************************************************************)
(* The clock: the machine-mode timer interrupt that timervec               *)
(* (kernelvec.S, set up by start.c) turns into a supervisor software       *)
(* interrupt, devintr() and clockintr() (trap.c), and sys_sleep()          *)
(* (sysproc.c).  What happens under one hold of tickslock is one step.     *)
(* ticks is a uint, counted modulo TICKS; the comparison                   *)
(* ticks - ticks0 < n converts the int n to a uint as well.                *)
(***************************************************************************)
EXTENDS Integers, FiniteSets

CONSTANTS
    TICKS,       \* 2^32 in the code
    Sleepers,    \* processes that call sleep()
    SleepArgs,   \* the n of sleep(n), negative ones included
    ClockHarts,  \* hart 0 and others
    MaxFires     \* bound: timer interrupts on hart 0

ASSUME ClockAssumption ==
    /\ TICKS \in Nat \ {0}
    /\ SleepArgs \subseteq Int
    /\ MaxFires \in Nat

VARIABLES
    ticks,       \* ticks
    ssip,        \* each hart's pending software interrupt
    hpc,         \* each hart in devintr(): "idle", "clockintr" or "ack"
    fires,       \* timer interrupts on hart 0
    sl,          \* each sleeper: pc, ticks0, n, killed, and the ticks since its call
    short        \* some sleep(n) returned 0 before n ticks had passed

clockVars == <<ticks, ssip, hpc, fires, sl, short>>

Awake == [pc |-> "user", t0 |-> 0, n |-> 0, killed |-> FALSE, since |-> 0]

ClockInit ==
    /\ ticks = 0
    /\ ssip = [h \in ClockHarts |-> FALSE] /\ hpc = [h \in ClockHarts |-> "idle"]
    /\ fires = 0
    /\ sl = [p \in Sleepers |-> Awake]
    /\ short = FALSE

\* timervec: asks for the next interrupt and sets SSIP, which may be set already.
TimerFires(h) ==
    /\ h = 0 => fires < MaxFires
    /\ fires' = IF h = 0 THEN fires + 1 ELSE fires
    /\ ssip' = [ssip EXCEPT ![h] = TRUE]
    /\ UNCHANGED <<ticks, hpc, sl, short>>

\* devintr(): only hart 0 calls clockintr(); then the bit is cleared.
SoftwareInterrupt(h) ==
    /\ hpc[h] = "idle" /\ ssip[h]
    /\ hpc' = [hpc EXCEPT ![h] = IF h = 0 THEN "clockintr" ELSE "ack"]
    /\ UNCHANGED <<ticks, ssip, fires, sl, short>>

\* clockintr(): ticks++ and wakeup(&ticks) under tickslock.
ClockIntr_WakesDue(h) ==
    /\ hpc[h] = "clockintr"
    /\ ticks' = (ticks + 1) % TICKS
    /\ sl' = [p \in Sleepers |->
          [sl[p] EXCEPT !.since = IF sl[p].pc # "user" THEN @ + 1 ELSE @,
                        !.pc = IF @ = "asleep" /\ sl[p].t0 + sl[p].n = ticks + 1
                               THEN "woken" ELSE @]]
    /\ hpc' = [hpc EXCEPT ![h] = "ack"]
    /\ UNCHANGED <<ssip, fires, short>>
ClockIntr(h) ==
    /\ hpc[h] = "clockintr"
    /\ ticks' = (ticks + 1) % TICKS
    /\ sl' = [p \in Sleepers |->
          [sl[p] EXCEPT !.since = IF sl[p].pc # "user" THEN @ + 1 ELSE @,
                        !.pc = IF @ = "asleep" THEN "woken" ELSE @]]
    /\ hpc' = [hpc EXCEPT ![h] = "ack"]
    /\ UNCHANGED <<ssip, fires, short>>

Ack(h) ==
    /\ hpc[h] = "ack"
    /\ ssip' = [ssip EXCEPT ![h] = FALSE]
    /\ hpc' = [hpc EXCEPT ![h] = "idle"]
    /\ UNCHANGED <<ticks, fires, sl, short>>

\* sys_sleep(): the loop's test, made under tickslock at the call and again
\* after every wakeup.
asUint(n) == n % TICKS
early(p) == (ticks + TICKS - sl[p].t0) % TICKS < asUint(sl[p].n)

SysSleep(p) ==
    /\ sl[p].pc = "user"
    /\ \E n \in SleepArgs :
          sl' = IF asUint(n) = 0 THEN sl
                ELSE [sl EXCEPT ![p] = [Awake EXCEPT !.pc = "asleep", !.t0 = ticks, !.n = n]]
    /\ UNCHANGED <<ticks, ssip, hpc, fires, short>>

\* return 0
Returns0(p) ==
    /\ short' = (short \/ sl[p].since < asUint(sl[p].n))
    /\ sl' = [sl EXCEPT ![p] = [Awake EXCEPT !.pc = IF sl[p].killed THEN "exits" ELSE "user"]]
Resume(p) ==
    /\ sl[p].pc = "woken"
    /\ IF early(p)
       THEN /\ sl' = [sl EXCEPT ![p] = IF @.killed THEN [Awake EXCEPT !.pc = "exits"]
                                      ELSE [@ EXCEPT !.pc = "asleep"]]
            /\ UNCHANGED short
       ELSE Returns0(p)
    /\ UNCHANGED <<ticks, ssip, hpc, fires>>

\* kill() (proc.c) wakes the sleeper.
KillSleeper(p) ==
    /\ sl[p].pc \in {"asleep", "woken"} /\ ~sl[p].killed
    /\ sl' = [sl EXCEPT ![p].killed = TRUE, ![p].pc = "woken"]
    /\ UNCHANGED <<ticks, ssip, hpc, fires, short>>

ClockNext ==
    \/ \E h \in ClockHarts : TimerFires(h) \/ SoftwareInterrupt(h) \/ ClockIntr(h) \/ Ack(h)
    \/ \E p \in Sleepers : SysSleep(p) \/ Resume(p) \/ KillSleeper(p)

ClockSpec == ClockInit /\ [][ClockNext]_clockVars
-----------------------------------------------------------------------------
SleeperStates == [pc: {"user", "asleep", "woken", "exits"}, t0: 0..(TICKS - 1),
                  n: SleepArgs \cup {0}, killed: BOOLEAN, since: Nat]

\* Type invariant.
ClockTypeOK ==
    /\ ticks \in 0..(TICKS - 1) /\ fires \in 0..MaxFires
    /\ ssip \in [ClockHarts -> BOOLEAN]
    /\ hpc \in [ClockHarts -> {"idle", "clockintr", "ack"}]
    /\ sl \in [Sleepers -> SleeperStates]
    /\ short \in BOOLEAN

\* sys_sleep() tests ticks - ticks0 < n again after every wakeup: sleep(n)
\* returns 0 only after n ticks, whatever else wakes it and when ticks wraps;
\* for a negative n that is n + 2^32 ticks.
SleepsLongEnough == ~short

\* clockintr() wakes everyone under tickslock, and sys_sleep() tests and goes
\* to sleep under it: nobody is asleep once their ticks have passed.
NoOversleep == \A p \in Sleepers : sl[p].pc = "asleep" => early(p)

\* sys_uptime() returns ticks, "how many clock tick interrupts have occurred since
\* start" (sysproc.c:86): a tick is never counted twice or for another hart.
\* It may be lost, when the timer fires again before devintr() clears SSIP.
TicksAreFires == fires < TICKS => ticks <= fires

\* sleep(n) lasts until n ticks have passed, no shorter and no longer, on ticks
\* that only hart 0 counts.
SleepsExactly == ClockTypeOK /\ SleepsLongEnough /\ NoOversleep /\ TicksAreFires
==============================================================================
