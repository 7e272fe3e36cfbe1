----------------------------- MODULE ClockProofs ----------------------------
(***************************************************************************)
(* sleep() lasts exactly as long as it says, for any width of ticks, any   *)
(* number of sleepers and harts, and any argument: SleepsExactly.          *)
(***************************************************************************)
EXTENDS Clock, TLAPS

\* ticks - ticks0 as an unsigned number.
Elapsed(t, t0) == (t + TICKS - t0) % TICKS

\* Only hart 0 is ever in clockintr(), and only for an interrupt it has not yet
\* acknowledged.
HartInv == \A h \in ClockHarts : hpc[h] = "clockintr" => h = 0 /\ ssip[h]

\* A sleeper has lived through at least the ticks that it sees.
SinceInv == \A p \in Sleepers : sl[p].pc \in {"asleep", "woken"} => Elapsed(ticks, sl[p].t0) <= sl[p].since

\* Until ticks wraps, each tick has a timer interrupt of its own, and so has the
\* one that is pending.
Pending == 0 \in ClockHarts /\ ssip[0] /\ hpc[0] # "ack"
CountInv == fires < TICKS => ticks <= fires /\ (Pending => ticks < fires)

ClockInv == ClockTypeOK /\ ~short /\ NoOversleep /\ HartInv /\ SinceInv /\ CountInv

-----------------------------------------------------------------------------
LEMMA Ticks == TICKS \in Nat /\ TICKS >= 1
  BY ClockAssumption

LEMMA AsUint == ASSUME NEW n \in Int PROVE asUint(n) \in 0..(TICKS - 1)
  BY Ticks DEF asUint

LEMMA ArgsInt == \A n \in SleepArgs \cup {0} : n \in Int
  BY ClockAssumption

LEMMA ElapsedIs ==
  ASSUME NEW t \in 0..(TICKS - 1), NEW t0 \in 0..(TICKS - 1)
  PROVE  /\ Elapsed(t, t0) = IF t >= t0 THEN t - t0 ELSE t + TICKS - t0
         /\ Elapsed(t, t0) \in Nat
<1> USE Ticks
<1>1. CASE t >= t0
  <2>1. (t + TICKS - t0) % TICKS = t - t0
    BY <1>1
  <2> QED BY <1>1, <2>1 DEF Elapsed
<1>2. CASE t < t0
  <2>1. (t + TICKS - t0) % TICKS = t + TICKS - t0
    BY <1>2
  <2> QED BY <1>2, <2>1 DEF Elapsed
<1> QED BY <1>1, <1>2

\* A tick adds at most one to what a sleeper sees.
LEMMA ElapsedGrows ==
  ASSUME NEW t \in 0..(TICKS - 1), NEW t0 \in 0..(TICKS - 1)
  PROVE  /\ (t + 1) % TICKS = IF t = TICKS - 1 THEN 0 ELSE t + 1
         /\ (t + 1) % TICKS \in 0..(TICKS - 1)
         /\ Elapsed((t + 1) % TICKS, t0) <= Elapsed(t, t0) + 1
<1> USE Ticks
<1>1. (t + 1) % TICKS = IF t = TICKS - 1 THEN 0 ELSE t + 1
  <2>1. CASE t = TICKS - 1
    BY <2>1
  <2>2. CASE t < TICKS - 1
    BY <2>2
  <2> QED BY <2>1, <2>2
<1>2. (t + 1) % TICKS \in 0..(TICKS - 1)
  BY <1>1
<1>3. Elapsed(t, t0) = IF t >= t0 THEN t - t0 ELSE t + TICKS - t0
  BY Zenon, ElapsedIs
<1>4. Elapsed((t + 1) % TICKS, t0)
        = IF (t + 1) % TICKS >= t0 THEN ((t + 1) % TICKS) - t0 ELSE ((t + 1) % TICKS) + TICKS - t0
  BY Zenon, <1>2, ElapsedIs
<1> QED BY <1>1, <1>2, <1>3, <1>4

-----------------------------------------------------------------------------
LEMMA AwakeType ==
  /\ Awake \in SleeperStates
  /\ Awake.pc = "user" /\ Awake.since = 0
  BY Ticks, ClockAssumption DEF Awake, SleeperStates

LEMMA SetPc ==
  ASSUME NEW x \in SleeperStates, NEW v \in {"user", "asleep", "woken", "exits"}
  PROVE  /\ [x EXCEPT !.pc = v] \in SleeperStates
         /\ [x EXCEPT !.pc = v].pc = v
         /\ [x EXCEPT !.pc = v].t0 = x.t0
         /\ [x EXCEPT !.pc = v].n = x.n
         /\ [x EXCEPT !.pc = v].since = x.since
  BY Zenon DEF SleeperStates

LEMMA SetKilled ==
  ASSUME NEW x \in SleeperStates
  PROVE  /\ [x EXCEPT !.killed = TRUE, !.pc = "woken"] \in SleeperStates
         /\ [x EXCEPT !.killed = TRUE, !.pc = "woken"].pc = "woken"
         /\ [x EXCEPT !.killed = TRUE, !.pc = "woken"].t0 = x.t0
         /\ [x EXCEPT !.killed = TRUE, !.pc = "woken"].since = x.since
  BY Zenon DEF SleeperStates

\* A sleeper that calls sleep(m) at tick t, and what a tick does to one.
Begun(t, m) == [Awake EXCEPT !.pc = "asleep", !.t0 = t, !.n = m]
Lived(x) == [x EXCEPT !.since = IF x.pc # "user" THEN @ + 1 ELSE @,
                      !.pc = IF @ = "asleep" THEN "woken" ELSE @]

LEMMA BegunIs ==
  ASSUME NEW t \in 0..(TICKS - 1), NEW m \in SleepArgs
  PROVE  /\ Begun(t, m) \in SleeperStates
         /\ Begun(t, m).t0 = t /\ Begun(t, m).n = m /\ Begun(t, m).since = 0
<1>1. \A x \in SleeperStates :
         /\ [x EXCEPT !.pc = "asleep", !.t0 = t, !.n = m] \in SleeperStates
         /\ [x EXCEPT !.pc = "asleep", !.t0 = t, !.n = m].t0 = t
         /\ [x EXCEPT !.pc = "asleep", !.t0 = t, !.n = m].n = m
         /\ [x EXCEPT !.pc = "asleep", !.t0 = t, !.n = m].since = x.since
  BY Zenon DEF SleeperStates
<1> QED BY <1>1, AwakeType, Zenon DEF Begun

LEMMA LivedIs ==
  ASSUME NEW x \in SleeperStates
  PROVE  /\ Lived(x) \in SleeperStates
         /\ Lived(x).pc # "asleep" /\ Lived(x).t0 = x.t0
         /\ Lived(x).pc = "woken" => x.pc \in {"asleep", "woken"} /\ Lived(x).since = x.since + 1
<1> DEFINE m == IF x.pc # "user" THEN x.since + 1 ELSE x.since
           v == IF x.pc = "asleep" THEN "woken" ELSE x.pc
<1>2. m \in Nat /\ v \in {"user", "asleep", "woken", "exits"}
  BY DEF SleeperStates
<1>3. Lived(x) = [x EXCEPT !.since = m, !.pc = v]
  BY Zenon DEF Lived
<1> HIDE DEF m, v
<1>4. Lived(x) \in SleeperStates /\ Lived(x).pc = v /\ Lived(x).t0 = x.t0 /\ Lived(x).since = m
  BY Zenon, <1>2, <1>3 DEF SleeperStates
<1> QED BY Zenon, <1>4 DEF m, v

LEMMA InitInv == ClockInit => ClockInv
<1> SUFFICES ASSUME ClockInit PROVE ClockInv
  BY Zenon
<1>1. ClockTypeOK
  <2>1. ticks \in 0..(TICKS - 1) /\ fires \in 0..MaxFires
    <3>1. ticks = 0 /\ fires = 0
      BY Zenon DEF ClockInit
    <3> QED BY <3>1, Ticks, ClockAssumption
  <2>2. sl \in [Sleepers -> SleeperStates]
    BY Zenon, AwakeType DEF ClockInit
  <2> QED BY Zenon, <2>1, <2>2 DEF ClockTypeOK, ClockInit
<1>2. NoOversleep /\ HartInv /\ SinceInv
  BY Zenon, AwakeType DEF NoOversleep, HartInv, SinceInv, ClockInit
<1>3. ~Pending
  BY Zenon DEF Pending, ClockInit
<1>4. ticks = 0 /\ fires = 0 /\ ~short
  BY Zenon DEF ClockInit
<1>5. CountInv
  BY <1>3, <1>4 DEF CountInv
<1> QED BY Zenon, <1>1, <1>2, <1>4, <1>5 DEF ClockInv

LEMMA TimerInv ==
  ASSUME ClockInv, NEW h \in ClockHarts, TimerFires(h)
  PROVE  ClockInv'
<1> USE Ticks, ClockAssumption DEF ClockInv, TimerFires
<1>1. ClockTypeOK'
  BY DEF ClockTypeOK
<1>2. NoOversleep'
  BY Zenon DEF NoOversleep, early, asUint
<1>3. HartInv'
  BY Zenon DEF HartInv, ClockTypeOK
<1>4. SinceInv'
  BY Zenon DEF SinceInv, Elapsed
<1>5. CountInv'
  BY DEF CountInv, Pending, ClockTypeOK
<1> QED BY Zenon, <1>1, <1>2, <1>3, <1>4, <1>5

LEMMA SoftInv ==
  ASSUME ClockInv, NEW h \in ClockHarts, SoftwareInterrupt(h) \/ Ack(h)
  PROVE  ClockInv'
<1> USE Ticks, ClockAssumption DEF ClockInv, SoftwareInterrupt, Ack
<1>1. ClockTypeOK'
  BY Zenon DEF ClockTypeOK
<1>2. NoOversleep'
  BY Zenon DEF NoOversleep, early, asUint
<1>3. HartInv'
  BY Zenon DEF HartInv, ClockTypeOK
<1>4. SinceInv'
  BY Zenon DEF SinceInv, Elapsed
<1>5. CountInv'
  BY Zenon DEF CountInv, Pending, ClockTypeOK
<1> QED BY <1>1, <1>2, <1>3, <1>4, <1>5

LEMMA TickInv ==
  ASSUME ClockInv, NEW h \in ClockHarts, ClockIntr(h)
  PROVE  ClockInv'
<1> USE DEF ClockInv
<1>0. /\ ticks \in 0..(TICKS - 1)
      /\ ticks' = (ticks + 1) % TICKS
      /\ ticks' = IF ticks = TICKS - 1 THEN 0 ELSE ticks + 1
      /\ ticks' \in 0..(TICKS - 1)
  BY Zenon, ElapsedGrows, Ticks DEF ClockTypeOK, ClockIntr
<1>a. \A p \in Sleepers : sl[p] \in SleeperStates
  BY Zenon DEF ClockTypeOK
<1>b. sl' = [p \in Sleepers |-> Lived(sl[p])]
  BY Zenon DEF ClockIntr, Lived
<1>1. ClockTypeOK'
  <2>1. sl' \in [Sleepers -> SleeperStates]
    BY Zenon, <1>a, <1>b, LivedIs
  <2> QED BY Zenon, <1>0, <2>1 DEF ClockTypeOK, ClockIntr
<1>2. NoOversleep'
  BY Zenon, <1>a, <1>b, LivedIs DEF NoOversleep
<1>3. HartInv'
  BY Zenon DEF HartInv, ClockTypeOK, ClockIntr
<1>4. SinceInv'
  <2> SUFFICES ASSUME NEW p \in Sleepers, sl'[p].pc \in {"asleep", "woken"}
               PROVE  Elapsed(ticks', sl'[p].t0) <= sl'[p].since
    BY Zenon DEF SinceInv, Elapsed
  <2>1. sl[p].pc \in {"asleep", "woken"} /\ sl'[p].t0 = sl[p].t0 /\ sl'[p].since = sl[p].since + 1
    BY Zenon, <1>a, <1>b, LivedIs
  <2>2. sl[p].t0 \in 0..(TICKS - 1) /\ sl[p].since \in Nat
    BY Zenon, <1>a DEF SleeperStates
  <2>3. Elapsed(ticks', sl[p].t0) <= Elapsed(ticks, sl[p].t0) + 1
    BY Zenon, <1>0, <2>2, ElapsedGrows
  <2>4. Elapsed(ticks, sl[p].t0) <= sl[p].since
    BY Zenon, <2>1 DEF SinceInv
  <2>5. Elapsed(ticks, sl[p].t0) \in Nat /\ Elapsed(ticks', sl[p].t0) \in Nat
    BY Zenon, <1>0, <2>2, ElapsedIs
  <2> QED BY <2>1, <2>2, <2>3, <2>4, <2>5
<1>5. CountInv'
  <2>1. Pending /\ h = 0 /\ fires' = fires
    BY Zenon DEF Pending, HartInv, ClockIntr
  <2>2. ~Pending'
    BY Zenon, <2>1 DEF Pending, ClockIntr, ClockTypeOK
  <2>3. fires \in Nat
    BY DEF ClockTypeOK
  <2> QED BY <1>0, <2>1, <2>2, <2>3, Ticks DEF CountInv
<1>6. ~short'
  BY Zenon DEF ClockIntr
<1> QED BY Zenon, <1>1, <1>2, <1>3, <1>4, <1>5, <1>6

LEMMA SleepInv ==
  ASSUME ClockInv, NEW p \in Sleepers, SysSleep(p)
  PROVE  ClockInv'
<1> USE DEF ClockInv
<1>0. PICK n \in SleepArgs :
         sl' = IF asUint(n) = 0 THEN sl
               ELSE [sl EXCEPT ![p] = [Awake EXCEPT !.pc = "asleep", !.t0 = ticks, !.n = n]]
  BY Zenon DEF SysSleep
<1>a. ticks \in 0..(TICKS - 1) /\ asUint(n) \in 0..(TICKS - 1) /\ Elapsed(ticks, ticks) = 0
  BY AsUint, ElapsedIs, ClockAssumption DEF ClockTypeOK
<1> DEFINE r == Begun(ticks, n)
<1>b. r \in SleeperStates /\ r.t0 = ticks /\ r.n = n /\ r.since = 0
  BY <1>a, BegunIs
<1>c. sl' = IF asUint(n) = 0 THEN sl ELSE [sl EXCEPT ![p] = r]
  BY <1>0, Zenon DEF Begun
<1> HIDE DEF r
<1>d. sl \in [Sleepers -> SleeperStates]
  BY Zenon DEF ClockTypeOK
<1>e. ticks' = ticks /\ UNCHANGED <<ssip, hpc, fires, short>>
  BY Zenon DEF SysSleep
<1>1. ClockTypeOK'
  BY Zenon, <1>b, <1>c, <1>e DEF ClockTypeOK
<1>2. NoOversleep'
  <2> SUFFICES ASSUME NEW q \in Sleepers, sl'[q].pc = "asleep"
               PROVE  Elapsed(ticks, sl'[q].t0) < asUint(sl'[q].n)
    BY Zenon, <1>e DEF NoOversleep, early, Elapsed, asUint
  <2>1. CASE sl'[q] = sl[q]
    BY Zenon, <2>1 DEF NoOversleep, early, Elapsed
  <2>2. CASE sl'[q] = r /\ asUint(n) # 0
    BY <2>2, <1>a, <1>b
  <2> QED BY Zenon, <2>1, <2>2, <1>c, <1>d
<1>3. HartInv'
  BY Zenon, <1>e DEF HartInv
<1>4. SinceInv'
  BY <1>a, <1>b, <1>c, <1>d, <1>e DEF SinceInv, Elapsed
<1>5. CountInv'
  BY Zenon, <1>e DEF CountInv, Pending
<1> QED BY Zenon, <1>1, <1>2, <1>3, <1>4, <1>5, <1>e

LEMMA ResumeInv ==
  ASSUME ClockInv, NEW p \in Sleepers, Resume(p)
  PROVE  ClockInv'
<1> USE DEF ClockInv
<1>0. sl \in [Sleepers -> SleeperStates] /\ sl[p] \in SleeperStates
  BY Zenon DEF ClockTypeOK
<1>e. ticks' = ticks /\ UNCHANGED <<ssip, hpc, fires>>
  BY Zenon DEF Resume
<1>7. PICK r \in SleeperStates :
       /\ sl' = [sl EXCEPT ![p] = r]
       /\ \/ early(p) /\ r.pc = "asleep" /\ r.t0 = sl[p].t0 /\ r.n = sl[p].n /\ r.since = sl[p].since
          \/ r.pc \in {"user", "exits"}
  <2>1. CASE early(p) /\ sl[p].killed
    <3>1. sl' = [sl EXCEPT ![p] = [Awake EXCEPT !.pc = "exits"]]
      BY Zenon, <2>1 DEF Resume
    <3>2. /\ [Awake EXCEPT !.pc = "exits"] \in SleeperStates
          /\ [Awake EXCEPT !.pc = "exits"].pc = "exits"
      BY SetPc, AwakeType, Zenon
    <3> QED BY <3>1, <3>2, Zenon
  <2>2. CASE early(p) /\ ~sl[p].killed
    <3>1. sl' = [sl EXCEPT ![p] = [sl[p] EXCEPT !.pc = "asleep"]]
      BY Zenon, <2>2 DEF Resume
    <3> QED BY Zenon, <3>1, <2>2, <1>0, SetPc
  <2>3. CASE ~early(p)
    <3>1. PICK v \in {"user", "exits"} : sl' = [sl EXCEPT ![p] = [Awake EXCEPT !.pc = v]]
      BY Zenon, <2>3 DEF Resume, Returns0
    <3>2. /\ [Awake EXCEPT !.pc = v] \in SleeperStates
          /\ [Awake EXCEPT !.pc = v].pc = v
      <4>1. v \in {"user", "asleep", "woken", "exits"}
        BY Zenon
      <4> QED BY <4>1, SetPc, AwakeType, Zenon
    <3> QED BY <3>1, <3>2, Zenon
  <2> QED BY Zenon, <2>1, <2>2, <2>3
<1>6. short' = FALSE
  <2>1. CASE early(p)
    BY Zenon, <2>1 DEF Resume, ClockTypeOK
  <2>2. CASE ~early(p)
    <3>1. /\ asUint(sl[p].n) \in 0..(TICKS - 1)
          /\ Elapsed(ticks, sl[p].t0) \in Nat
          /\ sl[p].since \in Nat
      <4>1. sl[p].n \in SleepArgs \cup {0} /\ sl[p].t0 \in 0..(TICKS - 1) /\ sl[p].since \in Nat
        BY Zenon, <1>0 DEF SleeperStates
      <4>2. sl[p].n \in Int
        BY <4>1, ArgsInt, Zenon
      <4> QED BY Zenon, <4>1, <4>2, AsUint, ElapsedIs DEF ClockTypeOK
    <3>2. Elapsed(ticks, sl[p].t0) <= sl[p].since
      BY Zenon DEF SinceInv, Resume
    <3>3. ~(Elapsed(ticks, sl[p].t0) < asUint(sl[p].n))
      BY Zenon, <2>2 DEF early, Elapsed
    <3>4. ~(sl[p].since < asUint(sl[p].n))
      BY <3>1, <3>2, <3>3
    <3> QED BY Zenon, <2>2, <3>4 DEF Returns0, Resume
  <2> QED BY Zenon, <2>1, <2>2
<1>1. ClockTypeOK'
  <2>1. sl' \in [Sleepers -> SleeperStates]
    BY Zenon, <1>0, <1>7
  <2> QED BY Zenon, <1>e, <2>1, <1>6 DEF ClockTypeOK
<1>2. NoOversleep'
  BY Zenon, <1>e, <1>0, <1>7 DEF NoOversleep, early, asUint
<1>3. HartInv'
  BY Zenon, <1>e DEF HartInv
<1>4. SinceInv'
  BY Zenon, <1>e, <1>0, <1>7 DEF SinceInv, Elapsed, Resume
<1>5. CountInv'
  BY Zenon, <1>e DEF CountInv, Pending
<1> QED BY Zenon, <1>1, <1>2, <1>3, <1>4, <1>5, <1>6

LEMMA KillInv ==
  ASSUME ClockInv, NEW p \in Sleepers, KillSleeper(p)
  PROVE  ClockInv'
<1> USE DEF ClockInv
<1>0. sl \in [Sleepers -> SleeperStates] /\ sl[p] \in SleeperStates
  BY Zenon DEF ClockTypeOK
<1>e. ticks' = ticks /\ UNCHANGED <<ssip, hpc, fires, short>>
  BY Zenon DEF KillSleeper
<1> DEFINE r == [sl[p] EXCEPT !.killed = TRUE, !.pc = "woken"]
<1>r. r \in SleeperStates /\ r.pc = "woken" /\ r.t0 = sl[p].t0 /\ r.since = sl[p].since
  BY Zenon, <1>0, SetKilled
<1>s. sl' = [sl EXCEPT ![p] = r]
  BY Zenon, <1>0 DEF KillSleeper, SleeperStates
<1> HIDE DEF r
<1>1. ClockTypeOK'
  BY Zenon, <1>e, <1>0, <1>r, <1>s DEF ClockTypeOK
<1>2. NoOversleep'
  BY Zenon, <1>e, <1>0, <1>r, <1>s DEF NoOversleep, early, asUint
<1>3. HartInv'
  BY Zenon, <1>e DEF HartInv
<1>4. SinceInv'
  BY Zenon, <1>e, <1>0, <1>r, <1>s DEF SinceInv, Elapsed, KillSleeper
<1>5. CountInv'
  BY Zenon, <1>e DEF CountInv, Pending
<1> QED BY Zenon, <1>1, <1>2, <1>3, <1>4, <1>5, <1>e

LEMMA StutterInv == ClockInv /\ UNCHANGED clockVars => ClockInv'
  BY DEF ClockInv, clockVars, ClockTypeOK, NoOversleep, early, asUint, HartInv, SinceInv, Elapsed,
         CountInv, Pending

LEMMA ClockInvariance == ClockSpec => []ClockInv
<1>1. ClockInv /\ [ClockNext]_clockVars => ClockInv'
  BY Zenon, TimerInv, SoftInv, TickInv, SleepInv, ResumeInv, KillInv, StutterInv DEF ClockNext
<1> QED BY InitInv, <1>1, PTL DEF ClockSpec

\* sys_sleep() (sysproc.c) with clockintr() (trap.c): sleep(n) returns 0 only
\* after n ticks, for any n and across any wrap of ticks; nobody stays asleep
\* when their ticks have passed; and ticks never runs ahead of the timer
\* interrupts of hart 0.
THEOREM SleepIsExact == ClockSpec => []SleepsExactly
<1>1. ClockInv => SleepsExactly
  BY Zenon DEF ClockInv, SleepsExactly, SleepsLongEnough, CountInv, TicksAreFires
<1> QED BY ClockInvariance, <1>1, PTL
=============================================================================
