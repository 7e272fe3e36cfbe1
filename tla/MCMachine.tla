------------------------------ MODULE MCMachine -----------------------------
(***************************************************************************)
(* Spin locks and traps, the clock, the console, and the log with buffers  *)
(* that are recycled.  They share no state here: a behaviour is of one of  *)
(* them, the others stay in an initial state.                              *)
(***************************************************************************)
EXTENDS Spinlock, Clock, Console, Log

VARIABLE part       \* the component that runs

MCSleepArgs == {-3, 0, 1, 2}

MCInit ==
    /\ part \in {"spinlock", "clock", "console", "log"}
    /\ SpinInit /\ ClockInit /\ ConsInit
    /\ Init
    /\ part # "log" => disk = [b \in Blocks |-> 0]

MCNext ==
    \/ part = "spinlock" /\ SpinNext /\ UNCHANGED <<part, clockVars, consVars, vars>>
    \/ part = "clock" /\ ClockNext /\ UNCHANGED <<part, spinVars, consVars, vars>>
    \/ part = "console" /\ ConsNext /\ UNCHANGED <<part, spinVars, clockVars, vars>>
    \/ part = "log" /\ Next /\ UNCHANGED <<part, spinVars, clockVars, consVars>>

MCSpec == MCInit /\ [][MCNext]_<<part, spinVars, clockVars, consVars, vars>>
=============================================================================
