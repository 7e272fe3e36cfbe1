----------------------------- MODULE AtomicDisk -----------------------------
(***************************************************************************)
(* What the file system's log promises its callers, with no log in sight.  *)
(* System calls see and change `current'.  What a crash leaves behind is   *)
(* `durable'.  Only a moment with no system call under way may move the    *)
(* one to the other, so a crash never exposes part of a system call.       *)
(***************************************************************************)
CONSTANTS Ops, Blocks, Vals

VARIABLES
  current,   \* block contents as the running system sees them
  durable,   \* block contents a reboot would find
  active     \* system calls between begin_op() and end_op()

avars == <<current, durable, active>>

AInit ==
  /\ current \in [Blocks -> Vals]
  /\ durable = current
  /\ active = {}

ABegin(o) ==
  /\ o \notin active
  /\ active' = active \cup {o}
  /\ UNCHANGED <<current, durable>>

AWrite(o, b, v) ==
  /\ o \in active
  /\ current' = [current EXCEPT ![b] = v]
  /\ UNCHANGED <<durable, active>>

AEnd(o) ==
  /\ o \in active
  /\ active' = active \ {o}
  /\ UNCHANGED <<current, durable>>

\* The commit of everything written so far, as one step.
ACommit ==
  /\ active = {}
  /\ durable' = current
  /\ UNCHANGED <<current, active>>

ACrash ==
  /\ active' = {}
  /\ current' = durable
  /\ UNCHANGED durable

ANext ==
  \/ \E o \in Ops : ABegin(o) \/ AEnd(o)
  \/ \E o \in Ops, b \in Blocks, v \in Vals : AWrite(o, b, v)
  \/ ACommit
  \/ ACrash

ASpec == AInit /\ [][ANext]_avars
=============================================================================
