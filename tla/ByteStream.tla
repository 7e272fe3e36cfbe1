----------------------------- MODULE ByteStream -----------------------------
(***************************************************************************)
(* What a pipe promises: bytes come out in the order they went in, none    *)
(* lost, invented or repeated, with at most Capacity of them in between.   *)
(***************************************************************************)
EXTENDS Naturals, Sequences

CONSTANTS Bytes, Capacity

VARIABLES
  queue,     \* bytes written and not yet read
  reading,   \* is the read end open?
  writing    \* is the write end open?

bvars == <<queue, reading, writing>>

BInit == queue = <<>> /\ reading = TRUE /\ writing = TRUE

Put(v) ==
  /\ writing = TRUE
  /\ Len(queue) < Capacity
  /\ queue' = Append(queue, v)
  /\ UNCHANGED <<reading, writing>>

Take ==
  /\ reading = TRUE
  /\ queue # <<>>
  /\ queue' = Tail(queue)
  /\ UNCHANGED <<reading, writing>>

Shut ==
  /\ reading' \in {reading, FALSE}
  /\ writing' \in {writing, FALSE}
  /\ UNCHANGED queue

BNext == (\E v \in Bytes : Put(v)) \/ Take \/ Shut

BSpec == BInit /\ [][BNext]_bvars
=============================================================================
