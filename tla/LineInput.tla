------------------------------ MODULE LineInput ------------------------------
(***************************************************************************)
(* What the console's line discipline promises: a line is edited at its    *)
(* end until a newline, an end-of-file or a full buffer hands it over, and *)
(* readers take what was handed over in the order in which it was typed.   *)
(***************************************************************************)
EXTENDS Integers, Sequences

CONSTANTS Capacity, Plain, Newline, Eof

VARIABLES ready, editing

LineInit == ready = <<>> /\ editing = <<>>

Insert ==
    \E c \in Plain \cup {Newline, Eof} :
       /\ Len(ready) + Len(editing) < Capacity
       /\ IF c \in {Newline, Eof} \/ Len(ready) + Len(editing) + 1 = Capacity
          THEN ready' = ready \o Append(editing, c) /\ editing' = <<>>
          ELSE editing' = Append(editing, c) /\ UNCHANGED ready

Erase == editing # <<>> /\ editing' = SubSeq(editing, 1, Len(editing) - 1) /\ UNCHANGED ready
KillLine == editing # <<>> /\ editing' = <<>> /\ UNCHANGED ready
Take == ready # <<>> /\ ready' = Tail(ready) /\ UNCHANGED editing

LineSpec == LineInit /\ [][Insert \/ Erase \/ KillLine \/ Take]_<<ready, editing>>
==============================================================================
