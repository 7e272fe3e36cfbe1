----------------------------- MODULE BlockStore -----------------------------
(***************************************************************************)
(* What the buffer cache promises its callers (the interface comment at    *)
(* the top of bio.c): blocks that keep their contents, used by one caller  *)
(* at a time.  There is no cache here: nothing is evicted or read again.   *)
(***************************************************************************)
CONSTANTS Users, Blocks, Values, None

VARIABLES content,   \* what each block contains
          view       \* the block and the data that each caller has, or None

vars == <<content, view>>

Init == /\ content \in [Blocks -> Values]
        /\ view = [u \in Users |-> None]

Get(u, k) ==
  /\ view[u] = None
  /\ \A w \in Users : view[w] # None => view[w].block # k
  /\ view' = [view EXCEPT ![u] = [block |-> k, data |-> content[k]]]
  /\ UNCHANGED content

Change(u, v) ==
  /\ view[u] # None
  /\ content' = [content EXCEPT ![view[u].block] = v]
  /\ view' = [view EXCEPT ![u].data = v]

Put(u) ==
  /\ view[u] # None
  /\ view' = [view EXCEPT ![u] = None]
  /\ UNCHANGED content

Next == \E u \in Users : \/ \E k \in Blocks : Get(u, k)
                         \/ \E v \in Values : Change(u, v)
                         \/ Put(u)

Spec == Init /\ [][Next]_vars
=============================================================================
