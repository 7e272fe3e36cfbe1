------------------------------- MODULE Virtio -------------------------------
(***************************************************************************)
(* kernel/virtio_disk.c: the driver's descriptors and rings, the processes *)
(* in virtio_disk_rw(), the interrupt handler and the device.  A request   *)
(* is named by the process that makes it, which holds its buffer's lock.   *)
(*                                                                         *)
(* What happens under vdisk_lock is one step, except that the device sees  *)
(* a request when avail[1] is incremented, which is a step of its own.     *)
(***************************************************************************)
EXTENDS Integers, FiniteSets, FiniteSetsExt

CONSTANTS
  Procs,
  NoProc,
  NUM,       \* descriptors, and entries of each ring
  U16        \* modulus of the rings' uint16 counters

ASSUME VirtioAssumption ==
  /\ NoProc \notin Procs
  /\ NUM \in Nat /\ NUM >= 3
  /\ U16 \in Nat \ {0} /\ U16 % NUM = 0

VARIABLES
  free,             \* free[i]: is descriptor i free?
  next,             \* desc[i].next, -1 without VRING_DESC_F_NEXT
  dbuf,             \* whose buffer desc[i].addr is, for a data descriptor
  info,             \* info[i].b, for the head of a chain
  avail, availIdx,  \* ring of chain heads for the device, and avail[1]
  used, usedId,     \* ring of finished heads, and used->id
  used_idx,         \* how far the driver has looked in used
  taken,            \* how far the device has looked in avail
  busy,             \* chains the device is working on
  bdisk,            \* b->disk: does the device own the buffer?
  served,           \* has the device done the I/O on the buffer?
  lock,             \* the process that holds vdisk_lock across two steps
  pc, head          \* of each process: location and idx[0]

vars == <<free, next, dbuf, info, avail, availIdx, used, usedId, used_idx,
          taken, busy, bdisk, served, lock, pc, head>>
desc == <<next, dbuf>>
device == <<used, usedId, taken, busy, served>>

Index == 0..(NUM - 1)
NoIndex == -1

Init ==
  /\ free = [k \in Index |-> TRUE]
  /\ next = [k \in Index |-> NoIndex]
  /\ dbuf = [k \in Index |-> NoProc]
  /\ info = [k \in Index |-> NoProc]
  /\ avail = [k \in Index |-> 0] /\ availIdx = 0
  /\ used = [k \in Index |-> 0] /\ usedId = 0
  /\ used_idx = 0
  /\ taken = 0
  /\ busy = {}
  /\ bdisk = [p \in Procs |-> FALSE]
  /\ served = [p \in Procs |-> FALSE]
  /\ lock = NoProc
  /\ pc = [p \in Procs |-> "idle"]
  /\ head = [p \in Procs |-> NoIndex]

FreeSet == {k \in Index : free[k]}

\* wakeup(&free[0]), and wakeup(b) for the buffers of the processes Q.
WakeupFree == [p \in Procs |-> IF pc[p] = "nodesc" THEN "alloc" ELSE pc[p]]
WakeupBuf(Q) ==
  [p \in Procs |-> IF pc[p] = "sleep" /\ p \in Q THEN "wait" ELSE pc[p]]

-----------------------------------------------------------------------------
(* virtio_disk_rw() *)

Call(p) ==
  /\ pc[p] = "idle"
  /\ pc' = [pc EXCEPT ![p] = "alloc"]
  /\ UNCHANGED <<free, desc, info, avail, availIdx, used_idx, device, bdisk,
                 lock, head>>

\* alloc3_desc() fails, gives back what it took (waking the others that
\* wait for a descriptor if it took any), and the process sleeps.
NoDesc(p) ==
  /\ pc[p] = "alloc" /\ lock = NoProc
  /\ Cardinality(FreeSet) < 3
  /\ pc' = [(IF FreeSet = {} THEN pc ELSE WakeupFree) EXCEPT ![p] = "nodesc"]
  /\ UNCHANGED <<free, desc, info, avail, availIdx, used_idx, device, bdisk,
                 lock, head>>

\* The three lowest free descriptors are chained, b is recorded, and the
\* head is put into the avail ring.
Fill(p) ==
  LET a == Min(FreeSet)
      b == Min(FreeSet \ {a})
      c == Min(FreeSet \ {a, b})
  IN
  /\ pc[p] = "alloc" /\ lock = NoProc
  /\ Cardinality(FreeSet) >= 3
  /\ free' = [free EXCEPT ![a] = FALSE, ![b] = FALSE, ![c] = FALSE]
  /\ next' = [next EXCEPT ![a] = b, ![b] = c, ![c] = NoIndex]
  /\ dbuf' = [dbuf EXCEPT ![b] = p]
  /\ info' = [info EXCEPT ![a] = p]
  /\ bdisk' = [bdisk EXCEPT ![p] = TRUE]
  /\ avail' = [avail EXCEPT ![availIdx % NUM] = a]
  /\ head' = [head EXCEPT ![p] = a]
  /\ lock' = p
  /\ pc' = [pc EXCEPT ![p] = "publish"]
  /\ UNCHANGED <<availIdx, used_idx, device>>

\* avail[1] is incremented and the device notified.
Publish(p) ==
  /\ pc[p] = "publish"
  /\ availIdx' = (availIdx + 1) % U16
  /\ lock' = NoProc
  /\ pc' = [pc EXCEPT ![p] = "sleep"]
  /\ UNCHANGED <<free, desc, info, avail, used_idx, device, bdisk, head>>

\* kill() makes a sleeping process runnable, whatever it waits for.
Kill(p) ==
  /\ pc[p] \in {"nodesc", "sleep"}
  /\ pc' = [pc EXCEPT ![p] = IF @ = "sleep" THEN "wait" ELSE "alloc"]
  /\ UNCHANGED <<free, desc, info, avail, availIdx, used_idx, device, bdisk,
                 lock, head>>

\* Woken while the device still owns the buffer: sleep again.
Wait(p) ==
  /\ pc[p] = "wait" /\ lock = NoProc
  /\ bdisk[p]
  /\ pc' = [pc EXCEPT ![p] = "sleep"]
  /\ UNCHANGED <<free, desc, info, avail, availIdx, used_idx, device, bdisk,
                 lock, head>>

\* The descriptors that free_chain() frees: all chains have length three.
Chain(h) == {h, next[h], next[next[h]]}

\* Mutant: free_desc() without its wakeup.
Finish_NoWakeup(p) ==
  /\ pc[p] = "wait" /\ lock = NoProc
  /\ ~bdisk[p]
  /\ info' = [info EXCEPT ![head[p]] = NoProc]
  /\ free' = [k \in Index |-> free[k] \/ k \in Chain(head[p])]
  /\ dbuf' = [k \in Index |-> IF k \in Chain(head[p]) THEN NoProc ELSE dbuf[k]]
  /\ pc' = [pc EXCEPT ![p] = "idle"]
  /\ head' = [head EXCEPT ![p] = NoIndex]
  /\ served' = [served EXCEPT ![p] = FALSE]
  /\ UNCHANGED <<next, avail, availIdx, used, usedId, used_idx, taken, busy,
                 bdisk, lock>>

\* Mutant: "if" for "while" around the sleep.
Finish_If(p) ==
  /\ pc[p] = "wait" /\ lock = NoProc
  /\ info' = [info EXCEPT ![head[p]] = NoProc]
  /\ free' = [k \in Index |-> free[k] \/ k \in Chain(head[p])]
  /\ dbuf' = [k \in Index |-> IF k \in Chain(head[p]) THEN NoProc ELSE dbuf[k]]
  /\ pc' = [WakeupFree EXCEPT ![p] = "idle"]
  /\ head' = [head EXCEPT ![p] = NoIndex]
  /\ served' = [served EXCEPT ![p] = FALSE]
  /\ UNCHANGED <<next, avail, availIdx, used, usedId, used_idx, taken, busy,
                 bdisk, lock>>

\* The device is done: forget b, free the chain, return.
Finish(p) ==
  /\ pc[p] = "wait" /\ lock = NoProc
  /\ ~bdisk[p]
  /\ info' = [info EXCEPT ![head[p]] = NoProc]
  /\ free' = [k \in Index |-> free[k] \/ k \in Chain(head[p])]
  /\ dbuf' = [k \in Index |-> IF k \in Chain(head[p]) THEN NoProc ELSE dbuf[k]]
  /\ pc' = [WakeupFree EXCEPT ![p] = "idle"]
  /\ head' = [head EXCEPT ![p] = NoIndex]
  /\ served' = [served EXCEPT ![p] = FALSE]
  /\ UNCHANGED <<next, avail, availIdx, used, usedId, used_idx, taken, busy,
                 bdisk, lock>>

-----------------------------------------------------------------------------
(* virtio_disk_intr().  The driver never acknowledges the interrupt, so    *)
(* the handler may run again at any time.  The device only ever adds to    *)
(* used, so what it adds while the loop runs could as well have been there *)
(* from the start, and the loop is one step.                               *)

\* Mutant: used_idx is incremented before the element is read.
Done_Late ==
  {info[used[(used_idx + k) % NUM]] : k \in 1..((usedId - used_idx) % NUM)}

\* The buffers of the elements of used that the loop visits.
Done ==
  {info[used[(used_idx + k) % NUM]] : k \in 0..(((usedId - used_idx) % NUM) - 1)}

Intr ==
  /\ lock = NoProc
  /\ Done # {}
  /\ bdisk' = [p \in Procs |-> bdisk[p] /\ p \notin Done]
  /\ pc' = WakeupBuf(Done)
  /\ used_idx' = usedId % NUM
  /\ UNCHANGED <<free, desc, info, avail, availIdx, device, lock, head>>

-----------------------------------------------------------------------------
(* The device (qemu's virtio-blk): it takes chains in the order of the     *)
(* avail ring and finishes them in any order.                              *)

DeviceTake ==
  /\ taken # availIdx
  /\ busy' = busy \cup {avail[taken % NUM]}
  /\ taken' = (taken + 1) % U16
  /\ UNCHANGED <<free, desc, info, avail, availIdx, used, usedId, used_idx,
                 bdisk, served, lock, pc, head>>

DeviceFinish(h) ==
  /\ h \in busy
  /\ busy' = busy \ {h}
  /\ served' = [served EXCEPT ![dbuf[next[h]]] = TRUE]
  /\ used' = [used EXCEPT ![usedId % NUM] = h]
  /\ usedId' = (usedId + 1) % U16
  /\ UNCHANGED <<free, desc, info, avail, availIdx, used_idx, taken, bdisk,
                 lock, pc, head>>

Next ==
  \/ \E p \in Procs : Call(p) \/ Kill(p) \/ NoDesc(p) \/ Fill(p) \/ Publish(p)
                      \/ Wait(p) \/ Finish(p)
  \/ Intr
  \/ DeviceTake
  \/ \E h \in Index : DeviceFinish(h)

Spec == Init /\ [][Next]_vars

-----------------------------------------------------------------------------
(* Type correctness of the descriptors, the rings and the processes.       *)
TypeOK ==
  /\ free \in [Index -> BOOLEAN]
  /\ next \in [Index -> Index \cup {NoIndex}]
  /\ dbuf \in [Index -> Procs \cup {NoProc}]
  /\ info \in [Index -> Procs \cup {NoProc}]
  /\ avail \in [Index -> Index] /\ used \in [Index -> Index]
  /\ availIdx \in 0..(U16 - 1) /\ usedId \in 0..(U16 - 1)
  /\ taken \in 0..(U16 - 1)
  /\ used_idx \in Index
  /\ busy \subseteq Index
  /\ bdisk \in [Procs -> BOOLEAN] /\ served \in [Procs -> BOOLEAN]
  /\ lock \in Procs \cup {NoProc}
  /\ pc \in [Procs -> {"idle", "alloc", "nodesc", "publish", "sleep", "wait"}]
  /\ head \in [Procs -> Index \cup {NoIndex}]

InFlight == {p \in Procs : head[p] # NoIndex}

(* A buffer is handed back to its process only after the device has done   *)
(* the I/O on it, however the requests are reordered and the rings wrap.   *)
DoneBeforeReturn ==
  \A p \in InFlight : ~bdisk[p] => served[p]

(* The descriptors in use are exactly the chains of the requests in        *)
(* flight, three each and none shared: nothing leaks, nothing is freed     *)
(* twice (free_desc()'s panic) or while the device may still read it.      *)
DescPartition ==
  /\ Index \ FreeSet = UNION {Chain(head[p]) : p \in InFlight}
  /\ \A p \in InFlight :
       /\ Cardinality(Chain(head[p])) = 3
       /\ info[head[p]] = p
       /\ \A q \in InFlight \ {p} : Chain(head[p]) \cap Chain(head[q]) = {}
  /\ busy \subseteq {head[p] : p \in InFlight}
  /\ Done \subseteq InFlight

(* No lost wakeup: a process sleeps for descriptors only while fewer than *)
(* three are free, and for the disk only while the disk owns its buffer.   *)
NoLostWakeup ==
  \A p \in Procs :
    /\ pc[p] = "nodesc" => Cardinality(FreeSet) < 3
    /\ pc[p] = "sleep" => bdisk[p]

(* The handler's comparison of two indices modulo NUM never takes a used   *)
(* ring with something in it for an empty one, and no element is skipped.  *)
UsedNeverLaps ==
  used_idx = usedId % NUM => \A p \in InFlight : bdisk[p] => ~served[p]

(* Descriptors and rings are never shared, leaked or run around: what      *)
(* virtio_disk_intr() relies on when it trusts the ids in the used ring.   *)
RingsSound == TypeOK /\ DescPartition /\ UsedNeverLaps
=============================================================================
