------------------------------- MODULE Inodes -------------------------------
(***************************************************************************)
(* The inodes of kernel/fs.c: the inodes on the disk, the table of cached  *)
(* inodes (icache), and the functions over the two that the system calls   *)
(* of sysfile.c are built from.  Each is an operator that returns the new  *)
(* table, so that a step of a system call is a composition of them.        *)
(*                                                                         *)
(* The content of a directory is what dirlookup and dirlink make of it, a  *)
(* function from names to inode numbers where 0 is no entry; its blocks    *)
(* are the business of module Blocks.  The disk is seen through the buffer *)
(* cache and the log, so a write to it is at once visible.                 *)
(***************************************************************************)
EXTENDS Naturals, FiniteSets, FiniteSetsExt

CONSTANTS NINODE,      \* slots of the inode cache
          NInodes,     \* sb.ninodes - 1: inode 0 is never used
          FileNames    \* names other than the two dots

VARIABLES dinode,      \* the inodes on the disk
          icache       \* icache.inode[]

ROOTINO == 1
Slots == 1 .. NINODE
Inums == 1 .. NInodes
Dots == {".", ".."}
Names == FileNames \cup Dots
NoEnts == [n \in Names |-> 0]

\* A T_DEVICE inode whose major number no driver can have is "baddev".
Types == {"free", "dir", "file", "dev", "baddev"}

\* sys_open and create compare with T_DEVICE: both kinds of device.
T_DEVICE == {"dev", "baddev"}

\* A slot with ref 0: iget overwrites inum, ref and valid, and the rest is not
\* read until ilock has loaded it.
EmptySlot == [inum |-> 0, ref |-> 0, valid |-> FALSE, lock |-> 0,
              type |-> "free", nlink |-> 0]

hits(c, n) == {s \in Slots : c[s].ref > 0 /\ c[s].inum = n}

empties(c) == {s \in Slots : c[s].ref = 0}

\* The slot iget returns: the cached one, else the first empty one, else 0
\* (the panic "iget: no inodes").
igetSlot(c, n) ==
    IF hits(c, n) # {} THEN Min(hits(c, n))
    ELSE IF empties(c) # {} THEN Min(empties(c)) ELSE 0

\* iget keeps valid when it recycles a slot.

iget(c, n) ==
    LET s == igetSlot(c, n) IN
    IF c[s].ref > 0 THEN [c EXCEPT ![s].ref = @ + 1]
    ELSE [c EXCEPT ![s] = [@ EXCEPT !.inum = n, !.ref = 1, !.valid = FALSE]]

idup_Uncounted(c, s) == c

idup(c, s) == [c EXCEPT ![s].ref = @ + 1]

\* ilock once the sleep lock is free: p holds it, and the fields are loaded
\* from the disk when they are not valid.
ilock(c, d, p, s) ==
    [c EXCEPT ![s] =
        IF c[s].valid THEN [@ EXCEPT !.lock = p]
        ELSE [@ EXCEPT !.lock = p, !.valid = TRUE,
                       !.type = d[c[s].inum].type, !.nlink = d[c[s].inum].nlink]]

iunlock(c, s) == [c EXCEPT ![s].lock = 0]

iupdate(d, c, s) ==
    [d EXCEPT ![c[s].inum].type = c[s].type, ![c[s].inum].nlink = c[s].nlink]

\* The test with which iput decides that the inode is to be freed.

iputFrees(c, s) == c[s].ref = 1 /\ c[s].valid /\ c[s].nlink = 0

\* ip->type = 0, valid = 0, and the lock released.

iputFreed(c, s) ==
    [c EXCEPT ![s].type = "free", ![s].valid = FALSE, ![s].lock = 0]

\* ip->ref--.
iputDrop(c, s) ==
    [c EXCEPT ![s] = IF @.ref = 1 THEN [EmptySlot EXCEPT !.lock = c[s].lock]
                     ELSE [@ EXCEPT !.ref = @ - 1]]

freeInums(d) == {n \in Inums : d[n].type = "free"}

\* ialloc's choice and its write; 0 is the panic "ialloc: no inodes".
iallocInum(d) == IF freeInums(d) = {} THEN 0 ELSE Min(freeInums(d))

ialloc(d, n, t) == [d EXCEPT ![n] = [type |-> t, nlink |-> 0, ents |-> NoEnts]]

itrunc(d, n) == [d EXCEPT ![n].ents = NoEnts]

dirlookup(d, c, s, name) == d[c[s].inum].ents[name]

\* dirlink after its check that the name is not present.
dirlink(d, n, name, inum) == [d EXCEPT ![n].ents[name] = inum]

isdirempty(d, n) == \A name \in FileNames : d[n].ents[name] = 0
=============================================================================
