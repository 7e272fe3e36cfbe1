-------------------------------- MODULE Files -------------------------------
(***************************************************************************)
(* The table of open files (kernel/file.c), the descriptors of processes   *)
(* and the system calls on them (kernel/sysfile.c): open, pipe, dup,       *)
(* close, read and write, and what fork and exit do to descriptors.        *)
(*                                                                         *)
(* A step is what happens under one hold of ftable.lock, of the inode's    *)
(* lock or of the pipe's lock, with the private work around it.  A process *)
(* in a call has a list of what is left to do.  There is one inode, seen   *)
(* as its reference count and its size (see Namespace and Blocks); what is *)
(* read from and written to a pipe is module Pipe's.  An FD_DEVICE file is *)
(* closed as an FD_INODE file is.                                          *)
(***************************************************************************)
EXTENDS Integers, Sequences, FiniteSets, FiniteSetsExt

CONSTANTS Users,       \* the processes
          NFILE, NFD,  \* NFILE and NOFILE
          Pipes,       \* pages for pipes
          MaxChunk,    \* bytes filewrite passes to writei at a time
          MaxFileSize, \* MAXFILE * BSIZE
          Sizes,       \* bytes to read or write
          MaxFileCalls

VARIABLES ftable,      \* ftable.file[]
          ofile,       \* p->ofile[], 0 where empty
          born,        \* the processes that exist
          pipes,       \* of each page: the open ends
          iref, isize, \* the inode's references and size
          todo,        \* of each process, what is left of its call
          moved,       \* bytes read and written through a file since its open
          filepanic, fcalls

fileVars == <<ftable, ofile, born, pipes, iref, isize, todo, moved, filepanic, fcalls>>

FileSlots == 1 .. NFILE
Fds == 0 .. NFD - 1

FD_NONE == [type |-> "none", ref |-> 0, writable |-> FALSE, readable |-> FALSE,
            pipe |-> 0, off |-> 0]

FilesInit ==
    /\ ftable = [f \in FileSlots |-> FD_NONE]
    /\ ofile = [p \in Users |-> [fd \in Fds |-> 0]]
    /\ born = {Min(Users)}
    /\ pipes = [pi \in Pipes |-> {}]
    /\ iref = 0 /\ isize = 0
    /\ todo = [p \in Users |-> <<>>]
    /\ moved = [f \in FileSlots |-> 0]
    /\ filepanic = "" /\ fcalls = 0

----------------------------------------------------------------------------
FCall(p) ==
    /\ filepanic = "" /\ p \in born /\ todo[p] = <<>> /\ fcalls < MaxFileCalls
    /\ fcalls' = fcalls + 1

Doing(p, what) ==
    /\ filepanic = "" /\ todo[p] # <<>> /\ Head(todo[p])[1] = what
    /\ UNCHANGED fcalls

Item(p) == Head(todo[p])

\* What the call does next instead of the item at its head.
Do(p, items) == todo' = [todo EXCEPT ![p] = items \o (IF @ = <<>> THEN <<>> ELSE Tail(@))]

FilePanic(why) ==
    /\ filepanic' = why
    /\ UNCHANGED <<ftable, ofile, born, pipes, iref, isize, todo, moved>>

\* filealloc returns the first slot with ref 0, or 0.
filealloc == LET e == {f \in FileSlots : ftable[f].ref = 0} IN IF e = {} THEN 0 ELSE Min(e)

allocated(f) == [ftable EXCEPT ![f].ref = 1]

fdalloc(p) == LET e == {fd \in Fds : ofile[p][fd] = 0} IN IF e = {} THEN -1 ELSE Min(e)

----------------------------------------------------------------------------
(* fileclose *)

\* What is left to close once the slot has been given up.
fileclosed_Rereads(f) ==
    CASE ftable'[f].type = "pipe" -> <<<<"pipeclose", ftable'[f].pipe, ftable'[f].writable>>>>
      [] ftable'[f].type = "inode" -> <<<<"iput">>>>
      [] OTHER -> <<>>

fileclosed(f) ==
    CASE ftable[f].type = "pipe" -> <<<<"pipeclose", ftable[f].pipe, ftable[f].writable>>>>
      [] ftable[f].type = "inode" -> <<<<"iput">>>>
      [] OTHER -> <<>>

FileClose(p) ==
    LET f == Item(p)[2] IN
    /\ Doing(p, "fileclose")
    /\ IF ftable[f].ref < 1 THEN FilePanic("fileclose")
       ELSE /\ ftable' = [ftable EXCEPT ![f].ref = @ - 1,
                              ![f].type = IF ftable[f].ref = 1 THEN "none" ELSE @]
            /\ Do(p, IF ftable[f].ref = 1 THEN fileclosed(f) ELSE <<>>)
            /\ UNCHANGED <<ofile, born, pipes, iref, isize, moved, filepanic>>

\* pipeclose: the page is free again when neither end is open.
pipeEnd(writable) == IF writable THEN "write" ELSE "read"

PipeClose(p) ==
    /\ Doing(p, "pipeclose")
    /\ pipes' = [pipes EXCEPT ![Item(p)[2]] = @ \ {pipeEnd(Item(p)[3])}]
    /\ Do(p, <<>>)
    /\ UNCHANGED <<ftable, ofile, born, iref, isize, moved, filepanic>>

FilesIput(p) ==
    /\ Doing(p, "iput")
    /\ iref' = iref - 1
    /\ Do(p, <<>>)
    /\ UNCHANGED <<ftable, ofile, born, pipes, isize, moved, filepanic>>

SysClose(p, fd) ==
    /\ FCall(p) /\ ofile[p][fd] # 0
    /\ ofile' = [ofile EXCEPT ![p][fd] = 0]
    /\ Do(p, <<<<"fileclose", ofile[p][fd]>>>>)
    /\ UNCHANGED <<ftable, born, pipes, iref, isize, moved, filepanic>>

----------------------------------------------------------------------------
(* open and pipe *)

\* sys_open once namei or create has returned the inode.
SysOpen(p, mode) ==
    /\ FCall(p)
    /\ iref' = iref + 1
    /\ Do(p, <<<<"openalloc", mode>>>>)
    /\ UNCHANGED <<ftable, ofile, born, pipes, isize, moved, filepanic>>

OpenAlloc(p) ==
    LET f == filealloc IN
    /\ Doing(p, "openalloc")
    /\ ftable' = IF f = 0 THEN ftable ELSE allocated(f)
    /\ Do(p, IF f = 0 THEN <<<<"iput">>>> ELSE <<<<"openfd", f, Item(p)[2]>>>>)
    /\ UNCHANGED <<ofile, born, pipes, iref, isize, moved, filepanic>>

\* What is left when no descriptor is free.

openFailed(f) == <<<<"fileclose", f>>, <<"iput">>>>

OpenFd(p) ==
    LET f == Item(p)[2]
        mode == Item(p)[3]
        fd == fdalloc(p)
    IN
    /\ Doing(p, "openfd")
    /\ IF fd < 0
       THEN Do(p, openFailed(f)) /\ UNCHANGED <<ftable, ofile, moved>>
       ELSE /\ ofile' = [ofile EXCEPT ![p][fd] = f]
            /\ ftable' = [ftable EXCEPT ![f] =
                  [type |-> "inode", ref |-> @.ref, pipe |-> 0, off |-> 0,
                   readable |-> mode # "O_WRONLY", writable |-> mode # "O_RDONLY"]]
            /\ moved' = [moved EXCEPT ![f] = 0]
            /\ Do(p, <<>>)
    /\ UNCHANGED <<born, pipes, iref, isize, filepanic>>

\* sys_pipe: the two files of pipealloc, then kalloc; on failure what was
\* allocated is closed.
SysPipe(p) ==
    /\ FCall(p)
    /\ Do(p, <<<<"pipealloc", 0>>>>)
    /\ UNCHANGED <<ftable, ofile, born, pipes, iref, isize, moved, filepanic>>

PipeAllocFile(p) ==
    LET f == filealloc
        f0 == Item(p)[2]
    IN
    /\ Doing(p, "pipealloc")
    /\ ftable' = IF f = 0 THEN ftable ELSE allocated(f)
    /\ Do(p, IF f = 0 THEN (IF f0 = 0 THEN <<>> ELSE <<<<"fileclose", f0>>>>)
             ELSE IF f0 = 0 THEN <<<<"pipealloc", f>>>> ELSE <<<<"pipepage", f0, f>>>>)
    /\ UNCHANGED <<ofile, born, pipes, iref, isize, moved, filepanic>>

PipeNoPage(p) ==
    /\ Doing(p, "pipepage")
    /\ Do(p, <<<<"fileclose", Item(p)[2]>>, <<"fileclose", Item(p)[3]>>>>)
    /\ UNCHANGED <<ftable, ofile, born, pipes, iref, isize, moved, filepanic>>

\* The two descriptors are given out, or taken back when there are not two or
\* the copyout of their numbers fails.
pipeFds(p, rf, wf, bad) ==
    LET e == {fd \in Fds : ofile[p][fd] = 0} IN
    IF Cardinality(e) < 2 \/ bad THEN ofile
    ELSE [ofile EXCEPT ![p][Min(e)] = rf, ![p][Min(e \ {Min(e)})] = wf]

PipePage(p, pi, bad) ==
    LET rf == Item(p)[2]
        wf == Item(p)[3]
        end(f, w) == [type |-> "pipe", ref |-> ftable[f].ref, writable |-> w,
                      readable |-> ~w, pipe |-> pi, off |-> ftable[f].off]
        fds == pipeFds(p, rf, wf, bad)
    IN
    /\ Doing(p, "pipepage") /\ pipes[pi] = {}
    /\ pipes' = [pipes EXCEPT ![pi] = {"read", "write"}]
    /\ ftable' = [ftable EXCEPT ![rf] = end(rf, FALSE), ![wf] = end(wf, TRUE)]
    /\ ofile' = fds
    /\ Do(p, IF \E fd \in Fds : fds[p][fd] = wf THEN <<>>
             ELSE <<<<"fileclose", rf>>, <<"fileclose", wf>>>>)
    /\ UNCHANGED <<born, iref, isize, moved, filepanic>>

----------------------------------------------------------------------------
(* dup, fork and exit *)

filedup(f) == [ftable EXCEPT ![f].ref = @ + 1]

\* fdalloc comes before filedup: for a while the file has one reference less
\* than descriptors.
SysDup(p, fd) ==
    /\ FCall(p) /\ ofile[p][fd] # 0 /\ fdalloc(p) >= 0
    /\ ofile' = [ofile EXCEPT ![p][fdalloc(p)] = ofile[p][fd]]
    /\ Do(p, <<<<"filedup", ofile[p][fd]>>>>)
    /\ UNCHANGED <<ftable, born, pipes, iref, isize, moved, filepanic>>

FileDup(p) ==
    LET f == Item(p)[2] IN
    /\ Doing(p, "filedup")
    /\ IF ftable[f].ref < 1 THEN FilePanic("filedup")
       ELSE /\ ftable' = filedup(f)
            /\ Do(p, <<>>)
            /\ UNCHANGED <<ofile, born, pipes, iref, isize, moved, filepanic>>

\* fork's loop over ofile[], one filedup at a time.
FilesFork(p, q) ==
    /\ FCall(p) /\ q \notin born /\ todo[q] = <<>>
    /\ Do(p, [i \in 1 .. NFD |-> <<"forkdup", q, i - 1>>] \o <<<<"forked", q>>>>)
    /\ UNCHANGED <<ftable, ofile, born, pipes, iref, isize, moved, filepanic>>

ForkDup(p) ==
    LET q == Item(p)[2]
        fd == Item(p)[3]
        f == ofile[p][fd]
    IN
    /\ Doing(p, "forkdup")
    /\ IF f # 0 /\ ftable[f].ref < 1 THEN FilePanic("filedup")
       ELSE /\ ftable' = IF f = 0 THEN ftable ELSE filedup(f)
            /\ ofile' = [ofile EXCEPT ![q][fd] = f]
            /\ Do(p, <<>>)
            /\ UNCHANGED <<born, pipes, iref, isize, moved, filepanic>>

Forked(p) ==
    /\ Doing(p, "forked")
    /\ born' = born \cup {Item(p)[2]}
    /\ Do(p, <<>>)
    /\ UNCHANGED <<ftable, ofile, pipes, iref, isize, moved, filepanic>>

FilesExit(p) ==
    LET fds == {fd \in Fds : ofile[p][fd] # 0}
        nth(i) == CHOOSE fd \in fds : Cardinality({x \in fds : x < fd}) = i - 1
    IN
    /\ FCall(p)
    /\ born' = born \ {p}
    /\ ofile' = [ofile EXCEPT ![p] = [fd \in Fds |-> 0]]
    /\ Do(p, [i \in 1 .. Cardinality(fds) |-> <<"fileclose", ofile[p][nth(i)]>>])
    /\ UNCHANGED <<ftable, pipes, iref, isize, moved, filepanic>>

----------------------------------------------------------------------------
(* read and write *)

\* sys_read and sys_write up to the inode's lock.  The item remembers the
\* offset at the time of the call, which the code does not use.
SysRead(p, fd, n) ==
    LET f == ofile[p][fd] IN
    /\ FCall(p) /\ f # 0 /\ ftable[f].readable
    /\ IF ftable[f].type = "none" THEN FilePanic("fileread")
       ELSE /\ ftable[f].type = "inode"
            /\ Do(p, <<<<"read", f, n, ftable[f].off>>>>)
            /\ UNCHANGED <<ftable, ofile, born, pipes, iref, isize, moved, filepanic>>

SysWrite(p, fd, n) ==
    LET f == ofile[p][fd] IN
    /\ FCall(p) /\ f # 0 /\ ftable[f].writable
    /\ IF ftable[f].type = "none" THEN FilePanic("filewrite")
       ELSE /\ ftable[f].type = "inode"
            /\ Do(p, <<<<"write", f, n, ftable[f].off>>>>)
            /\ UNCHANGED <<ftable, ofile, born, pipes, iref, isize, moved, filepanic>>

\* The offset readi and writei start from: f->off, read under the inode's lock.
rwOff_BeforeLock(p) == Item(p)[4]

rwOff(p) == ftable[Item(p)[2]].off

\* fileread under the inode's lock: readi returns at most what is left.
FileRead(p) ==
    LET f == Item(p)[2]
        off == rwOff(p)
        r == IF off > isize THEN 0 ELSE Min({Item(p)[3], isize - off})
    IN
    /\ Doing(p, "read")
    /\ ftable' = [ftable EXCEPT ![f].off = off + r]
    /\ moved' = [moved EXCEPT ![f] = @ + r]
    /\ Do(p, <<>>)
    /\ UNCHANGED <<ofile, born, pipes, iref, isize, filepanic>>

\* writei's two tests.
writeFits(off, n) == off <= isize /\ off + n <= MaxFileSize

\* One pass of filewrite's loop.  writei returns n1 even if the copy from the
\* user stops after got bytes: the offset moves further than the data.
FileWrite(p, got) ==
    LET f == Item(p)[2]
        n == Item(p)[3]
        n1 == Min({n, MaxChunk})
        off == rwOff(p)
    IN
    /\ Doing(p, "write")
    /\ IF writeFits(off, n1)
       THEN /\ isize' = Max({isize, off + Min({got, n1})})
            /\ ftable' = [ftable EXCEPT ![f].off = off + n1]
            /\ moved' = [moved EXCEPT ![f] = @ + n1]
            /\ Do(p, IF n1 < n THEN <<<<"write", f, n - n1, off + n1>>>> ELSE <<>>)
       ELSE Do(p, <<>>) /\ UNCHANGED <<ftable, isize, moved>>
    /\ UNCHANGED <<ofile, born, pipes, iref, filepanic>>

FilesNext ==
    \E p \in Users :
        \/ \E mode \in {"O_RDONLY", "O_WRONLY", "O_RDWR"} : SysOpen(p, mode)
        \/ \E fd \in Fds : SysClose(p, fd) \/ SysDup(p, fd)
        \/ \E fd \in Fds, n \in Sizes : SysRead(p, fd, n) \/ SysWrite(p, fd, n)
        \/ \E q \in Users : FilesFork(p, q)
        \/ \E pi \in Pipes, bad \in BOOLEAN : PipePage(p, pi, bad)
        \/ SysPipe(p) \/ FilesExit(p)
        \/ FileClose(p) \/ PipeClose(p) \/ FilesIput(p)
        \/ OpenAlloc(p) \/ OpenFd(p) \/ PipeAllocFile(p) \/ PipeNoPage(p)
        \/ FileDup(p) \/ ForkDup(p) \/ Forked(p)
        \/ FileRead(p)
        \/ \E got \in {0, MaxChunk} : FileWrite(p, got)

FilesSpec == FilesInit /\ [][FilesNext]_fileVars

----------------------------------------------------------------------------
(* Properties *)

\* Descriptors name slots of the table, and the file is never longer than
\* MAXFILE blocks whichever descriptors it is written through.
FilesTypeOK ==
    /\ ofile \in [Users -> [Fds -> 0 .. NFILE]]
    /\ ftable \in [FileSlots ->
          [type : {"none", "pipe", "inode"}, ref : Nat, writable : BOOLEAN,
           readable : BOOLEAN, pipe : {0} \cup Pipes, off : Nat]]
    /\ pipes \in [Pipes -> SUBSET {"read", "write"}]
    /\ isize \in 0 .. MaxFileSize /\ iref \in Nat

\* How many items of the processes' lists satisfy P.
Items(P(_)) ==
    MapThenSumSet(LAMBDA p : Cardinality({i \in 1 .. Len(todo[p]) : P(todo[p][i])}), Users)

\* f->ref is the number of descriptors and of calls under way that hold the
\* file, less a dup that has its descriptor and not yet its reference; so a
\* file is open as long as, and no longer than, somebody can use it.
FileRefs ==
    \A f \in FileSlots :
        ftable[f].ref
            = Cardinality({x \in Users \X Fds : ofile[x[1]][x[2]] = f})
              + Items(LAMBDA it : it[1] \in {"fileclose", "openfd", "pipealloc", "pipepage"}
                                  /\ it[2] = f)
              + Items(LAMBDA it : it[1] = "pipepage" /\ it[3] = f)
              - Items(LAMBDA it : it[1] = "filedup" /\ it[2] = f)

\* The inode has one reference for each open file on it and each call that is
\* about to open it or to put it, on the failing paths too (sysfile.c 325-331).
InodeRefs ==
    iref = Cardinality({f \in FileSlots : ftable[f].ref > 0 /\ ftable[f].type = "inode"})
           + Items(LAMBDA it : it[1] \in {"openalloc", "openfd", "iput"})

\* Each end of a pipe is open exactly as long as a file for it is, or its
\* pipeclose is under way, although the slot of the file may by then belong to
\* another file: the reader sees the end of the data, and the page is freed,
\* once and not before (file.c 71-77).
PipeEnds ==
    \A pi \in Pipes, w \in BOOLEAN :
        (pipeEnd(w) \in pipes[pi])
            <=> \/ \E f \in FileSlots : /\ ftable[f].ref > 0 /\ ftable[f].type = "pipe"
                                        /\ ftable[f].pipe = pi /\ ftable[f].writable = w
                \/ Items(LAMBDA it : it = <<"pipeclose", pi, w>>) > 0

\* The offset of an open file has moved by exactly what was read and written
\* through it: processes that share it after a fork never write over each
\* other's bytes or read the same ones twice (file.c 121-124, 162-166).
OffsetsMoveByTransfers ==
    \A f \in FileSlots : ftable[f].ref > 0 /\ ftable[f].type = "inode" =>
        ftable[f].off = moved[f]

\* No call finds a descriptor whose file is closed or not yet set up: none of
\* the panics of filedup, fileclose, fileread and filewrite is reached.
NoFilePanic == filepanic = ""

\* The counts of the file table, the inode and the pipe ends are those of their
\* users, on failing paths as well, so that none of the panics is reached.
CountsExact == FilesTypeOK /\ FileRefs /\ InodeRefs /\ PipeEnds /\ NoFilePanic
=============================================================================
