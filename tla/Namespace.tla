----------------------------- MODULE Namespace ------------------------------
(***************************************************************************)
(* The system calls on names (kernel/sysfile.c) run by several processes   *)
(* at once: open, mkdir, mknod, link, unlink, chdir, close and the part of *)
(* exit that lets go of inodes, over namex, create and iput.               *)
(*                                                                         *)
(* A process in a call has a stack of the steps that remain, each a label  *)
(* with the inode slot it works on.  A step begins where the code may wait *)
(* for a sleep lock or takes icache.lock, and runs to the next such place; *)
(* releasing a lock belongs to the step before it.  begin_op and end_op    *)
(* only delay a call (module Log); the file table is module Files.         *)
(***************************************************************************)
EXTENDS Inodes, Sequences

CONSTANTS Procs,       \* process numbers, none of them 0
          NOFILE,      \* descriptors of a process
          Trees,       \* file systems to start from: [dinode, cwd]
          Calls,       \* the calls a process may make
          MaxNsCalls   \* calls in a behaviour

VARIABLES cwd,         \* p->cwd, 0 once the process has exited
          ofiles,      \* the inodes p->ofile[] refers to
          stack, loc,  \* what is left of the call and its local variables
          fspanic,     \* the panic that stopped the kernel, or ""
          nscalls

nsVars == <<dinode, icache, cwd, ofiles, stack, loc, fspanic, nscalls>>

NoLoc == [k |-> "none", path |-> <<>>, par |-> FALSE, ip |-> 0, dp |-> 0,
          old |-> 0, new |-> [abs |-> TRUE, elems |-> <<>>], nm |-> ".",
          stale |-> FALSE]

NsInit ==
    /\ \E t \in Trees :
        /\ dinode = t.dinode
        /\ LET d == {t.cwd[p] : p \in Procs} IN
           /\ icache = [s \in Slots |->
                 IF s > Cardinality(d) THEN EmptySlot
                 ELSE LET n == CHOOSE m \in d : Cardinality({x \in d : x < m}) = s - 1
                      IN [inum |-> n, ref |-> Cardinality({p \in Procs : t.cwd[p] = n}),
                          valid |-> TRUE, lock |-> 0,
                          type |-> t.dinode[n].type, nlink |-> t.dinode[n].nlink]]
           /\ cwd = [p \in Procs |-> Cardinality({x \in d : x < t.cwd[p]}) + 1]
    /\ ofiles = [p \in Procs |-> <<>>]
    /\ stack = [p \in Procs |-> <<>>]
    /\ loc = [p \in Procs |-> NoLoc]
    /\ fspanic = ""
    /\ nscalls = 0

----------------------------------------------------------------------------
Running(p, label) ==
    /\ fspanic = ""
    /\ stack[p] # <<>>
    /\ Head(stack[p])[1] = label

\* The slot the step at the top of p's stack works on.
Arg(p) == Head(stack[p])[2]

\* The step ends, with more steps before the rest of the stack.
Then(p, steps, l) ==
    LET rest == steps \o Tail(stack[p]) IN
    /\ stack' = [stack EXCEPT ![p] = rest]
    /\ loc' = [loc EXCEPT ![p] = IF rest = <<>> THEN NoLoc ELSE l]

Panic(why) ==
    /\ fspanic' = why
    /\ UNCHANGED <<dinode, icache, cwd, ofiles, stack, loc, nscalls>>

\* The step may run only with the lock of slot s free.
Free(s) == icache[s].lock = 0

Locked(p, s) == ilock(icache, dinode, p, s)

\* What the rest of a call leaves alone.
Rest == UNCHANGED <<cwd, ofiles, fspanic, nscalls>>

\* A step that leaves cache c and disk d.
Step(p, c, d, steps, l) ==
    icache' = c /\ dinode' = d /\ Then(p, steps, l) /\ Rest

\* A step that ends with iunlockput(ip), ip no longer in use: the call fails,
\* or has nothing more to do.
Iunlockput(p, c, s) ==
    Step(p, iunlock(c, s), dinode, <<<<"iput", s>>>>, [loc[p] EXCEPT !.ip = 0])

\* No directory has an entry for inode n: it was never linked, or removed.
Unnamed(d, n) ==
    n # ROOTINO /\ \A m \in Inums, name \in FileNames : d[m].ents[name] # n

\* Looking ".." up in a directory that has been removed (for the properties).
Stale(c, s, name) == name = ".." /\ Unnamed(dinode, c[s].inum)

----------------------------------------------------------------------------
(* iput *)

Iput(p) ==
    LET s == Arg(p) IN
    /\ Running(p, "iput")
    /\ IF ~iputFrees(icache, s)
       THEN Step(p, iputDrop(icache, s), dinode, <<>>, loc[p])
       ELSE IF Free(s)
       THEN Step(p, [icache EXCEPT ![s].lock = p], dinode,
                    <<<<"iputfree", s>>, <<"iputdrop", s>>>>, loc[p])
       ELSE Panic("sched locks")    \* would sleep holding icache.lock

IputFree(p) ==
    LET s == Arg(p)
        c == iputFreed(icache, s)
    IN
    /\ Running(p, "iputfree")
    /\ Step(p, c, iupdate(itrunc(dinode, icache[s].inum), c, s),
            <<>>, loc[p])

IputDrop(p) ==
    /\ Running(p, "iputdrop")
    /\ Step(p, iputDrop(icache, Arg(p)), dinode, <<>>, loc[p])

\* iunlockput(dp) after a step that was not the last to use dp.
UnlockDir(p) ==
    /\ Running(p, "iunlockput")
    /\ Step(p, iunlock(icache, Arg(p)), dinode,
            <<<<"iput", Arg(p)>>>>, loc[p])

----------------------------------------------------------------------------
(* namex *)

\* The first lines of namex: the inode to start from.
NamexStart(p, path) ==
    IF path.abs THEN igetSlot(icache, ROOTINO) ELSE cwd[p]

NamexStarted(p, path) ==
    IF path.abs THEN iget(icache, ROOTINO) ELSE idup(icache, cwd[p])

\* Whether the loop, or the test after it, has anything left to do.
Again(path, par) == IF path = <<>> /\ ~par THEN <<>> ELSE <<<<"namex", 0>>>>

\* The next inode is locked before the lock of this one is given up.
namexUnlock_Late(c, s) == c

namexUnlock(c, s) == iunlock(c, s)

Namex(p) ==
    LET s == loc[p].ip
        c == Locked(p, s)
        name == Head(loc[p].path)
        rest == Tail(loc[p].path)
        n == dirlookup(dinode, c, s, name)
        new == igetSlot(c, n)
    IN
    /\ Running(p, "namex") /\ loc[p].path # <<>> /\ Free(s)
    /\ CASE c[s].type = "free" -> Panic("ilock: no type")
         [] c[s].type = "dir" /\ loc[p].par /\ rest = <<>> ->
              Step(p, iunlock(c, s), dinode,
                      <<>>, [loc[p] EXCEPT !.nm = name, !.path = <<>>])
         [] c[s].type = "dir" /\ ~(loc[p].par /\ rest = <<>>) /\ n # 0 ->
              IF new = 0 THEN Panic("iget: no inodes")
              ELSE Step(p, namexUnlock(iget(c, n), s), dinode,
                           <<<<"iput", s>>>> \o Again(rest, loc[p].par),
                           [loc[p] EXCEPT !.ip = new, !.path = rest,
                           !.stale = Stale(c, s, name)])
         [] OTHER -> Iunlockput(p, c, s)

\* nameiparent of a path without elements.
NamexNoParent(p) ==
    /\ Running(p, "namex") /\ loc[p].path = <<>>
    /\ Then(p, <<<<"iput", loc[p].ip>>>>, [loc[p] EXCEPT !.ip = 0])
    /\ UNCHANGED <<dinode, icache>> /\ Rest

----------------------------------------------------------------------------
(* The start and the quick end of a call *)

\* The kinds of call that begin with nameiparent.
ByParent == {"create", "mkdir", "mknod", "mkbad", "unlink"}

Call(p, call) ==
    LET s == NamexStart(p, call.path)
        par == call.k \in ByParent
    IN
    /\ fspanic = "" /\ stack[p] = <<>> /\ cwd[p] # 0 /\ nscalls < MaxNsCalls
    /\ IF s = 0 THEN Panic("iget: no inodes")
       ELSE /\ icache' = NamexStarted(p, call.path)
            /\ nscalls' = nscalls + 1
            /\ stack' = [stack EXCEPT ![p] =
                  Again(call.path.elems, par) \o <<<<call.k, 0>>>>]
            /\ loc' = [loc EXCEPT ![p] =
                  [NoLoc EXCEPT !.k = call.k, !.path = call.path.elems,
                                !.par = par, !.ip = s, !.new = call.new]]
            /\ UNCHANGED <<dinode, cwd, ofiles, fspanic>>

\* namei or nameiparent found nothing: end_op and return -1; for the new name
\* of sys_link, goto bad.
NotFound(p) ==
    /\ \E k \in {c.k : c \in Calls} \cup {"link2"} : Running(p, k)
    /\ Head(stack[p])[1] \notin {"close", "exit"}
    /\ loc[p].ip = 0
    /\ Then(p, IF Head(stack[p])[1] = "link2" THEN <<<<"linkbad", 0>>>> ELSE <<>>,
            loc[p])
    /\ UNCHANGED <<dinode, icache>> /\ Rest

\* sys_close; fileclose of the last reference to the file.
Close(p) ==
    /\ fspanic = "" /\ stack[p] = <<>> /\ ofiles[p] # <<>> /\ nscalls < MaxNsCalls
    /\ \E i \in 1 .. Len(ofiles[p]) :
        /\ stack' = [stack EXCEPT ![p] = <<<<"iput", ofiles[p][i]>>>>]
        /\ ofiles' = [ofiles EXCEPT ![p] =
              SubSeq(@, 1, i - 1) \o SubSeq(@, i + 1, Len(@))]
    /\ nscalls' = nscalls + 1
    /\ UNCHANGED <<dinode, icache, cwd, loc, fspanic>>

\* exit: every open file is closed and the current directory put.
Exit(p) ==
    /\ fspanic = "" /\ stack[p] = <<>> /\ cwd[p] # 0 /\ nscalls < MaxNsCalls
    /\ stack' = [stack EXCEPT ![p] =
          [i \in 1 .. Len(ofiles[p]) + 1 |->
              <<"iput", IF i > Len(ofiles[p]) THEN cwd[p] ELSE ofiles[p][i]>>]]
    /\ ofiles' = [ofiles EXCEPT ![p] = <<>>]
    /\ cwd' = [cwd EXCEPT ![p] = 0]
    /\ nscalls' = nscalls + 1
    /\ UNCHANGED <<dinode, icache, loc, fspanic>>

----------------------------------------------------------------------------
(* unlink *)

\* dp is locked and stays so while the entry's inode is locked in turn.
Unlink1(p) ==
    LET dp == loc[p].ip
        c == Locked(p, dp)
        n == dirlookup(dinode, c, dp, loc[p].nm)
        new == igetSlot(c, n)
    IN
    /\ Running(p, "unlink") /\ dp # 0 /\ Free(dp)
    /\ IF c[dp].type # "dir" THEN Panic("dirlookup not DIR")
       ELSE IF loc[p].nm \in Dots \/ n = 0
       THEN Iunlockput(p, c, dp)
       ELSE IF new = 0 THEN Panic("iget: no inodes")
       ELSE Step(p, iget(c, n), dinode,
                    <<<<"unlink2", 0>>>>, [loc[p] EXCEPT !.ip = new, !.dp = dp])

\* unlink takes a link from the parent for every entry.

\* What unlink does to the parent: the entry is zeroed, and ".." of a
\* directory no longer counts.
unlinkedDir(c, dp, s) ==
    IF c[s].type = "dir" THEN [c EXCEPT ![dp].nlink = @ - 1] ELSE c

unlinkedEntry(d, c, dp, name) ==
    iupdate([d EXCEPT ![c[dp].inum].ents[name] = 0], c, dp)

Unlink2(p) ==
    LET s == loc[p].ip
        dp == loc[p].dp
        c == Locked(p, s)
        c1 == unlinkedDir(c, dp, s)
    IN
    /\ Running(p, "unlink2") /\ Free(s)
    /\ CASE c[s].type = "free" -> Panic("ilock: no type")
         [] c[s].type # "free" /\ c[s].nlink < 1 -> Panic("unlink: nlink < 1")
         [] c[s].nlink >= 1 /\ c[s].type = "dir" /\ ~isdirempty(dinode, c[s].inum) ->
              Step(p, iunlock(c, s), dinode,
                      <<<<"iput", s>>, <<"iunlockput", dp>>>>,
                      [loc[p] EXCEPT !.ip = 0, !.dp = 0])
         [] OTHER ->
              Step(p, iunlock(c1, dp), unlinkedEntry(dinode, c1, dp, loc[p].nm),
                      <<<<"iput", dp>>, <<"unlink3", 0>>>>, [loc[p] EXCEPT !.dp = 0])

Unlink3(p) ==
    LET s == loc[p].ip
        c == [icache EXCEPT ![s].nlink = @ - 1]
    IN
    /\ Running(p, "unlink3")
    /\ Step(p, iunlock(c, s), iupdate(dinode, c, s),
            <<<<"iput", s>>>>, [loc[p] EXCEPT !.ip = 0])

----------------------------------------------------------------------------
(* create, for open with O_CREATE, mkdir and mknod *)

Creates == {"create", "mkdir", "mknod", "mkbad"}

NewType(k) == CASE k = "create" -> "file" [] k = "mkdir" -> "dir"
                [] k = "mknod" -> "dev" [] k = "mkbad" -> "baddev"

Create1(p) ==
    LET dp == loc[p].ip
        c == Locked(p, dp)
        n == dirlookup(dinode, c, dp, loc[p].nm)
        inum == IF n # 0 THEN n ELSE iallocInum(dinode)
        new == igetSlot(c, inum)
    IN
    /\ \E k \in Creates : Running(p, k)
    /\ dp # 0 /\ Free(dp)
    /\ IF c[dp].type # "dir" THEN Panic("dirlookup not DIR")
       ELSE IF inum = 0 THEN Panic("ialloc: no inodes")
       ELSE IF new = 0 THEN Panic("iget: no inodes")
       ELSE IF n # 0
       THEN Step(p, iunlock(iget(c, n), dp), dinode,
                    <<<<"iput", dp>>, <<"create2", 0>>>>,
                    [loc[p] EXCEPT !.ip = new, !.stale = Stale(c, dp, loc[p].nm)])
       ELSE Step(p, iget(c, inum), ialloc(dinode, inum, NewType(loc[p].k)),
                    <<<<"create3", 0>>>>, [loc[p] EXCEPT !.ip = new, !.dp = dp])

\* The name was there: only a file may be opened again.
Create2(p) ==
    LET s == loc[p].ip
        c == Locked(p, s)
    IN
    /\ Running(p, "create2") /\ Free(s)
    /\ IF c[s].type = "free" THEN Panic("ilock: no type")
       ELSE IF loc[p].k = "create" /\ c[s].type \in {"file"} \cup T_DEVICE
       THEN Step(p, c, dinode,
                    <<<<"made", 0>>>>, loc[p])
       ELSE Iunlockput(p, c, s)

\* The in-memory inodes after a new directory took its link to the parent.
createdDir(c, dp, s) ==
    IF c[s].type = "dir" THEN [c EXCEPT ![dp].nlink = @ + 1, ![s].nlink = 1]
    ELSE [c EXCEPT ![s].nlink = 1]

\* The dots of a new directory.
createdDots(d, n, parent, t) ==
    IF t = "dir" THEN dirlink(dirlink(d, n, ".", n), n, "..", parent) ELSE d

Create3(p) ==
    LET s == loc[p].ip
        dp == loc[p].dp
        c == createdDir(Locked(p, s), dp, s)
        n == c[s].inum
        d == createdDots(iupdate(iupdate(dinode, c, s), c, dp), n, c[dp].inum, c[s].type)
    IN
    /\ Running(p, "create3") /\ Free(s)
    /\ IF c[s].type = "free" THEN Panic("ilock: no type")
       ELSE Step(p, iunlock(c, dp), dirlink(d, c[dp].inum, loc[p].nm, n),
                    <<<<"iput", dp>>, <<"made", 0>>>>, [loc[p] EXCEPT !.dp = 0])

\* The inode create or open returned, locked: it goes into a file, unless
\* filealloc or fdalloc fails or the device has no driver; mkdir and mknod put it.
Made(p) ==
    LET s == loc[p].ip
        opens == /\ loc[p].k \in {"create", "open", "openw"}
                 /\ icache[s].type # "baddev"
                 /\ Len(ofiles[p]) < NOFILE
    IN
    /\ Running(p, "made")
    /\ icache' = iunlock(icache, s)
    /\ ofiles' = IF opens THEN [ofiles EXCEPT ![p] = Append(@, s)] ELSE ofiles
    /\ Then(p, IF opens THEN <<>> ELSE <<<<"iput", s>>>>, [loc[p] EXCEPT !.ip = 0])
    /\ UNCHANGED <<dinode, cwd, fspanic, nscalls>>

\* sys_open without O_CREATE; "openw" asks to write.
Open(p) ==
    LET s == loc[p].ip
        c == Locked(p, s)
    IN
    /\ Running(p, "open") \/ Running(p, "openw")
    /\ s # 0 /\ Free(s)
    /\ IF c[s].type = "free" THEN Panic("ilock: no type")
       ELSE IF c[s].type = "dir" /\ loc[p].k = "openw"
       THEN Iunlockput(p, c, s)
       ELSE Step(p, c, dinode,
                    <<<<"made", 0>>>>, loc[p])

----------------------------------------------------------------------------
(* link and chdir *)

\* The link is counted before its name exists, so that the inode cannot be
\* freed meanwhile.
Link1(p) ==
    LET s == loc[p].ip
        c == Locked(p, s)
        c1 == [c EXCEPT ![s].nlink = @ + 1]
    IN
    /\ Running(p, "link") /\ s # 0 /\ Free(s)
    /\ IF c[s].type = "free" THEN Panic("ilock: no type")
       ELSE IF c[s].type = "dir"
       THEN Iunlockput(p, c, s)
       ELSE Step(p, iunlock(c1, s), iupdate(dinode, c1, s),
                    <<<<"linkstart", 0>>, <<"link2", 0>>>>,
                    [loc[p] EXCEPT !.ip = 0, !.old = s])

LinkStart(p) ==
    LET path == loc[p].new
        s == NamexStart(p, path)
    IN
    /\ Running(p, "linkstart")
    /\ IF s = 0 THEN Panic("iget: no inodes")
       ELSE Step(p, NamexStarted(p, path), dinode,
                    Again(path.elems, TRUE),
                    [loc[p] EXCEPT !.ip = s, !.path = path.elems, !.par = TRUE])

\* dirlink looks the name up first, and puts what it found.
Link2(p) ==
    LET dp == loc[p].ip
        c == Locked(p, dp)
        n == dirlookup(dinode, c, dp, loc[p].nm)
        new == igetSlot(c, n)
    IN
    /\ Running(p, "link2") /\ dp # 0 /\ Free(dp)
    /\ IF c[dp].type # "dir" THEN Panic("dirlookup not DIR")
       ELSE IF n # 0 /\ new = 0 THEN Panic("iget: no inodes")
       ELSE IF n # 0
       THEN Step(p, iget(c, n), dinode,
                    <<<<"iput", new>>, <<"iunlockput", dp>>, <<"linkbad", 0>>>>,
                    [loc[p] EXCEPT !.ip = 0])
       ELSE Step(p, iunlock(c, dp), dirlink(dinode, c[dp].inum, loc[p].nm, c[loc[p].old].inum),
                    <<<<"iput", dp>>, <<"iput", loc[p].old>>>>,
                    [loc[p] EXCEPT !.ip = 0, !.old = 0])

linkUncounted_Keeps(c, s) == c

linkUncounted(c, s) == [c EXCEPT ![s].nlink = @ - 1]

LinkBad(p) ==
    LET s == loc[p].old
        c == linkUncounted(Locked(p, s), s)
    IN
    /\ Running(p, "linkbad") /\ Free(s)
    /\ Step(p, iunlock(c, s), iupdate(dinode, c, s),
            <<<<"iput", s>>>>, [loc[p] EXCEPT !.old = 0])

Chdir(p) ==
    LET s == loc[p].ip
        c == Locked(p, s)
        dir == c[s].type = "dir"
    IN
    /\ Running(p, "chdir") /\ s # 0 /\ Free(s)
    /\ IF c[s].type = "free" THEN Panic("ilock: no type")
       ELSE /\ icache' = iunlock(c, s)
            /\ cwd' = IF dir THEN [cwd EXCEPT ![p] = s] ELSE cwd
            /\ Then(p, <<<<"iput", IF dir THEN cwd[p] ELSE s>>>>,
                    [loc[p] EXCEPT !.ip = 0])
            /\ UNCHANGED <<dinode, ofiles, fspanic, nscalls>>

NsStep(p) ==
    \/ Iput(p) \/ IputFree(p) \/ IputDrop(p) \/ UnlockDir(p)
    \/ Namex(p) \/ NamexNoParent(p) \/ NotFound(p)
    \/ Unlink1(p) \/ Unlink2(p) \/ Unlink3(p)
    \/ Create1(p) \/ Create2(p) \/ Create3(p) \/ Made(p) \/ Open(p)
    \/ Link1(p) \/ LinkStart(p) \/ Link2(p) \/ LinkBad(p) \/ Chdir(p)

NsNext ==
    \E p \in Procs :
        \/ \E call \in Calls : Call(p, call)
        \/ Close(p) \/ Exit(p)
        \/ NsStep(p)

NsSpec == NsInit /\ [][NsNext]_nsVars

----------------------------------------------------------------------------
(* Properties *)

NsPanics == {"", "iget: no inodes", "ialloc: no inodes", "ilock: no type",
             "dirlookup not DIR", "unlink: nlink < 1", "sched locks"}

\* Link and reference counts stay natural numbers and every slot and every
\* inode a well-formed record.
NsTypeOK ==
    /\ dinode \in [Inums -> [type : Types, nlink : Nat, ents : [Names -> 0 .. NInodes]]]
    /\ icache \in [Slots -> [inum : 0 .. NInodes, ref : Nat, valid : BOOLEAN,
                             lock : {0} \cup Procs, type : Types, nlink : Nat]]
    /\ cwd \in [Procs -> 0 .. NINODE]
    /\ fspanic \in NsPanics

Ones(S, P(_)) == Cardinality({x \in S : P(x)})

\* The pointers to slot s that process p holds: its current directory, its
\* open files, its local variables and the iputs it has yet to do.
Pointers(p, s) ==
    (IF cwd[p] = s THEN 1 ELSE 0)
    + (IF loc[p].ip = s THEN 1 ELSE 0)
    + (IF loc[p].dp = s THEN 1 ELSE 0)
    + (IF loc[p].old = s THEN 1 ELSE 0)
    + Ones(1 .. Len(ofiles[p]), LAMBDA i : ofiles[p][i] = s)
    + Ones(1 .. Len(stack[p]), LAMBDA i :
            stack[p][i] \in {"iput", "iputdrop", "iunlockput"} \X {s})

\* ip->ref is the number of pointers to the slot, on every path of every call,
\* the failing ones included: a count too low frees an inode in use, a count
\* too high pins its slot for ever (fs.c 131-136).
RefsCounted ==
    \A s \in Slots :
        icache[s].ref = MapThenSumSet(LAMBDA p : Pointers(p, s), Procs)

\* A slot in use is the only one for its inode, and what it says of the inode,
\* when nobody has it locked, is what the disk says: a freed inode's number may
\* be allocated again while the old slot still has a reference (fs.c 350-357).
CacheCoherent ==
    \A s \in Slots : icache[s].ref > 0 =>
        /\ hits(icache, icache[s].inum) = {s}
        /\ icache[s].valid /\ icache[s].lock = 0 =>
              /\ icache[s].type = dinode[icache[s].inum].type
              /\ icache[s].nlink = dinode[icache[s].inum].nlink

\* The kernel panics only for want of a slot or of an inode, or on the ".." of
\* a removed directory: no call meets a freed inode any other way, unlink never
\* finds a count below 1, and the acquiresleep in iput, made with icache.lock
\* held, never has to wait (fs.c 341-343).
PanicsExplained ==
    CASE fspanic = "" -> TRUE
      [] fspanic = "iget: no inodes" -> empties(icache) = {}
      [] fspanic = "ialloc: no inodes" -> freeInums(dinode) = {}
      [] fspanic = "ilock: no type" -> \E p \in Procs : loc[p].stale
      [] OTHER -> FALSE

\* The slot whose lock the next step of p has to wait for, 0 if it has not.
Wants(p) ==
    IF stack[p] = <<>> THEN 0
    ELSE CASE Head(stack[p])[1] \in {"namex", "create2", "unlink2", "create3", "link2"}
                                    \cup {c.k : c \in Calls} -> loc[p].ip
           [] Head(stack[p])[1] = "linkbad" -> loc[p].old
           [] OTHER -> 0

\* A process that waits for the lock of an inode waits, in the end, for a
\* process that can run: nobody waits for itself or in a circle, although
\* unlink and create hold two inodes and paths go down as well as up by "..".
NoLockCycle ==
    LET holder(p) == IF Wants(p) = 0 THEN 0 ELSE icache[Wants(p)].lock
        next(S) == {holder(p) : p \in S} \ {0}
    IN \A p \in Procs : p \notin next({p}) /\ p \notin next(next({p}))

\* An entry of a directory names an inode that is allocated, except the ".."
\* of a directory that was removed.
EntriesLive ==
    \A n \in Inums, name \in Names :
        dinode[n].type = "dir" /\ dinode[n].ents[name] # 0 =>
            \/ dinode[dinode[n].ents[name]].type # "free"
            \/ name = ".." /\ Unnamed(dinode, n)

Quiet == fspanic = "" /\ \A p \in Procs : stack[p] = <<>>

\* The links to inode n: its names, the ".." of its subdirectories, and for
\* the root directory the one mkfs gave it.
Links(n) ==
    Ones(Inums \X FileNames, LAMBDA x : dinode[x[1]].ents[x[2]] = n)
    + Ones(Inums \ {n}, LAMBDA m : dinode[m].ents[".."] = n /\ ~Unnamed(dinode, m))
    + (IF n = ROOTINO THEN 1 ELSE 0)

\* Between calls the link count of every inode that has a name is the number
\* of its links, whatever links, unlinks and creations ran at the same time
\* and whichever of them failed.
LinksCounted ==
    Quiet => \A n \in Inums :
        dinode[n].type # "free" /\ ~Unnamed(dinode, n) => dinode[n].nlink = Links(n)

\* An allocated inode without links is held by somebody, who will free it: no
\* interleaving of iputs forgets it.
UnlinkedFreed ==
    \A n \in Inums :
        dinode[n].type # "free" /\ dinode[n].nlink = 0 => hits(icache, n) # {}

\* The inode cache is right, for its users and against the disk, through every
\* interleaving of namex, create, link, unlink and iput (fs.c 243-357).
InodesSound == NsTypeOK /\ RefsCounted /\ CacheCoherent /\ PanicsExplained

\* The tree on the disk is right: what directories name is allocated, and its
\* link count is the number of its names (sysfile.c 119-285).
TreeSound == EntriesLive /\ LinksCounted
=============================================================================
