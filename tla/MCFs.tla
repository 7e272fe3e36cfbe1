-------------------------------- MODULE MCFs --------------------------------
(***************************************************************************)
(* Small instances of the three parts of the file system above the log and *)
(* the buffer cache: names and inodes, open files, and blocks.  A behaviour *)
(* is one of one part, while the other two stay in a state of their own.   *)
(***************************************************************************)
EXTENDS Namespace, Files, Blocks

VARIABLE part

fsVars == <<nsVars, fileVars, blockVars, part>>

Ents(e) == [n \in Names |-> IF n \in DOMAIN e THEN e[n] ELSE 0]

Dir(self, parent, nlink, e) ==
    [type |-> "dir", nlink |-> nlink,
     ents |-> [Ents(e) EXCEPT !["."] = self, ![".."] = parent]]

File == [type |-> "file", nlink |-> 1, ents |-> NoEnts]
FreeInode == [type |-> "free", nlink |-> 0, ents |-> NoEnts]

\* What mkdir /a and then a file or a directory /a/b leave.
MCTrees ==
    {[dinode |-> [n \in Inums |->
                    CASE n = 1 -> Dir(1, 1, 2, [a |-> 2])
                      [] n = 2 -> Dir(2, 1, IF b = File THEN 1 ELSE 2, [b |-> 3])
                      [] n = 3 -> b
                      [] OTHER -> FreeInode],
      cwd |-> <<1, IF b = File THEN 2 ELSE 3>>] :
     b \in {File, Dir(3, 2, 1, <<>>)}}

P(abs, elems) == [abs |-> abs, elems |-> elems]
RootA == P(TRUE, <<"a">>)
RootB == P(TRUE, <<"b">>)
RootAB == P(TRUE, <<"a", "b">>)
RootAA == P(TRUE, <<"a", "a">>)
Up == P(FALSE, <<"..">>)
RelB == P(FALSE, <<"b">>)
Root == P(TRUE, <<>>)
C(k, path) == [k |-> k, path |-> path, new |-> Root]

MCCalls ==
    {C("create", RelB), C("create", RootAB), C("mkdir", RootAB), C("mkdir", RelB),
     C("mknod", RootB), C("mkbad", Root), C("open", RootAB), C("openw", RootA),
     C("unlink", RootAB), C("unlink", RootA), C("unlink", RootAA),
     C("chdir", Up), C("chdir", RootAB),
     [k |-> "link", path |-> RootAB, new |-> RootB],
     [k |-> "link", path |-> RootAB, new |-> RootAA],
     [k |-> "link", path |-> RootAB, new |-> RootA]}

NsBefore ==
    /\ dinode = [n \in Inums |-> FreeInode]
    /\ icache = [s \in Slots |-> EmptySlot]
    /\ cwd = [p \in Procs |-> 0]
    /\ ofiles = [p \in Procs |-> <<>>] /\ stack = [p \in Procs |-> <<>>]
    /\ loc = [p \in Procs |-> NoLoc]
    /\ fspanic = "" /\ nscalls = MaxNsCalls

BlocksBefore ==
    /\ bitmap = 0 .. nmeta - 1
    /\ block = [b \in 0 .. FSSIZE - 1 |-> Zeroes]
    /\ ino = [i \in Inodes3 |-> NoInode]
    /\ bop = [i \in Inodes3 |-> NoOp]
    /\ bytes = [i \in Inodes3 |-> <<>>]
    /\ bpanic = "" /\ bcalls = MaxBlockCalls

MCFsInit ==
    \/ part = "names" /\ NsInit /\ FilesInit /\ BlocksBefore
    \/ part = "files" /\ NsBefore /\ FilesInit /\ BlocksBefore
    \/ part = "blocks" /\ NsBefore /\ FilesInit /\ BlocksInit

MCFsNext ==
    \/ part = "names" /\ NsNext /\ UNCHANGED <<fileVars, blockVars, part>>
    \/ part = "files" /\ FilesNext /\ UNCHANGED <<nsVars, blockVars, part>>
    \/ part = "blocks" /\ BlocksNext /\ UNCHANGED <<nsVars, fileVars, part>>

MCFsSpec == MCFsInit /\ [][MCFsNext]_fsVars
=============================================================================
