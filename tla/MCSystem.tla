------------------------------ MODULE MCSystem ------------------------------
(***************************************************************************)
(* Components that share no state with each other, checked side by side: a *)
(* behaviour is of one of them, the others stay in an initial state.       *)
(***************************************************************************)
EXTENDS Uvm, Buddy, Umalloc, Programs, Grep, Names

VARIABLE part   \* the component that runs

-----------------------------------------------------------------------------
(* Programs for exec(): no header; one segment; two segments and long        *)
(* arguments; overlapping segments, the second unaligned; an unreadable      *)
(* segment; memsz < filesz.                                                  *)
Seg(v, m, f, r) == [vaddr |-> v, memsz |-> m, filesz |-> f, reads |-> r]
Elf(h, s, a) == [header |-> h, segs |-> s, args |-> a]
MCPrograms ==
    {Elf(FALSE, <<>>, TRUE), Elf(TRUE, <<Seg(0, 3, 3, TRUE)>>, TRUE),
     Elf(TRUE, <<Seg(0, 2, 1, TRUE), Seg(2, 1, 1, TRUE)>>, FALSE),
     Elf(TRUE, <<Seg(0, 2, 2, TRUE), Seg(1, 2, 1, TRUE)>>, TRUE),
     Elf(TRUE, <<Seg(0, 2, 2, FALSE)>>, TRUE), Elf(TRUE, <<Seg(0, 1, 2, TRUE)>>, TRUE)}
MCSbrk == {-5, -3, -1, 0, 1, 3}

(* Lines for sh: simple commands, lists, pipes, background, and nestings that *)
(* need parentheses.  u is no command, m no file.                            *)
E == <<"exec", <<"e">>>>
C == <<"exec", <<"c">>>>
Simple == {E, C, <<"exec", <<"e", "f">>>>, <<"exec", <<"u">>>>, <<"exec", <<>>>>,
           <<"in", C, "f">>, <<"in", C, "m">>, <<"out", E, "f">>, <<"out", <<"out", E, "f">>, "g">>,
           <<"out", <<"in", C, "f">>, "g">>}
MCShInputs ==
    {<<a>> : a \in Simple \cup {<<"list", a, b>> : a, b \in Simple}}
    \cup {<<<<"pipe", a, b>>>> : a \in Simple, b \in {E, C, <<"out", C, "g">>, <<"exec", <<"u">>>>}}
    \cup {<<<<"back", a>>, E>> : a \in {E, <<"pipe", E, C>>}}
    \cup {<<a>> : a \in {<<"pipe", E, <<"pipe", C, C>>>>, <<"pipe", <<"pipe", E, C>>, C>>,
                         <<"pipe", <<"list", E, C>>, C>>, <<"pipe", E, <<"list", C, C>>>>,
                         <<"out", <<"pipe", E, C>>, "g">>, <<"in", <<"list", C, E>>, "f">>,
                         <<"list", <<"back", E>>, <<"pipe", E, C>>>>, <<"pipe", <<"back", E>>, C>>,
                         <<"list", <<"list", E, <<"in", C, "f">>>>, E>>}}
MCNshInputs == [cmd : {"e", "c"}, in : {"", "f"}, cmd2 : {"", "e", "c"}, out : {"", "g"}]
MCXargsInputs == {<<<<<<"w">>, <<"z", "w">>>>, <<<<"z">>>>>>, <<<<<<"w">>>>>>}

\* Patterns of up to three characters; lines short, empty, unfinished and too long.
MCPatterns == UNION {[1 .. k -> {"a", ".", "*", "^", "$"}] : k \in 0 .. 3}
MCGrepInputs == {<<"a", "b", "\n", "\n", "b", "a", "\n", "a", "a">>,
                 <<"b", "b", "b", "b", "b", "\n", "a", "\n">>}

-----------------------------------------------------------------------------
Parts == {"uvm", "buddy", "umalloc", "programs", "grep", "names"}
\* Before userinit(): no process.
UvmBefore ==
    /\ freelist = PageNos /\ image = [p \in Procs |-> Unused] /\ panic = "" /\ hist = NoHist
    /\ uvmret = [call |-> "", proc |-> InitProc, ret |-> 0] /\ ncalls = 0
ProgramsBefore == /\ prog = [kind |-> "sh", input |-> <<>>]
                  /\ ps = [p \in Pids |-> NoProc]
                  /\ upipe = [k \in 1 .. NPipes |-> <<>>] /\ ucap = 1 /\ ufile = Files0
                  /\ uopen = <<>> /\ shown = <<>> /\ ffails = 0
GrepBefore == /\ pattern = <<"x">> /\ unread = <<>> /\ gbuf = <<>> /\ printed = <<>> /\ gdone = TRUE
NamesBefore == /\ whole = <<>> /\ path = <<>> /\ elems = <<>> /\ move = <<1, 1, 0>>
               /\ name = [i \in 1 .. DIRSIZ |-> NUL0]

MCInit ==
    /\ part \in Parts
    /\ IF part = "uvm" THEN UvmInit ELSE UvmBefore
    /\ BuddyInit
    /\ part # "buddy" => bdMeta = Min(MetaSizes) /\ bdEnd = Heap - Min(Unavailables)
    /\ UmInit
    /\ IF part = "programs" THEN ProgInit ELSE ProgramsBefore
    /\ IF part = "grep" THEN GrepInit ELSE GrepBefore
    /\ IF part = "names" THEN NamesInit ELSE NamesBefore

MCNext ==
    \/ part = "uvm" /\ UvmNext /\ UNCHANGED <<part, bdVars, umVars, progVars, grepVars, nameVars>>
    \/ part = "buddy" /\ BuddyNext /\ UNCHANGED <<part, uvmVars, umVars, progVars, grepVars, nameVars>>
    \/ part = "umalloc" /\ UmNext /\ UNCHANGED <<part, uvmVars, bdVars, progVars, grepVars, nameVars>>
    \/ part = "programs" /\ ProgNext /\ UNCHANGED <<part, uvmVars, bdVars, umVars, grepVars, nameVars>>
    \/ part = "grep" /\ GrepNext /\ UNCHANGED <<part, uvmVars, bdVars, umVars, progVars, nameVars>>
    \/ part = "names" /\ NamesNext /\ UNCHANGED <<part, uvmVars, bdVars, umVars, progVars, grepVars>>

MCSpec == MCInit /\ [][MCNext]_<<part, uvmVars, bdVars, umVars, progVars, grepVars, nameVars>>
=============================================================================
