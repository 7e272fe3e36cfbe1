-------------------------------- MODULE Programs ------------------------------
(***************************************************************************)
(* The user programs of Sh, Nsh and Tools at work: one of them is started  *)
(* with one input, and all the processes it forks run interleaved.         *)
(***************************************************************************)
EXTENDS Sh, Nsh, Tools

CONSTANTS
    ShInputs,      \* sequences of command lines for sh, as trees
    NshInputs,     \* command lines for nsh
    PrimesMax,     \* primes.c goes up to this number
    XargsInputs    \* files for xargs: sequences of lines of words

VARIABLE prog      \* the program started: kind and input

progVars == <<userVars, prog>>

Files0 == [f |-> <<"in1", "in2">>]
XargsWords == <<<<"k">>>>

\* The pipes of nsh and primes must hold what a process writes before it is read.
ProgInit ==
    \/ \E trees \in ShInputs :
          /\ prog = [kind |-> "sh", input |-> trees]
          /\ UserInit(shMain([i \in 1 .. Len(trees) |-> LineOf(trees[i])]), 1, Files0)
    \/ \E l \in NshInputs, gap \in {1, 2} :
          /\ prog = [kind |-> "nsh", input |-> l]
          /\ UserInit(nshMain(<<NshText(l, gap), NshText(l, gap)>>), 4, Files0)
    \/ /\ prog = [kind |-> "primes", input |-> PrimesMax]
       /\ UserInit(primesMain(PrimesMax), PrimesMax - 1, Files0)
    \/ /\ prog = [kind |-> "pingpong", input |-> 0]
       /\ UserInit(pingpongMain, 1, Files0)
    \/ \E lines \in XargsInputs, cmd \in {"echo", "missing"} :
          /\ prog = [kind |-> "xargs", input |-> lines, cmd |-> cmd]
          /\ UserInit(xargsMain(cmd, XargsWords, "f"), 1, [f |-> XargsText(lines)])

ProgStep(p) == \/ UClose(p) \/ UDup(p) \/ UPipe(p) \/ UOpen(p) \/ UFork(p) \/ fork1(p)
               \/ UWait(p) \/ UExit(p) \/ UExec(p) \/ UPut(p) \/ URead(p) \/ UPrompt(p)
               \/ UGiven(p) \/ UArg(p) \/ UReset(p)
ProgNext == (\E p \in Pids : ProgStep(p)) /\ UNCHANGED <<ucap, prog>>
ProgSpec == ProgInit /\ [][ProgNext]_progVars

-----------------------------------------------------------------------------
Running == {p \in Pids : ps[p].status = "run"}
Finished == Running = {}

\* Type invariant: pipes hold at most their capacity, no program runs out of
\* descriptors, and a running process always has code left, for every program ends
\* in exit().
ProgTypeOK ==
    /\ \A k \in 1 .. NPipes : Len(upipe[k]) <= ucap
    /\ \A p \in Running : ps[p].code # <<>> /\ lowest(ps[p].fds) # -1
    /\ \A p \in Pids : ps[p].status \in {"free", "run", "zombie"} /\ ps[p].parent \in Pids \cup {Orphanage}
    /\ ffails \in 0 .. MaxForkFails

\* No program hangs with all its processes waiting for each other: as long as a
\* process runs, some process can take a step.  A pipe end that a runcmd(), an
\* exec2pipe() or primes forgot to close would leave a reader without its end of
\* file.
NeverStuck == Running # {} => ENABLED ProgNext

MeantBy(t, cmd) == Meant(t, nulterminate(cmd), cmd)
\* The parser of sh.c gives back the command a line was written for, with every
\* word and file name whole, although words are terminated only after the parse.
ParsesBack ==
    prog.kind = "sh" /\ UAt(Main, "prompt") =>
       \A i \in 1 .. Len(prog.input) :
          MeantBy(LineOf(prog.input[i]), parsecmd(LineOf(prog.input[i]))) = prog.input[i]

HasBack(trees) == \E i \in 1 .. Len(trees) : "&" \in ToSet(LineOf(trees[i]))
Count(s, x) == Cardinality({i \in 1 .. Len(s) : s[i] = x})
SameItems(s, t) == \A x \in ToSet(s) \cup ToSet(t) : Count(s, x) = Count(t, x)
ShEffect == FoldLeft(LAMBDA r, c : LET n == Effect(c, <<>>, r.files)
                                   IN [out |-> r.out \o n.out, files |-> n.files],
                     [out |-> <<>>, files |-> Files0], prog.input)
\* What a finished program has put out is what its input means: the output of a
\* command line of sh (in any order if part of it ran in the background), of a line
\* of nsh blank lines aside, the primes, ping before pong, and for each line of its
\* input one command of xargs with the words of that line (and empty arguments where
\* an earlier line was longer).
OutputRight ==
    Finished /\ ffails = 0 =>
       CASE prog.kind = "sh" ->
              /\ IF HasBack(prog.input) THEN SameItems(shown, ShEffect.out) ELSE shown = ShEffect.out
              /\ ufile = ShEffect.files
         [] prog.kind = "nsh" ->
              LET out == NshResult(prog.input, Files0) IN
              IF prog.input.out = "" THEN NoBlanks(shown) = out \o out
              ELSE shown = <<>> /\ NoBlanks(ufile[prog.input.out]) = out
         [] prog.kind = "primes" -> shown = Primes(prog.input)
         [] prog.kind = "pingpong" -> shown = <<"ping", "pong">>
         [] prog.kind = "xargs" ->
              shown = IF prog.cmd = "echo" THEN XargsResult(XargsWords, prog.input) ELSE <<>>

\* When the program started is back at its prompt (or starts the next round of its
\* loop), every process of the previous line has ended and been waited for, except
\* those started in the background.
ForegroundDone ==
    UAt(Main, "prompt") /\ ffails = 0 => \A p \in Pids \ {Main} : ps[p].status = "free" \/ ps[p].bg

\* And it has only its three descriptors open: sh, nsh and primes close every pipe
\* end and file of the previous line, although nsh closes some numbers twice, after
\* they were given to another pipe.
DescriptorsBack ==
    UAt(Main, "prompt") => {fd \in 0 .. NFd - 1 : ps[Main].fds[fd] # Closed} = {0, 1, 2}

\* A command line does what it says: it is parsed back to the command it was
\* written for, and what the processes of runcmd() put out is its meaning.
MeaningKept == ParsesBack /\ OutputRight

\* A line leaves nothing behind: no process that waits for ever, no child of the
\* foreground that runs on at the next prompt, no open descriptor.
NothingLeftBehind == ProgTypeOK /\ NeverStuck /\ ForegroundDone /\ DescriptorsBack
===============================================================================
