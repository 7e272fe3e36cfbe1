--------------------------------- MODULE Tools --------------------------------
(***************************************************************************)
(* Three programs of user/ that use pipes, as programs of the machine of   *)
(* Userland: primes.c, pingpong.c and xargs.c.                             *)
(***************************************************************************)
EXTENDS Userland

\* primes.c up to max (35 in the code): all numbers go into a pipe, and each round
\* of the loop prints one and has a child copy the others it does not divide.  The
\* child then goes on with the loop itself.
primesNext ==
    <<<<"wait">>, <<"close", "in">>, <<"dup", "q0">>, <<"close", "q0">>, <<"close", "q1">>>>
primesFilter ==
    <<<<"close", "out">>, <<"dup", "q1">>, <<"close", "q0">>, <<"close", "q1">>,
      <<"while", "in", "x", <<<<"filter", "out", "x", "r">>>>>>>>
primesBody ==
    <<<<"prompt">>, <<"putv", "out", "r">>, <<"pipe", "q0", "q1">>,
      <<"forkRest", primesFilter, Len(primesNext)>>>> \o primesNext
primesMain(max) ==
    <<<<"pipe", "p0", "p1">>,
      <<"fork", [i \in 1 .. max - 1 |-> <<"put", "p1", i + 1>>]
                \o <<<<"close", "p0">>, <<"close", "p1">>, <<"exit">>>>>>,
      <<"wait">>, <<"close", "in">>, <<"dup", "p0">>, <<"close", "p0">>, <<"close", "p1">>,
      <<"while", "in", "r", primesBody>>,
      <<"exit">>>>
Primes(max) == SelectSeq([i \in 1 .. max - 1 |-> i + 1],
                         LAMBDA n : \A d \in 2 .. n - 1 : n % d # 0)

\* pingpong.c: both processes use both ends of one pipe.
pingpongEnd == <<<<"close", "p0">>, <<"close", "p1">>, <<"exit">>>>
pingpongParent == <<<<"put", "p1", "ping">>, <<"wait">>, <<"read", "p0", "x">>, <<"putv", "out", "x">>>>
pingpongMain ==
    <<<<"pipe", "p0", "p1">>,
      <<"fork", <<<<"read", "p0", "x">>, <<"putv", "out", "x">>, <<"put", "p1", "pong">>>> \o pingpongEnd>>>>
    \o pingpongParent \o pingpongEnd

-----------------------------------------------------------------------------
(* xargs.c: collects the words of a line, one character at a time, and runs  *)
(* its command with its own arguments and these.  The child of a failed      *)
(* exec() goes on with the loop.                                             *)
(*                                                                           *)
(* env["args"] is the array args[] up to its first null pointer, which is    *)
(* where exec() stops: the array lies on a stack that starts out as zeros.   *)
(* n words of it are the current line's.                                     *)

\* The words of the line are emptied and freed, and n is set back, but their
\* pointers stay in args[]; malloc() will hand out the same blocks in the same order.
emptied(env, orig) ==
    [env EXCEPT !["args"] = [i \in DOMAIN @ |-> IF i > orig THEN <<>> ELSE @[i]],
                !["n"] = orig, !["buf"] = <<>>]

\* argsPtr[n] = w
putArg(args, n, w) == IF n < Len(args) THEN [args EXCEPT ![n + 1] = w] ELSE Append(args, w)

\* The arguments xargs was given.
UGiven(p) ==
    /\ UAt(p, "given")
    /\ Becomes(p, [ps[p] EXCEPT !.env["args"] = instr(p)[2], !.env["n"] = Len(instr(p)[2])])
    /\ UNCHANGED <<upipe, ufile, uopen, shown, ffails>>
\* What a character does to buf and args; a newline then runs the command.
UArg(p) ==
    /\ UAt(p, "arg")
    /\ LET c == val(p, "x") IN
       ps' = [ps EXCEPT ![p].env["args"] = IF c \in {" ", "\n"} THEN putArg(@, val(p, "n"), val(p, "buf")) ELSE @,
                        ![p].env["n"] = IF c \in {" ", "\n"} THEN @ + 1 ELSE @,
                        ![p].env["buf"] = CASE c = " " -> <<>> [] c = "\n" -> @ [] OTHER -> Append(@, c),
                        ![p].code = (IF c = "\n"
                                     THEN <<<<"forkRest", <<<<"exec", instr(p)[3]>>>>, 2>>,
                                            <<"wait">>, <<"reset", instr(p)[2]>>>>
                                     ELSE <<>>) \o Tail(@)]
    /\ UNCHANGED <<upipe, ufile, uopen, shown, ffails>>
\* What the parent does once its command has ended.
UReset(p) ==
    /\ UAt(p, "reset")
    /\ Becomes(p, [ps[p] EXCEPT !.env = emptied(ps[p].env, instr(p)[2])])
    /\ UNCHANGED <<upipe, ufile, uopen, shown, ffails>>

\* xargs cmd words < file
xargsMain(cmd, words, file) ==
    <<<<"close", "in">>, <<"open", "fd", file, FALSE, TRUE>>, <<"given", words>>,
      <<"while", "in", "x", <<<<"arg", Len(words), cmd>>>>>>, <<"exit">>>>

\* A file of lines of words, and the arguments that xargs echo words passes for it:
\* its own, the line's, and an empty one for each word by which the longest line so
\* far was longer.
joined(ws) == FoldLeft(LAMBDA t, w : (IF t = <<>> THEN <<>> ELSE Append(t, " ")) \o w, <<>>, ws)
XargsText(lines) == FoldLeft(LAMBDA t, l : t \o joined(l) \o <<"\n">>, <<>>, lines)
longest(lines, i) == Max({Len(lines[j]) : j \in 1 .. i})
XargsResult(words, lines) ==
    [i \in 1 .. Len(lines) |->
        words \o lines[i] \o [j \in 1 .. longest(lines, i) - Len(lines[i]) |-> <<>>]]
===============================================================================
