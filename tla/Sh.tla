---------------------------------- MODULE Sh ----------------------------------
(***************************************************************************)
(* The shell, user/sh.c: the recursive-descent parser with its delayed NUL *)
(* termination of words, and runcmd() as a program of the machine of       *)
(* Userland.  A line is a sequence of characters, a word is one letter or  *)
(* more, and a parsed word is a pair of positions, as in the code.         *)
(***************************************************************************)
EXTENDS Userland

Whitespace == {" ", "\t", "\r", "\n", "vtab"}
Symbols == {"<", "|", ">", "&", ";", "(", ")"}
NUL == ""

\* A string is where it starts; it ends at the first NUL.
charAt(t, s) == IF s > Len(t) THEN NUL ELSE t[s]
firstNot(t, s, chars) == Min({i \in s .. Len(t) : t[i] \notin chars} \cup {Len(t) + 1})
skipSpace(t, s) == firstNot(t, s, Whitespace)
wordEnd(t, s) ==
    Min({i \in s .. Len(t) : t[i] \in Whitespace \cup Symbols} \cup {Len(t) + 1})

\* The token at q, and the place of the next one.
tokenKind(t, q) ==
    CASE charAt(t, q) = ">" /\ charAt(t, q + 1) = ">" -> "+"
      [] charAt(t, q) \in (Symbols \ {">"}) \cup {NUL} -> charAt(t, q)
      [] charAt(t, q) = ">" /\ charAt(t, q + 1) # ">" -> ">"
      [] OTHER -> "a"
tokenEnd(t, q, kind) == CASE kind = NUL -> q [] kind = "+" -> q + 2 [] kind \in Symbols -> q + 1
                          [] OTHER -> wordEnd(t, q)
tokenAt(q, eq, kind, next) == [tok |-> kind, q |-> q, eq |-> eq, s |-> next]
token(t, q, kind) == tokenAt(q, tokenEnd(t, q, kind), kind, skipSpace(t, tokenEnd(t, q, kind)))
gettoken(t, s) == token(t, skipSpace(t, s), tokenKind(t, skipSpace(t, s)))

peek(t, s, toks) == charAt(t, skipSpace(t, s)) \in toks

Syntax == [type |-> "panic"]
Result(cmd, s) == [cmd |-> cmd, s |-> s]
execcmd(argv) == [type |-> "EXEC", argv |-> argv]
redircmd(cmd, r) == [type |-> "REDIR", cmd |-> cmd, file |-> r.file, create |-> r.create, fd |-> r.fd]
pipecmd(l, r) == [type |-> "PIPE", left |-> l, right |-> r]
listcmd(l, r) == [type |-> "LIST", left |-> l, right |-> r]
backcmd(c) == [type |-> "BACK", cmd |-> c]

\* The redirections from s on, the innermost first; s = 0 stands for panic.
redirection(op, file) == [file |-> <<file.q, file.eq>>, create |-> op.tok # "<",
                          fd |-> IF op.tok = "<" THEN "in" ELSE "out"]
RECURSIVE parseredirs(_, _, _), redirTo(_, _, _, _)
parseredirs(redirs, t, s) ==
    IF peek(t, s, {"<", ">"}) THEN redirTo(redirs, t, gettoken(t, s), gettoken(t, gettoken(t, s).s))
    ELSE [redirs |-> redirs, s |-> s]
redirTo(redirs, t, op, file) ==
    IF file.tok # "a" THEN [redirs |-> <<>>, s |-> 0]
    ELSE parseredirs(Append(redirs, redirection(op, file)), t, file.s)
wrapped(cmd, redirs) == FoldLeft(redircmd, cmd, redirs)

\* The arguments and redirections of a simple command, d the redirections so far;
\* an argument is a word w.
MAXARGS == 10
RECURSIVE parseargs(_, _, _), argument(_, _, _, _)
parseargs(argv, t, d) ==
    IF d.s = 0 THEN Result(Syntax, 0)
    ELSE IF peek(t, d.s, {"|", ")", "&", ";", NUL}) THEN Result(wrapped(execcmd(argv), d.redirs), d.s)
    ELSE argument(argv, t, d, gettoken(t, d.s))
argument(argv, t, d, w) ==
    IF w.tok # "a" \/ Len(argv) + 1 >= MAXARGS THEN Result(Syntax, 0)
    ELSE parseargs(Append(argv, <<w.q, w.eq>>), t, parseredirs(d.redirs, t, w.s))

RECURSIVE backs(_, _)
backs(t, r) ==
    IF r.cmd # Syntax /\ peek(t, r.s, {"&"})
    THEN backs(t, Result(backcmd(r.cmd), gettoken(t, r.s).s)) ELSE r

listed(l, r) == IF r.cmd = Syntax THEN r ELSE Result(listcmd(l.cmd, r.cmd), r.s)
piped(l, r) == IF r.cmd = Syntax THEN r ELSE Result(pipecmd(l.cmd, r.cmd), r.s)
block(r, d) == IF d.s = 0 THEN Result(Syntax, 0) ELSE Result(wrapped(r.cmd, d.redirs), d.s)

RECURSIVE parseline(_, _), lineAfter(_, _), parsepipe(_, _), pipeAfter(_, _), parseexec(_, _), blockAfter(_, _)
parseline(t, s) == lineAfter(t, backs(t, parsepipe(t, s)))
lineAfter(t, l) ==
    IF l.cmd = Syntax \/ ~peek(t, l.s, {";"}) THEN l
    ELSE listed(l, parseline(t, gettoken(t, l.s).s))
parsepipe(t, s) == pipeAfter(t, parseexec(t, s))
pipeAfter(t, l) ==
    IF l.cmd = Syntax \/ ~peek(t, l.s, {"|"}) THEN l
    ELSE piped(l, parsepipe(t, gettoken(t, l.s).s))
\* parseexec(), with parseblock() for a command that starts with a parenthesis.
parseexec(t, s) ==
    IF peek(t, s, {"("}) THEN blockAfter(t, parseline(t, gettoken(t, s).s))
    ELSE parseargs(<<>>, t, parseredirs(<<>>, t, s))
blockAfter(t, r) ==
    IF r.cmd = Syntax \/ ~peek(t, r.s, {")"}) THEN Result(Syntax, 0)
    ELSE block(r, parseredirs(<<>>, t, gettoken(t, r.s).s))

\* parsecmd(): nothing may follow the line.
wholeLine(t, r) == IF r.cmd = Syntax \/ skipSpace(t, r.s) # Len(t) + 1 THEN Syntax ELSE r.cmd
parsecmd(t) == wholeLine(t, parseline(t, 1))

RECURSIVE nulterminate_NoFile(_)
nulterminate_NoFile(cmd) ==
    CASE cmd.type = "EXEC" -> {w[2] : w \in ToSet(cmd.argv)}
      [] cmd.type \in {"REDIR", "BACK"} -> nulterminate_NoFile(cmd.cmd)
      [] cmd.type \in {"PIPE", "LIST"} -> nulterminate_NoFile(cmd.left) \cup nulterminate_NoFile(cmd.right)
      [] OTHER -> {}
\* The positions that become NUL once the whole line is parsed.
RECURSIVE nulterminate(_)
nulterminate(cmd) ==
    CASE cmd.type = "EXEC" -> {w[2] : w \in ToSet(cmd.argv)}
      [] cmd.type = "REDIR" -> nulterminate(cmd.cmd) \cup {cmd.file[2]}
      [] cmd.type \in {"PIPE", "LIST"} -> nulterminate(cmd.left) \cup nulterminate(cmd.right)
      [] cmd.type = "BACK" -> nulterminate(cmd.cmd)
      [] OTHER -> {}
stringAt(t, nuls, q) == SubSeq(t, q, Min({i \in nuls : i >= q} \cup {Len(t) + 1}) - 1)
\* Every command and file has a name of one letter; other strings name nothing.
nameAt(t, nuls, w) ==
    LET x == stringAt(t, nuls, w[1]) IN IF Len(x) = 1 THEN x[1] ELSE "nothing"

-----------------------------------------------------------------------------
(* runcmd(): the code a process runs for a command.  Messages to descriptor  *)
(* 2 are left out.                                                           *)
Exits == <<<<"exit">>>>
inPipe_KeepsWriteEnd(side, code) ==
    IF side = "left"
    THEN <<<<"close", "out">>, <<"dup", "p1">>, <<"close", "p0">>, <<"close", "p1">>>> \o code
    ELSE <<<<"close", "in">>, <<"dup", "p0">>, <<"close", "p0">>>> \o code
inPipe(side, code) ==
    IF side = "left"
    THEN <<<<"close", "out">>, <<"dup", "p1">>, <<"close", "p0">>, <<"close", "p1">>>> \o code
    ELSE <<<<"close", "in">>, <<"dup", "p0">>, <<"close", "p0">>, <<"close", "p1">>>> \o code
afterPipe == <<<<"close", "p0">>, <<"close", "p1">>, <<"wait">>, <<"wait">>>>

RECURSIVE runcmd(_, _, _)
runcmd(t, nuls, cmd) ==
    CASE cmd.type = "EXEC" -> IF cmd.argv = <<>> THEN Exits
                              ELSE <<<<"exec", nameAt(t, nuls, cmd.argv[1])>>>> \o Exits
      [] cmd.type = "REDIR" ->
             <<<<"close", cmd.fd>>,
               <<"open", "fd", nameAt(t, nuls, cmd.file), cmd.create, TRUE>>>>
             \o runcmd(t, nuls, cmd.cmd)
      [] cmd.type = "LIST" -> <<<<"fork1", runcmd(t, nuls, cmd.left), FALSE>>, <<"wait">>>>
                              \o runcmd(t, nuls, cmd.right)
      [] cmd.type = "PIPE" ->
             <<<<"pipe", "p0", "p1">>,
               <<"fork1", inPipe("left", runcmd(t, nuls, cmd.left)), FALSE>>,
               <<"fork1", inPipe("right", runcmd(t, nuls, cmd.right)), FALSE>>>>
             \o afterPipe \o Exits
      [] cmd.type = "BACK" -> <<<<"fork1", runcmd(t, nuls, cmd.cmd), TRUE>>>> \o Exits
      [] OTHER -> Exits

\* One round of main(): the prompt, and a child that parses and runs the line.
shRun(t, cmd) == <<<<"prompt">>, <<"fork1", runcmd(t, nulterminate(cmd), cmd), FALSE>>, <<"wait">>>>
shRound(t) == shRun(t, parsecmd(t))
shMain(lines) == FoldLeft(LAMBDA code, t : code \o shRound(t), <<>>, lines) \o <<<<"prompt">>>> \o Exits

-----------------------------------------------------------------------------
(* What a line means: a tree <<"exec", words>>, <<"in", tree, file>>,        *)
(* <<"out", tree, file>>, <<"pipe", tree, tree>>, <<"list", tree, tree>> or  *)
(* <<"back", tree>>, how it is written, and what it puts out.                *)
Paren(x) == <<"(">> \o x \o <<")">>
RECURSIVE Written(_)
Written(c) ==
    LET op == c[1]
        part(x, ops) == IF x[1] \in ops THEN Written(x) ELSE Paren(Written(x))
    IN CASE op = "exec" -> FoldLeft(LAMBDA t, w : t \o <<w, " ">>, <<>>, c[2])
         [] op \in {"in", "out"} ->
                part(c[2], {"exec", "in", "out"}) \o <<IF op = "in" THEN "<" ELSE ">", c[3]>>
         [] op = "pipe" -> part(c[2], {"exec", "in", "out"}) \o <<" ", "|", " ">>
                           \o part(c[3], {"exec", "in", "out", "pipe"})
         [] op = "back" -> part(c[2], {"exec", "in", "out", "pipe", "back"}) \o <<"&">>
         [] op = "list" -> part(c[2], {"exec", "in", "out", "pipe", "back"}) \o <<";">>
                           \o Written(c[3])
LineOf(c) == Append(Written(c), "\n")

RECURSIVE Meant(_, _, _)
Meant(t, nuls, cmd) ==
    CASE cmd.type = "EXEC" -> <<"exec", [i \in 1 .. Len(cmd.argv) |-> nameAt(t, nuls, cmd.argv[i])]>>
      [] cmd.type = "REDIR" -> <<IF cmd.create THEN "out" ELSE "in",
                                 Meant(t, nuls, cmd.cmd), nameAt(t, nuls, cmd.file)>>
      [] cmd.type = "LIST" -> <<"list", Meant(t, nuls, cmd.left), Meant(t, nuls, cmd.right)>>
      [] cmd.type = "PIPE" -> <<"pipe", Meant(t, nuls, cmd.left), Meant(t, nuls, cmd.right)>>
      [] cmd.type = "BACK" -> <<"back", Meant(t, nuls, cmd.cmd)>>
      [] OTHER -> <<"syntax">>

\* [out, left, files]: what the command writes, what it leaves of its input, and
\* the files after it.
RECURSIVE Effect(_, _, _)
Effect(c, input, files) ==
    CASE c[1] = "exec" ->
           LET name == IF c[2] = <<>> THEN "" ELSE c[2][1] IN
           [out |-> CASE name = "e" -> <<"one", "two">> [] name = "c" -> input [] OTHER -> <<>>,
            left |-> IF name = "c" THEN <<>> ELSE input, files |-> files]
      [] c[1] = "in" ->
           IF c[3] \notin DOMAIN files THEN [out |-> <<>>, left |-> input, files |-> files]
           ELSE [Effect(c[2], files[c[3]], files) EXCEPT !.left = input]
      [] c[1] = "out" ->
           LET r == Effect(c[2], input, files @@ (c[3] :> <<>>))
               old == r.files[c[3]]
           IN [out |-> <<>>, left |-> r.left,
               files |-> [r.files EXCEPT ![c[3]] = r.out \o SubSeq(old, Len(r.out) + 1, Len(old))]]
      [] c[1] = "pipe" ->
           LET l == Effect(c[2], input, files)
           IN [Effect(c[3], l.out, l.files) EXCEPT !.left = l.left]
      [] c[1] = "list" ->
           LET l == Effect(c[2], input, files)
               r == Effect(c[3], l.left, l.files)
           IN [r EXCEPT !.out = l.out \o r.out]
      [] c[1] = "back" -> Effect(c[2], input, files)
===============================================================================
