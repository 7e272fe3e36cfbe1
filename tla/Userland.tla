------------------------------- MODULE Userland -------------------------------
(***************************************************************************)
(* A machine for user programs that work with processes, descriptors and   *)
(* pipes.  A program is a sequence of instructions, each a system call or  *)
(* a loop around one; the modules Sh, Nsh and Tools translate programs of  *)
(* user/ into such sequences.  Calls of different processes interleave.    *)
(* What the calls do is what the modules Proc, Pipe and Files say of the   *)
(* kernel: pipes are bounded queues, read() returns 0 when no write end is *)
(* open, write() fails when no read end is, wait() blocks while there are  *)
(* children and none is a zombie, exit() closes all descriptors.  A read() *)
(* or write() moves one item: a line, a number, or a character for xargs.  *)
(***************************************************************************)
EXTENDS Integers, Sequences, FiniteSets, FiniteSetsExt, SequencesExt

CONSTANTS
    NP,            \* processes
    NFd,           \* descriptors of a process
    NPipes,        \* pipes
    MaxForkFails   \* bound: calls of fork1() that fail

VARIABLES
    ps,       \* each process: status, parent, code, descriptors, variables
    upipe,    \* the items in each pipe
    ucap,     \* how many items a pipe holds
    ufile,    \* the items of each file
    uopen,    \* open files: name and offset
    shown,    \* what was written to the console
    ffails    \* failed forks

userVars == <<ps, upipe, ucap, ufile, uopen, shown, ffails>>

Pids == 1 .. NP
Main == 1                        \* the program the user started
Orphanage == 0                   \* init, the parent of orphans
Tty == <<"console", 0>>
Closed == <<"closed", 0>>

\* A process's variables: numbers of descriptors, a loop's item, xargs's words.
NoEnv == [v \in {"in", "out", "p0", "p1", "q0", "q1", "fd", "x", "r", "n", "buf", "args"} |->
             CASE v = "in" -> 0 [] v = "out" -> 1 [] v \in {"buf", "args"} -> <<>> [] OTHER -> -1]
NoProc == [status |-> "free", parent |-> Orphanage, code |-> <<>>, bg |-> FALSE,
           fds |-> [fd \in 0 .. NFd - 1 |-> Closed], env |-> NoEnv]

\* init opens the console as descriptors 0, 1 and 2 before it starts a program.
StdFds == [fd \in 0 .. NFd - 1 |-> IF fd <= 2 THEN Tty ELSE Closed]
UserInit(code, cap, files) ==
    /\ ps = [p \in Pids |-> IF p = Main
              THEN [NoProc EXCEPT !.status = "run", !.code = code, !.fds = StdFds]
              ELSE NoProc]
    /\ upipe = [k \in 1 .. NPipes |-> <<>>]
    /\ ucap = cap /\ ufile = files
    /\ uopen = <<>> /\ shown = <<>> /\ ffails = 0

-----------------------------------------------------------------------------
instr(p) == Head(ps[p].code)
UAt(p, op) == ps[p].status = "run" /\ instr(p)[1] = op
rest(p) == Tail(ps[p].code)
val(p, v) == ps[p].env[v]
Desc(p, v) == IF val(p, v) = -1 THEN Closed ELSE ps[p].fds[val(p, v)]
lowest(fds) == LET f == {fd \in 0 .. NFd - 1 : fds[fd] = Closed} IN IF f = {} THEN -1 ELSE Min(f)
OpenEnd(end) == \E p \in Pids, fd \in 0 .. NFd - 1 : ps[p].fds[fd] = end
Children(p) == {q \in Pids : ps[q].status # "free" /\ ps[q].parent = p}
Becomes(p, r) == ps' = [ps EXCEPT ![p] = [r EXCEPT !.code = Tail(@)]]
GoesOn(p, code) == ps' = [ps EXCEPT ![p].code = code]

UClose(p) ==
    /\ UAt(p, "close")
    /\ Becomes(p, IF Desc(p, instr(p)[2]) = Closed THEN ps[p]
                  ELSE [ps[p] EXCEPT !.fds[val(p, instr(p)[2])] = Closed])
    /\ UNCHANGED <<upipe, ufile, uopen, shown, ffails>>

\* dup() takes the lowest free descriptor.
UDup(p) ==
    /\ UAt(p, "dup")
    /\ LET fd == lowest(ps[p].fds) IN
       Becomes(p, IF fd = -1 \/ Desc(p, instr(p)[2]) = Closed THEN ps[p]
                  ELSE [ps[p] EXCEPT !.fds[fd] = Desc(p, instr(p)[2])])
    /\ UNCHANGED <<upipe, ufile, uopen, shown, ffails>>

UPipe(p) ==
    /\ UAt(p, "pipe")
    /\ LET k == Min({j \in 1 .. NPipes : ~OpenEnd(<<"read", j>>) /\ ~OpenEnd(<<"write", j>>)})
           a == lowest(ps[p].fds)
           b == IF a = -1 THEN -1 ELSE lowest([ps[p].fds EXCEPT ![a] = Tty])
       IN IF b = -1
          THEN Becomes(p, ps[p]) /\ UNCHANGED upipe
          ELSE /\ Becomes(p, [ps[p] EXCEPT !.fds[a] = <<"read", k>>, !.fds[b] = <<"write", k>>,
                                           !.env[instr(p)[2]] = a, !.env[instr(p)[3]] = b])
               /\ upipe' = [upipe EXCEPT ![k] = <<>>]
    /\ UNCHANGED <<ufile, uopen, shown, ffails>>

\* <<"open", variable, name, create, exit if it fails>>
UOpen(p) ==
    /\ UAt(p, "open")
    /\ LET name == instr(p)[3]
           fd == lowest(ps[p].fds)
       IN IF fd # -1 /\ (name \in DOMAIN ufile \/ instr(p)[4])
          THEN /\ Becomes(p, [ps[p] EXCEPT !.fds[fd] = <<"file", Len(uopen) + 1>>,
                                           !.env[instr(p)[2]] = fd])
               /\ uopen' = Append(uopen, [name |-> name, off |-> 0])
               /\ ufile' = ufile @@ (name :> <<>>)
          ELSE /\ GoesOn(p, IF instr(p)[5] THEN <<<<"exit">>>> ELSE rest(p))
               /\ UNCHANGED <<uopen, ufile>>
    /\ UNCHANGED <<upipe, shown, ffails>>

\* <<"fork", code of the child, in the background>>; <<"forkRest", code, n>>: the
\* child does code and then what follows its parent's next n instructions.
Forks(p, code, bg) ==
    LET q == Min({j \in Pids : ps[j].status = "free"}) IN
    ps' = [ps EXCEPT ![p].code = Tail(@),
                     ![q] = [ps[p] EXCEPT !.parent = p, !.code = code, !.bg = @ \/ bg]]
UFork(p) ==
    /\ \E j \in Pids : ps[j].status = "free"
    /\ \/ UAt(p, "fork") /\ Forks(p, instr(p)[2], FALSE)
       \/ UAt(p, "forkRest")
          /\ Forks(p, instr(p)[2] \o SubSeq(rest(p), instr(p)[3] + 1, Len(rest(p))), FALSE)
    /\ UNCHANGED <<upipe, ufile, uopen, shown, ffails>>
\* fork1() of sh.c exits when fork() fails.
fork1(p) ==
    /\ UAt(p, "fork1")
    /\ \/ /\ \E j \in Pids : ps[j].status = "free"
          /\ Forks(p, instr(p)[2], instr(p)[3])
          /\ UNCHANGED ffails
       \/ /\ ffails < MaxForkFails
          /\ ffails' = ffails + 1
          /\ GoesOn(p, <<<<"exit">>>>)
    /\ UNCHANGED <<upipe, ufile, uopen, shown>>

\* wait() takes any zombie; it returns -1 when there are no children.
UWait(p) ==
    /\ UAt(p, "wait")
    /\ \/ Children(p) = {} /\ Becomes(p, ps[p])
       \/ \E q \in Children(p) :
             /\ ps[q].status = "zombie"
             /\ ps' = [ps EXCEPT ![p].code = Tail(@), ![q] = NoProc]
    /\ UNCHANGED <<upipe, ufile, uopen, shown, ffails>>

\* exit(): init waits for orphans at once.
ExitOf(p, q) ==
    CASE q = p /\ ps[p].parent = Orphanage /\ p # Main -> NoProc
      [] q = p /\ (ps[p].parent # Orphanage \/ p = Main) ->
             [NoProc EXCEPT !.status = "zombie", !.parent = ps[p].parent, !.bg = ps[p].bg]
      [] q # p /\ ps[q].parent = p ->
             IF ps[q].status = "zombie" THEN NoProc ELSE [ps[q] EXCEPT !.parent = Orphanage]
      [] OTHER -> ps[q]
UExit(p) ==
    /\ UAt(p, "exit")
    /\ ps' = [q \in Pids |-> ExitOf(p, q)]
    /\ UNCHANGED <<upipe, ufile, uopen, shown, ffails>>

\* The commands on the disk: one that writes two lines, cat, which exits when it
\* cannot write, and echo of the arguments xargs passes.
Commands == [e |-> <<<<"put", "out", "one">>, <<"put", "out", "two">>, <<"exit">>>>,
             c |-> <<<<"while", "in", "x", <<<<"putx", "out", "x">>>>>>, <<"exit">>>>,
             echo |-> <<<<"putv", "out", "args">>, <<"exit">>>>]

\* exec() goes on with the next instruction if there is no such command.
UExec(p) ==
    /\ UAt(p, "exec")
    /\ IF instr(p)[2] \in DOMAIN Commands
       THEN ps' = [ps EXCEPT ![p].code = Commands[instr(p)[2]],
                             ![p].env = [NoEnv EXCEPT !["args"] = val(p, "args")]]
       ELSE GoesOn(p, rest(p))
    /\ UNCHANGED <<upipe, ufile, uopen, shown, ffails>>

\* write() of item v to descriptor d, and the code that follows it.
Writes(p, d, v, then, failed) ==
    CASE d = Tty ->
           /\ shown' = Append(shown, v)
           /\ GoesOn(p, then) /\ UNCHANGED <<upipe, ufile, uopen>>
      [] d[1] = "file" ->
           /\ LET o == uopen[d[2]] IN
              ufile' = [ufile EXCEPT ![o.name] =
                           SubSeq(@, 1, o.off) \o <<v>> \o SubSeq(@, o.off + 2, Len(@))]
           /\ uopen' = [uopen EXCEPT ![d[2]].off = @ + 1]
           /\ GoesOn(p, then) /\ UNCHANGED <<upipe, shown>>
      [] d[1] = "write" /\ OpenEnd(<<"read", d[2]>>) ->
           /\ Len(upipe[d[2]]) < ucap
           /\ upipe' = [upipe EXCEPT ![d[2]] = Append(@, v)]
           /\ GoesOn(p, then) /\ UNCHANGED <<ufile, uopen, shown>>
      [] OTHER -> GoesOn(p, failed) /\ UNCHANGED <<upipe, ufile, uopen, shown>>

\* <<"put", fd, item>>; of a variable, <<"putx", fd, v>>, which exits when the
\* write fails, and <<"putv", fd, v>>; <<"filter", fd, v, r>> writes v unless the
\* number r divides it.
UPut(p) ==
    /\ LET d == Desc(p, instr(p)[2])
           v == instr(p)[3]
       IN \/ UAt(p, "put") /\ Writes(p, d, v, rest(p), rest(p))
          \/ UAt(p, "putx") /\ Writes(p, d, val(p, v), rest(p), <<<<"exit">>>>)
          \/ UAt(p, "putv") /\ Writes(p, d, val(p, v), rest(p), rest(p))
          \/ /\ UAt(p, "filter")
             /\ IF val(p, v) % val(p, instr(p)[4]) > 0
                THEN Writes(p, d, val(p, v), rest(p), rest(p))
                ELSE GoesOn(p, rest(p)) /\ UNCHANGED <<upipe, ufile, uopen, shown>>
    /\ UNCHANGED ffails

\* <<"while", fd, v, body>>: while(read(fd, &v) > 0) body; <<"read", fd, v>> reads
\* once.  The console is at its end of file.
URead(p) ==
    /\ UAt(p, "while") \/ UAt(p, "read")
    /\ LET d == Desc(p, instr(p)[2])
           code == IF UAt(p, "while") THEN instr(p)[4] \o ps[p].code ELSE rest(p)
           got(x) == [ps EXCEPT ![p].code = code, ![p].env[instr(p)[3]] = x]
       IN CASE d[1] = "read" /\ upipe[d[2]] # <<>> ->
                 /\ ps' = got(Head(upipe[d[2]]))
                 /\ upipe' = [upipe EXCEPT ![d[2]] = Tail(@)]
                 /\ UNCHANGED uopen
            [] d[1] = "file" /\ uopen[d[2]].off < Len(ufile[uopen[d[2]].name]) ->
                 /\ ps' = got(ufile[uopen[d[2]].name][uopen[d[2]].off + 1])
                 /\ uopen' = [uopen EXCEPT ![d[2]].off = @ + 1]
                 /\ UNCHANGED upipe
            [] OTHER -> /\ d[1] = "read" => ~OpenEnd(<<"write", d[2]>>)
                        /\ GoesOn(p, rest(p))
                        /\ UNCHANGED <<upipe, uopen>>
    /\ UNCHANGED <<ufile, shown, ffails>>

\* A prompt, or another point where a program has its own descriptors back.
UPrompt(p) ==
    /\ UAt(p, "prompt")
    /\ GoesOn(p, rest(p))
    /\ UNCHANGED <<upipe, ufile, uopen, shown, ffails>>
===============================================================================
