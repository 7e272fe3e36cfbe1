---------------------------------- MODULE Nsh ---------------------------------
(***************************************************************************)
(* The second shell, user/nsh.c, as a program of the machine of Userland:  *)
(* main() scans a line and runs it piece by piece, always leaving the      *)
(* output so far in the pipe p, and exec2pipe() runs one command into p.   *)
(* It waits for a command before anything reads the command's pipe, so its *)
(* pipes must hold all the output of a command.  A word is named by its    *)
(* first letter, and words and symbols are separated by spaces.            *)
(***************************************************************************)
EXTENDS Userland

Blank == "blank"       \* printf("%s\n", buf) of a line that has its newline

\* Copies the lines of descriptor 0 to descriptor 1, each with a blank line after it.
copyLines == <<<<"while", "in", "x", <<<<"putv", "out", "x">>, <<"put", "out", Blank>>>>>>, <<"exit">>>>

toPipe == <<<<"close", "out">>, <<"dup", "p1">>, <<"close", "p0">>, <<"close", "p1">>>>

\* exec2pipe(p, args, type, n); cmd is args[0], file is args[n-1].
exec2pipeRedirO(cmd) ==
    <<<<"pipe", "p0", "p1">>, <<"fork", toPipe \o <<<<"exec", cmd>>>>>>, <<"wait">>, <<"close", "p1">>>>
exec2pipeRedirI(cmd, file) ==
    <<<<"open", "fd", file, FALSE, FALSE>>, <<"pipe", "p0", "p1">>,
      <<"fork", <<<<"close", "in">>, <<"dup", "fd">>>> \o toPipe \o <<<<"exec", cmd>>>>>>,
      <<"wait">>, <<"close", "p1">>, <<"close", "fd">>>>
exec2pipePipe(cmd) ==
    <<<<"pipe", "q0", "q1">>,
      <<"fork", <<<<"close", "in">>, <<"dup", "p0">>, <<"close", "out">>, <<"dup", "q1">>,
                  <<"close", "p0">>, <<"close", "p1">>, <<"close", "q0">>, <<"close", "q1">>,
                  <<"exec", cmd>>>>>>,
      <<"wait">>, <<"close", "p0">>, <<"close", "q1">>,
      <<"pipe", "p0", "p1">>,
      <<"fork", <<<<"close", "in">>, <<"dup", "q0">>>> \o toPipe
                \o <<<<"close", "q0">>, <<"close", "q1">>>> \o copyLines>>,
      <<"wait">>, <<"close", "p1">>, <<"close", "q0">>, <<"close", "q1">>>>

\* The pipe's contents go to a file, or to the console.
pipeToFile(file) ==
    <<<<"fork", <<<<"close", "in">>, <<"dup", "p0">>, <<"close", "out">>, <<"dup", "fd">>,
                  <<"close", "p0">>, <<"close", "p1">>>> \o copyLines>>,
      <<"wait">>, <<"close", "fd">>, <<"close", "p0">>, <<"close", "p1">>>>
pipeToTty ==
    <<<<"fork", <<<<"close", "in">>, <<"dup", "p0">>, <<"close", "p0">>, <<"close", "p1">>>> \o copyLines>>,
      <<"wait">>, <<"close", "p0">>, <<"close", "p1">>>>

-----------------------------------------------------------------------------
(* main()'s loop over a line.  st: prev and flag classify what was read, the *)
(* words so far, whether the pipe holds output, and the code run so far.     *)
nsAt(buf, i) == IF i > Len(buf) THEN "" ELSE buf[i]
wordAfter(buf, i) == Min({j \in i + 1 .. Len(buf) : buf[j] # " "} \cup {Len(buf) + 1})
endOfWord(buf, i) == Min({j \in i .. Len(buf) : buf[j] = " "} \cup {Len(buf) + 1})

\* The space that follows a symbol takes the next word and runs what it can.
redirO(st, w) ==
    [st EXCEPT !.flag = "DONE", !.out = FALSE,
               !.code = @ \o <<<<"open", "fd", w, TRUE, FALSE>>>>
                          \o (IF st.out THEN <<>> ELSE exec2pipeRedirO(st.words[1])) \o pipeToFile(w)]
redirI(st, w) ==
    [st EXCEPT !.flag = "DONE", !.out = TRUE, !.words = Append(@, w),
               !.code = @ \o exec2pipeRedirI(st.words[1], w)]
pipeTo(st, w) ==
    [st EXCEPT !.flag = "PIPE_2", !.out = TRUE, !.words = <<w>>,
               !.code = @ \o (IF st.out THEN <<>> ELSE exec2pipeRedirO(st.words[1]))]

RECURSIVE nshScan(_, _, _)
nshScan(buf, i, st) ==
    LET c == nsAt(buf, i)
        j == wordAfter(buf, i)
        k == endOfWord(buf, j)
        spaced == [st EXCEPT !.prev = "SPACE"]
    IN CASE c = "" -> st
         [] c = " " -> CASE st.prev = "SPACE" -> nshScan(buf, i + 1, st)
                         [] st.prev # "SPACE" /\ st.flag = "REDIR_O" -> nshScan(buf, k + 1, redirO(spaced, buf[j]))
                         [] st.prev # "SPACE" /\ st.flag = "REDIR_I" -> nshScan(buf, k + 1, redirI(spaced, buf[j]))
                         [] st.prev # "SPACE" /\ st.flag = "PIPE" -> nshScan(buf, k + 1, pipeTo(spaced, buf[j]))
                         [] OTHER -> nshScan(buf, i + 1, spaced)
         [] c = "|" -> nshScan(buf, i + 1, [st EXCEPT !.prev = "PIPE", !.flag = "PIPE"])
         [] c = "<" -> nshScan(buf, i + 1, [st EXCEPT !.prev = "REDIR_I", !.flag = "REDIR_I"])
         [] c = ">" -> nshScan(buf, i + 1,
                         [st EXCEPT !.prev = "REDIR_O", !.flag = "REDIR_O",
                                    !.code = IF st.flag = "PIPE_2" THEN @ \o exec2pipePipe(st.words[1]) ELSE @])
         [] OTHER -> nshScan(buf, i + 1,
                         IF st.prev = "CHAR" THEN st
                         ELSE [st EXCEPT !.prev = "CHAR", !.words = Append(@, c)])

\* One round of main(): the scan, and what remains to be done at the line's end.
nshRound(buf) ==
    LET st == nshScan(buf, 1, [prev |-> "START", flag |-> "START", words |-> <<>>,
                               out |-> FALSE, code |-> <<>>])
    IN <<<<"prompt">>>> \o st.code
       \o CASE st.prev = "CHAR" /\ st.flag = "START" -> <<<<"fork", <<<<"exec", st.words[1]>>>>>>, <<"wait">>>>
            [] st.out -> (IF st.flag = "PIPE_2" THEN exec2pipePipe(st.words[1]) ELSE <<>>) \o pipeToTty
            [] OTHER -> <<>>
nshMain(lines) == FoldLeft(LAMBDA code, t : code \o nshRound(t), <<>>, lines)
                  \o <<<<"prompt">>, <<"exit">>>>

-----------------------------------------------------------------------------
(* The lines nsh is written for: cmd [< in] [| cmd2] [> out], with one space *)
(* or more between words; what such a line is to put out, blank lines aside. *)
NshText(l, gap) ==
    LET sp == [i \in 1 .. gap |-> " "] IN
    <<l.cmd>> \o (IF l.in = "" THEN <<>> ELSE sp \o <<"<">> \o sp \o <<l.in>>)
              \o (IF l.cmd2 = "" THEN <<>> ELSE sp \o <<"|">> \o sp \o <<l.cmd2>>)
              \o (IF l.out = "" THEN <<>> ELSE sp \o <<">">> \o sp \o <<l.out>>)
NshResult(l, files) ==
    LET run(cmd, input) == CASE cmd = "e" -> <<"one", "two">> [] cmd = "c" -> input
        first == run(l.cmd, IF l.in = "" THEN <<>> ELSE files[l.in])
    IN IF l.cmd2 = "" THEN first ELSE run(l.cmd2, first)
NoBlanks(s) == SelectSeq(s, LAMBDA x : x # Blank)
===============================================================================
