--------------------------------- MODULE Grep ---------------------------------
(***************************************************************************)
(* user/grep.c: the regular-expression matcher, and the loop that reads    *)
(* input in pieces of any size into a bounded buffer, prints the whole     *)
(* lines that match and keeps the rest for the next read.                  *)
(***************************************************************************)
EXTENDS Integers, Sequences, SequencesExt, FiniteSetsExt

CONSTANTS
    GREPBUF,       \* sizeof(buf), 1024 in the code
    Patterns,      \* regular expressions, as sequences of characters
    GrepInputs     \* files

VARIABLES
    pattern,
    unread,        \* what read() has not returned yet
    gbuf,          \* buf[0 .. m-1]
    printed,       \* the lines written
    gdone          \* read() has returned 0

grepVars == <<pattern, unread, gbuf, printed, gdone>>

gchar(s, i) == IF i > Len(s) THEN "" ELSE s[i]
from(s, i) == SubSeq(s, i, Len(s))

\* matchhere(re, text) and matchstar(c, re, text)
RECURSIVE matchhere(_, _), matchstar(_, _, _)
matchhere(re, text) ==
    CASE re = <<>> -> TRUE
      [] gchar(re, 2) = "*" -> matchstar(re[1], from(re, 3), text)
      [] re = <<"$">> -> text = <<>>
      [] OTHER -> /\ text # <<>> /\ re[1] \in {".", text[1]}
                  /\ matchhere(Tail(re), Tail(text))
matchstar(c, re, text) ==
    \/ matchhere(re, text)
    \/ text # <<>> /\ c \in {".", text[1]} /\ matchstar(c, re, Tail(text))
match(re, text) ==
    IF gchar(re, 1) = "^" THEN matchhere(Tail(re), text)
    ELSE \E i \in 1 .. Len(text) + 1 : matchhere(re, from(text, i))

\* One round of the loop: a read() of n characters, the lines that are complete
\* now, and what is left of the buffer.
newlines(b) == {i \in 1 .. Len(b) : b[i] = "\n"}
lineEnds(b) == SetToSortSeq(newlines(b), <)
linesOf(b) == [k \in 1 .. Len(lineEnds(b)) |->
                 SubSeq(b, IF k = 1 THEN 1 ELSE lineEnds(b)[k - 1] + 1, lineEnds(b)[k] - 1)]
leftover_Dropped(b) == IF newlines(b) = {} THEN <<>> ELSE from(b, Max(newlines(b)) + 1)
leftover(b) == from(b, Max(newlines(b) \cup {0}) + 1)
grepRoom(m) == GREPBUF - m - 1
GrepRead(n) ==
    /\ ~gdone /\ n <= Len(unread) /\ n <= grepRoom(Len(gbuf))
    /\ LET b == gbuf \o SubSeq(unread, 1, n) IN
       /\ printed' = printed \o SelectSeq(linesOf(b), LAMBDA l : match(pattern, l))
       /\ gbuf' = leftover(b)
    /\ unread' = from(unread, n + 1)
    /\ UNCHANGED <<pattern, gdone>>
\* read() returns 0 at the end of the file, or when it is given no room.
GrepEnd ==
    /\ ~gdone
    /\ unread = <<>> \/ grepRoom(Len(gbuf)) = 0
    /\ gdone' = TRUE
    /\ UNCHANGED <<pattern, unread, gbuf, printed>>

GrepInit == /\ pattern \in Patterns /\ unread \in GrepInputs
            /\ gbuf = <<>> /\ printed = <<>> /\ gdone = FALSE
GrepNext == (\E n \in 1 .. GREPBUF : GrepRead(n)) \/ GrepEnd
GrepSpec == GrepInit /\ [][GrepNext]_grepVars

-----------------------------------------------------------------------------
(* The language of a pattern: a sequence of characters, each matching itself *)
(* or, for a dot, anything, once or, if starred, any number of times, between*)
(* anchors.  Ends gives the places where a match that starts at i can end.   *)
Starred(re, k) == gchar(re, k + 1) = "*"
Fits(c, text, i) == i <= Len(text) /\ c \in {".", text[i]}
RECURSIVE Ends(_, _, _, _)
Ends(re, k, text, at) ==
    IF k > Len(re) THEN at
    ELSE IF Starred(re, k)
         THEN Ends(re, k + 2, text,
                   {j \in 1 .. Len(text) + 1 :
                      \E i \in at : i <= j /\ \A x \in i .. j - 1 : Fits(re[k], text, x)})
    ELSE IF re[k] = "$" /\ k = Len(re) THEN at \cap {Len(text) + 1}
    ELSE Ends(re, k + 1, text, {i + 1 : i \in {x \in at : Fits(re[k], text, x)}})
InLanguage(re, text) ==
    IF gchar(re, 1) = "^" THEN Ends(Tail(re), 1, text, {1}) # {}
    ELSE Ends(re, 1, text, 1 .. Len(text) + 1) # {}

\* Type invariant: the buffer keeps room for the final NUL.
GrepTypeOK == /\ Len(gbuf) <= GREPBUF - 1
              /\ gdone \in BOOLEAN

\* The matcher accepts exactly the lines in which some part is in the language of
\* the pattern, for every pattern, an empty one and one of stars only included.
MatchesLanguage ==
    ~gdone => \A f \in GrepInputs : \A l \in ToSet(linesOf(f)) : match(pattern, l) <=> InLanguage(pattern, l)

\* However read() cuts the input, grep has printed the matching lines of what it
\* has read, in order and whole: a line split between two reads is not lost.
PrintsMatchingLines ==
    \E f \in GrepInputs :
       /\ \E i \in 0 .. Len(f) :
             /\ from(f, i + 1) = unread
             /\ printed = SelectSeq(linesOf(SubSeq(f, 1, i)), LAMBDA l : InLanguage(pattern, l))
       /\ gdone /\ (\A i \in 1 .. Len(f) - GREPBUF + 2 : \E j \in i .. i + GREPBUF - 2 : f[j] = "\n")
             => unread = <<>>

\* grep prints the lines in the pattern's language: its matcher and its buffer are
\* right together.
GrepRight == GrepTypeOK /\ MatchesLanguage /\ PrintsMatchingLines
===============================================================================
