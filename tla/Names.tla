--------------------------------- MODULE Names --------------------------------
(***************************************************************************)
(* Names as bytes: skipelem() of fs.c over a path, with its name buffer of *)
(* DIRSIZ bytes that is not always terminated and keeps bytes of the name  *)
(* before; strncpy() and strncmp() of string.c, with which dirlink() and   *)
(* namecmp() store and compare names; and memmove(), of the kernel and of  *)
(* the user library, in one memory.                                        *)
(***************************************************************************)
EXTENDS Integers, Sequences, SequencesExt, FiniteSetsExt

CONSTANTS
    DIRSIZ,        \* bytes of a name in a directory, 14 in the code
    NameChars,     \* characters of names
    MaxPath,       \* bound: characters of a path
    MemSize        \* bound: bytes of the memory of memmove()

VARIABLES
    path,          \* the rest of the path
    name,          \* namex()'s name buffer
    elems,         \* what name was after each step
    whole,         \* the path at the start
    move           \* arguments of a memmove(): destination, source, length

nameVars == <<path, name, elems, whole, move>>

NUL0 == 0
Slash == 1
chr(s, i) == IF i > Len(s) THEN NUL0 ELSE s[i]
suffix(s, i) == SubSeq(s, i, Len(s))
slashes(s) == Min({i \in 1 .. Len(s) : s[i] # Slash} \cup {Len(s) + 1}) - 1
elemLen(s) == Min({i \in 1 .. Len(s) : s[i] = Slash} \cup {Len(s) + 1}) - 1

\* The name buffer after the element s, len bytes long, is copied into it.
copied_NoNul(n, s, len) == [i \in 1 .. DIRSIZ |-> IF i <= len THEN s[i] ELSE n[i]]
copied(n, s, len) ==
    [i \in 1 .. DIRSIZ |-> CASE i <= len -> s[i] [] i = len + 1 -> NUL0 [] OTHER -> n[i]]

\* The path after an element and the slashes behind it.
afterElem(s) == suffix(s, slashes(s) + 1)

\* skipelem(path, name), called by namex() until it returns 0.
skipelem ==
    /\ suffix(path, slashes(path) + 1) # <<>>
    /\ LET s == suffix(path, slashes(path) + 1)
           len == elemLen(s)
       IN /\ name' = copied(name, s, len)
          /\ path' = afterElem(suffix(s, len + 1))
    /\ elems' = Append(elems, name')
    /\ UNCHANGED <<whole, move>>

\* strncpy(s, t, n): the n bytes written, and strncmp(p, q, n) = 0, of strings that
\* end at a NUL or at the end of their buffer.
strncpy(t, n) ==
    LET end == Min({i \in 1 .. n : chr(t, i) = NUL0} \cup {n})
    IN [i \in 1 .. n |-> IF i <= end THEN chr(t, i) ELSE NUL0]
strncmpEqual(p, q, n) ==
    LET stop == Min({i \in 1 .. n : chr(p, i) = NUL0 \/ chr(p, i) # chr(q, i)} \cup {n + 1})
    IN stop = n + 1 \/ chr(p, stop) = chr(q, stop)

-----------------------------------------------------------------------------
(* memmove() in a memory of cells, byte by byte, upwards or downwards.       *)
up(m, d, s, n) == FoldLeft(LAMBDA x, i : [x EXCEPT ![d + i - 1] = x[s + i - 1]], m, [i \in 1 .. n |-> i])
down(m, d, s, n) == FoldLeft(LAMBDA x, i : [x EXCEPT ![d + i - 1] = x[s + i - 1]], m,
                             [i \in 1 .. n |-> n + 1 - i])
memmove(m, d, s, n) == IF s < d /\ s + n > d THEN down(m, d, s, n) ELSE up(m, d, s, n)
umemmove(m, d, s, n) == IF s > d THEN up(m, d, s, n) ELSE down(m, d, s, n)

NamesInit == /\ whole \in UNION {[1 .. k -> NameChars \cup {Slash}] : k \in 0 .. MaxPath}
             /\ path = whole /\ elems = <<>>
             /\ name \in [1 .. DIRSIZ -> {NUL0} \cup NameChars]      \* a stack buffer
             /\ move \in IF whole = <<>>
                        THEN {c \in (1 .. MemSize) \X (1 .. MemSize) \X (0 .. MemSize) :
                                c[1] + c[3] <= MemSize + 1 /\ c[2] + c[3] <= MemSize + 1}
                        ELSE {<<1, 1, 0>>}
NamesNext == skipelem
NamesSpec == NamesInit /\ [][NamesNext]_nameVars

-----------------------------------------------------------------------------
\* The components of a path, cut to DIRSIZ bytes.
Components(s) ==
    LET starts == {i \in 1 .. Len(s) : s[i] # Slash /\ (i = 1 \/ s[i - 1] = Slash)}
        end(i) == Min({j \in i .. Len(s) : s[j] = Slash} \cup {Len(s) + 1}) - 1
        cut(i) == SubSeq(s, i, Min({end(i), i + DIRSIZ - 1}))
        order == SetToSortSeq(starts, <)
    IN [k \in 1 .. Len(order) |-> cut(order[k])]
StringIn(b) == SubSeq(b, 1, Min({i \in 1 .. Len(b) : b[i] = NUL0} \cup {Len(b) + 1}) - 1)

\* Type invariant: the path has no leading slash after the first step, so that
\* namex() can tell the last element, and the buffer has DIRSIZ bytes.
NamesTypeOK == /\ Len(name) = DIRSIZ
               /\ elems # <<>> => chr(path, 1) # Slash

\* The names a path is walked by are its components, whatever was in the buffer
\* before, and namex() sees an empty rest exactly at the last one.
WalksComponents ==
    LET c == Components(whole)
        n == Len(elems)
    IN /\ \A k \in 1 .. n : StringIn(elems[k]) = c[k]
       /\ n > 0 => (path = <<>> <=> n = Len(c))

\* A name stored by dirlink() and one looked up by namecmp() are the same exactly
\* if they agree in their first DIRSIZ bytes; names of DIRSIZ bytes have no NUL.
StoredNamesFound ==
    \A i, j \in 1 .. Len(elems) :
       strncmpEqual(elems[j], strncpy(elems[i], DIRSIZ), DIRSIZ)
          <=> Components(whole)[i] = Components(whole)[j]

\* Both memmove()s copy what was in the source before, for every overlap.
MemmoveExact ==
    LET d == move[1]
        s == move[2]
        n == move[3]
        m == [i \in 1 .. MemSize |-> i]
        moved == [i \in 1 .. MemSize |-> IF i \in d .. d + n - 1 THEN s + i - d ELSE i]
    IN memmove(m, d, s, n) = moved /\ umemmove(m, d, s, n) = moved

\* Bytes of names arrive where they should: in namex()'s buffer, in a directory
\* entry and back, and through memmove().
NamesRight == NamesTypeOK /\ WalksComponents /\ StoredNamesFound /\ MemmoveExact
===============================================================================
