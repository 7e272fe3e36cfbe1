------------------------------- MODULE Console -------------------------------
(***************************************************************************)
(* The console: consoleintr(), consoleread() and consolewrite()            *)
(* (console.c), uartgetc() and uartintr() (uart.c), and the claim and      *)
(* completion of the UART's interrupt by devintr() (trap.c, plic.c).       *)
(*                                                                         *)
(* A step is what happens under cons.lock between two points where a       *)
(* reader sleeps, except that readers and writers take one step per byte,  *)
(* with the lock held.  The UART is a queue of bytes that interrupts while *)
(* it is not empty; the PLIC gives its interrupt to one hart at a time.    *)
(***************************************************************************)
EXTENDS Integers, Sequences, FiniteSets

CONSTANTS
    INPUT_BUF,   \* size of cons.buf
    UINT,        \* the indices are counted modulo UINT, a multiple of INPUT_BUF
    Readers,     \* processes that read
    ReadSizes,   \* the n of their reads
    Writers,     \* processes that write two bytes
    Cpus,        \* harts that take interrupts
    Keys,        \* bytes that are typed
    FIFO,        \* bytes the UART holds
    MaxKeys,     \* bound: bytes typed
    MaxReads     \* bound: reads begun

ASSUME ConsAssumption ==
    /\ INPUT_BUF \in Nat \ {0} /\ UINT \in Nat /\ UINT % INPUT_BUF = 0 /\ UINT > INPUT_BUF
    /\ ReadSizes \subseteq Nat
    /\ Readers \cap Writers = {} /\ "none" \notin Readers \cup Writers

NL == "nl"         \* '\n', also for '\r'
EOF == "eof"       \* C('D')
BS == "bs"         \* C('H') and '\x7f'
KILL == "kill"     \* C('U')
DUMP == "dump"     \* C('P')
Stored == {k \in Keys : k \notin {BS, KILL, DUMP}}

VARIABLES
    cbuf, cr, cw, ce,    \* cons.buf, cons.r, cons.w, cons.e
    clock,               \* who holds cons.lock, or "none"
    reader,              \* each reader: pc, the n still wanted, its target
    cpu,                 \* each hart in devintr(): pc and the byte in hand
    claimed,             \* the UART interrupt is claimed and not completed
    fifo,                \* bytes received by the UART, numbered
    typed, seen,         \* bytes typed, and the number consoleintr() saw last
    writer,              \* bytes each writer has left
    torn,                \* something was shown between the bytes of a write()
    eofs,                \* end-of-files consumed less reads that returned 0 for one
    reads                \* reads begun

consVars == <<cbuf, cr, cw, ce, clock, reader, cpu, claimed, fifo, typed, seen,
              writer, torn, eofs, reads>>

inputVars == <<cbuf, cr, cw, ce>>

minus(a, b) == (a + UINT - b) % UINT
plus(a, b) == (a + b) % UINT

Idle == [pc |-> "idle", c |-> NL, i |-> 0]

ConsInit ==
    /\ cbuf = [i \in 0..(INPUT_BUF - 1) |-> NL] /\ cr = 0 /\ cw = 0 /\ ce = 0
    /\ clock = "none"
    /\ reader = [p \in Readers |-> [pc |-> "idle", n |-> 0, target |-> 0, killed |-> FALSE]]
    /\ cpu = [h \in Cpus |-> Idle]
    /\ claimed = FALSE /\ fifo = <<>> /\ typed = 0 /\ seen = 0
    /\ writer = [p \in Writers |-> 2] /\ torn = FALSE /\ eofs = 0 /\ reads = 0

-----------------------------------------------------------------------------
\* The user types; the byte waits in the UART.
Type ==
    /\ typed < MaxKeys /\ Len(fifo) < FIFO
    /\ typed' = typed + 1
    /\ \E k \in Keys : fifo' = Append(fifo, [c |-> k, i |-> typed + 1])
    /\ UNCHANGED <<inputVars, clock, reader, cpu, claimed, seen, writer, torn, eofs, reads>>

\* devintr(): plic_claim() returns the UART's irq to the first hart that asks.
Claim(h) ==
    /\ cpu[h].pc = "idle" /\ fifo # <<>> /\ ~claimed
    /\ claimed' = TRUE
    /\ cpu' = [cpu EXCEPT ![h] = [Idle EXCEPT !.pc = "uartintr"]]
    /\ UNCHANGED <<inputVars, clock, reader, fifo, typed, seen, writer, torn, eofs, reads>>

\* uartintr(): the next byte, or plic_complete() when uartgetc() returns -1.
Getc(h) ==
    /\ cpu[h].pc = "uartintr"
    /\ IF fifo = <<>>
       THEN cpu' = [cpu EXCEPT ![h] = Idle] /\ claimed' = FALSE /\ UNCHANGED fifo
       ELSE /\ cpu' = [cpu EXCEPT ![h] = [pc |-> "consoleintr", c |-> Head(fifo).c, i |-> Head(fifo).i]]
            /\ fifo' = Tail(fifo) /\ UNCHANGED claimed
    /\ UNCHANGED <<inputVars, clock, reader, typed, seen, writer, torn, eofs, reads>>

\* wakeup(&cons.r)
wakeReaders_One ==
    [p \in Readers |-> IF p = CHOOSE q \in Readers : TRUE
                       THEN [reader[p] EXCEPT !.pc = IF @ = "asleep" THEN "acquire" ELSE @]
                       ELSE reader[p]]
wakeReaders == [p \in Readers |-> [reader[p] EXCEPT !.pc = IF @ = "asleep" THEN "acquire" ELSE @]]

\* consoleintr(): ^U erases back to cons.w or to a newline, ^H one byte.
killLine == LET len == minus(ce, cw)
                back == {i \in 1..len : cbuf[minus(ce, i) % INPUT_BUF] = NL}
            IN minus(ce, IF back = {} THEN len ELSE (CHOOSE i \in back : \A j \in back : i <= j) - 1)

backspace_PastW == IF ce # cr THEN minus(ce, 1) ELSE ce
backspace == IF ce # cw THEN minus(ce, 1) ELSE ce

hasRoom == minus(ce, cr) < INPUT_BUF

commits(c) == c \in {NL, EOF} \/ plus(ce, 1) = plus(cr, INPUT_BUF)

\* Some write() has shown a byte and not its last one.
midWrite(except) == \E q \in Writers \ except : writer[q] = 1
\* The handler of one byte, with the echo of what it changes.
ConsoleIntr(h) ==
    /\ cpu[h].pc = "consoleintr" /\ clock = "none"
    /\ LET c == cpu[h].c IN
       /\ seen' = IF seen + 1 = cpu[h].i THEN seen + 1 ELSE -1
       /\ CASE c = DUMP -> UNCHANGED <<inputVars, reader>>
            [] c = KILL -> ce' = killLine /\ UNCHANGED <<cbuf, cr, cw, reader>>
            [] c = BS -> ce' = backspace /\ UNCHANGED <<cbuf, cr, cw, reader>>
            [] OTHER ->
                 IF ~hasRoom THEN UNCHANGED <<inputVars, reader>>
                 ELSE /\ cbuf' = [cbuf EXCEPT ![ce % INPUT_BUF] = c]
                      /\ ce' = plus(ce, 1)
                      /\ IF commits(c) THEN cw' = plus(ce, 1) /\ reader' = wakeReaders
                                       ELSE UNCHANGED <<cw, reader>>
                      /\ UNCHANGED cr
    /\ torn' = (torn \/ (ce' # ce /\ midWrite({})))
    /\ cpu' = [cpu EXCEPT ![h] = [Idle EXCEPT !.pc = "uartintr"]]
    /\ UNCHANGED <<clock, claimed, fifo, typed, writer, eofs, reads>>

-----------------------------------------------------------------------------
\* consoleread()
ReadCall(p) ==
    /\ reader[p].pc = "idle" /\ ~reader[p].killed /\ reads < MaxReads
    /\ \E n \in ReadSizes :
          reader' = [reader EXCEPT ![p].pc = "acquire", ![p].n = n, ![p].target = n]
    /\ reads' = reads + 1
    /\ UNCHANGED <<inputVars, clock, cpu, claimed, fifo, typed, seen, writer, torn, eofs>>

ReadAcquire(p) ==
    /\ reader[p].pc = "acquire" /\ clock = "none"
    /\ clock' = p
    /\ reader' = [reader EXCEPT ![p].pc = "loop"]
    /\ UNCHANGED <<inputVars, cpu, claimed, fifo, typed, seen, writer, torn, eofs, reads>>

\* return target - n
Returns(p) ==
    /\ reader' = [reader EXCEPT ![p].pc = "idle", ![p].n = 0, ![p].target = 0]
    /\ clock' = "none"

\* No input: a killed reader returns -1, another sleeps and drops the lock.
ReadEmpty(p) ==
    /\ reader[p].pc = "loop" /\ reader[p].n > 0 /\ cr = cw
    /\ IF reader[p].killed THEN Returns(p)
       ELSE clock' = "none" /\ reader' = [reader EXCEPT ![p].pc = "asleep"]
    /\ UNCHANGED <<inputVars, cpu, claimed, fifo, typed, seen, writer, torn, eofs, reads>>

returnsZero(p) == IF reader[p].n = reader[p].target THEN 1 ELSE 0
\* ^D ends the read; it is put back if the read has something to return.
ReadEof(p) ==
    /\ reader[p].pc = "loop" /\ reader[p].n > 0 /\ cr # cw /\ cbuf[cr % INPUT_BUF] = EOF
    /\ cr' = IF reader[p].n < reader[p].target THEN cr ELSE plus(cr, 1)
    /\ eofs' = eofs + minus(cr', cr) - returnsZero(p)
    /\ Returns(p)
    /\ UNCHANGED <<cbuf, cw, ce, cpu, claimed, fifo, typed, seen, writer, torn, reads>>

\* A byte is taken; either_copyout() may fail, and a newline ends the read.
ReadByte(p) ==
    /\ reader[p].pc = "loop" /\ reader[p].n > 0 /\ cr # cw
    /\ LET c == cbuf[cr % INPUT_BUF] IN
       /\ c # EOF
       /\ cr' = plus(cr, 1)
       /\ \/ Returns(p)              \* either_copyout() fails, or c = NL
          \/ /\ c # NL
             /\ reader' = [reader EXCEPT ![p].n = @ - 1]
             /\ UNCHANGED clock
    /\ UNCHANGED <<cbuf, cw, ce, cpu, claimed, fifo, typed, seen, writer, torn, eofs, reads>>

ReadDone(p) ==
    /\ reader[p].pc = "loop" /\ reader[p].n = 0
    /\ Returns(p)
    /\ UNCHANGED <<inputVars, cpu, claimed, fifo, typed, seen, writer, torn, eofs, reads>>

\* kill() (proc.c) wakes a sleeping reader.
KillReader(p) ==
    /\ \A q \in Readers : ~reader[q].killed    \* bound: one kill
    /\ reader' = [reader EXCEPT ![p].killed = TRUE,
                                ![p].pc = IF @ = "asleep" THEN "acquire" ELSE @]
    /\ UNCHANGED <<inputVars, clock, cpu, claimed, fifo, typed, seen, writer, torn, eofs, reads>>

\* consolewrite(): all bytes under one hold of the lock, up to one that
\* either_copyin() cannot read.
WriteByte(p) ==
    /\ writer[p] > 0 /\ clock \in {"none", p}
    /\ torn' = (torn \/ midWrite({p})) /\ writer' = [writer EXCEPT ![p] = @ - 1]
    /\ clock' = IF writer[p] = 1 THEN "none" ELSE p
    /\ UNCHANGED <<inputVars, reader, cpu, claimed, fifo, typed, seen, eofs, reads>>
WriteBad(p) ==
    /\ writer[p] > 0 /\ clock \in {"none", p}
    /\ writer' = [writer EXCEPT ![p] = 0]
    /\ clock' = "none"
    /\ UNCHANGED <<inputVars, reader, cpu, claimed, fifo, typed, seen, torn, eofs, reads>>

ConsNext ==
    \/ Type
    \/ \E h \in Cpus : Claim(h) \/ Getc(h) \/ ConsoleIntr(h)
    \/ \E p \in Readers : \/ ReadCall(p) \/ ReadAcquire(p) \/ ReadEmpty(p) \/ ReadEof(p)
                          \/ ReadByte(p) \/ ReadDone(p) \/ KillReader(p)
    \/ \E p \in Writers : WriteByte(p) \/ WriteBad(p)

ConsSpec == ConsInit /\ [][ConsNext]_consVars

-----------------------------------------------------------------------------
ReaderStates == [pc: {"idle", "acquire", "loop", "asleep"}, n: Nat, target: Nat, killed: BOOLEAN]
CpuStates == [pc: {"idle", "uartintr", "consoleintr"}, c: Keys \cup {NL}, i: Nat]

\* Type invariant.
ConsTypeOK ==
    /\ cbuf \in [0..(INPUT_BUF - 1) -> Stored \cup {NL}]
    /\ cr \in 0..(UINT - 1) /\ cw \in 0..(UINT - 1) /\ ce \in 0..(UINT - 1)
    /\ clock \in Readers \cup Writers \cup {"none"}
    /\ reader \in [Readers -> ReaderStates] /\ \A p \in Readers : reader[p].n <= reader[p].target
    /\ cpu \in [Cpus -> CpuStates] /\ claimed \in BOOLEAN
    /\ fifo \in Seq([c: Keys, i: Nat]) /\ typed \in Nat /\ seen \in Int
    /\ writer \in [Writers -> 0..2] /\ torn \in BOOLEAN
    /\ eofs \in Int /\ reads \in Nat

\* consoleintr() keeps r, w and e in this order around the ring, also when
\* they wrap, and never puts more than INPUT_BUF bytes between r and e.
IndicesOrdered == minus(cw, cr) <= minus(ce, cr) /\ minus(ce, cr) <= INPUT_BUF

between(i, j) == [k \in 1..minus(j, i) |-> cbuf[plus(i, k - 1) % INPUT_BUF]]
Lines == INSTANCE LineInput WITH
    Capacity <- INPUT_BUF, Plain <- Stored \ {NL, EOF}, Newline <- NL, Eof <- EOF,
    ready <- between(cr, cw), editing <- between(cw, ce)

\* The ring buffer implements the line discipline: committed input is read in
\* order and once, editing never reaches behind it, and a full buffer is
\* handed over (console.c:136-140), whatever readers, harts and wraps do.
ConsRefines == Lines!LineSpec

\* "wake up consoleread() if a whole line (or end-of-file) has arrived"
\* (console.c:176): no reader sleeps beside input that it could take.
ConsNoLostWakeup == \A p \in Readers : reader[p].pc = "asleep" => cr = cw

\* devintr() completes the UART's interrupt after uartintr(): bytes reach the
\* line in the order of typing although every hart takes the interrupt.
KeysInOrder == seen >= 0

\* "Save ^D for next time, to make sure caller gets a 0-byte result"
\* (console.c:110): each end-of-file ends one read with 0, and only one.
EofsReported == eofs = 0

\* consolewrite() holds cons.lock: the bytes of one write() appear together,
\* with no echo and no other write between them.
WritesWhole == ~torn

\* What is typed arrives and what is written appears whole: order, end of file,
\* room in the ring, and no reader left asleep beside its input.
InputDelivered ==
    /\ ConsTypeOK /\ IndicesOrdered
    /\ ConsNoLostWakeup /\ KeysInOrder /\ EofsReported
    /\ WritesWhole
==============================================================================
