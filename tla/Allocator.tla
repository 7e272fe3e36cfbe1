----------------------------- MODULE Allocator -----------------------------
(***************************************************************************)
(* What a memory allocator promises its callers: a block that is handed    *)
(* out holds the bytes that were asked for and overlaps no block that is   *)
(* still held, and only held blocks are given back.  Buddy and Umalloc     *)
(* implement it.                                                           *)
(***************************************************************************)
EXTENDS Naturals

CONSTANTS Cells,        \* the memory is the cells 0 .. Cells - 1
          CellSize      \* bytes of a cell
VARIABLE held           \* the blocks handed out: first cell, length, bytes asked for

Span(b) == b.at .. b.at + b.len - 1
IsBlock(b) == b.len * CellSize >= b.req /\ Span(b) \subseteq 0 .. Cells - 1

AllocInit == held = {}

Alloc == \E b \in held' \ held : /\ IsBlock(b)
                                  /\ \A c \in held : Span(b) \cap Span(c) = {}
                                  /\ held' = held \cup {b}

Release == \E b \in held : held' = held \ {b}

AllocSpec == AllocInit /\ [][Alloc \/ Release]_held
=============================================================================
