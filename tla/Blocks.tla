------------------------------- MODULE Blocks -------------------------------
(***************************************************************************)
(* The blocks of the file system: the bitmap (balloc, bfree), the direct   *)
(* and indirect block numbers of an inode (bmap), reading and writing its  *)
(* content (readi, writei) and discarding it (itrunc), all of kernel/fs.c, *)
(* on the image that mkfs/mkfs.c makes.                                    *)
(*                                                                         *)
(* A block is BSIZE words; a word is a byte of a file, a directory entry   *)
(* (its inode number) or a block number of an indirect block.  The blocks  *)
(* are those of the buffer cache.  The lock of an inode serialises what is *)
(* done to it; calls on different inodes interleave between the passes of  *)
(* writei's loop.                                                          *)
(***************************************************************************)
EXTENDS Naturals, Sequences, FiniteSets, FiniteSetsExt, SequencesExt

CONSTANTS FSSIZE, BSIZE, NDIRECT, LOGSIZE, NInodeBlocks, BPB,
          MAXOPBLOCKS,
          FirstSizes,    \* sizes of the file that mkfs puts into the image
          Values,        \* words that are written, none of them 0
          MaxBlockCalls

VARIABLES bitmap,        \* the blocks whose bit is set
          block,         \* their content
          ino,           \* of each inode: addrs, size, type # 0
          bop,           \* the writei under way on an inode
          bytes,         \* what was written to each inode, for the properties
          bpanic, bcalls

blockVars == <<bitmap, block, ino, bop, bytes, bpanic, bcalls>>

NINDIRECT == BSIZE
MAXFILE == NDIRECT + NINDIRECT
RootFile == 1
FirstFile == 2
OtherFile == 3
Inodes3 == {RootFile, FirstFile, OtherFile}
Users3 == {FirstFile, OtherFile}

Zeroes == [k \in 0 .. BSIZE - 1 |-> 0]
NoInode == [addrs |-> [k \in 0 .. NDIRECT |-> 0], size |-> 0, used |-> FALSE]
NoOp == [off |-> 0, left |-> 0, v |-> 0, logged |-> {}]

----------------------------------------------------------------------------
(* mkfs *)

nbitmap == FSSIZE \div BPB + 1
nmeta == 2 + LOGSIZE + NInodeBlocks + nbitmap
bmapstart == 2 + LOGSIZE + NInodeBlocks
inodestart == 2 + LOGSIZE

\* iappend's block for the fbn-th block of inode i, allocated when missing: st
\* has the blocks, the inodes and freeblock.
mkfsAddr(st, i, fbn) ==
    LET a == st.ino[i].addrs
        st1 == IF a[NDIRECT] # 0 THEN st
               ELSE [st EXCEPT !.ino[i].addrs[NDIRECT] = st.freeblock,
                               !.freeblock = @ + 1]
        ind == st1.ino[i].addrs[NDIRECT]
    IN IF fbn < NDIRECT
       THEN IF a[fbn] # 0 THEN st
            ELSE [st EXCEPT !.ino[i].addrs[fbn] = st.freeblock, !.freeblock = @ + 1]
       ELSE IF st1.block[ind][fbn - NDIRECT] # 0 THEN st1
            ELSE [st1 EXCEPT !.block[ind][fbn - NDIRECT] = st1.freeblock,
                             !.freeblock = @ + 1]

\* The number of the bn-th block of an inode with the given addrs, 0 if none.
blockOf(blk, addrs, bn) ==
    IF bn < NDIRECT THEN addrs[bn]
    ELSE IF addrs[NDIRECT] = 0 THEN 0 ELSE blk[addrs[NDIRECT]][bn - NDIRECT]

\* iappend of one word.
iappend(st, i, w) ==
    LET off == st.ino[i].size
        st1 == mkfsAddr(st, i, off \div BSIZE)
        x == blockOf(st1.block, st1.ino[i].addrs, off \div BSIZE)
    IN [st1 EXCEPT !.block[x][off % BSIZE] = w, !.ino[i].size = off + 1]

iappendAll(st, i, ws) == FoldLeft(LAMBDA s, w : iappend(s, i, w), st, ws)

\* main: the root directory with its dots and one file of n words, whose entry
\* comes before its content; then the directory's size is rounded up.
mkfs(n) ==
    LET st0 == [block |-> [b \in 0 .. FSSIZE - 1 |-> Zeroes],
                ino |-> [i \in Inodes3 |-> [NoInode EXCEPT !.used = i # OtherFile]],
                freeblock |-> nmeta]
        st1 == iappendAll(st0, RootFile, <<RootFile, RootFile, FirstFile>>)
        st2 == iappendAll(st1, FirstFile, [k \in 1 .. n |-> Min(Values)])
    IN [st2 EXCEPT !.ino[RootFile].size = (@ \div BSIZE + 1) * BSIZE]

\* mkfs's balloc: the first blocks are in use.
mkfsUsed(st) == 0 .. st.freeblock - 1

BlocksInit ==
    \E n \in FirstSizes :
        LET st == mkfs(n) IN
        /\ block = st.block
        /\ ino = st.ino
        /\ bitmap = mkfsUsed(st)
        /\ bytes = [i \in Inodes3 |->
              CASE i = RootFile -> <<RootFile, RootFile, FirstFile, 0>>
                [] i = FirstFile -> [k \in 1 .. n |-> Min(Values)]
                [] OTHER -> <<>>]
        /\ bop = [i \in Inodes3 |-> NoOp]
        /\ bpanic = "" /\ bcalls = 0

----------------------------------------------------------------------------
(* balloc, bfree, bmap: s is [bitmap, block, addrs, logged, panic] *)

BBLOCK(b) == b \div BPB + bmapstart

\* The first clear bit is set and the block zeroed.
balloc(s) ==
    LET free == (0 .. FSSIZE - 1) \ s.bitmap
        b == Min(free)
    IN IF free = {} THEN [s |-> [s EXCEPT !.panic = "balloc: out of blocks"], b |-> 0]
       ELSE [s |-> [s EXCEPT !.bitmap = @ \cup {b}, !.block[b] = Zeroes,
                             !.logged = @ \cup {BBLOCK(b), b}],
             b |-> b]

\* bfree, of block b unless it is 0.
bfree(s, b) ==
    IF b = 0 THEN s
    ELSE IF b \notin s.bitmap THEN [s EXCEPT !.panic = "freeing free block"]
    ELSE [s EXCEPT !.bitmap = @ \ {b}, !.logged = @ \cup {BBLOCK(b)}]

bmapDirect(s, k) ==
    LET a == balloc(s) IN
    IF s.addrs[k] # 0 THEN s ELSE [a.s EXCEPT !.addrs[k] = a.b]

\* The entry of the indirect block, allocated and logged when missing.
bmapIndirect(s, k) ==
    LET ind == s.addrs[NDIRECT]
        a == balloc(s)
    IN IF s.panic # "" \/ s.block[ind][k] # 0 THEN s
       ELSE [a.s EXCEPT !.block[ind][k] = a.b, !.logged = @ \cup {ind}]

bmap(s, bn) ==
    IF bn < NDIRECT THEN bmapDirect(s, bn)
    ELSE IF bn - NDIRECT < NINDIRECT
    THEN bmapIndirect(bmapDirect(s, NDIRECT), bn - NDIRECT)
    ELSE [s EXCEPT !.panic = "bmap: out of range"]

----------------------------------------------------------------------------
(* itrunc *)

itruncIndirect_KeepsBlock(s) ==
    LET ind == s.addrs[NDIRECT] IN
    IF ind = 0 THEN s
    ELSE FoldLeft(LAMBDA x, k : bfree(x, s.block[ind][k - 1]), s,
                 [k \in 1 .. NINDIRECT |-> k])

itruncIndirect(s) ==
    LET ind == s.addrs[NDIRECT] IN
    IF ind = 0 THEN s
    ELSE bfree(FoldLeft(LAMBDA x, k : bfree(x, s.block[ind][k - 1]), s,
                       [k \in 1 .. NINDIRECT |-> k]), ind)

itruncBlocks(s) ==
    itruncIndirect(FoldLeft(LAMBDA x, k : bfree(x, s.addrs[k - 1]), s,
                           [k \in 1 .. NDIRECT |-> k]))

State(i) == [bitmap |-> bitmap, block |-> block, addrs |-> ino[i].addrs,
             logged |-> bop[i].logged, panic |-> ""]

Set(s) == bitmap' = s.bitmap /\ block' = s.block /\ bpanic' = s.panic

Idle(i) == bpanic = "" /\ bop[i].left = 0 /\ bcalls < MaxBlockCalls

\* iput of the last reference to an inode without links.
Discard(i) ==
    LET s == itruncBlocks(State(i)) IN
    /\ Idle(i) /\ ino[i].used
    /\ Set(s)
    /\ ino' = [ino EXCEPT ![i] = NoInode]
    /\ bytes' = [bytes EXCEPT ![i] = <<>>]
    /\ bcalls' = bcalls + 1
    /\ UNCHANGED bop

\* ialloc: memset of the disk inode.
Ialloc(i) ==
    /\ Idle(i) /\ ~ino[i].used
    /\ ino' = [ino EXCEPT ![i] = [NoInode EXCEPT !.used = TRUE]]
    /\ bcalls' = bcalls + 1
    /\ UNCHANGED <<bitmap, block, bop, bytes, bpanic>>

----------------------------------------------------------------------------
(* writei and readi *)

\* The words filewrite gives to writei in one transaction.
maxChunk_NoSlop == (MAXOPBLOCKS \div 2) * BSIZE

maxChunk == ((MAXOPBLOCKS - 1 - 1 - 2) \div 2) * BSIZE

writeiFits(i, off, n) == off <= ino[i].size /\ off + n <= MAXFILE * BSIZE

Writei(i, off, n, v) ==
    /\ Idle(i) /\ ino[i].used /\ writeiFits(i, off, n)
    /\ bop' = [bop EXCEPT ![i] = [off |-> off, left |-> n, v |-> v, logged |-> {}]]
    /\ bcalls' = bcalls + 1
    /\ UNCHANGED <<bitmap, block, ino, bytes, bpanic>>

\* The words m of a pass that starts at off.
writeSpan(off, left) == Min({left, BSIZE - (off % BSIZE)})

\* The file as it is after words got of value v at off, written in a pass of m.
written(ws, off, got, v) ==
    [k \in 1 .. Max({Len(ws), off + got}) |->
        IF k > off /\ k <= off + got THEN v ELSE ws[k]]

\* The size after the loop stopped at offset off.
newSize_Claimed(i, off, left) == Max({ino[i].size, off + left})

newSize(i, off, left) == Max({ino[i].size, off})

\* One pass: bmap, the copy, log_write; the last one also writes the inode.
\* When the copy from the user fails after got words (bad), the loop stops,
\* the block is not logged and the offset stays.
WriteBlock(i, bad, got) ==
    LET op == bop[i]
        bn == op.off \div BSIZE
        s == bmap(State(i), bn)
        b == blockOf(s.block, s.addrs, bn)
        m == writeSpan(op.off, op.left)
        n == IF bad THEN got ELSE m
        blk == [s.block EXCEPT ![b] = [k \in 0 .. BSIZE - 1 |->
                   IF k >= op.off % BSIZE /\ k < (op.off % BSIZE) + n THEN op.v ELSE @[k]]]
        off == IF bad THEN op.off ELSE op.off + m
        done == bad \/ op.left = m
        log == s.logged \cup (IF bad THEN {} ELSE {b}) \cup (IF done THEN {inodestart} ELSE {})
    IN
    /\ bpanic = "" /\ op.left > 0
    /\ bad => got < m
    /\ IF s.panic # ""
       THEN Set(s) /\ UNCHANGED <<ino, bop, bytes>>
       ELSE /\ Set([s EXCEPT !.block = blk])
            /\ ino' = [ino EXCEPT ![i].addrs = s.addrs,
                          ![i].size = IF done THEN newSize(i, off, op.left) ELSE @]
            /\ bop' = [bop EXCEPT ![i] =
                  [off |-> off, left |-> IF done THEN 0 ELSE op.left - m,
                   v |-> IF done THEN 0 ELSE op.v, logged |-> log]]
            /\ bytes' = [bytes EXCEPT ![i] =
                  IF bad THEN written(SubSeq(@, 1, Len(@)), op.off,
                                      Min({got, Max({Len(@), op.off}) - op.off}), op.v)
                  ELSE written(@, op.off, m, op.v)]
    /\ UNCHANGED bcalls

BlocksNext ==
    \E i \in Users3 :
        \/ Discard(i) \/ Ialloc(i)
        \/ \E off \in 0 .. MAXFILE * BSIZE, n \in 1 .. maxChunk, v \in Values :
              Writei(i, off, n, v)
        \/ WriteBlock(i, FALSE, 0)
        \/ \E got \in 0 .. BSIZE - 1 : WriteBlock(i, TRUE, got)

BlocksSpec == BlocksInit /\ [][BlocksNext]_blockVars

----------------------------------------------------------------------------
(* Properties *)

\* Sizes stay within MAXFILE blocks and block numbers within the disk.
BlocksTypeOK ==
    /\ bitmap \subseteq 0 .. FSSIZE - 1
    /\ ino \in [Inodes3 -> [addrs : [0 .. NDIRECT -> 0 .. FSSIZE - 1],
                            size : 0 .. MAXFILE * BSIZE, used : BOOLEAN]]

\* The places that hold the number of a block: addrs[] of an inode and the
\* words of its indirect block.
Holders ==
    {<<i, k>> : i \in Inodes3, k \in 0 .. NDIRECT}
    \cup {<<i, NDIRECT + 1 + k>> : i \in {j \in Inodes3 : ino[j].addrs[NDIRECT] # 0},
                                   k \in 0 .. NINDIRECT - 1}

Held(h) == IF h[2] <= NDIRECT THEN ino[h[1]].addrs[h[2]]
           ELSE block[ino[h[1]].addrs[NDIRECT]][h[2] - NDIRECT - 1]

\* A block's bit is set exactly when it is one of the meta blocks of mkfs or
\* exactly one place holds its number: no block is in two files, none is lost,
\* and none in use is given out again, from the image on and whatever writes,
\* failed copies and truncations interleave.
BitmapExact ==
    LET data == bitmap \ (0 .. nmeta - 1)
        hs == {h \in Holders : Held(h) # 0}
    IN bpanic = "" => /\ 0 .. nmeta - 1 \subseteq bitmap
                      /\ {Held(h) : h \in hs} = data
                      /\ Cardinality(hs) = Cardinality(data)

\* readi of one word.
readiWord(i, off) ==
    block[blockOf(block, ino[i].addrs, off \div BSIZE)][off % BSIZE]

\* Reading returns what was last written there, through direct and indirect
\* blocks, and every offset below the size has a block, so that reading never
\* allocates one.  (The words a failed copy left are what they are.)
ReadsReturnWrites ==
    \A i \in Inodes3 : bop[i].left = 0 =>
        /\ ino[i].size = Len(bytes[i])
        /\ \A off \in 0 .. ino[i].size - 1 :
              /\ blockOf(block, ino[i].addrs, off \div BSIZE) # 0
              /\ readiWord(i, off) = bytes[i][off + 1]

\* What one writei puts into the log fits in what begin_op reserves for an
\* operation: filewrite's bound on the chunk is small enough (file.c 149-155).
OpFitsLog == \A i \in Inodes3 : Cardinality(bop[i].logged) <= MAXOPBLOCKS

\* The only panic is the full disk: no block is freed twice and no block
\* number beyond MAXFILE is asked for.
BlocksPanicFull ==
    bpanic # "" => bpanic = "balloc: out of blocks" /\ bitmap = 0 .. FSSIZE - 1

\* The bitmap and the inodes agree on every block, up to the full disk.
BlocksExact == BlocksTypeOK /\ BitmapExact /\ BlocksPanicFull
=============================================================================
