------------------------------ MODULE FileData ------------------------------
(* The contents of files: the block bitmap (balloc, bfree, bzero), the block *)
(* map of an inode (bmap, itrunc), readi and writei of fs.c, and the loops   *)
(* of fileread and filewrite (file.c) around them.                           *)
(*                                                                           *)
(* The processes share one struct file per inode, as after a fork; another   *)
(* process reads with a file of its own.  A step is what happens under one   *)
(* buffer's lock; the inode lock is held from step to step.  A block holds   *)
(* BSIZE bytes or BSIZE block numbers (NINDIRECT = BSIZE), 0 is the zero of  *)
(* both, and every byte a process writes is its own number.                  *)
EXTENDS Naturals, Sequences, FiniteSets

CONSTANTS Proc,       \* numbers, from 1
          Ino, NBLOCK, BSIZE, NDIRECT,
          ChunkMax,   \* filewrite's max: bytes of one transaction
          Watched,    \* the inodes that the reader has open
          Writes,     \* the calls: <<process, inode, n>>
          Reads       \* the n of a read

MAXFILE == NDIRECT + BSIZE
Block == 1 .. NBLOCK
Zeroed == [k \in 0 .. BSIZE - 1 |-> 0]
Junk == [k \in 0 .. BSIZE - 1 |-> NBLOCK + 1]  \* whatever a freed block held
Min(a, b) == IF a < b THEN a ELSE b

VARIABLES bitmap,     \* blocks marked in use
          data,       \* [Block -> contents]
          addrs, size,\* of the inodes
          lock,       \* [Ino -> Proc \cup {0}]: ip->lock
          off,        \* [Ino -> Nat]: f->off of the shared file
          wr,         \* [Proc -> locals of filewrite and writei]
          roff, got,  \* [Ino -> offset of the reader's file, the bytes it read]
          written     \* history: what the writes so far should have left

vars == <<bitmap, data, addrs, size, lock, off, wr, roff, got, written>>
inode == <<addrs, size>>
reader == <<roff, got>>

NoWrite == [f |-> 0, i |-> 0, n |-> 0, n1 |-> 0, tot |-> 0, at |-> 0]

Init ==
  /\ bitmap = {} /\ data = [b \in Block |-> Zeroed]
  /\ addrs = [i \in Ino |-> [k \in 0 .. NDIRECT |-> 0]] /\ size = [i \in Ino |-> 0]
  /\ lock = [i \in Ino |-> 0] /\ off = [i \in Ino |-> 0]
  /\ wr = [p \in Proc |-> NoWrite]
  /\ roff = [i \in Ino |-> 0] /\ got = [i \in Ino |-> <<>>]
  /\ written = [i \in Ino |-> <<>>]

-----------------------------------------------------------------------------
(* Blocks.                                                                   *)

\* balloc: the first free block (none: panic), zeroed.
FreeBlock == {b \in Block \ bitmap : \A c \in Block \ bitmap : b <= c}
balloc(b) == b \in FreeBlock /\ bitmap' = bitmap \cup {b}

\* bmap for a block that is there; direct blocks first.
Direct(bn) == bn < NDIRECT
Slot(bn) == IF Direct(bn) THEN bn ELSE NDIRECT
bmap(i, bn) ==
  IF Direct(bn) THEN addrs[i][bn] ELSE data[addrs[i][NDIRECT]][bn - NDIRECT]
Byte(i, k) == data[bmap(i, k \div BSIZE)][k % BSIZE]

\* Every block number reachable from the inode: its own, then the indirect.
Indirect(i) ==
  IF addrs[i][NDIRECT] = 0 THEN {}
  ELSE {b \in {data[addrs[i][NDIRECT]][k] : k \in DOMAIN Zeroed} : b # 0}
Own(i) == {addrs[i][k] : k \in 0 .. NDIRECT} \ {0}
BlocksOf(i) == Own(i) \cup Indirect(i)

BadFreed(i) == Own(i)                      \* not those of the indirect block
Freed(i) == BlocksOf(i)

\* iput's itrunc when the file is unlinked and closed, and the next open of
\* the inode after it was allocated again.
itrunc(i) ==
  /\ lock[i] = 0 /\ size[i] > 0 /\ \A p \in Proc : wr[p].f # i
  /\ bitmap' = bitmap \ Freed(i)
  /\ addrs' = [addrs EXCEPT ![i] = [k \in 0 .. NDIRECT |-> 0]]
  /\ size' = [size EXCEPT ![i] = 0]
  /\ off' = [off EXCEPT ![i] = 0]
  /\ roff' = [roff EXCEPT ![i] = 0] /\ got' = [got EXCEPT ![i] = <<>>]
  /\ written' = [written EXCEPT ![i] = <<>>]
  /\ data' = [b \in Block |-> IF b \in BlocksOf(i) THEN Junk ELSE data[b]]
  /\ UNCHANGED <<lock, wr>>

-----------------------------------------------------------------------------
(* write()                                                                   *)

filewrite(p, i, n) ==
  /\ wr[p] = NoWrite
  /\ wr' = [wr EXCEPT ![p] = [NoWrite EXCEPT !.f = i, !.n = n]]
  /\ UNCHANGED <<bitmap, data, inode, lock, off, reader, written>>

\* One transaction: lock the inode, check the range.  A write past MAXFILE
\* fails with what earlier transactions wrote already in the file.
WriteChunk(p) ==
  LET w == wr[p]
      n1 == Min(w.n - w.i, ChunkMax) IN
  /\ w.f # 0 /\ w.n1 = 0 /\ lock[w.f] = 0
  /\ IF off[w.f] > size[w.f] \/ off[w.f] + n1 > MAXFILE * BSIZE
       THEN wr' = [wr EXCEPT ![p] = NoWrite] /\ UNCHANGED lock
       ELSE /\ wr' = [wr EXCEPT ![p].n1 = n1, ![p].at = off[w.f]]
            /\ lock' = [lock EXCEPT ![w.f] = p]
  /\ UNCHANGED <<bitmap, data, inode, off, reader, written>>

Writing(p) == wr[p].n1 > 0 /\ wr[p].tot < wr[p].n1

\* bmap allocates the block, or the indirect block ...
BmapAddr(p) ==
  LET i == wr[p].f
      s == Slot(wr[p].at \div BSIZE) IN
  /\ Writing(p) /\ addrs[i][s] = 0
  /\ \E b \in Block :
       /\ balloc(b)
       /\ data' = [data EXCEPT ![b] = Zeroed]
       /\ addrs' = [addrs EXCEPT ![i][s] = b]
  /\ UNCHANGED <<size, lock, off, wr, reader, written>>

\* ... and then the block that the indirect block names.
BmapEntry(p) ==
  LET i == wr[p].f
      bn == wr[p].at \div BSIZE
      ind == addrs[i][NDIRECT] IN
  /\ Writing(p) /\ ~ Direct(bn) /\ ind # 0 /\ bmap(i, bn) = 0
  /\ \E b \in Block :
       /\ balloc(b)
       /\ data' = [data EXCEPT ![b] = Zeroed, ![ind][bn - NDIRECT] = b]
  /\ UNCHANGED <<inode, lock, off, wr, reader, written>>

\* The bytes of one block.
WriteCopy(p) ==
  LET w == wr[p]
      m == Min(w.n1 - w.tot, BSIZE - (w.at % BSIZE))
      bn == w.at \div BSIZE IN
  /\ Writing(p) /\ addrs[w.f][Slot(bn)] # 0 /\ bmap(w.f, bn) # 0
  /\ data' = [data EXCEPT ![bmap(w.f, bn)] =
                [k \in DOMAIN Zeroed |->
                   IF k \in (w.at % BSIZE) .. (w.at % BSIZE) + m - 1 THEN p ELSE @[k]]]
  /\ wr' = [wr EXCEPT ![p].tot = @ + m, ![p].at = @ + m]
  /\ UNCHANGED <<bitmap, inode, lock, off, reader, written>>

\* f->off after a transaction of n1 bytes.
BadAdvanced(w) == IF w.i + w.n1 = w.n THEN off[w.f] + w.n ELSE off[w.f]
Advanced(w) == off[w.f] + w.n1

\* The end of writei: the size grows, f->off moves, and the loop goes on with
\* the next transaction or returns.
WriteEnd(p) ==
  LET w == wr[p] IN
  /\ w.n1 > 0 /\ w.tot = w.n1
  /\ size' = [size EXCEPT ![w.f] = IF w.at > @ THEN w.at ELSE @]
  /\ off' = [off EXCEPT ![w.f] = Advanced(w)]
  /\ lock' = [lock EXCEPT ![w.f] = 0]
  /\ wr' = [wr EXCEPT ![p] = IF w.i + w.n1 = w.n THEN NoWrite
                             ELSE [NoWrite EXCEPT !.f = w.f, !.n = w.n, !.i = w.i + w.n1]]
  /\ written' = [written EXCEPT ![w.f] = @ \o [k \in 1 .. w.n1 |-> p]]
  /\ UNCHANGED <<bitmap, data, addrs, reader>>

\* fileread with readi: up to n bytes from the reader's own offset.
fileread(i, n) ==
  LET r == IF roff[i] + n > size[i] THEN size[i] - roff[i] ELSE n IN
  /\ lock[i] = 0 /\ r > 0
  /\ got' = [got EXCEPT ![i] = @ \o [k \in 1 .. r |-> Byte(i, roff[i] + k - 1)]]
  /\ roff' = [roff EXCEPT ![i] = @ + r]
  /\ UNCHANGED <<bitmap, data, inode, lock, off, wr, written>>

Next ==
  \/ \E i \in Ino : itrunc(i)
  \/ \E w \in Writes : filewrite(w[1], w[2], w[3])
  \/ \E i \in Watched, n \in Reads : fileread(i, n)
  \/ \E p \in Proc :
       \/ WriteChunk(p) \/ BmapAddr(p) \/ BmapEntry(p) \/ WriteCopy(p) \/ WriteEnd(p)

Spec == Init /\ [][Next]_vars

-----------------------------------------------------------------------------
(* Properties.                                                               *)

\* The bitmap marks exactly the blocks some inode names, and no two places
\* name the same block: writes that allocate at the same time share none,
\* itrunc returns every block, the indirect one too, and the panic "freeing
\* free block" is out of reach.
BlocksAccounted ==
  /\ bitmap = UNION {BlocksOf(i) : i \in Ino}
  /\ \A i, j \in Ino : i # j => BlocksOf(i) \cap BlocksOf(j) = {}
  /\ \A i \in Ino :
       Cardinality(BlocksOf(i)) = Cardinality({k \in 0 .. NDIRECT : addrs[i][k] # 0})
         + (IF addrs[i][NDIRECT] = 0 THEN 0
            ELSE Cardinality({k \in DOMAIN Zeroed : data[addrs[i][NDIRECT]][k] # 0}))

\* A file is the concatenation of the transactions written to it, in the
\* order of their ilock, although the processes share the offset and write
\* block by block through the block map; and a reader sees a prefix of it.
WritesAppend ==
  /\ \A i \in Ino :
       /\ size[i] = Len(written[i])
       /\ \A k \in 1 .. size[i] : Byte(i, k - 1) = written[i][k]
  /\ \A i \in Watched : got[i] = SubSeq(written[i], 1, roff[i])
=============================================================================
