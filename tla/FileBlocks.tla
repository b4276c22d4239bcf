------------------------------ MODULE FileBlocks ------------------------------
(***************************************************************************)
(* The blocks behind a file: file_write and file_read of fs/file.c and     *)
(* sys_lseek of fs/fs.c, for one open file.  Its first blocks are named by *)
(* the inode, the others by the block of the index table.  A call is one   *)
(* step; block 0 stands for none.                                          *)
(***************************************************************************)
EXTENDS Integers, FiniteSets, Sequences

CONSTANTS
  Bytes,
  BLOCK_SIZE,
  Direct,       \* direct blocks, 12 in the code
  Blocks140,    \* direct and indirect blocks, 140 in the code
  NumBlocks,    \* bound on the blocks of the partition
  MaxCall,      \* bound on the bytes of a call
  Wrap          \* 2^32

ASSUME FileBlocksAssumption ==
  /\ BLOCK_SIZE \in Nat \ {0} /\ Direct \in Nat \ {0}
  /\ Blocks140 \in Nat /\ Blocks140 > Direct
  /\ NumBlocks \in Nat /\ MaxCall \in Nat
  /\ Wrap \in Nat /\ Wrap > 2 * (BLOCK_SIZE * Blocks140 + MaxCall)

Blocks   == 1..NumBlocks
Indirect == Direct..Blocks140 - 1

VARIABLES
  inode,  \* i_size and i_sectors, the table's block apart
  index,  \* what a block holds when it is an index table
  data,   \* and when it holds bytes; 0 is a byte nobody has written
  free,   \* the block bitmap
  fd_pos,
  got,    \* what the last call has read
  ok      \* no ASSERT has failed

vars == <<inode, index, data, free, fd_pos, got, ok>>

TypeOK ==
  /\ inode \in [i_size : 0..BLOCK_SIZE * Blocks140,
                direct : [0..Direct - 1 -> Blocks \cup {0}], table : Blocks \cup {0}]
  /\ index \in [Blocks -> [Indirect -> Blocks \cup {0}]]
  /\ data \in [Blocks -> [0..BLOCK_SIZE - 1 -> Bytes \cup {0}]]
  /\ free \subseteq Blocks
  /\ fd_pos \in 0..Wrap - 1
  /\ got \in Seq(Bytes)
  /\ ok \in BOOLEAN

\* A new file; other files have some of the blocks.
Init ==
  /\ inode = [i_size |-> 0, direct |-> [k \in 0..Direct - 1 |-> 0], table |-> 0]
  /\ index = [b \in Blocks |-> [k \in Indirect |-> 0]]
  /\ data = [b \in Blocks |-> [o \in 0..BLOCK_SIZE - 1 |-> 0]]
  /\ free \in {1..n : n \in 0..NumBlocks}
  /\ fd_pos = 0 /\ got = <<>> /\ ok = TRUE

\* The block of the file's k-th block.
Lba(i, x, k) == IF k < Direct THEN i.direct[k] ELSE x[i.table][k]

-----------------------------------------------------------------------------
\* file_write.

\* bitmap_scan takes the lowest free block each time: the j-th it takes from fr.
Nth(fr, j) == CHOOSE b \in fr : Cardinality({c \in fr : c <= b}) = j

\* Wrong on purpose: only the blocks that hold bytes.
BlocksTight(n) == IF n = 0 THEN 1 ELSE (n + BLOCK_SIZE - 1) \div BLOCK_SIZE

\* The blocks a file of n bytes has: one more than it needs when it ends at the end
\* of a block.
BlocksFor(n) == n \div BLOCK_SIZE + 1

\* The index table, when this write is the first to need it.
Tables(has, will) == IF has <= Direct /\ will > Direct THEN 1 ELSE 0

\* The ASSERTs on the way to a file of will blocks from one of has; starts blocks
\* were taken for a file that had none. bitmap_scan asserts that there is a free bit.
Asserts(has, will, starts) ==
  \/ will > Blocks140
  \/ Cardinality(free) < starts + Tables(has, will) + will - has
  \/ will \in has + 1..Direct /\ has > 1 /\ inode.direct[has - 1] = 0
  \/ \E k \in has..will - 1 : k < Direct /\ inode.direct[k] # 0
  \/ Tables(has, will) = 1 /\ inode.table # 0
  \/ has > Direct /\ inode.table = 0

\* Blocks has to will - 1 are added to inode i: the inode, the contents of its table,
\* the blocks left of the free ones fr.
Grow(i, fr, has, will) ==
  LET t      == Tables(has, will)
      added  == has..will - 1
      blk(k) == Nth(fr, k - has + 1 + t)
  IN [inode   |-> [i EXCEPT !.direct = [k \in 0..Direct - 1 |-> IF k \in added THEN blk(k) ELSE @[k]],
                            !.table = IF t = 1 THEN Nth(fr, 1) ELSE @],
      entries |-> [k \in Indirect |-> IF k \in added THEN blk(k)
                                       ELSE IF t = 0 /\ i.table # 0 THEN index[i.table][k] ELSE 0],
      free    |-> fr \ {Nth(fr, j) : j \in 1..t + will - has}]

\* Wrong on purpose: the block is not read before it is filled up.
FilledFresh(old, k, size, n, v) ==
  [o \in 0..BLOCK_SIZE - 1 |-> IF k * BLOCK_SIZE + o \in size..size + n - 1 THEN v ELSE 0]

\* The bytes of the file in block k once n bytes v are behind its first size bytes.
Filled(old, k, size, n, v) ==
  [o \in 0..BLOCK_SIZE - 1 |->
     LET at == k * BLOCK_SIZE + o
     IN IF at \in size..size + n - 1 THEN v
        ELSE IF k = size \div BLOCK_SIZE THEN old[o] ELSE 0]

Fail == /\ got' = <<>> /\ UNCHANGED <<data, fd_pos>>

Write(n, v) ==
  LET size  == inode.i_size
      first == inode.direct[0] = 0
      starts == IF first THEN 1 ELSE 0
      i0    == IF first THEN [inode EXCEPT !.direct[0] = Nth(free, 1)] ELSE inode
      fr    == IF first THEN free \ {Nth(free, 1)} ELSE free
      has   == BlocksFor(size)
      will  == BlocksFor(size + n)
      g     == Grow(i0, fr, has, will)
      x     == IF will > has /\ will > Direct THEN [index EXCEPT ![g.inode.table] = g.entries] ELSE index
      touched == {k \in (size \div BLOCK_SIZE)..((size + n - 1) \div BLOCK_SIZE) : n > 0}
  IN /\ ok
     /\ \/ /\ size + n > BLOCK_SIZE * Blocks140
           /\ Fail /\ UNCHANGED <<inode, index, free, ok>>
        \/ /\ size + n <= BLOCK_SIZE * Blocks140 /\ Asserts(has, will, starts)
           /\ ok' = FALSE
           /\ UNCHANGED <<inode, index, data, free, fd_pos, got>>
        \/ /\ size + n <= BLOCK_SIZE * Blocks140 /\ ~Asserts(has, will, starts)
           /\ inode' = [g.inode EXCEPT !.i_size = size + n]
           /\ index' = x /\ free' = g.free
           /\ data' = [b \in Blocks |->
                         IF \E k \in touched : Lba(g.inode, x, k) = b
                         THEN LET k == CHOOSE k \in touched : Lba(g.inode, x, k) = b
                              IN Filled(data[b], k, size, n, v)
                         ELSE data[b]]
           /\ fd_pos' = (size + n - 1) % Wrap
           /\ got' = <<>>
           /\ UNCHANGED ok

-----------------------------------------------------------------------------
\* file_read of n bytes. The sum of fd_pos and n wraps around.
Read(n) ==
  LET size  == inode.i_size
      m     == IF (fd_pos + n) % Wrap > size THEN (size - fd_pos) % Wrap ELSE n
      start == fd_pos \div BLOCK_SIZE
      end   == ((fd_pos + m) % Wrap) \div BLOCK_SIZE
  IN /\ ok
     /\ \/ /\ (fd_pos + n) % Wrap > size /\ m = 0
           /\ Fail /\ UNCHANGED <<inode, index, free, ok>>
        \/ /\ ~((fd_pos + n) % Wrap > size /\ m = 0)
           /\ \/ /\ start >= Blocks140 - 1 \/ end >= Blocks140 - 1
                    \/ (end >= Direct /\ start # end /\ inode.table = 0)
                 /\ ok' = FALSE
                 /\ UNCHANGED <<inode, index, data, free, fd_pos, got>>
              \/ /\ start < Blocks140 - 1 /\ end < Blocks140 - 1
                 /\ end >= Direct /\ start # end => inode.table # 0
                 /\ got' = [j \in 1..m |->
                              LET at == fd_pos + j - 1
                              IN data[Lba(inode, index, at \div BLOCK_SIZE)][at % BLOCK_SIZE]]
                 /\ fd_pos' = fd_pos + m
                 /\ UNCHANGED <<inode, index, data, free, ok>>

\* Wrong on purpose: the position is not compared with the size.
LseekAnywhere(offset, base) ==
  /\ ok
  /\ fd_pos' = offset + base
  /\ got' = <<>>
  /\ UNCHANGED <<inode, index, data, free, ok>>

\* sys_lseek: SEEK_SET, SEEK_CUR and SEEK_END. fd_pos is taken as a signed number.
Lseek(offset, base) ==
  LET new_pos == offset + base
  IN /\ ok
     /\ IF new_pos \in 0..inode.i_size - 1 THEN fd_pos' = new_pos ELSE UNCHANGED fd_pos
     /\ got' = <<>>
     /\ UNCHANGED <<inode, index, data, free, ok>>

SignedPos == IF fd_pos >= Wrap \div 2 THEN fd_pos - Wrap ELSE fd_pos

Next ==
  \/ \E n \in 0..MaxCall : Read(n) \/ \E v \in Bytes : Write(n, v)
  \/ \E offset \in -MaxCall..MaxCall, base \in {0, SignedPos, inode.i_size} : Lseek(offset, base)

Spec == Init /\ [][Next]_vars

-----------------------------------------------------------------------------
\* The blocks that hold the file, the one the next byte goes to included, are there,
\* none is free, and no two of them, nor one of them and the table, are the same:
\* the boundaries between the three situations of file_write fit together.
BlocksReady ==
  LET last == inode.i_size \div BLOCK_SIZE
      lbas == {Lba(inode, index, k) : k \in 0..last}
  IN ok /\ inode.i_size > 0 =>
       /\ last >= Direct => inode.table \in Blocks \ free
       /\ lbas \subseteq Blocks \ (free \cup {inode.table})
       /\ Cardinality(lbas) = last + 1

File == [j \in 1..inode.i_size |->
           data[Lba(inode, index, (j - 1) \div BLOCK_SIZE)][(j - 1) % BLOCK_SIZE]]

\* Block by block, a file is the sequence of the bytes written to it. A call takes at
\* most the blocks its bytes fill, one they begin in, and one for the table or the
\* first of the file.
BF == INSTANCE ByteFile WITH
        bytes <- File, pos <- fd_pos, left <- Cardinality(free),
        MaxSize <- BLOCK_SIZE * Blocks140, LastRead <- BLOCK_SIZE * (Blocks140 - 1),
        Need <- MaxCall \div BLOCK_SIZE + 2
ImplementsByteFile == BF!Spec

-----------------------------------------------------------------------------
\* The inductive invariant from which FileBlocks_proofs derives BlocksReady and the
\* refinement, also while the file is empty and after an ASSERT has failed.

LastBlock == inode.i_size \div BLOCK_SIZE
Own(k) == Lba(inode, index, k)

\* From the first write on, the file has the blocks 0..LastBlock, a table if one of them
\* is indirect, and no other block.
Placed ==
  /\ inode.direct[0] = 0 => inode.i_size = 0
  /\ LastBlock < Blocks140
  /\ LastBlock >= Direct <=> inode.table # 0
  /\ inode.table \notin free
  /\ \A k \in 0..Direct - 1 : k > LastBlock => inode.direct[k] = 0
  /\ inode.direct[0] # 0 =>
       /\ \A k \in 0..LastBlock : Own(k) \in Blocks \ (free \cup {inode.table})
       /\ \A j, k \in 0..LastBlock : Own(j) = Own(k) => j = k

\* Every byte below the size has been written.
Filling ==
  \A j \in 0..inode.i_size - 1 : data[Own(j \div BLOCK_SIZE)][j % BLOCK_SIZE] \in Bytes

\* Writing nothing to an empty file takes 1 from 0.
Position == fd_pos <= inode.i_size \/ (inode.i_size = 0 /\ fd_pos = Wrap - 1)

IInv == TypeOK /\ Placed /\ Filling /\ Position
=============================================================================
