--------------------------- MODULE Sequential_proofs ---------------------------
\* Theorems about the two parts that run without interleaving, the blocks of a file and
\* the heap, and about the module that puts them together.
\*
\* The file (FileBlocks): IInv is inductive, and a file is the plain sequence of bytes
\* ByteFile describes, whatever the blocks under it.
\*
\* The heap (Heap): HeapIInv is inductive up to a step that loads a program over free blocks
\* or frees a small block of the parent (HeapSafe), and it implies HeapSound: what is held
\* is apart, and each list of free blocks holds exactly the free blocks of its arenas.  A process is described by the sets and functions
\* it consists of (Sound), so that each operation is a lemma about those; then come the
\* actions, which say which of them becomes which (Becomes).
EXTENDS MCSequential, SequencesExt, SequenceTheorems, FiniteSetTheorems, WellFoundedInduction, TLAPS

\* A set of numbers that is not empty has a least one.
LEMMA LeastNat ==
  ASSUME NEW S \in SUBSET Nat, S # {}
  PROVE  \E n \in S : \A m \in S : n <= m
  <1> DEFINE R == {ss \in Nat \X Nat : ss[1] < ss[2]}
  <1>1. IsWellFoundedOn(R, Nat)
    BY NatLessThanWellFounded DEF OpToRel
  <1>2. PICK n \in S : \A m \in S : ~(<<m, n>> \in R)
    BY <1>1, WFMin
  <1>3. \A m \in S : ~(m < n)
    BY <1>2
  <1> QED
    BY <1>3


\* What FileBlocksAssumption says of the constants, in the form the proofs below use.
LEMMA Constants ==
  /\ BLOCK_SIZE \in Nat /\ BLOCK_SIZE > 0 /\ Direct \in Nat /\ Direct > 0
  /\ Blocks140 \in Nat /\ Blocks140 > Direct /\ MaxCall \in Nat
  /\ Wrap \in Nat /\ Wrap > 2 * (BLOCK_SIZE * Blocks140 + MaxCall)
  /\ BLOCK_SIZE * Blocks140 \in Nat
  BY FileBlocksAssumption

-----------------------------------------------------------------------------
\* Blocks and offsets of positions.

LEMMA Division ==
  ASSUME NEW a \in Nat
  PROVE  /\ a \div BLOCK_SIZE \in Nat /\ a % BLOCK_SIZE \in 0..BLOCK_SIZE - 1
         /\ a = BLOCK_SIZE * (a \div BLOCK_SIZE) + (a % BLOCK_SIZE)
  BY Constants

\* An offset below BLOCK_SIZE in block k lies in block k.
LEMMA Quotient ==
  ASSUME NEW a \in Nat, NEW k \in Nat, NEW o \in 0..BLOCK_SIZE - 1,
         a = BLOCK_SIZE * k + o
  PROVE  a \div BLOCK_SIZE = k /\ a % BLOCK_SIZE = o
  BY Constants

\* A later position lies in no earlier block.
LEMMA DivMonotone ==
  ASSUME NEW a \in Nat, NEW b \in Nat, a <= b
  PROVE  a \div BLOCK_SIZE <= b \div BLOCK_SIZE
  BY Constants

\* A position is within the first k blocks exactly when its block is one of them.
LEMMA DivBound ==
  ASSUME NEW a \in Nat, NEW k \in Nat
  PROVE  a < BLOCK_SIZE * k <=> a \div BLOCK_SIZE < k
  BY Constants

\* Arithmetic modulo Wrap.
LEMMA Wrapped ==
  /\ \A a \in 0..Wrap - 1 : a % Wrap = a
  /\ \A a \in Int : a % Wrap \in 0..Wrap - 1
  BY Constants

-----------------------------------------------------------------------------
\* The blocks that are allocated.

\* Going up the blocks, their number among those in fr grows by one at a time.
LEMMA NthLemma ==
  ASSUME NEW fr \in SUBSET Blocks, NEW j \in 1..Cardinality(fr)
  PROVE  Nth(fr, j) \in fr /\ Cardinality({c \in fr : c <= Nth(fr, j)}) = j
  <1> DEFINE Upto(n) == {c \in fr : c <= n}
             Enough == {n \in 0..NumBlocks : Cardinality(Upto(n)) >= j}
  <1>1. NumBlocks \in Nat /\ Blocks \subseteq Nat /\ IsFiniteSet(fr) /\ Cardinality(fr) \in Nat
    <2>1. NumBlocks \in Nat /\ IsFiniteSet(Blocks)
      BY FileBlocksAssumption, FS_Interval DEF Blocks
    <2>2. IsFiniteSet(fr)
      BY <2>1, FS_Subset
    <2>3. Cardinality(fr) \in Nat
      BY <2>2, FS_CardinalityType
    <2> QED
      BY <2>1, <2>2, <2>3 DEF Blocks
  <1>0. \A c \in fr : c \in Nat /\ 1 <= c /\ c <= NumBlocks
    BY <1>1 DEF Blocks
  <1>2. \A n : IsFiniteSet(Upto(n)) /\ Cardinality(Upto(n)) \in Nat
    <2>1. \A n : Upto(n) \subseteq fr
      OBVIOUS
    <2> HIDE DEF Upto
    <2> QED
      BY <1>1, <2>1, FS_Subset, FS_CardinalityType
  <1>3. Upto(NumBlocks) = fr
    BY <1>0
  <1>4. Cardinality(Upto(0)) = 0
    <2>1. \A c \in fr : ~(c <= 0)
      BY <1>0
    <2>2. Upto(0) = {}
      BY <2>1
    <2> QED
      BY <2>2, FS_EmptySet
  <1> HIDE DEF Upto
  <1>5. NumBlocks \in Enough
    BY <1>1, <1>3
  <1>6. PICK n \in Enough : \A m \in Enough : n <= m
    <2>1. Enough \in SUBSET Nat /\ Enough # {}
      BY <1>1, <1>5
    <2> HIDE DEF Enough
    <2> QED
      BY <2>1, LeastNat
  <1>7. n \in 1..NumBlocks /\ n - 1 \in 0..NumBlocks
    BY <1>1, <1>4, <1>6
  <1>8. Cardinality(Upto(n - 1)) < j /\ Cardinality(Upto(n)) >= j
    BY <1>2, <1>6, <1>7
  <1>9. n \in fr
    <2> SUFFICES ASSUME n \notin fr PROVE FALSE
      OBVIOUS
    <2>1. \A c \in fr : c <= n <=> c <= n - 1
      BY <1>0, <1>1, <1>7
    <2>2. Upto(n) = Upto(n - 1)
      BY <2>1 DEF Upto
    <2> QED
      BY <1>2, <1>8, <2>2
  <1>10. Cardinality(Upto(n)) = Cardinality(Upto(n - 1)) + 1
    <2>1. /\ \A c \in fr : c <= n <=> c <= n - 1 \/ c = n
          /\ ~(n <= n - 1)
      BY <1>0, <1>1, <1>7
    <2>2. Upto(n) = Upto(n - 1) \cup {n} /\ n \notin Upto(n - 1)
      BY <1>9, <2>1 DEF Upto
    <2> QED
      BY <1>2, <2>2, FS_AddElement
  <1>11. Cardinality(Upto(n)) = j
    BY <1>2, <1>8, <1>10
  <1>12. \E b \in fr : Cardinality({c \in fr : c <= b}) = j
    BY <1>9, <1>11 DEF Upto
  <1> QED
    BY <1>12 DEF Nth

\* A block is given once.
LEMMA NthOnce ==
  ASSUME NEW fr \in SUBSET Blocks, NEW i \in 1..Cardinality(fr), NEW j \in 1..Cardinality(fr),
         Nth(fr, i) = Nth(fr, j)
  PROVE  i = j
  <1>1. Cardinality({c \in fr : c <= Nth(fr, i)}) = i
    BY NthLemma
  <1>2. Cardinality({c \in fr : c <= Nth(fr, j)}) = j
    BY NthLemma
  <1> QED
    BY <1>1, <1>2

-----------------------------------------------------------------------------
\* The parts of Grow.

InodeType ==
  [i_size : 0..BLOCK_SIZE * Blocks140,
   direct : [0..Direct - 1 -> Blocks \cup {0}], table : Blocks \cup {0}]

Blk(fr, has, will, k) == Nth(fr, k - has + 1 + Tables(has, will))
Opened(has, will) == Tables(has, will) = 1
Enough(fr, has, will) == Cardinality(fr) >= Tables(has, will) + will - has

\* The free blocks are finitely many, and block 0 is none of them.
LEMMA FiniteFree ==
  ASSUME NEW fr \in SUBSET Blocks
  PROVE  IsFiniteSet(fr) /\ Cardinality(fr) \in Nat /\ 0 \notin fr
  <1>1. IsFiniteSet(Blocks) /\ 0 \notin Blocks
    BY FileBlocksAssumption, FS_Interval DEF Blocks
  <1> QED
    BY <1>1, FS_Subset, FS_CardinalityType

\* What is given is free, no block is given twice, and none is the table's.
LEMMA Given ==
  ASSUME NEW fr \in SUBSET Blocks, NEW has \in Nat, NEW will \in Nat, Enough(fr, has, will)
  PROVE  /\ \A k \in has..will - 1 :
              /\ Blk(fr, has, will, k) \in fr
              /\ Opened(has, will) => Blk(fr, has, will, k) # Nth(fr, 1)
         /\ \A j, k \in has..will - 1 :
              Blk(fr, has, will, j) = Blk(fr, has, will, k) => j = k
         /\ Opened(has, will) => Nth(fr, 1) \in fr
  <1> DEFINE t == Tables(has, will)
  <1>1. Cardinality(fr) \in Nat /\ t \in {0, 1}
    BY FiniteFree DEF Tables
  <1> HIDE DEF t
  <1>2. \A k \in has..will - 1 :
          /\ k \in Nat /\ k - has + 1 + t \in 1..Cardinality(fr)
          /\ Blk(fr, has, will, k) = Nth(fr, k - has + 1 + t)
    BY <1>1 DEF Enough, Blk, t
  <1>3. Opened(has, will) => 1 \in 1..Cardinality(fr) /\ t = 1
    <2> SUFFICES ASSUME Opened(has, will) PROVE 1 <= Cardinality(fr) /\ t = 1
      BY <1>1
    <2>1. t = 1 /\ has < will
      BY Constants DEF Opened, Tables, t
    <2> QED
      BY <1>1, <2>1 DEF Enough, t
  <1>4. ASSUME NEW k \in has..will - 1
        PROVE  /\ Blk(fr, has, will, k) \in fr
               /\ Opened(has, will) => Blk(fr, has, will, k) # Nth(fr, 1)
    <2>1. Blk(fr, has, will, k) \in fr
      <3> DEFINE l == k - has + 1 + t
      <3>1. l \in 1..Cardinality(fr) /\ Blk(fr, has, will, k) = Nth(fr, l)
        BY <1>2
      <3> HIDE DEF l
      <3>2. Nth(fr, l) \in fr
        BY <3>1, NthLemma
      <3> QED
        BY <3>1, <3>2
    <2>2. ASSUME Opened(has, will), Blk(fr, has, will, k) = Nth(fr, 1)
          PROVE  FALSE
      <3>1. k - has + 1 + t = 1
        BY <1>2, <1>3, <2>2, NthOnce
      <3> QED
        BY <1>2, <1>3, <2>2, <3>1
    <2> QED
      BY <2>1, <2>2
  <1>5. ASSUME NEW j \in has..will - 1, NEW k \in has..will - 1,
               Blk(fr, has, will, j) = Blk(fr, has, will, k)
        PROVE  j = k
    <2>1. j - has + 1 + t = k - has + 1 + t
      BY <1>2, <1>5, NthOnce
    <2> QED
      BY <1>1, <1>2, <2>1
  <1>6. Opened(has, will) => Nth(fr, 1) \in fr
    BY <1>3, NthLemma
  <1> QED
    BY <1>2, <1>4, <1>5, <1>6

\* What Grow makes of inode i and the free blocks fr.
Grown(g, i, fr, has, will) ==
  LET K == has..will - 1
  IN /\ g.inode \in InodeType /\ g.inode.i_size = i.i_size
     /\ \A k \in 0..Direct - 1 :
          g.inode.direct[k] = IF k \in K THEN Blk(fr, has, will, k) ELSE i.direct[k]
     /\ g.inode.table = IF Opened(has, will) THEN Nth(fr, 1) ELSE i.table
     /\ g.entries \in [Indirect -> Blocks \cup {0}]
     /\ \A k \in Indirect :
          g.entries[k] = IF k \in K THEN Blk(fr, has, will, k)
                         ELSE IF Tables(has, will) = 0 /\ i.table # 0 THEN index[i.table][k]
                         ELSE 0
     /\ g.free \subseteq fr /\ \A k \in K : Blk(fr, has, will, k) \notin g.free
     /\ Opened(has, will) => Nth(fr, 1) \notin g.free

\* Grow, with enough free blocks, returns what Grown describes.
LEMMA GrowLemma ==
  ASSUME TypeOK, NEW i \in InodeType, NEW fr \in SUBSET Blocks, NEW has \in Nat, NEW will \in Nat,
         Enough(fr, has, will)
  PROVE  Grown(Grow(i, fr, has, will), i, fr, has, will)
  <1> DEFINE g == Grow(i, fr, has, will)
             t == Tables(has, will)
             K == has..will - 1
             b(k) == Blk(fr, has, will, k)
             S == {Nth(fr, j) : j \in 1..t + will - has}
             D == [k \in 0..Direct - 1 |-> IF k \in K THEN b(k) ELSE i.direct[k]]
             E == [k \in Indirect |-> IF k \in K THEN b(k)
                                      ELSE IF t = 0 /\ i.table # 0 THEN index[i.table][k] ELSE 0]
             x == IF t = 1 THEN Nth(fr, 1) ELSE i.table
  <1>1. g = [inode   |-> [i EXCEPT !.direct = D, !.table = x],
             entries |-> E,
             free    |-> fr \ S]
    BY DEF Grow, Blk
  <1>2. t = 1 <=> Opened(has, will)
    BY DEF Opened
  <1>3. /\ \A k \in K : b(k) \in Blocks
        /\ Opened(has, will) => Nth(fr, 1) \in Blocks
    BY Given
  <1>4. D \in [0..Direct - 1 -> Blocks \cup {0}]
    <2>1. i.direct \in [0..Direct - 1 -> Blocks \cup {0}]
      BY DEF InodeType
    <2> HIDE DEF K, b
    <2> QED
      BY <1>3, <2>1
  <1>5. E \in [Indirect -> Blocks \cup {0}]
    <2>1. /\ i.table # 0 => i.table \in Blocks
          /\ index \in [Blocks -> [Indirect -> Blocks \cup {0}]]
      BY DEF InodeType, TypeOK
    <2> HIDE DEF K, b, t
    <2> QED
      BY <1>3, <2>1
  <1>6. x \in Blocks \cup {0}
    BY <1>2, <1>3 DEF InodeType
  <1>7. /\ \A k \in 0..Direct - 1 : D[k] = IF k \in K THEN b(k) ELSE i.direct[k]
        /\ \A k \in Indirect :
             E[k] = IF k \in K THEN b(k)
                    ELSE IF t = 0 /\ i.table # 0 THEN index[i.table][k] ELSE 0
        /\ x = IF Opened(has, will) THEN Nth(fr, 1) ELSE i.table
    BY <1>2
  <1>8. /\ Opened(has, will) => Nth(fr, 1) \in S
        /\ \A k \in K : b(k) \in S
    <2>1. t \in {0, 1}
      BY DEF Tables
    <2>2. \A k \in K : k - has + 1 + t \in 1..t + will - has /\ b(k) = Nth(fr, k - has + 1 + t)
      <3>1. \A k \in K : b(k) = Nth(fr, k - has + 1 + t)
        BY DEF Blk
      <3> HIDE DEF t, b
      <3> QED
        BY <2>1, <3>1
    <2>3. Opened(has, will) => 1 \in 1..t + will - has
      <3> SUFFICES ASSUME Opened(has, will) PROVE 1 <= t + will - has
        BY <2>1
      <3>1. t = 1 /\ has < will
        BY Constants DEF Opened, Tables
      <3> HIDE DEF t
      <3> QED
        BY <3>1
    <2> HIDE DEF t, b, K
    <2> QED
      BY <2>2, <2>3
  <1> HIDE DEF D, E, x, S, K, b, t
  <1>9. /\ g.inode = [i EXCEPT !.direct = D, !.table = x] /\ g.entries = E
        /\ g.free = fr \ S
    BY <1>1
  <1>11. /\ g.inode \in InodeType /\ g.inode.i_size = i.i_size
         /\ g.inode.direct = D /\ g.inode.table = x
    BY <1>4, <1>6, <1>9 DEF InodeType
  <1>12. /\ g.free \subseteq fr /\ \A k \in K : b(k) \notin g.free
         /\ Opened(has, will) => Nth(fr, 1) \notin g.free
    BY <1>8, <1>9
  <1> HIDE DEF g
  <1>13. /\ g.inode \in InodeType /\ g.inode.i_size = i.i_size
         /\ \A k \in 0..Direct - 1 : g.inode.direct[k] = IF k \in K THEN b(k) ELSE i.direct[k]
         /\ g.inode.table = IF Opened(has, will) THEN Nth(fr, 1) ELSE i.table
         /\ g.entries \in [Indirect -> Blocks \cup {0}]
         /\ \A k \in Indirect :
              g.entries[k] = IF k \in K THEN b(k)
                             ELSE IF t = 0 /\ i.table # 0 THEN index[i.table][k] ELSE 0
    BY <1>5, <1>7, <1>9, <1>11
  <1> QED
    BY <1>2, <1>12, <1>13 DEF Grown, g, K, b, t

-----------------------------------------------------------------------------
\* The parts of Write.

First   == inode.direct[0] = 0
I0      == IF First THEN [inode EXCEPT !.direct[0] = Nth(free, 1)] ELSE inode
Fr      == IF First THEN free \ {Nth(free, 1)} ELSE free
Has     == BlocksFor(inode.i_size)
Will(n) == BlocksFor(inode.i_size + n)
Grows(n)    == Grow(I0, Fr, Has, Will(n))
NewIndex(n)    == IF Will(n) > Has /\ Will(n) > Direct
           THEN [index EXCEPT ![Grows(n).inode.table] = Grows(n).entries] ELSE index
Touched(n) ==
  {k \in (inode.i_size \div BLOCK_SIZE)..((inode.i_size + n - 1) \div BLOCK_SIZE) : n > 0}

Starts  == IF First THEN 1 ELSE 0
Fits(n) == inode.i_size + n <= BLOCK_SIZE * Blocks140 /\ ~Asserts(Has, Will(n), Starts)

Refuses == Fail /\ UNCHANGED <<inode, index, free, ok>>

Stops(n) ==
  /\ Asserts(Has, Will(n), Starts)
  /\ ok' = FALSE
  /\ UNCHANGED <<inode, index, data, free, fd_pos, got>>

Succeeds(n, v) ==
  /\ Fits(n)
  /\ inode' = [Grows(n).inode EXCEPT !.i_size = inode.i_size + n]
  /\ index' = NewIndex(n) /\ free' = Grows(n).free
  /\ data' = [b \in Blocks |->
                IF \E k \in Touched(n) : Lba(Grows(n).inode, NewIndex(n), k) = b
                THEN LET k == CHOOSE k \in Touched(n) : Lba(Grows(n).inode, NewIndex(n), k) = b
                     IN Filled(data[b], k, inode.i_size, n, v)
                ELSE data[b]]
  /\ fd_pos' = (inode.i_size + n - 1) % Wrap
  /\ got' = <<>>
  /\ UNCHANGED ok

\* A write is refused, stops half-way or succeeds.
LEMMA WriteCases ==
  ASSUME NEW n, NEW v, Write(n, v)
  PROVE  ok /\ (Refuses \/ Stops(n) \/ Succeeds(n, v))
  BY DEF Write, Refuses, Stops, Succeeds, Fits, First, Starts, I0, Fr, Has, Will, Grows, NewIndex, Touched

\* What TypeOK says of the numbers.
LEMMA Sizes ==
  ASSUME TypeOK
  PROVE  /\ inode \in InodeType /\ inode.i_size \in Nat /\ inode.i_size <= BLOCK_SIZE * Blocks140
         /\ LastBlock \in Nat /\ Has = LastBlock + 1 /\ Has \in Nat
         /\ \A n \in 0..MaxCall : Will(n) \in Nat /\ Has <= Will(n)
         /\ free \in SUBSET Blocks /\ fd_pos \in Nat /\ fd_pos < Wrap
         /\ 0 \notin Blocks /\ 0 \in 0..Direct - 1
         /\ \A k : k \in 0..Direct - 1 \/ k \in Indirect => k \in Nat
  <1>1. inode \in InodeType
    BY DEF TypeOK, InodeType
  <1>2. inode.i_size \in Nat /\ inode.i_size <= BLOCK_SIZE * Blocks140
    BY <1>1, Constants DEF InodeType
  <1>3. LastBlock \in Nat
    BY <1>2, Division DEF LastBlock
  <1>4. Has = LastBlock + 1
    BY DEF Has, BlocksFor, LastBlock
  <1>5. ASSUME NEW n \in 0..MaxCall
        PROVE  Will(n) \in Nat /\ Has <= Will(n)
    <2>1. n \in Nat /\ inode.i_size + n \in Nat /\ inode.i_size <= inode.i_size + n
      BY <1>2, Constants
    <2>2. (inode.i_size + n) \div BLOCK_SIZE \in Nat
      BY <2>1, Division
    <2>3. inode.i_size \div BLOCK_SIZE <= (inode.i_size + n) \div BLOCK_SIZE
      BY <1>2, <2>1, DivMonotone
    <2> QED
      BY <1>3, <2>2, <2>3 DEF Will, Has, BlocksFor, LastBlock
  <1>6. free \in SUBSET Blocks /\ fd_pos \in Nat /\ fd_pos < Wrap
    BY Constants DEF TypeOK
  <1>7. 0 \notin Blocks /\ 0 \in 0..Direct - 1
    BY Constants DEF Blocks
  <1>8. \A k : k \in 0..Direct - 1 \/ k \in Indirect => k \in Nat
    BY Constants DEF Indirect
  <1> QED
    BY <1>1, <1>2, <1>3, <1>4, <1>5, <1>6, <1>7, <1>8

\* The block of the first write is the lowest free one.
LEMMA StartLemma ==
  ASSUME IInv, NEW n \in 0..MaxCall, Fits(n)
  PROVE  /\ I0 \in InodeType /\ Fr \in SUBSET Blocks /\ Fr \subseteq free
         /\ I0.i_size = inode.i_size /\ I0.table = inode.table /\ I0.table \notin Fr
         /\ I0.direct[0] # 0 /\ \A k \in 1..Direct - 1 : I0.direct[k] = inode.direct[k]
         /\ \A k \in 0..LastBlock : Lba(I0, index, k) \in Blocks \ (Fr \cup {I0.table})
         /\ \A j, k \in 0..LastBlock : Lba(I0, index, j) = Lba(I0, index, k) => j = k
         /\ inode.i_size > 0 => I0 = inode
         /\ Enough(Fr, Has, Will(n))
  <1>1. TypeOK /\ Placed
    BY DEF IInv
  <1>0. /\ Has \in Nat /\ Will(n) \in Nat /\ Has <= Will(n)
        /\ Tables(Has, Will(n)) \in {0, 1} /\ Cardinality(free) \in Nat
        /\ Cardinality(free) >= Starts + Tables(Has, Will(n)) + Will(n) - Has
    <2>1. /\ Has \in Nat /\ Will(n) \in Nat /\ Has <= Will(n)
          /\ Tables(Has, Will(n)) \in {0, 1} /\ Cardinality(free) \in Nat /\ Starts \in {0, 1}
      BY <1>1, Sizes, FiniteFree DEF Tables, Starts
    <2>2. ~(Cardinality(free) < Starts + Tables(Has, Will(n)) + Will(n) - Has)
      BY DEF Fits, Asserts
    <2> QED
      BY <2>1, <2>2
  <1>2. /\ inode \in InodeType /\ free \in SUBSET Blocks /\ 0 \notin Blocks /\ 0 \in 0..Direct - 1
        /\ inode.i_size \in Nat /\ LastBlock \in Nat
    BY <1>1, Sizes
  <1>3. inode.table \notin free
    BY <1>1 DEF Placed
  <1>4. CASE ~First
    <2>1. I0 = inode /\ Fr = free
      BY <1>4 DEF I0, Fr
    <2>2. /\ \A k \in 0..LastBlock : Lba(inode, index, k) \in Blocks \ (free \cup {inode.table})
          /\ \A j, k \in 0..LastBlock : Lba(inode, index, j) = Lba(inode, index, k) => j = k
      BY <1>1, <1>4 DEF Placed, Own, First
    <2>3. inode.direct[0] # 0
      BY <1>4 DEF First
    <2>4. Enough(Fr, Has, Will(n))
      BY <1>0, <1>4, <2>1 DEF Starts, Enough
    <2> QED
      BY <1>2, <1>3, <2>1, <2>2, <2>3, <2>4
  <1>5. CASE First
    <2> DEFINE b == Nth(free, 1)
    <2>1. b \in free
      <3>1. Cardinality(free) \in Nat /\ IsFiniteSet(free)
        BY <1>2, FiniteFree
      <3>2. Cardinality(free) # 0
        BY <1>0, <1>5 DEF Starts
      <3>3. 1 \in 1..Cardinality(free)
        BY <3>1, <3>2
      <3> QED
        BY <1>2, <3>3, NthLemma
    <2>2. LastBlock = 0
      <3>1. inode.i_size = 0
        BY <1>1, <1>5 DEF Placed, First
      <3> QED
        BY <3>1, Constants DEF LastBlock
    <2>3. I0 = [inode EXCEPT !.direct[0] = b] /\ Fr = free \ {b}
      BY <1>5 DEF I0, Fr
    <2> HIDE DEF b
    <2>4. /\ I0 \in InodeType /\ I0.i_size = inode.i_size /\ I0.table = inode.table
          /\ I0.direct[0] = b /\ \A k \in 1..Direct - 1 : I0.direct[k] = inode.direct[k]
      <3>1. inode.direct \in [0..Direct - 1 -> Blocks \cup {0}]
        BY <1>2 DEF InodeType
      <3>2. I0.direct = [inode.direct EXCEPT ![0] = b]
        BY <1>2, <2>3 DEF InodeType
      <3>3. I0.i_size = inode.i_size /\ I0.table = inode.table
        BY <1>2, <2>3 DEF InodeType
      <3>4. b \in Blocks
        BY <1>2, <2>1
      <3>5. I0.direct \in [0..Direct - 1 -> Blocks \cup {0}]
        BY <3>1, <3>2, <3>4
      <3>6. I0 \in InodeType
        BY <1>2, <2>3, <3>2, <3>5 DEF InodeType
      <3>7. I0.direct[0] = b /\ \A k \in 1..Direct - 1 : I0.direct[k] = inode.direct[k]
        <4>1. \A k \in 1..Direct - 1 : k \in 0..Direct - 1 /\ k # 0
          BY Constants
        <4> QED
          BY <1>2, <3>1, <3>2, <4>1
      <3> QED
        BY <3>3, <3>6, <3>7
    <2>5. Lba(I0, index, 0) = b
      BY <2>4, Constants DEF Lba
    <2>6. inode.i_size = 0
      BY <1>1, <1>5 DEF Placed, First
    <2>7. Enough(Fr, Has, Will(n))
      <3>1. Cardinality(Fr) = Cardinality(free) - 1
        BY <1>2, <2>1, <2>3, FiniteFree, FS_RemoveElement
      <3> QED
        BY <1>0, <1>5, <3>1 DEF Starts, Enough
    <2> QED
      BY <1>2, <1>3, <2>1, <2>2, <2>3, <2>4, <2>5, <2>6, <2>7
  <1> QED
    BY <1>4, <1>5

\* Growing leaves the blocks of the file where they are.
LEMMA GrownLemma ==
  ASSUME IInv, NEW n \in 0..MaxCall, Fits(n)
  PROVE  /\ Grows(n).inode \in InodeType /\ Grows(n).inode.i_size = inode.i_size
         /\ Grows(n).inode.direct[0] # 0
         /\ Grows(n).free \subseteq Fr /\ Grows(n).free \in SUBSET Blocks
         /\ Grows(n).inode.table \notin Grows(n).free
         /\ LastBlock >= Direct => Grows(n).inode.table = inode.table /\ inode.table # 0
         /\ \A k \in 0..LastBlock :
              /\ Lba(Grows(n).inode, index, k) = Lba(I0, index, k)
              /\ Lba(I0, index, k) # Grows(n).inode.table
  <1> DEFINE g == Grows(n)
             has == Has
             will == Will(n)
             K == has..will - 1
             O == Opened(has, will)
  <1>1. TypeOK /\ Placed
    BY DEF IInv
  <1>2. /\ LastBlock \in Nat /\ has = LastBlock + 1 /\ has \in Nat /\ will \in Nat
        /\ 0 \notin Blocks /\ 0 \in 0..Direct - 1
        /\ \A k : k \in 0..Direct - 1 \/ k \in Indirect => k \in Nat
    BY <1>1, Sizes
  <1>3. /\ I0 \in InodeType /\ Fr \in SUBSET Blocks
        /\ I0.i_size = inode.i_size /\ I0.table = inode.table /\ I0.table \notin Fr
        /\ I0.direct[0] # 0
        /\ \A k \in 0..LastBlock : Lba(I0, index, k) \in Blocks \ (Fr \cup {I0.table})
    BY StartLemma
  <1>12. Enough(Fr, has, will)
    BY StartLemma
  <1> HIDE DEF has, will
  <1>4. /\ g.inode \in InodeType /\ g.inode.i_size = I0.i_size
        /\ \A k \in 0..Direct - 1 :
             g.inode.direct[k] = IF k \in K THEN Blk(Fr, has, will, k) ELSE I0.direct[k]
        /\ g.inode.table = IF O THEN Nth(Fr, 1) ELSE I0.table
        /\ g.free \subseteq Fr
        /\ O => Nth(Fr, 1) \notin g.free
    <2>1. g = Grow(I0, Fr, has, will)
      BY DEF Grows, has, will
    <2>2. Grown(Grow(I0, Fr, has, will), I0, Fr, has, will)
      BY <1>1, <1>2, <1>3, <1>12, GrowLemma
    <2> HIDE DEF g
    <2> QED
      BY <2>1, <2>2 DEF Grown
  <1>5. /\ \A k \in K : k \in has..will - 1
        /\ O => Nth(Fr, 1) \in Fr
    BY <1>2, <1>3, <1>12, Given
  <1>6. O => has <= Direct
    BY DEF Opened, Tables
  <1> HIDE DEF g, K, O
  <1>7. \A k \in 0..LastBlock : k \notin K /\ k \in Nat
    BY <1>2, <1>5
  <1>8. g.inode.table \notin g.free
    BY <1>3, <1>4
  <1>9. LastBlock >= Direct => g.inode.table = inode.table /\ inode.table # 0
    BY <1>1, <1>2, <1>3, <1>4, <1>6, Constants DEF Placed
  <1>10. g.inode.direct[0] # 0
    BY <1>2, <1>3, <1>4, <1>7
  <1>11. ASSUME NEW k \in 0..LastBlock
         PROVE  Lba(g.inode, index, k) = Lba(I0, index, k) /\ Lba(I0, index, k) # g.inode.table
    <2>1. CASE k < Direct
      <3>1. k \in 0..Direct - 1
        BY <1>7, <2>1, Constants
      <3>2. g.inode.direct[k] = I0.direct[k]
        BY <1>4, <1>7, <3>1
      <3> QED
        BY <1>3, <1>4, <1>5, <2>1, <3>2 DEF Lba
    <2>2. CASE k >= Direct
      <3>1. LastBlock >= Direct /\ ~(k < Direct)
        BY <1>2, <1>7, <2>2, Constants
      <3>2. g.inode.table = I0.table
        BY <1>3, <1>9, <3>1
      <3> QED
        BY <1>3, <3>1, <3>2 DEF Lba
    <2> QED
      BY <1>7, <2>1, <2>2, Constants
  <1> QED
    BY <1>3, <1>4, <1>8, <1>9, <1>10, <1>11 DEF g

\* After a write the file has its old blocks and, behind them, those it was given:
\* whichever of the three situations of file_write has put them there.
LEMMA NewBlocks ==
  ASSUME IInv, NEW n \in 0..MaxCall, Fits(n)
  PROVE  /\ NewIndex(n) \in [Blocks -> [Indirect -> Blocks \cup {0}]]
         /\ Will(n) <= Blocks140
         /\ Will(n) - 1 >= Direct <=> Grows(n).inode.table # 0
         /\ \A k \in 0..Direct - 1 : k > Will(n) - 1 => Grows(n).inode.direct[k] = 0
         /\ \A k \in 0..LastBlock : Lba(Grows(n).inode, NewIndex(n), k) = Lba(I0, index, k)
         /\ \A k \in 0..Will(n) - 1 :
              Lba(Grows(n).inode, NewIndex(n), k) \in Blocks \ (Grows(n).free \cup {Grows(n).inode.table})
         /\ \A j, k \in 0..Will(n) - 1 :
              Lba(Grows(n).inode, NewIndex(n), j) = Lba(Grows(n).inode, NewIndex(n), k) => j = k
  <1> DEFINE g == Grows(n)
             x == NewIndex(n)
             has == Has
             will == Will(n)
             K == has..will - 1
             O == Opened(has, will)
             t == Tables(has, will)
             b(k) == Blk(Fr, has, will, k)
             old(k) == Lba(I0, index, k)
             new(k) == Lba(g.inode, x, k)
  <1>1. TypeOK /\ Placed
    BY DEF IInv
  <1>2. /\ LastBlock \in Nat /\ has = LastBlock + 1 /\ has \in Nat /\ will \in Nat /\ has <= will
        /\ 0 \notin Blocks /\ 0 \in 0..Direct - 1
    BY <1>1, Sizes
  <1>3. /\ I0 \in InodeType /\ Fr \in SUBSET Blocks
        /\ I0.table = inode.table /\ I0.table \notin Fr
        /\ \A k \in 0..LastBlock : old(k) \in Blocks \ (Fr \cup {I0.table})
        /\ \A j, k \in 0..LastBlock : old(j) = old(k) => j = k
        /\ \A k \in 1..Direct - 1 : I0.direct[k] = inode.direct[k]
    BY StartLemma
  <1>9. Enough(Fr, has, will)
    BY StartLemma
  <1>20. will <= Blocks140
    <2>1. ~(will > Blocks140)
      BY DEF Fits, Asserts
    <2> QED
      BY <1>2, <2>1, Constants
  <1>4. /\ g.free \subseteq Fr
        /\ LastBlock >= Direct => g.inode.table = inode.table /\ inode.table # 0
        /\ \A k \in 0..LastBlock : Lba(g.inode, index, k) = old(k) /\ old(k) # g.inode.table
    BY GrownLemma
  <1> HIDE DEF has, will, old
  <1>5. g = Grow(I0, Fr, has, will)
    BY DEF Grows, has, will
  <1>6. /\ \A k \in 0..Direct - 1 : g.inode.direct[k] = IF k \in K THEN b(k) ELSE I0.direct[k]
        /\ g.inode.table = IF O THEN Nth(Fr, 1) ELSE I0.table
        /\ g.entries \in [Indirect -> Blocks \cup {0}]
        /\ \A k \in Indirect :
             g.entries[k] = IF k \in K THEN b(k)
                            ELSE IF t = 0 /\ I0.table # 0 THEN index[I0.table][k] ELSE 0
        /\ \A k \in K : b(k) \notin g.free
    <2>1. Grown(Grow(I0, Fr, has, will), I0, Fr, has, will)
      BY <1>1, <1>2, <1>3, <1>9, GrowLemma
    <2> HIDE DEF g
    <2> QED
      BY <1>5, <2>1 DEF Grown
  <1>7. /\ \A k \in K : k \in has..will - 1 /\ b(k) \in Fr /\ (O => b(k) # Nth(Fr, 1))
        /\ \A j, k \in K : b(j) = b(k) => j = k
        /\ O => Nth(Fr, 1) \in Fr
    BY <1>2, <1>3, <1>9, Given
  <1>8. /\ t \in {0, 1}
        /\ t = 1 <=> has <= Direct /\ will > Direct
    BY DEF Tables
  <1>10. \A k \in has..will - 1 : k \in K /\ k \in Nat
    BY <1>2
  <1>11. O <=> t = 1
    BY DEF O, Opened, t
  <1>21. ASSUME NEW k \in 0..Direct - 1, k > will - 1
         PROVE  g.inode.direct[k] = 0
    <2>1. k \in 1..Direct - 1 /\ k \notin K /\ k > LastBlock
      BY <1>2, <1>21, Constants
    <2>2. inode.direct[k] = 0
      BY <1>1, <2>1 DEF Placed
    <2> QED
      BY <1>3, <1>6, <2>1, <2>2
  <1> HIDE DEF K, O, t, b
  <1>12. g.inode.table \in Blocks \cup {0} /\ (will > Direct => g.inode.table \in Blocks)
    <2>1. I0.table \in Blocks \cup {0}
      BY <1>3 DEF InodeType
    <2>2. CASE t = 1
      BY <1>3, <1>6, <1>7, <1>11, <2>2
    <2>3. CASE t # 1
      BY <1>2, <1>3, <1>4, <1>6, <1>8, <1>11, <2>1, <2>3, Constants
    <2> QED
      BY <2>2, <2>3
  <1> HIDE DEF g
  <1>13. /\ x \in [Blocks -> [Indirect -> Blocks \cup {0}]]
         /\ will > has /\ will > Direct => x[g.inode.table] = g.entries
         /\ ~(will > has /\ will > Direct) => x = index
    <2>1. index \in [Blocks -> [Indirect -> Blocks \cup {0}]]
      BY <1>1 DEF TypeOK
    <2>2. x = IF will > has /\ will > Direct
              THEN [index EXCEPT ![g.inode.table] = g.entries] ELSE index
      BY DEF NewIndex, will, has, g
    <2> HIDE DEF x
    <2> QED
      BY <1>6, <1>12, <2>1, <2>2
  <1> HIDE DEF x
  <1>14. ASSUME NEW k \in 0..LastBlock
         PROVE  new(k) = old(k)
    <2>1. k \in Nat /\ k \notin K /\ Lba(g.inode, index, k) = old(k)
      BY <1>2, <1>4, <1>7
    <2>2. CASE k < Direct
      BY <2>1, <2>2 DEF Lba
    <2>3. CASE k >= Direct /\ will > has /\ will > Direct
      <3>1. LastBlock >= Direct /\ ~(k < Direct)
        BY <1>2, <2>1, <2>3, Constants
      <3>2. g.inode.table = I0.table /\ I0.table # 0 /\ t = 0
        BY <1>2, <1>3, <1>4, <1>8, <3>1, Constants
      <3>3. k \in Indirect
        BY <1>1, <1>2, <2>1, <3>1, Constants DEF Indirect, Placed
      <3>4. x[g.inode.table][k] = index[g.inode.table][k]
        BY <1>6, <1>13, <2>1, <2>3, <3>2, <3>3
      <3> QED
        BY <2>1, <3>1, <3>4 DEF Lba
    <2>4. CASE ~(will > has /\ will > Direct)
      BY <1>13, <2>1, <2>4
    <2> QED
      BY <1>2, <2>1, <2>2, <2>3, <2>4, Constants
  <1>15. ASSUME NEW k \in has..will - 1
         PROVE  new(k) = b(k)
    <2>1. k \in K /\ k \in Nat /\ will > has /\ k < will
      BY <1>2, <1>10
    <2>2. CASE k < Direct
      <3>1. k \in 0..Direct - 1
        BY <2>1, <2>2, Constants
      <3> QED
        BY <1>6, <2>1, <2>2, <3>1 DEF Lba
    <2>3. CASE k >= Direct
      <3>1. k \in Indirect /\ will > Direct /\ ~(k < Direct)
        BY <1>2, <1>20, <2>1, <2>3, Constants DEF Indirect, will
      <3> QED
        BY <1>6, <1>13, <2>1, <3>1 DEF Lba
    <2> QED
      BY <2>1, <2>2, <2>3, Constants
  <1>16. \A k \in 0..will - 1 : k \in 0..LastBlock \/ k \in has..will - 1
    BY <1>2
  <1>17. ASSUME NEW k \in 0..will - 1
         PROVE  new(k) \in Blocks \ (g.free \cup {g.inode.table})
    <2>1. CASE k \in 0..LastBlock
      BY <1>3, <1>4, <1>14, <2>1
    <2>2. CASE k \in has..will - 1
      <3>1. new(k) = b(k) /\ k \in K
        BY <1>10, <1>15, <2>2
      <3>2. b(k) # g.inode.table
        <4>1. CASE O
          BY <1>6, <1>7, <3>1, <4>1
        <4>2. CASE ~O
          BY <1>3, <1>6, <1>7, <3>1, <4>2
        <4> QED
          BY <4>1, <4>2
      <3> QED
        BY <1>3, <1>6, <1>7, <3>1, <3>2
    <2> QED
      BY <1>16, <2>1, <2>2
  <1>18. ASSUME NEW j \in 0..will - 1, NEW k \in 0..will - 1, new(j) = new(k)
         PROVE  j = k
    <2>1. CASE j \in 0..LastBlock /\ k \in 0..LastBlock
      BY <1>3, <1>14, <1>18, <2>1
    <2>2. CASE j \in has..will - 1 /\ k \in has..will - 1
      BY <1>7, <1>10, <1>15, <1>18, <2>2
    <2>3. \A i \in 0..LastBlock, l \in has..will - 1 : new(i) # new(l)
      BY <1>3, <1>7, <1>10, <1>14, <1>15
    <2> QED
      BY <1>16, <1>18, <2>1, <2>2, <2>3
  <1>19. will - 1 >= Direct <=> g.inode.table # 0
    <2>1. will - 1 >= Direct => g.inode.table # 0
      BY <1>2, <1>12, Constants
    <2>2. CASE will - 1 < Direct
      <3>1. LastBlock < Direct /\ t # 1
        BY <1>2, <1>8, <2>2, Constants
      <3>2. inode.table = 0
        BY <1>1, <1>2, <3>1, Constants DEF Placed
      <3>3. g.inode.table = 0
        BY <1>3, <1>6, <1>11, <3>1, <3>2
      <3> QED
        BY <1>2, <2>2, <3>3, Constants
    <2> QED
      BY <1>2, <2>1, <2>2, Constants
  <1> QED
    BY <1>13, <1>14, <1>17, <1>18, <1>19, <1>20, <1>21 DEF g, x, will, old

-----------------------------------------------------------------------------
\* What a write does to the bytes.

LEMMA TouchedLemma ==
  ASSUME TypeOK, NEW n \in 0..MaxCall
  PROVE  Touched(n) \subseteq 0..Will(n) - 1
  <1>1. inode.i_size \in Nat /\ LastBlock \in Nat /\ Will(n) \in Nat /\ n \in Nat
    BY Sizes, Constants
  <1>2. SUFFICES ASSUME n > 0, NEW k \in LastBlock..((inode.i_size + n - 1) \div BLOCK_SIZE)
                 PROVE  k \in 0..Will(n) - 1
    BY <1>1 DEF Touched, LastBlock
  <1>3. /\ inode.i_size + n - 1 \in Nat /\ inode.i_size + n \in Nat
        /\ inode.i_size + n - 1 <= inode.i_size + n
    BY <1>1, <1>2
  <1>4. (inode.i_size + n - 1) \div BLOCK_SIZE <= (inode.i_size + n) \div BLOCK_SIZE
    BY <1>3, DivMonotone
  <1>5. (inode.i_size + n - 1) \div BLOCK_SIZE \in Nat /\ (inode.i_size + n) \div BLOCK_SIZE \in Nat
    BY <1>3, Division
  <1>6. k \in Int
    BY <1>1, <1>5
  <1> QED
    BY <1>1, <1>4, <1>5, <1>6 DEF Will, BlocksFor

\* After a write each block of the file has the new bytes if the write touched it, and
\* its old ones otherwise.
LEMMA DataLemma ==
  ASSUME IInv, NEW n \in 0..MaxCall, NEW v, Succeeds(n, v), NEW k \in 0..Will(n) - 1
  PROVE  LET b == Lba(Grows(n).inode, NewIndex(n), k)
         IN data'[b] = IF k \in Touched(n) THEN Filled(data[b], k, inode.i_size, n, v)
                       ELSE data[b]
  <1> DEFINE new(i) == Lba(Grows(n).inode, NewIndex(n), i)
             b == new(k)
             T == Touched(n)
             F(c, i) == Filled(data[c], i, inode.i_size, n, v)
             will == Will(n)
  <1>1. TypeOK /\ Fits(n)
    BY DEF IInv, Succeeds
  <1>2. /\ new(k) \in Blocks
        /\ \A i, j \in 0..will - 1 : new(i) = new(j) => i = j
    BY <1>1, NewBlocks
  <1>3. T \subseteq 0..will - 1
    BY <1>1, TouchedLemma
  <1>4. data' = [c \in Blocks |-> IF \E i \in T : new(i) = c
                                 THEN F(c, CHOOSE i \in T : new(i) = c) ELSE data[c]]
    BY DEF Succeeds
  <1> HIDE DEF new, T, F, will
  <1>5. data'[b] = IF \E i \in T : new(i) = b THEN F(b, CHOOSE i \in T : new(i) = b) ELSE data[b]
    BY <1>2, <1>4
  <1>6. k \in 0..will - 1
    BY DEF will
  <1>7. CASE k \in T
    <2>1. (CHOOSE i \in T : new(i) = b) \in T /\ new(CHOOSE i \in T : new(i) = b) = b
      BY <1>7
    <2>2. (CHOOSE i \in T : new(i) = b) = k
      BY <1>2, <1>3, <1>6, <2>1
    <2> QED
      BY <1>5, <1>7, <2>2 DEF new, T, F
  <1>8. CASE k \notin T
    <2>1. ~\E i \in T : new(i) = b
      BY <1>2, <1>3, <1>6, <1>8
    <2> QED
      BY <1>5, <1>8, <2>1 DEF new, T
  <1> QED
    BY <1>7, <1>8

\* The bytes before the old size are what they were, those behind it are the new ones.
LEMMA BytesLemma ==
  ASSUME IInv, NEW n \in 0..MaxCall, NEW v, Succeeds(n, v),
         NEW j \in 0..inode.i_size + n - 1
  PROVE  /\ j \div BLOCK_SIZE \in 0..Will(n) - 1
         /\ data'[Lba(Grows(n).inode, NewIndex(n), j \div BLOCK_SIZE)][j % BLOCK_SIZE]
              = IF j < inode.i_size THEN data[Own(j \div BLOCK_SIZE)][j % BLOCK_SIZE] ELSE v
  <1> DEFINE size == inode.i_size
             k == j \div BLOCK_SIZE
             o == j % BLOCK_SIZE
             b == Lba(Grows(n).inode, NewIndex(n), k)
             F == Filled(data[b], k, size, n, v)
             last == (size + n - 1) \div BLOCK_SIZE
  <1>1. TypeOK /\ Fits(n)
    BY DEF IInv, Succeeds
  <1>2. size \in Nat /\ LastBlock \in Nat /\ n \in Nat /\ j \in Nat
    BY <1>1, Sizes, Constants
  <1>3. k \in Nat /\ o \in 0..BLOCK_SIZE - 1 /\ j = BLOCK_SIZE * k + o
    BY <1>2, Division
  <1>4. k \in 0..Will(n) - 1
    <2>1. size + n \in Nat /\ j <= size + n
      BY <1>2
    <2>2. k <= (size + n) \div BLOCK_SIZE
      BY <1>2, <2>1, DivMonotone
    <2>3. (size + n) \div BLOCK_SIZE \in Nat
      BY <2>1, Division
    <2> QED
      BY <1>3, <2>2, <2>3 DEF Will, BlocksFor
  <1>5. data'[b] = IF k \in Touched(n) THEN F ELSE data[b]
    BY <1>4, DataLemma
  <1>6. j < size => k \in 0..LastBlock /\ size > 0
    <2> SUFFICES ASSUME j < size PROVE k <= LastBlock
      BY <1>2, <1>3
    <2>1. j <= size
      BY <1>2
    <2> QED
      BY <1>2, <2>1, DivMonotone DEF LastBlock
  <1>7. j < size => b = Own(k)
    <2> SUFFICES ASSUME j < size PROVE b = Own(k)
      OBVIOUS
    <2>1. k \in 0..LastBlock
      BY <1>6
    <2>2. b = Lba(I0, index, k)
      BY <1>1, <2>1, NewBlocks
    <2>3. I0 = inode
      BY <1>1, <1>6, StartLemma
    <2> QED
      BY <2>2, <2>3 DEF Own
  <1>8. F[o] = IF j \in size..size + n - 1 THEN v ELSE IF k = LastBlock THEN data[b][o] ELSE 0
    <2>1. BLOCK_SIZE * k = k * BLOCK_SIZE
      BY <1>3, Constants
    <2>2. k * BLOCK_SIZE + o = j
      BY <1>3, <2>1
    <2>3. F[o] = LET at == k * BLOCK_SIZE + o
                 IN IF at \in size..size + n - 1 THEN v
                    ELSE IF k = size \div BLOCK_SIZE THEN data[b][o] ELSE 0
      BY <1>3 DEF Filled
    <2> QED
      BY <2>2, <2>3 DEF LastBlock
  <1>9. k \in Touched(n) <=> n > 0 /\ k >= LastBlock /\ k <= last
    <2>1. n > 0 => last \in Nat
      <3> SUFFICES ASSUME n > 0 PROVE last \in Nat
        OBVIOUS
      <3>1. size + n - 1 \in Nat
        BY <1>2
      <3> QED
        BY <3>1, Division
    <2> HIDE DEF k, last
    <2>2. Touched(n) = {i \in LastBlock..last : n > 0}
      BY DEF Touched, LastBlock, last
    <2> QED
      BY <1>2, <1>3, <2>1, <2>2
  <1>10. n > 0 => k <= last
    <2> SUFFICES ASSUME n > 0 PROVE k <= last
      OBVIOUS
    <2>1. size + n - 1 \in Nat /\ j <= size + n - 1
      BY <1>2
    <2> QED
      BY <1>2, <2>1, DivMonotone
  <1> HIDE DEF k, o, b, F, last
  <1>11. CASE j < size
    <2>1. k <= LastBlock
      BY <1>2, <1>6, <1>11
    <2>2. k \in Touched(n) => k = LastBlock
      BY <1>2, <1>3, <1>9, <2>1
    <2>3. data'[b][o] = data[b][o]
      BY <1>2, <1>5, <1>8, <1>11, <2>2
    <2> QED
      BY <1>4, <1>7, <1>11, <2>3 DEF k, o, b
  <1>12. CASE ~(j < size)
    <2>1. n > 0 /\ j \in size..size + n - 1
      BY <1>2, <1>12
    <2>2. k >= LastBlock
      <3>1. size <= j
        BY <1>2, <1>12
      <3> QED
        BY <1>2, <3>1, DivMonotone DEF LastBlock, k
    <2>3. k \in Touched(n)
      BY <1>9, <1>10, <2>1, <2>2
    <2>4. data'[b][o] = v
      BY <1>5, <1>8, <2>1, <2>3
    <2> QED
      BY <1>4, <1>12, <2>4 DEF k, o, b
  <1> QED
    BY <1>11, <1>12

-----------------------------------------------------------------------------
\* The steps.

LEMMA Frame ==
  ASSUME IInv, UNCHANGED <<inode, index, data, free>>,
         fd_pos' \in 0..Wrap - 1, Position', got' \in Seq(Bytes), ok' \in BOOLEAN
  PROVE  IInv'
  <1>1. TypeOK'
    BY DEF IInv, TypeOK
  <1>2. Placed' /\ Filling'
    BY DEF IInv, Placed, Filling, Own, LastBlock
  <1> QED
    BY <1>1, <1>2 DEF IInv

\* No bytes are a sequence of bytes.
LEMMA NoBytes == <<>> \in Seq(Bytes)
  OBVIOUS

\* A write that succeeds preserves the invariant.
LEMMA SucceedsStep ==
  ASSUME IInv, NEW n \in 0..MaxCall, NEW v \in Bytes, Succeeds(n, v)
  PROVE  IInv'
  <1> DEFINE size == inode.i_size
             will == Will(n)
             g == Grows(n)
  <1>1. TypeOK /\ Placed /\ Filling /\ Position
    BY DEF IInv
  <1>2. /\ Fits(n)
        /\ inode' = [g.inode EXCEPT !.i_size = size + n]
        /\ index' = NewIndex(n) /\ free' = g.free
        /\ fd_pos' = (size + n - 1) % Wrap /\ got' = <<>> /\ ok' = ok
    BY DEF Succeeds
  <1>3. size \in Nat /\ n \in Nat /\ will \in Nat /\ size + n \in Nat
    BY <1>1, Sizes, Constants
  <1>4. /\ g.inode \in InodeType /\ g.inode.direct[0] # 0
        /\ g.free \in SUBSET Blocks /\ g.inode.table \notin g.free
    BY <1>2, GrownLemma
  <1>5. /\ NewIndex(n) \in [Blocks -> [Indirect -> Blocks \cup {0}]]
        /\ will <= Blocks140 /\ (will - 1 >= Direct <=> g.inode.table # 0)
        /\ \A k \in 0..Direct - 1 : k > will - 1 => g.inode.direct[k] = 0
        /\ \A k \in 0..will - 1 : Lba(g.inode, NewIndex(n), k) \in Blocks \ (g.free \cup {g.inode.table})
        /\ \A j, k \in 0..will - 1 : Lba(g.inode, NewIndex(n), j) = Lba(g.inode, NewIndex(n), k) => j = k
    BY <1>2, NewBlocks
  <1>6. size + n <= BLOCK_SIZE * Blocks140
    BY <1>2 DEF Fits
  <1>7. will - 1 = (size + n) \div BLOCK_SIZE
    BY <1>3, Division DEF Will, BlocksFor
  <1> HIDE DEF g, will
  <1>8. /\ inode' \in InodeType /\ inode'.i_size = size + n
        /\ inode'.direct = g.inode.direct /\ inode'.table = g.inode.table
    <2> DEFINE r == g.inode
               z == size + n
    <2>1. inode' = [r EXCEPT !.i_size = z] /\ r \in InodeType
      BY <1>2, <1>4 DEF g
    <2>2. z \in 0..BLOCK_SIZE * Blocks140
      BY <1>3, <1>6, Constants
    <2> HIDE DEF r, z
    <2>3. inode' \in InodeType /\ inode'.i_size = z /\ inode'.direct = r.direct /\ inode'.table = r.table
      BY <2>1, <2>2 DEF InodeType
    <2> QED
      BY <2>3 DEF r, z
  <1>9. /\ LastBlock' = will - 1
        /\ \A k : Own(k)' = Lba(g.inode, NewIndex(n), k)
    BY <1>2, <1>7, <1>8 DEF LastBlock, Own, Lba
  <1>10. data' \in [Blocks -> [0..BLOCK_SIZE - 1 -> Bytes \cup {0}]]
    <2>1. data \in [Blocks -> [0..BLOCK_SIZE - 1 -> Bytes \cup {0}]]
      BY <1>1 DEF TypeOK
    <2>2. \A b \in Blocks : \A k : Filled(data[b], k, size, n, v) \in [0..BLOCK_SIZE - 1 -> Bytes \cup {0}]
      BY <2>1 DEF Filled
    <2>3. data' = [b \in Blocks |->
                     IF \E k \in Touched(n) : Lba(Grows(n).inode, NewIndex(n), k) = b
                     THEN Filled(data[b], CHOOSE k \in Touched(n) : Lba(Grows(n).inode, NewIndex(n), k) = b,
                                 size, n, v)
                     ELSE data[b]]
      BY DEF Succeeds
    <2> QED
      BY <2>1, <2>2, <2>3
  <1>11. fd_pos' \in 0..Wrap - 1
    <2>1. size + n - 1 \in Int
      BY <1>3
    <2> HIDE DEF size
    <2> QED
      BY <1>2, <2>1, Wrapped
  <1>12. TypeOK'
    BY <1>1, <1>2, <1>4, <1>5, <1>8, <1>10, <1>11, NoBytes DEF TypeOK, InodeType
  <1>13. Placed'
    <2>1. inode'.direct[0] # 0
      BY <1>4, <1>8
    <2>2. LastBlock' < Blocks140 /\ (LastBlock' >= Direct <=> inode'.table # 0)
      BY <1>3, <1>5, <1>8, <1>9, Constants
    <2>5. \A k \in 0..Direct - 1 : k > LastBlock' => inode'.direct[k] = 0
      BY <1>5, <1>8, <1>9
    <2>3. inode'.table \notin free'
      BY <1>2, <1>4, <1>8
    <2>4. /\ \A k \in 0..LastBlock' : Own(k)' \in Blocks \ (free' \cup {inode'.table})
          /\ \A j, k \in 0..LastBlock' : Own(j)' = Own(k)' => j = k
      BY <1>2, <1>5, <1>8, <1>9
    <2> QED
      BY <2>1, <2>2, <2>3, <2>4, <2>5 DEF Placed
  <1>14. Filling'
    <2> SUFFICES ASSUME NEW j \in 0..inode'.i_size - 1
                 PROVE  data'[Own(j \div BLOCK_SIZE)'][j % BLOCK_SIZE] \in Bytes
      BY DEF Filling
    <2>0. j \in 0..size + n - 1
      BY <1>3, <1>8
    <2>1. data'[Own(j \div BLOCK_SIZE)'][j % BLOCK_SIZE]
            = IF j < size THEN data[Own(j \div BLOCK_SIZE)][j % BLOCK_SIZE] ELSE v
      BY <1>9, <2>0, BytesLemma DEF g
    <2>2. j < size => j \in 0..size - 1
      BY <1>3, <2>0
    <2> QED
      BY <1>1, <2>1, <2>2 DEF Filling
  <1>15. Position'
    <2>1. CASE size + n = 0
      <3>1. (0 - 1) % Wrap = Wrap - 1
        BY Constants
      <3>2. size + n - 1 = 0 - 1
        BY <1>3, <2>1
      <3>3. inode'.i_size = 0
        BY <1>8, <2>1
      <3> QED
        BY <1>2, <3>1, <3>2, <3>3 DEF Position
    <2>2. CASE size + n # 0
      <3>1. size + n - 1 \in 0..Wrap - 1 /\ size + n - 1 <= size + n
        BY <1>3, <1>6, <2>2, Constants
      <3>2. fd_pos' = size + n - 1
        <4> HIDE DEF size
        <4> QED
          BY <1>2, <3>1, Wrapped
      <3> QED
        BY <1>8, <3>1, <3>2 DEF Position
    <2> QED
      BY <2>1, <2>2
  <1> QED
    BY <1>12, <1>13, <1>14, <1>15 DEF IInv

\* Every write preserves the invariant (file_write, with the failures that leave it).
LEMMA WriteStep ==
  ASSUME IInv, NEW n \in 0..MaxCall, NEW v \in Bytes, Write(n, v)
  PROVE  IInv'
  <1>1. TypeOK /\ Position
    BY DEF IInv
  <1>2. CASE Refuses
    BY <1>1, <1>2, Frame, NoBytes DEF Refuses, Fail, TypeOK, Position
  <1>3. CASE Stops(n)
    BY <1>1, <1>3, Frame DEF Stops, TypeOK, Position
  <1>5. CASE Succeeds(n, v)
    BY <1>5, SucceedsStep
  <1> QED
    BY <1>2, <1>3, <1>5, WriteCases

\* sys_lseek preserves the invariant.
LEMMA LseekStep ==
  ASSUME IInv, NEW offset, NEW base, Lseek(offset, base)
  PROVE  IInv'
  <1>1. /\ UNCHANGED <<inode, index, data, free, ok>> /\ got' = <<>>
        /\ fd_pos' \in 0..inode.i_size - 1 \/ fd_pos' = fd_pos
    BY DEF Lseek
  <1>2. /\ inode.i_size \in Nat /\ inode.i_size < Wrap /\ fd_pos \in 0..Wrap - 1 /\ ok \in BOOLEAN
        /\ Position
    BY Sizes, Constants DEF IInv, TypeOK
  <1>3. fd_pos' \in 0..Wrap - 1 /\ Position'
    BY <1>1, <1>2, Constants DEF Position
  <1> QED
    BY <1>1, <1>2, <1>3, Frame, NoBytes

\* A read from behind an empty write asserts; any other stays within the file.
LEMMA ReadCases ==
  ASSUME IInv, NEW n \in 0..MaxCall, Read(n)
  PROVE  /\ ok
         /\ UNCHANGED <<inode, index, data, free>>
         /\ \/ got' = <<>> /\ UNCHANGED <<fd_pos, ok>>
            \/ /\ ok' = FALSE /\ UNCHANGED <<fd_pos, got>>
               /\ fd_pos = Wrap - 1 \/ inode.i_size >= BLOCK_SIZE * (Blocks140 - 1)
            \/ LET m == IF fd_pos + n > inode.i_size THEN inode.i_size - fd_pos ELSE n
               IN /\ m \in Nat /\ fd_pos + m <= inode.i_size
                  /\ got' = [j \in 1..m |->
                               data[Own((fd_pos + j - 1) \div BLOCK_SIZE)][(fd_pos + j - 1) % BLOCK_SIZE]]
                  /\ fd_pos' = fd_pos + m
                  /\ UNCHANGED ok
  <1> DEFINE size == inode.i_size
             m == IF (fd_pos + n) % Wrap > size THEN (size - fd_pos) % Wrap ELSE n
             start == fd_pos \div BLOCK_SIZE
             end == ((fd_pos + m) % Wrap) \div BLOCK_SIZE
             read == [j \in 1..m |->
                        data[Own((fd_pos + j - 1) \div BLOCK_SIZE)][(fd_pos + j - 1) % BLOCK_SIZE]]
  <1>1. TypeOK /\ Placed /\ Position
    BY DEF IInv
  <1>2. /\ size \in Nat /\ size <= BLOCK_SIZE * Blocks140 /\ fd_pos \in Nat /\ fd_pos < Wrap
        /\ n \in Nat /\ n <= MaxCall
    BY <1>1, Sizes, Constants
  <1>3. /\ ok
        /\ \/ /\ (fd_pos + n) % Wrap > size /\ m = 0
              /\ got' = <<>> /\ UNCHANGED <<data, fd_pos, inode, index, free, ok>>
           \/ /\ ~((fd_pos + n) % Wrap > size /\ m = 0)
              /\ \/ /\ start >= Blocks140 - 1 \/ end >= Blocks140 - 1
                       \/ (end >= Direct /\ start # end /\ inode.table = 0)
                    /\ ok' = FALSE
                    /\ UNCHANGED <<inode, index, data, free, fd_pos, got>>
                 \/ /\ start < Blocks140 - 1 /\ end < Blocks140 - 1
                    /\ got' = read /\ fd_pos' = fd_pos + m
                    /\ UNCHANGED <<inode, index, data, free, ok>>
    BY DEF Read, Fail, Own
  <1> HIDE DEF read
  <1>4. CASE size = 0 /\ fd_pos = Wrap - 1
    <2>1. m = 1
      <3>1. (0 - (Wrap - 1)) % Wrap = 1
        BY Constants
      <3>2. n >= 1 => (Wrap - 1 + n) % Wrap = n - 1
        <4> SUFFICES ASSUME n >= 1 PROVE (Wrap - 1 + n) % Wrap = n - 1
          OBVIOUS
        <4>1. n - 1 \in 0..Wrap - 1 /\ Wrap - 1 + n = Wrap * 1 + (n - 1)
          BY <1>2, Constants
        <4> QED
          BY <4>1, Constants
      <3>3. n = 0 => (Wrap - 1 + n) % Wrap = Wrap - 1
        BY Constants
      <3>4. Wrap - 1 > 0
        BY Constants
      <3> QED
        BY <1>2, <1>4, <3>1, <3>2, <3>3, <3>4
    <2>2. start >= Blocks140 - 1
      <3>1. Wrap - 1 \in Nat /\ BLOCK_SIZE * Blocks140 <= Wrap - 1 /\ Blocks140 \in Nat
        BY Constants
      <3>2. ~((Wrap - 1) \div BLOCK_SIZE < Blocks140)
        <4>1. Wrap - 1 < BLOCK_SIZE * Blocks140 <=> (Wrap - 1) \div BLOCK_SIZE < Blocks140
          BY <3>1, DivBound
        <4>2. ~(Wrap - 1 < BLOCK_SIZE * Blocks140)
          BY <3>1, Constants
        <4> QED
          BY <4>1, <4>2
      <3>3. (Wrap - 1) \div BLOCK_SIZE \in Nat
        BY <3>1, Division
      <3> QED
        BY <1>4, <3>1, <3>2, <3>3
    <2> HIDE DEF start, end, m
    <2>3. ~(start < Blocks140 - 1) /\ m # 0
      <3>1. start \in Nat /\ Blocks140 - 1 \in Int
        BY <1>2, Division, Constants DEF start
      <3> QED
        BY <2>1, <2>2, <3>1
    <2> QED
      BY <1>3, <1>4, <2>3
  <1>5. CASE fd_pos <= size
    <2>1. /\ (fd_pos + n) % Wrap = fd_pos + n
          /\ size - fd_pos \in Nat /\ (size - fd_pos) % Wrap = size - fd_pos
      <3>1. fd_pos + n \in 0..Wrap - 1 /\ size - fd_pos \in 0..Wrap - 1
        BY <1>2, <1>5, Constants
      <3> QED
        BY <3>1, Constants
    <2>2. /\ m = IF fd_pos + n > size THEN size - fd_pos ELSE n
          /\ m \in Nat /\ fd_pos + m <= size
      BY <1>2, <2>1
    <2>3. fd_pos + m \in Nat /\ (fd_pos + m) % Wrap = fd_pos + m
      <3> HIDE DEF m
      <3>1. fd_pos + m \in 0..Wrap - 1
        BY <1>2, <2>2, Constants
      <3> QED
        BY <3>1, Constants
    <2>4. start \in Nat /\ end \in Nat /\ start <= LastBlock /\ end <= LastBlock
      <3>1. end = (fd_pos + m) \div BLOCK_SIZE
        BY <2>3
      <3> HIDE DEF m
      <3> QED
        BY <1>2, <1>5, <2>2, <2>3, <3>1, Division, DivMonotone DEF LastBlock
    <2>5. ASSUME start >= Blocks140 - 1 \/ end >= Blocks140 - 1
          PROVE  size >= BLOCK_SIZE * (Blocks140 - 1)
      <3>1. LastBlock \in Nat /\ LastBlock >= Blocks140 - 1 /\ Blocks140 - 1 \in Nat
        BY <1>1, <2>4, <2>5, Sizes, Constants
      <3>2. ~(size < BLOCK_SIZE * (Blocks140 - 1))
        BY <1>2, <3>1, DivBound DEF LastBlock
      <3>3. BLOCK_SIZE * (Blocks140 - 1) \in Int
        BY <3>1, Constants
      <3> QED
        BY <1>2, <3>2, <3>3
    <2>6. ~(end >= Direct /\ inode.table = 0)
      BY <1>1, <2>4, Sizes, Constants DEF Placed
    <2>7. read = [j \in 1..m |->
                    data[Own((fd_pos + j - 1) \div BLOCK_SIZE)][(fd_pos + j - 1) % BLOCK_SIZE]]
      BY DEF read
    <2> HIDE DEF start, end, m
    <2> DEFINE c == IF fd_pos + n > size THEN size - fd_pos ELSE n
    <2>8. c = m
      BY <2>2
    <2>9. CASE got' = <<>> /\ UNCHANGED <<data, fd_pos, inode, index, free, ok>>
      BY <1>3, <2>9
    <2>10. CASE /\ start >= Blocks140 - 1 \/ end >= Blocks140 - 1
                  \/ (end >= Direct /\ start # end /\ inode.table = 0)
                /\ ok' = FALSE /\ UNCHANGED <<inode, index, data, free, fd_pos, got>>
      BY <1>3, <2>5, <2>6, <2>10
    <2>11. CASE got' = read /\ fd_pos' = fd_pos + m /\ UNCHANGED <<inode, index, data, free, ok>>
      <3>1. /\ m \in Nat /\ fd_pos + m <= size
            /\ got' = [j \in 1..m |->
                         data[Own((fd_pos + j - 1) \div BLOCK_SIZE)][(fd_pos + j - 1) % BLOCK_SIZE]]
            /\ fd_pos' = fd_pos + m
        BY <2>2, <2>7, <2>11
      <3>2. /\ c \in Nat /\ fd_pos + c <= size
            /\ got' = [j \in 1..c |->
                         data[Own((fd_pos + j - 1) \div BLOCK_SIZE)][(fd_pos + j - 1) % BLOCK_SIZE]]
            /\ fd_pos' = fd_pos + c
        BY <2>8, <3>1
      <3> QED
        BY <1>3, <2>11, <3>2
    <2> QED
      BY <1>3, <2>9, <2>10, <2>11
  <1> QED
    BY <1>1, <1>4, <1>5 DEF Position

\* file_read preserves the invariant.
LEMMA ReadStep ==
  ASSUME IInv, NEW n \in 0..MaxCall, Read(n)
  PROVE  IInv'
  <1> DEFINE size == inode.i_size
             m == IF fd_pos + n > size THEN size - fd_pos ELSE n
             byte(j) == data[Own((fd_pos + j - 1) \div BLOCK_SIZE)][(fd_pos + j - 1) % BLOCK_SIZE]
  <1>1. /\ TypeOK /\ Position /\ Filling /\ fd_pos \in 0..Wrap - 1 /\ ok \in BOOLEAN
        /\ got \in Seq(Bytes) /\ size \in Nat /\ size < Wrap /\ fd_pos \in Nat
    BY SMTT(20), Sizes, Constants DEF IInv, TypeOK
  <1>2. UNCHANGED <<inode, index, data, free>>
    BY ReadCases
  <1>3. CASE got' = <<>> /\ UNCHANGED <<fd_pos, ok>>
    BY <1>1, <1>2, <1>3, Frame, NoBytes DEF Position
  <1>4. CASE ok' = FALSE /\ UNCHANGED <<fd_pos, got>>
    BY <1>1, <1>2, <1>4, Frame DEF Position
  <1>5. CASE /\ m \in Nat /\ fd_pos + m <= size /\ got' = [j \in 1..m |-> byte(j)]
             /\ fd_pos' = fd_pos + m /\ UNCHANGED ok
    <2>1. ASSUME NEW j \in 1..m
          PROVE  byte(j) \in Bytes
      <3>1. fd_pos + j - 1 \in 0..size - 1
        <4> HIDE DEF m
        <4> QED
          BY <1>1, <1>5
      <3> QED
        BY <1>1, <3>1 DEF Filling
    <2>2. got' \in Seq(Bytes)
      <3> HIDE DEF m, byte
      <3> QED
        BY <1>5, <2>1
    <2>3. fd_pos' \in 0..Wrap - 1 /\ Position'
      <3> HIDE DEF m
      <3> QED
        BY <1>1, <1>2, <1>5, Constants DEF Position
    <2> QED
      BY <1>1, <1>2, <1>5, <2>2, <2>3, Frame
  <1> QED
    BY <1>3, <1>4, <1>5, ReadCases

\* A new file, with no block, satisfies the inductive invariant.
THEOREM InitIInv == Init => IInv
  <1> SUFFICES ASSUME Init PROVE IInv
    OBVIOUS
  <1>1. /\ inode = [i_size |-> 0, direct |-> [k \in 0..Direct - 1 |-> 0], table |-> 0]
        /\ index = [b \in Blocks |-> [k \in Indirect |-> 0]]
        /\ data = [b \in Blocks |-> [o \in 0..BLOCK_SIZE - 1 |-> 0]]
        /\ free \in {1..n : n \in 0..NumBlocks}
        /\ fd_pos = 0 /\ got = <<>> /\ ok = TRUE
    BY DEF Init
  <1>2. free \subseteq Blocks /\ 0 \notin Blocks
    BY SMTT(20), <1>1, FileBlocksAssumption DEF Blocks
  <1>3. 0 \in 0..BLOCK_SIZE * Blocks140 /\ 0 \in 0..Wrap - 1 /\ 0 \in 0..Direct - 1
    BY Constants
  <1>4. TypeOK
    BY <1>1, <1>2, <1>3, NoBytes DEF TypeOK
  <1>5. LastBlock = 0
    BY <1>1, Constants DEF LastBlock
  <1>6. Placed
    BY <1>1, <1>2, <1>3, <1>5, Constants DEF Placed
  <1>7. Filling /\ Position
    BY <1>1 DEF Filling, Position
  <1> QED
    BY <1>4, <1>6, <1>7 DEF IInv

\* Every operation on the file preserves the inductive invariant.
THEOREM StepIInv == IInv /\ [Next]_vars => IInv'
  <1> SUFFICES ASSUME IInv, [Next]_vars PROVE IInv'
    OBVIOUS
  <1>1. CASE UNCHANGED vars
    BY <1>1 DEF vars, IInv, TypeOK, Placed, Filling, Position, LastBlock, Own
  <1>2. ASSUME NEW n \in 0..MaxCall, Read(n) PROVE IInv'
    BY <1>2, ReadStep
  <1>3. ASSUME NEW n \in 0..MaxCall, NEW v \in Bytes, Write(n, v) PROVE IInv'
    BY <1>3, WriteStep
  <1>4. ASSUME NEW offset, NEW base, Lseek(offset, base) PROVE IInv'
    BY <1>4, LseekStep
  <1> QED
    BY <1>1, <1>2, <1>3, <1>4 DEF Next

\* The inductive invariant holds of a file at all times.
THEOREM Invariant == Spec => []IInv
  BY InitIInv, StepIInv, PTL DEF Spec

\* The file has the blocks it needs, and those only once.
THEOREM Ready == Spec => []BlocksReady
  <1>1. IInv => BlocksReady
    <2> SUFFICES ASSUME IInv, inode.i_size > 0 PROVE BlocksReady
      BY DEF BlocksReady
    <2> DEFINE lbas == {Own(k) : k \in 0..LastBlock}
    <2>1. TypeOK /\ Placed
      BY DEF IInv
    <2>2. /\ LastBlock >= Direct => inode.table \in Blocks \ free
          /\ \A k \in 0..LastBlock : Own(k) \in Blocks \ (free \cup {inode.table})
          /\ \A j, k \in 0..LastBlock : Own(j) = Own(k) => j = k
      BY <2>1 DEF Placed, TypeOK
    <2>3. Cardinality(lbas) = LastBlock + 1
      <3> DEFINE f == [k \in 0..LastBlock |-> Own(k)]
      <3>1. LastBlock \in Nat
        BY <2>1, Sizes
      <3>2. IsFiniteSet(0..LastBlock) /\ Cardinality(0..LastBlock) = LastBlock + 1
        BY <3>1, FS_Interval
      <3>3. f \in Bijection(0..LastBlock, lbas)
        BY <2>2 DEF Bijection, Injection, Surjection, IsInjective
      <3>4. ExistsBijection(0..LastBlock, lbas)
        BY <3>3 DEF ExistsBijection
      <3> HIDE DEF lbas
      <3>5. Cardinality(lbas) = Cardinality(0..LastBlock)
        BY <3>2, <3>4, FS_Bijection
      <3> QED
        BY <3>2, <3>5
    <2>4. BlocksReady <=> (ok /\ inode.i_size > 0 =>
            /\ LastBlock >= Direct => inode.table \in Blocks \ free
            /\ lbas \subseteq Blocks \ (free \cup {inode.table})
            /\ Cardinality(lbas) = LastBlock + 1)
      BY DEF BlocksReady, Own, LastBlock
    <2> QED
      BY <2>2, <2>3, <2>4
  <1> QED
    BY <1>1, Invariant, PTL

-----------------------------------------------------------------------------
\* The file as ByteFile sees it.

Byte(j) == data[Own((j - 1) \div BLOCK_SIZE)][(j - 1) % BLOCK_SIZE]

\* The file is a sequence of as many bytes as i_size says, each read where its block
\* is.
LEMMA FileLemma ==
  ASSUME IInv
  PROVE  /\ File \in Seq(Bytes) /\ Len(File) = inode.i_size
         /\ \A j \in 1..inode.i_size : File[j] = Byte(j) /\ Byte(j) \in Bytes
  <1> DEFINE size == inode.i_size
  <1>1. size \in Nat
    BY Sizes DEF IInv
  <1>2. File = [j \in 1..size |-> Byte(j)]
    BY DEF File, Byte, Own
  <1>3. ASSUME NEW j \in 1..size
        PROVE  Byte(j) \in Bytes
    <2>1. j - 1 \in 0..size - 1
      BY <1>1
    <2> QED
      BY <2>1 DEF IInv, Filling, Byte
  <1> HIDE DEF size
  <1> QED
    BY <1>1, <1>2, <1>3 DEF size

\* What leaves inode, index and data alone leaves the file as it is.
LEMMA SameFile ==
  ASSUME UNCHANGED <<inode, index, data>>
  PROVE  File' = File
  BY DEF File, Lba

\* What a call takes: no more than Need in ByteFile.
LEMMA CallNeeds ==
  ASSUME IInv, NEW n \in 0..MaxCall
  PROVE  Starts + Tables(Has, Will(n)) + Will(n) - Has <= MaxCall \div BLOCK_SIZE + 2
  <1> DEFINE size == inode.i_size
             q == n \div BLOCK_SIZE
             z == (size + n) \div BLOCK_SIZE
  <1>1. TypeOK /\ Placed
    BY DEF IInv
  <1>2. /\ size \in Nat /\ n \in Nat /\ n <= MaxCall /\ MaxCall \in Nat /\ LastBlock \in Nat
        /\ Has = LastBlock + 1 /\ size + n \in Nat
    BY <1>1, Sizes, Constants
  <1>3. /\ q \in Nat /\ z \in Nat /\ MaxCall \div BLOCK_SIZE \in Nat
        /\ q <= MaxCall \div BLOCK_SIZE
    BY <1>2, Division, DivMonotone
  <1>4. Will(n) = z + 1
    BY DEF Will, BlocksFor
  <1>5. z <= LastBlock + q + 1
    <2>1. /\ BLOCK_SIZE \in Nat /\ BLOCK_SIZE > 0
          /\ size = BLOCK_SIZE * LastBlock + (size % BLOCK_SIZE) /\ size % BLOCK_SIZE \in 0..BLOCK_SIZE - 1
          /\ n = BLOCK_SIZE * q + (n % BLOCK_SIZE) /\ n % BLOCK_SIZE \in 0..BLOCK_SIZE - 1
      BY <1>2, Division, Constants DEF LastBlock
    <2>2. BLOCK_SIZE * (LastBlock + q + 2)
            = BLOCK_SIZE * LastBlock + BLOCK_SIZE * q + BLOCK_SIZE + BLOCK_SIZE
      BY <1>2, <1>3, <2>1
    <2>3. size + n < BLOCK_SIZE * (LastBlock + q + 2)
      <3> DEFINE A == BLOCK_SIZE * LastBlock
                 B == BLOCK_SIZE * q
                 C == BLOCK_SIZE * (LastBlock + q + 2)
      <3>1. A \in Nat /\ B \in Nat /\ C = A + B + BLOCK_SIZE + BLOCK_SIZE
        BY <1>2, <1>3, <2>1, <2>2
      <3>2. size < A + BLOCK_SIZE /\ n < B + BLOCK_SIZE
        <4>1. size = A + (size % BLOCK_SIZE) /\ n = B + (n % BLOCK_SIZE)
          BY <2>1
        <4> HIDE DEF A, B, size
        <4> QED
          BY <2>1, <3>1, <4>1
      <3> HIDE DEF A, B, C, size
      <3>3. size + n < C
        BY <1>2, <2>1, <3>1, <3>2
      <3> QED
        BY <3>3 DEF C
    <2>4. LastBlock + q + 2 \in Nat
      BY <1>2, <1>3
    <2>5. z < LastBlock + q + 2
      BY <1>2, <2>3, <2>4, DivBound
    <2> QED
      BY <1>2, <1>3, <2>5
  <1>6. Starts = 1 => z = LastBlock + q /\ LastBlock = 0
    <2> SUFFICES ASSUME Starts = 1 PROVE z = LastBlock + q /\ LastBlock = 0
      OBVIOUS
    <2>1. size = 0
      BY <1>1 DEF Starts, First, Placed
    <2>2. LastBlock = 0
      BY <2>1, Constants DEF LastBlock
    <2>3. size + n = n
      BY <1>2, <2>1
    <2> QED
      BY <1>3, <2>2, <2>3
  <1>7. Starts \in {0, 1} /\ Tables(Has, Will(n)) \in {0, 1}
    BY DEF Starts, Tables
  <1> HIDE DEF q, z
  <1> QED
    BY <1>2, <1>3, <1>4, <1>5, <1>6, <1>7

\* file_write stops the kernel only when there are too few blocks, or the file gets too
\* large: what it asserts of the inode holds.
LEMMA Blame ==
  ASSUME IInv, NEW n \in 0..MaxCall, Asserts(Has, Will(n), Starts)
  PROVE  \/ Cardinality(free) < MaxCall \div BLOCK_SIZE + 2
         \/ inode.i_size + MaxCall >= BLOCK_SIZE * Blocks140
  <1> DEFINE size == inode.i_size
  <1>1. TypeOK /\ Placed
    BY DEF IInv
  <1>2. /\ LastBlock \in Nat /\ Has = LastBlock + 1 /\ Will(n) \in Nat /\ 0 \notin Blocks
        /\ size \in Nat /\ n \in Nat /\ n <= MaxCall /\ MaxCall \in Nat
        /\ BLOCK_SIZE * Blocks140 \in Nat /\ Blocks140 \in Nat
    BY <1>1, Sizes, Constants
  <1>3. CASE Will(n) > Blocks140
    <2>1. size + n \in Nat
      BY <1>2
    <2>2. size + n < BLOCK_SIZE * Blocks140 <=> (size + n) \div BLOCK_SIZE < Blocks140
      BY <1>2, <2>1, DivBound
    <2>3. (size + n) \div BLOCK_SIZE \in Nat
      BY <2>1, Division
    <2>4. ~(size + n < BLOCK_SIZE * Blocks140)
      BY <1>2, <1>3, <2>2, <2>3 DEF Will, BlocksFor
    <2> QED
      BY <1>2, <2>4
  <1>4. CASE Cardinality(free) < Starts + Tables(Has, Will(n)) + Will(n) - Has
    <2>1. Starts + Tables(Has, Will(n)) + Will(n) - Has \in Int
      BY <1>2 DEF Starts, Tables
    <2>2. Cardinality(free) \in Nat /\ MaxCall \div BLOCK_SIZE \in Nat
      BY <1>1, <1>2, Sizes, FiniteFree, Division
    <2> QED
      BY <1>4, <2>1, <2>2, CallNeeds
  <1>5. ~(Will(n) \in Has + 1..Direct /\ Has > 1 /\ inode.direct[Has - 1] = 0)
    <2> SUFFICES ASSUME Will(n) \in Has + 1..Direct, Has > 1, inode.direct[Has - 1] = 0
                 PROVE  FALSE
      OBVIOUS
    <2>1. /\ Has - 1 = LastBlock /\ LastBlock \in 0..LastBlock /\ LastBlock > 0
          /\ LastBlock < Direct
      BY <1>2, Constants
    <2>2. Own(LastBlock) = 0
      BY <2>1 DEF Own, Lba
    <2>3. inode.direct[0] # 0
      <3> SUFFICES ASSUME inode.direct[0] = 0 PROVE FALSE
        OBVIOUS
      <3>1. inode.i_size = 0
        BY <1>1 DEF Placed
      <3>2. LastBlock = 0
        BY <3>1, Constants DEF LastBlock
      <3> QED
        BY <2>1, <3>2
    <2> QED
      BY <1>1, <1>2, <2>1, <2>2, <2>3 DEF Placed
  <1>6. ~\E k \in Has..Will(n) - 1 : k < Direct /\ inode.direct[k] # 0
    <2> SUFFICES ASSUME NEW k \in Has..Will(n) - 1, k < Direct PROVE inode.direct[k] = 0
      OBVIOUS
    <2>1. k \in 0..Direct - 1 /\ k > LastBlock
      BY <1>2, Constants
    <2> QED
      BY <1>1, <2>1 DEF Placed
  <1>7. ~(Tables(Has, Will(n)) = 1 /\ inode.table # 0)
    BY <1>1, <1>2, Constants DEF Tables, Placed
  <1>8. ~(Has > Direct /\ inode.table = 0)
    BY <1>1, <1>2, Constants DEF Placed
  <1> QED
    BY <1>3, <1>4, <1>5, <1>6, <1>7, <1>8 DEF Asserts

\* The bytes of a write are behind those the file had.
LEMMA FileLonger ==
  ASSUME IInv, NEW n \in 0..MaxCall, NEW v \in Bytes, Succeeds(n, v)
  PROVE  File' = File \o [i \in 1..n |-> v]
  <1> DEFINE size == inode.i_size
             N == [j \in 1..size + n |-> IF j <= size THEN Byte(j) ELSE v]
             W == [i \in 1..n |-> v]
  <1>1. size \in Nat /\ n \in Nat
    BY Sizes, Constants DEF IInv
  <1>2. /\ File \in Seq(Bytes) /\ Len(File) = size
        /\ \A j \in 1..size : File[j] = Byte(j) /\ Byte(j) \in Bytes
    BY FileLemma
  <1>3. Fits(n) /\ inode' = [Grows(n).inode EXCEPT !.i_size = size + n] /\ index' = NewIndex(n)
    BY DEF Succeeds
  <1>4. /\ inode'.i_size = size + n
        /\ \A k : Own(k)' = Lba(Grows(n).inode, NewIndex(n), k)
    <2> DEFINE r == Grows(n).inode
    <2>1. r \in InodeType
      BY <1>3, GrownLemma
    <2>2. inode' = [r EXCEPT !.i_size = size + n]
      BY <1>3
    <2> HIDE DEF r
    <2>3. inode'.i_size = size + n /\ inode'.direct = r.direct /\ inode'.table = r.table
      BY <2>1, <2>2 DEF InodeType
    <2> QED
      BY <1>3, <2>3 DEF Own, Lba, r
  <1>5. ASSUME NEW j \in 1..size + n
        PROVE  data'[Own((j - 1) \div BLOCK_SIZE)'][(j - 1) % BLOCK_SIZE]
                 = IF j <= size THEN Byte(j) ELSE v
    <2>1. j - 1 \in 0..size + n - 1 /\ (j - 1 < size <=> j <= size)
      BY <1>1
    <2>2. data'[Lba(Grows(n).inode, NewIndex(n), (j - 1) \div BLOCK_SIZE)][(j - 1) % BLOCK_SIZE]
            = IF j - 1 < size THEN data[Own((j - 1) \div BLOCK_SIZE)][(j - 1) % BLOCK_SIZE] ELSE v
      BY <2>1, BytesLemma
    <2> QED
      BY <1>4, <2>1, <2>2 DEF Byte
  <1>6. File' = [j \in 1..size + n |-> data'[Own((j - 1) \div BLOCK_SIZE)'][(j - 1) % BLOCK_SIZE]]
    BY <1>4 DEF File, Own
  <1>7. File' = N
    BY <1>5, <1>6
  <1>8. N \in Seq(Bytes) /\ Len(N) = size + n
        /\ \A j \in 1..size + n : N[j] = IF j <= size THEN Byte(j) ELSE v
    <2>1. \A j \in 1..size + n : (IF j <= size THEN Byte(j) ELSE v) \in Bytes
      BY <1>1, <1>2
    <2>2. size + n \in Nat
      BY <1>1
    <2> HIDE DEF size
    <2> QED
      BY <2>1, <2>2
  <1>9. W \in Seq(Bytes) /\ Len(W) = n /\ \A i \in 1..n : W[i] = v
    BY <1>1
  <1> HIDE DEF N, W, size
  <1>10. /\ File \o W \in Seq(Bytes) /\ Len(File \o W) = Len(File) + Len(W)
         /\ \A i \in 1..Len(File) + Len(W) :
              (File \o W)[i] = IF i <= Len(File) THEN File[i] ELSE W[i - Len(File)]
    BY <1>2, <1>9, ConcatProperties
  <1>11. \A j \in 1..size + n : N[j] = (File \o W)[j]
    <2> SUFFICES ASSUME NEW j \in 1..size + n PROVE N[j] = (File \o W)[j]
      OBVIOUS
    <2>1. (File \o W)[j] = IF j <= size THEN File[j] ELSE W[j - size]
      BY <1>2, <1>9, <1>10
    <2>2. CASE j <= size
      <3>1. j \in 1..size
        BY <1>1, <2>2
      <3> QED
        BY <1>2, <1>8, <2>1, <2>2, <3>1
    <2>3. CASE ~(j <= size)
      <3>1. j - size \in 1..n
        BY <1>1, <2>3
      <3> QED
        BY <1>8, <1>9, <2>1, <2>3, <3>1
    <2> QED
      BY <2>2, <2>3
  <1>12. N = File \o W
    <2>1. Len(N) = Len(File \o W) /\ \A j \in 1..Len(N) : N[j] = (File \o W)[j]
      BY <1>2, <1>8, <1>9, <1>10, <1>11
    <2> QED
      BY <1>8, <1>10, <2>1, SeqEqual
  <1> QED
    BY <1>7, <1>12 DEF W

\* A write gives no block back.
LEMMA Taken ==
  ASSUME IInv, NEW n \in 0..MaxCall, NEW v, Succeeds(n, v)
  PROVE  Cardinality(free') \in 0..Cardinality(free)
  <1>1. Fits(n) /\ free' = Grows(n).free
    BY DEF Succeeds
  <1>2. free' \subseteq free /\ free \in SUBSET Blocks
    BY <1>1, StartLemma, GrownLemma, Sizes DEF IInv
  <1>3. IsFiniteSet(free) /\ Cardinality(free) \in Nat
    BY <1>2, FiniteFree
  <1>4. IsFiniteSet(free') /\ Cardinality(free') \in Nat
    BY <1>2, FiniteFree
  <1>5. Cardinality(free') <= Cardinality(free)
    BY <1>2, <1>3, FS_Subset
  <1> QED
    BY <1>3, <1>4, <1>5

-----------------------------------------------------------------------------
\* The refinement.

LEMMA WriteRefines ==
  ASSUME IInv, NEW n \in 0..MaxCall, NEW v \in Bytes, Write(n, v)
  PROVE  BF!Next
  <1> DEFINE size == inode.i_size
  <1>1. ok
    BY WriteCases
  <1>2. /\ size \in Nat /\ n \in Nat /\ n <= MaxCall /\ Len(File) = size
        /\ BLOCK_SIZE * Blocks140 \in Nat /\ MaxCall \in Nat /\ Blocks140 \in Nat
    BY Sizes, FileLemma, Constants DEF IInv
  <1>3. CASE Refuses
    <2>1. File' = File
      BY <1>3, SameFile DEF Refuses, Fail
    <2>2. BF!Fails
      BY <1>3, <2>1 DEF BF!Fails, Refuses, Fail
    <2> QED
      BY <1>1, <2>2 DEF BF!Next
  <1>4. CASE Stops(n)
    <2>1. File' = File
      BY <1>4, SameFile DEF Stops
    <2>2. \/ Cardinality(free) < MaxCall \div BLOCK_SIZE + 2
          \/ Len(File) + MaxCall >= BLOCK_SIZE * Blocks140
      BY <1>2, <1>4, Blame DEF Stops
    <2>3. BF!Stop
      BY <1>4, <2>1, <2>2 DEF BF!Stop, Stops
    <2> QED
      BY <1>1, <2>3 DEF BF!Next
  <1>6. CASE Succeeds(n, v)
    <2>1. File' = File \o [i \in 1..n |-> v]
      BY <1>6, FileLonger
    <2>2. Cardinality(free') \in 0..Cardinality(free)
      BY <1>6, Taken
    <2>3. Len(File) + n < BLOCK_SIZE * Blocks140
      <3>1. size + n \in Nat
        BY <1>2
      <3>2. size + n < BLOCK_SIZE * Blocks140 <=> (size + n) \div BLOCK_SIZE < Blocks140
        BY <1>2, <3>1, DivBound
      <3>3. (size + n) \div BLOCK_SIZE \in Nat
        BY <3>1, Division
      <3>4. (size + n) \div BLOCK_SIZE < Blocks140
        <4>1. Will(n) <= Blocks140
          BY <1>6, NewBlocks DEF Succeeds
        <4> QED
          BY <1>2, <3>3, <4>1 DEF Will, BlocksFor
      <3> QED
        BY <1>2, <3>2, <3>4
    <2>4. fd_pos' = (Len(File) + n - 1) % Wrap /\ got' = <<>> /\ ok' = ok
      BY <1>2, <1>6 DEF Succeeds
    <2>5. BF!Appends(n)
      BY <2>1, <2>2, <2>3, <2>4 DEF BF!Appends
    <2> QED
      BY <1>1, <2>5 DEF BF!Next
  <1> QED
    BY <1>3, <1>4, <1>6, WriteCases

\* file_read is a step of ByteFile.
LEMMA ReadRefines ==
  ASSUME IInv, NEW n \in 0..MaxCall, Read(n)
  PROVE  BF!Next
  <1> DEFINE size == inode.i_size
             m == IF fd_pos + n > size THEN size - fd_pos ELSE n
             byte(j) == data[Own((fd_pos + j - 1) \div BLOCK_SIZE)][(fd_pos + j - 1) % BLOCK_SIZE]
  <1>1. ok /\ File' = File /\ free' = free
    BY ReadCases, SameFile
  <1>2. /\ size \in Nat /\ n \in Nat /\ fd_pos \in Nat /\ File \in Seq(Bytes) /\ Len(File) = size
        /\ \A j \in 1..size : File[j] = Byte(j) /\ Byte(j) \in Bytes
    BY Sizes, FileLemma, Constants DEF IInv
  <1>3. CASE got' = <<>> /\ UNCHANGED <<fd_pos, ok>>
    <2>1. BF!Fails
      BY <1>1, <1>3 DEF BF!Fails
    <2> QED
      BY <1>1, <2>1 DEF BF!Next
  <1>4. CASE /\ ok' = FALSE /\ UNCHANGED <<fd_pos, got>>
             /\ fd_pos = Wrap - 1 \/ size >= BLOCK_SIZE * (Blocks140 - 1)
    <2>1. BF!Stop
      BY <1>1, <1>2, <1>4 DEF BF!Stop
    <2> QED
      BY <1>1, <2>1 DEF BF!Next
  <1>5. CASE /\ m \in Nat /\ fd_pos + m <= size /\ got' = [j \in 1..m |-> byte(j)]
             /\ fd_pos' = fd_pos + m /\ UNCHANGED ok
    <2>1. CASE m = 0
      <3>1. got' = <<>> /\ fd_pos' = fd_pos
        <4> HIDE DEF m, byte
        <4> QED
          BY <1>2, <1>5, <2>1
      <3>2. BF!Fails
        BY <1>1, <1>5, <3>1 DEF BF!Fails
      <3> QED
        BY <1>1, <3>2 DEF BF!Next
    <2>2. CASE m # 0
      <3>1. fd_pos < Len(File)
        <4> HIDE DEF m
        <4> QED
          BY <1>2, <1>5, <2>2
      <3>2. got' = SubSeq(File, fd_pos + 1, fd_pos + m)
        <4> DEFINE s == SubSeq(File, fd_pos + 1, fd_pos + m)
        <4> HIDE DEF m
        <4>1. fd_pos + 1 \in Int /\ fd_pos + m \in Int /\ fd_pos + 1 <= fd_pos + m
          BY <1>2, <1>5, <2>2
        <4>2. \A i \in fd_pos + 1..fd_pos + m : i \in 1..size
          BY <1>2, <1>5
        <4>3. \A i \in fd_pos + 1..fd_pos + m : File[i] \in Bytes
          BY <1>2, <4>2
        <4>4. /\ s \in Seq(Bytes)
              /\ Len(s) = IF fd_pos + 1 <= fd_pos + m THEN (fd_pos + m) - (fd_pos + 1) + 1 ELSE 0
              /\ \A i \in 1..(fd_pos + m) - (fd_pos + 1) + 1 : s[i] = File[(fd_pos + 1) + i - 1]
          BY <4>1, <4>3, SubSeqProperties
        <4>5. Len(s) = m /\ (fd_pos + m) - (fd_pos + 1) + 1 = m
          BY <1>2, <1>5, <4>1, <4>4
        <4>6. ASSUME NEW i \in 1..m
              PROVE  s[i] = byte(i) /\ byte(i) \in Bytes
          <5>1. (fd_pos + 1) + i - 1 = fd_pos + i /\ fd_pos + i \in 1..size
            BY <1>2, <1>5
          <5>2. s[i] = File[fd_pos + i]
            BY <4>4, <4>5, <5>1
          <5>3. File[fd_pos + i] = Byte(fd_pos + i) /\ Byte(fd_pos + i) \in Bytes
            BY <1>2, <5>1
          <5>4. Byte(fd_pos + i) = byte(i)
            <6>1. (fd_pos + i) - 1 = fd_pos + (i - 1)
              BY <1>2
            <6> QED
              BY <6>1 DEF Byte
          <5> HIDE DEF s, byte
          <5> QED
            BY <5>2, <5>3, <5>4
        <4> HIDE DEF s, byte
        <4>7. got' \in Seq(Bytes) /\ Len(got') = m /\ \A i \in 1..m : got'[i] = byte(i)
          BY <1>5, <4>6
        <4>8. \A i \in 1..m : got'[i] = s[i]
          BY <4>6, <4>7
        <4>9. got' = s
          <5>1. Len(got') = Len(s) /\ \A i \in 1..Len(got') : got'[i] = s[i]
            BY <4>5, <4>7, <4>8
          <5> QED
            BY <4>4, <4>7, <5>1, SeqEqual
        <4> QED
          BY <4>9 DEF s
      <3>3. BF!Read(n)
        BY <1>1, <1>2, <1>5, <3>1, <3>2 DEF BF!Read
      <3> QED
        BY <1>1, <3>3 DEF BF!Next
    <2> QED
      BY <2>1, <2>2
  <1> QED
    BY <1>3, <1>4, <1>5, ReadCases

\* sys_lseek is a step of ByteFile.
LEMMA LseekRefines ==
  ASSUME IInv, NEW offset, NEW base, Lseek(offset, base)
  PROVE  BF!Next
  <1>1. File' = File /\ free' = free /\ ok /\ got' = <<>> /\ ok' = ok
    BY SameFile DEF Lseek
  <1>2. Len(File) = inode.i_size
    BY FileLemma
  <1>3. CASE offset + base \in 0..inode.i_size - 1
    <2>1. BF!Seek
      BY <1>1, <1>2, <1>3 DEF BF!Seek, Lseek
    <2> QED
      BY <1>1, <2>1 DEF BF!Next
  <1>4. CASE offset + base \notin 0..inode.i_size - 1
    <2>1. BF!Fails
      BY <1>1, <1>4 DEF BF!Fails, Lseek
    <2> QED
      BY <1>1, <2>1 DEF BF!Next
  <1> QED
    BY <1>3, <1>4

\* Block by block, a file is the sequence of the bytes written to it: every step of
\* file_write, file_read and sys_lseek is one of ByteFile, or changes nothing there.
THEOREM Refines == Spec => ImplementsByteFile
  <1>1. Init => BF!Init
    <2> SUFFICES ASSUME Init PROVE BF!Init
      OBVIOUS
    <2>1. File = <<>>
      <3>1. inode.i_size = 0
        BY DEF Init
      <3> QED
        BY <3>1 DEF File
    <2>2. Cardinality(free) \in Nat
      <3>1. free \in SUBSET Blocks
        BY InitIInv, Sizes DEF IInv
      <3> QED
        BY <3>1, FiniteFree
    <2> QED
      BY <2>1, <2>2 DEF BF!Init, Init
  <1>2. IInv /\ [Next]_vars => [BF!Next]_<<File, fd_pos, got, Cardinality(free), ok>>
    <2> SUFFICES ASSUME IInv, [Next]_vars
                 PROVE  BF!Next \/ UNCHANGED <<File, fd_pos, got, Cardinality(free), ok>>
      OBVIOUS
    <2>1. CASE UNCHANGED vars
      BY <2>1, SameFile DEF vars
    <2>2. ASSUME NEW n \in 0..MaxCall, Read(n) PROVE BF!Next
      BY <2>2, ReadRefines
    <2>3. ASSUME NEW n \in 0..MaxCall, NEW v \in Bytes, Write(n, v) PROVE BF!Next
      BY <2>3, WriteRefines
    <2>4. ASSUME NEW offset, NEW base, Lseek(offset, base) PROVE BF!Next
      BY <2>4, LseekRefines
    <2> QED
      BY <2>1, <2>2, <2>3, <2>4 DEF Next
  <1> QED
    BY <1>1, <1>2, Invariant, PTL DEF Spec, ImplementsByteFile, BF!Spec, BF!vars

-----------------------------------------------------------------------------
\* The heap: the constants.

\* What HeapAssumption says of the constants, in the form the proofs below use.
LEMMA HeapConstants ==
  /\ NumPages \in Nat /\ NumPages > 0 /\ PG_SIZE \in Nat /\ ArenaSize \in Nat /\ ArenaSize < PG_SIZE
  /\ Len(BlockSizes) \in Nat /\ Len(BlockSizes) > 0 /\ Classes = 1..Len(BlockSizes)
  /\ \A c \in Classes : BlockSizes[c] \in Nat /\ BlockSizes[c] > 0 /\ BlockSizes[c] <= PG_SIZE - ArenaSize
  /\ Slots \subseteq Nat \ {0} /\ IsFiniteSet(Slots) /\ 1 \in Slots
  /\ \A size \in RequestSizes : size \in Nat /\ size > 0
  <1>1. BlockSizes \in Seq(1..PG_SIZE - ArenaSize) /\ BlockSizes # <<>> /\ PG_SIZE \in Nat /\ ArenaSize \in Nat
    BY HeapAssumption
  <1>2. Len(BlockSizes) \in Nat /\ Len(BlockSizes) > 0 /\ DOMAIN BlockSizes = 1..Len(BlockSizes)
        /\ \A c \in 1..Len(BlockSizes) : BlockSizes[c] \in 1..PG_SIZE - ArenaSize
    BY <1>1
  <1>3. \A c \in Classes : BlockSizes[c] \in Nat /\ BlockSizes[c] > 0 /\ BlockSizes[c] <= PG_SIZE - ArenaSize
    BY <1>1, <1>2 DEF Classes
  <1>4. ArenaSize < PG_SIZE
    <2>1. 1 \in Classes
      BY <1>2 DEF Classes
    <2> QED
      BY <2>1, <1>3, <1>1
  <1>5. Slots \subseteq Nat \ {0} /\ IsFiniteSet(Slots) /\ 1 \in Slots
    <2>1. Cardinality(Slots) \in Nat /\ Slots = 1..Cardinality(Slots) /\ Slots # {} /\ IsFiniteSet(Slots)
      BY HeapAssumption, FS_CardinalityType
    <2> QED
      BY <2>1
  <1>6. \A size \in RequestSizes : size \in Nat /\ size > 0
    BY HeapAssumption
  <1> QED
    BY <1>1, <1>2, <1>3, <1>4, <1>5, <1>6, HeapAssumption DEF Classes

-----------------------------------------------------------------------------
\* Pages and addresses.

LEMMA PageDivision ==
  ASSUME NEW a \in Nat
  PROVE  /\ PageOf(a) \in Nat /\ a % PG_SIZE \in 0..PG_SIZE - 1
         /\ a = PG_SIZE * PageOf(a) + (a % PG_SIZE)
  <1>1. PG_SIZE \in Nat /\ PG_SIZE > 0
    BY HeapConstants
  <1> QED
    BY <1>1 DEF PageOf

\* An offset below PG_SIZE from the start of a page lies on that page.
LEMMA PageQuotient ==
  ASSUME NEW a \in Nat, NEW k \in Nat, NEW o \in 0..PG_SIZE - 1,
         a = PG_SIZE * k + o
  PROVE  PageOf(a) = k /\ a % PG_SIZE = o
  <1>1. PG_SIZE \in Nat /\ PG_SIZE > 0
    BY HeapConstants
  <1> QED
    BY <1>1 DEF PageOf

\* A higher address lies on no lower page.
LEMMA PageMonotone ==
  ASSUME NEW a \in Nat, NEW b \in Nat, a <= b
  PROVE  PageOf(a) <= PageOf(b)
  BY HeapConstants DEF PageOf

\* An address is below the start of page k exactly when its page is.
LEMMA PageBound ==
  ASSUME NEW a \in Nat, NEW k \in Nat
  PROVE  /\ a < k * PG_SIZE <=> PageOf(a) < k
         /\ a >= k * PG_SIZE <=> PageOf(a) >= k
  <1> DEFINE d == PageOf(a)
  <1>1. /\ d \in Nat /\ PG_SIZE \in Nat /\ PG_SIZE > 0
        /\ a = PG_SIZE * d + (a % PG_SIZE) /\ a % PG_SIZE \in 0..PG_SIZE - 1
    <2>1. PG_SIZE \in Nat /\ PG_SIZE > 0
      BY HeapConstants
    <2> QED
      BY <2>1, PageDivision
  <1> HIDE DEF d
  <1>2. d < k => a < k * PG_SIZE
    <2> SUFFICES ASSUME d < k PROVE a < k * PG_SIZE
      OBVIOUS
    <2>1. (d + 1) * PG_SIZE <= k * PG_SIZE /\ (d + 1) * PG_SIZE = PG_SIZE * d + PG_SIZE
      BY <1>1
    <2> QED
      BY <2>1, <1>1
  <1>3. d >= k => a >= k * PG_SIZE
    <2> SUFFICES ASSUME d >= k PROVE a >= k * PG_SIZE
      OBVIOUS
    <2>1. PG_SIZE * d >= k * PG_SIZE
      BY <1>1
    <2> QED
      BY <2>1, <1>1
  <1>4. k * PG_SIZE \in Nat
    BY <1>1
  <1>5. a < k * PG_SIZE <=> d < k
    BY <1>1, <1>2, <1>3, <1>4
  <1>6. a >= k * PG_SIZE <=> d >= k
    BY <1>1, <1>2, <1>3, <1>4
  <1> QED
    BY <1>5, <1>6 DEF d

\* The blocks of an arena lie behind its header on its page and not over each other.
Block(page, c, i) == page * PG_SIZE + ArenaSize + (i - 1) * BlockSizes[c]

\* An arena has at least one block, and its header and blocks fit the page.
LEMMA PerArenaBound ==
  ASSUME NEW c \in Classes
  PROVE  /\ PerArena(c) \in Nat /\ PerArena(c) > 0
         /\ PerArena(c) * BlockSizes[c] + ArenaSize <= PG_SIZE
  <1>1. BlockSizes[c] \in Nat /\ BlockSizes[c] > 0 /\ BlockSizes[c] <= PG_SIZE - ArenaSize
    BY HeapConstants
  <1>2. PG_SIZE - ArenaSize \in Nat
    BY HeapConstants
  <1>3. \A n, d \in Nat : d > 0 /\ d <= n => n \div d \in Nat /\ n \div d > 0 /\ (n \div d) * d <= n
    <2> SUFFICES ASSUME NEW n \in Nat, NEW d \in Nat, d > 0, d <= n
                 PROVE  n \div d \in Nat /\ n \div d > 0 /\ (n \div d) * d <= n
      OBVIOUS
    <2>1. n \div d \in Int /\ n = d * (n \div d) + (n % d) /\ n % d \in 0..d - 1
      OBVIOUS
    <2>2. d * (n \div d) = (n \div d) * d
      BY <2>1
    <2>3. n \div d > 0
      <3> SUFFICES ASSUME n \div d <= 0 PROVE FALSE
        BY <2>1
      <3>1. d * (n \div d) <= 0
        BY <2>1
      <3> QED
        BY <2>1, <3>1
    <2> QED
      BY <2>1, <2>2, <2>3
  <1> HIDE DEF Classes
  <1>4. PerArena(c) \in Nat /\ PerArena(c) > 0 /\ PerArena(c) * BlockSizes[c] <= PG_SIZE - ArenaSize
    BY <1>1, <1>2, <1>3 DEF PerArena
  <1>5. PerArena(c) * BlockSizes[c] \in Nat
    BY <1>4, <1>1
  <1> QED
    BY <1>4, <1>5, HeapConstants

\* The blocks of an arena lie on its page behind the header, one after the other
\* (arena2block).
LEMMA BlockPlace ==
  ASSUME NEW page \in Nat, NEW c \in Classes, NEW i \in 1..PerArena(c)
  PROVE  /\ Block(page, c, i) \in Nat
         /\ \A e \in 0..BlockSizes[c] - 1 :
              PageOf(Block(page, c, i) + e) = page /\ (Block(page, c, i) + e) % PG_SIZE >= ArenaSize
         /\ PageOf(Block(page, c, i)) = page
         /\ \A j \in 1..PerArena(c) : i < j => Block(page, c, i) + BlockSizes[c] <= Block(page, c, j)
  <1> DEFINE B == BlockSizes[c]
             N == PerArena(c)
  <1>1. B \in Nat /\ B > 0 /\ N \in Nat /\ N > 0 /\ N * B + ArenaSize <= PG_SIZE /\ ArenaSize \in Nat /\ PG_SIZE \in Nat
    BY HeapConstants, PerArenaBound
  <1> HIDE DEF B, N
  <1>2. i \in 1..N
    BY DEF N
  <1>3. (i - 1) * B \in Nat /\ page * PG_SIZE \in Nat /\ page * PG_SIZE = PG_SIZE * page
    BY <1>1, <1>2
  <1>4. Block(page, c, i) \in Nat /\ Block(page, c, i) = PG_SIZE * page + (ArenaSize + (i - 1) * B)
    BY <1>1, <1>3 DEF Block, B
  <1>5. (i - 1) * B + B <= N * B
    <2>1. (i - 1) * B + B = i * B
      BY <1>1, <1>2
    <2>2. i * B <= N * B
      BY <1>1, <1>2
    <2> QED
      BY <2>1, <2>2
  <1>6. ASSUME NEW e \in 0..B - 1
        PROVE  PageOf(Block(page, c, i) + e) = page /\ (Block(page, c, i) + e) % PG_SIZE >= ArenaSize
    <2> DEFINE o == ArenaSize + (i - 1) * B + e
    <2>1. o \in 0..PG_SIZE - 1 /\ o >= ArenaSize
      BY <1>1, <1>3, <1>5
    <2>2. Block(page, c, i) + e = PG_SIZE * page + o /\ Block(page, c, i) + e \in Nat
      BY <1>4, <1>3, <1>1
    <2> HIDE DEF o
    <2> QED
      BY <2>1, <2>2, PageQuotient
  <1>7. PageOf(Block(page, c, i)) = page
    <2>1. 0 \in 0..B - 1
      BY <1>1
    <2>2. Block(page, c, i) + 0 = Block(page, c, i)
      BY <1>4
    <2> QED
      BY <2>1, <2>2, <1>6
  <1>8. ASSUME NEW j \in 1..N, i < j
        PROVE  Block(page, c, i) + B <= Block(page, c, j)
    <2>1. i <= j - 1 /\ j - 1 \in Nat /\ i \in Nat
      BY <1>2, <1>8, <1>1
    <2>2. i * B <= (j - 1) * B /\ i * B = (i - 1) * B + B /\ (j - 1) * B \in Nat
      BY <2>1, <1>1
    <2>3. Block(page, c, j) = page * PG_SIZE + ArenaSize + (j - 1) * B
      BY DEF Block, B
    <2>4. Block(page, c, i) = page * PG_SIZE + ArenaSize + (i - 1) * B
      BY DEF Block, B
    <2> QED
      BY <2>2, <2>3, <2>4, <1>1, <1>3
  <1> QED
    BY <1>4, <1>6, <1>7, <1>8 DEF B, N

\* BlocksIn lists the blocks of an arena, each of them once.
LEMMA ArenaBlocks ==
  ASSUME NEW page \in Nat, NEW c \in Classes
  PROVE  /\ BlocksIn(page, c) \in Seq(Nat) /\ Len(BlocksIn(page, c)) = PerArena(c)
         /\ DOMAIN BlocksIn(page, c) = 1..PerArena(c)
         /\ \A i \in 1..PerArena(c) : BlocksIn(page, c)[i] = Block(page, c, i)
         /\ ToSet(BlocksIn(page, c)) = {Block(page, c, i) : i \in 1..PerArena(c)}
         /\ \A i, j \in 1..PerArena(c) : Block(page, c, i) = Block(page, c, j) => i = j
         /\ \A b \in ToSet(BlocksIn(page, c)) : b \in Nat /\ PageOf(b) = page
         /\ IsFiniteSet(ToSet(BlocksIn(page, c))) /\ Cardinality(ToSet(BlocksIn(page, c))) = PerArena(c)
  <1>1. PerArena(c) \in Nat /\ BlockSizes[c] \in Nat /\ BlockSizes[c] > 0
    BY PerArenaBound, HeapConstants
  <1>2. \A i \in 1..PerArena(c) : BlocksIn(page, c)[i] = Block(page, c, i) /\ Block(page, c, i) \in Nat
                                  /\ PageOf(Block(page, c, i)) = page
    BY BlockPlace DEF BlocksIn, Block
  <1>3. DOMAIN BlocksIn(page, c) = 1..PerArena(c)
    BY DEF BlocksIn
  <1>4. BlocksIn(page, c) \in [1..PerArena(c) -> Nat]
    BY <1>2, <1>3 DEF BlocksIn
  <1>5. BlocksIn(page, c) \in Seq(Nat) /\ Len(BlocksIn(page, c)) = PerArena(c)
    BY <1>1, <1>4
  <1>6. ToSet(BlocksIn(page, c)) = {Block(page, c, i) : i \in 1..PerArena(c)}
    BY <1>2, <1>3 DEF ToSet
  <1>7. ASSUME NEW i \in 1..PerArena(c), NEW j \in 1..PerArena(c), i < j
        PROVE  Block(page, c, i) # Block(page, c, j)
    <2>1. Block(page, c, i) + BlockSizes[c] <= Block(page, c, j)
      BY <1>7, BlockPlace
    <2> QED
      BY <2>1, <1>1, <1>2
  <1>8. \A i, j \in 1..PerArena(c) : Block(page, c, i) = Block(page, c, j) => i = j
    <2> SUFFICES ASSUME NEW i \in 1..PerArena(c), NEW j \in 1..PerArena(c), i # j
                 PROVE  Block(page, c, i) # Block(page, c, j)
      OBVIOUS
    <2>1. i < j \/ j < i
      BY <1>1
    <2> QED
      BY <2>1, <1>7
  <1>9. IsFiniteSet(ToSet(BlocksIn(page, c))) /\ Cardinality(ToSet(BlocksIn(page, c))) = PerArena(c)
    <2>1. IsFiniteSet(1..PerArena(c)) /\ Cardinality(1..PerArena(c)) = PerArena(c)
      BY <1>1, FS_Interval
    <2>2. BlocksIn(page, c) \in Bijection(1..PerArena(c), ToSet(BlocksIn(page, c)))
      <3> DEFINE f == BlocksIn(page, c)
                 S == ToSet(f)
      <3>1. f \in [1..PerArena(c) -> S]
        BY <1>4, <1>3 DEF ToSet
      <3>2. \A t \in S : \E i \in 1..PerArena(c) : f[i] = t
        BY <1>3 DEF ToSet
      <3>3. \A i, j \in 1..PerArena(c) : f[i] = f[j] => i = j
        BY <1>2, <1>8
      <3> HIDE DEF f, S
      <3>4. f \in Bijection(1..PerArena(c), S)
        BY <3>1, <3>2, <3>3 DEF Bijection, Injection, Surjection, IsInjective
      <3> QED
        BY <3>4 DEF f, S
    <2> QED
      BY <2>1, <2>2, FS_Bijection DEF ExistsBijection
  <1> QED
    BY <1>2, <1>3, <1>5, <1>6, <1>8, <1>9

\* The ends of the lists lie behind all pages, and no two lists have one in common.
LEMMA Ends ==
  ASSUME NEW p \in Slots, NEW c \in Classes
  PROVE  /\ ListHead(p, c) \in Nat /\ ListTail(p, c) = ListHead(p, c) + 1
         /\ PageOf(ListHead(p, c)) > NumPages + 1 /\ PageOf(ListTail(p, c)) > NumPages + 1
         /\ \A q \in Slots, d \in Classes :
              /\ ListHead(p, c) = ListHead(q, d) => p = q /\ c = d
              /\ ListHead(p, c) # ListHead(q, d) + 1
  <1> DEFINE L == Len(BlockSizes)
             At(q, d) == (q - 1) * L + d
  <1>1. /\ L \in Nat /\ L > 0 /\ Classes = 1..L /\ Slots \subseteq Nat \ {0}
        /\ NumPages \in Nat /\ PG_SIZE \in Nat /\ PG_SIZE > 0
    BY HeapConstants
  <1>2. \A q \in Slots, d \in Classes : At(q, d) \in Nat /\ ListHead(q, d) = (NumPages + 2) * PG_SIZE + 2 * At(q, d)
    <2> SUFFICES ASSUME NEW q \in Slots, NEW d \in Classes
                 PROVE  At(q, d) \in Nat /\ ListHead(q, d) = (NumPages + 2) * PG_SIZE + 2 * At(q, d)
      OBVIOUS
    <2>1. q - 1 \in Nat /\ d \in Nat
      BY <1>1
    <2>2. (q - 1) * L \in Nat
      BY <2>1, <1>1
    <2> QED
      BY <2>1, <2>2 DEF ListHead
  <1> HIDE DEF At
  <1>3. (NumPages + 2) * PG_SIZE \in Nat /\ NumPages + 2 \in Nat
    BY <1>1
  <1>4. ListHead(p, c) \in Nat /\ ListHead(p, c) >= (NumPages + 2) * PG_SIZE
    BY <1>2, <1>3
  <1>5. PageOf(ListHead(p, c)) >= NumPages + 2 /\ PageOf(ListHead(p, c) + 1) >= NumPages + 2
    BY <1>3, <1>4, PageBound
  <1>6. ASSUME NEW q \in Slots, NEW d \in Classes, ListHead(p, c) = ListHead(q, d)
        PROVE  p = q /\ c = d
    <2>1. At(p, c) = At(q, d)
      <3> DEFINE Z == (NumPages + 2) * PG_SIZE
      <3>1. At(p, c) \in Nat /\ At(q, d) \in Nat /\ Z \in Nat /\ Z + 2 * At(p, c) = Z + 2 * At(q, d)
        BY <1>2, <1>3, <1>6
      <3> HIDE DEF Z
      <3> QED
        BY <3>1
    <2>2. /\ p - 1 \in Nat /\ q - 1 \in Nat /\ c \in 1..L /\ d \in 1..L
          /\ (p - 1) * L + c = (q - 1) * L + d
      BY <2>1, <1>1 DEF At
    <2>3. \A x, y \in Nat : \A e, f \in 1..L : x * L + e = y * L + f => ~(x < y)
      <3> SUFFICES ASSUME NEW x \in Nat, NEW y \in Nat, NEW e \in 1..L, NEW f \in 1..L,
                          x * L + e = y * L + f, x < y
                   PROVE  FALSE
        OBVIOUS
      <3>1. x + 1 <= y /\ x + 1 \in Nat
        OBVIOUS
      <3>2. (x + 1) * L <= y * L /\ (x + 1) * L = x * L + L
        BY <3>1, <1>1
      <3>3. x * L \in Nat /\ y * L \in Nat
        BY <1>1
      <3> QED
        BY <3>2, <3>3, <1>1
    <2>4. p - 1 = q - 1
      <3>1. ~(p - 1 < q - 1) /\ ~(q - 1 < p - 1)
        BY <2>2, <2>3
      <3> QED
        BY <3>1, <2>2
    <2>5. p = q
      BY <2>4, <1>1
    <2>6. (p - 1) * L \in Nat
      BY <2>2, <1>1
    <2> QED
      BY <2>2, <2>5, <2>6
  <1>7. ASSUME NEW q \in Slots, NEW d \in Classes
        PROVE  ListHead(p, c) # ListHead(q, d) + 1
    <2>1. At(p, c) \in Nat /\ At(q, d) \in Nat
      BY <1>2
    <2>2. \A z, x, y \in Nat : z + 2 * x # (z + 2 * y) + 1
      OBVIOUS
    <2> QED
      BY <2>1, <2>2, <1>2, <1>3
  <1>8. PageOf(ListHead(p, c)) \in Nat /\ PageOf(ListHead(p, c) + 1) \in Nat
    BY <1>4, PageDivision
  <1>9. PageOf(ListHead(p, c)) > NumPages + 1 /\ PageOf(ListHead(p, c) + 1) > NumPages + 1
    BY <1>5, <1>8, <1>1
  <1> QED
    BY <1>4, <1>6, <1>7, <1>9 DEF ListTail

-----------------------------------------------------------------------------
\* The loops over blocks and over the elements of a list.  A step from X to X can be
\* taken any number of times, so that the function a loop is written as exists.
Steps(F, n, X) == n \in Nat /\ F \in [1..n -> [X -> X]]

\* Taking n steps from base gives a function of the number of steps taken.
LEMMA Iterates ==
  ASSUME NEW X, NEW n, NEW F, Steps(F, n, X), NEW base, base \in X
  PROVE  \E g \in [0..n -> X] : g[0] = base /\ \A i \in 1..n : g[i] = F[i][g[i - 1]]
  <1> DEFINE Upto(k) == \E g \in [0..k -> X] : g[0] = base /\ \A i \in 1..k : g[i] = F[i][g[i - 1]]
             Bad == {k \in 0..n : ~Upto(k)}
  <1>0. n \in Nat /\ F \in [1..n -> [X -> X]]
    BY DEF Steps
  <1>1. Upto(0)
    <2> DEFINE g == [i \in 0..0 |-> base]
    <2>1. g \in [0..0 -> X] /\ g[0] = base /\ 1..0 = {}
      OBVIOUS
    <2> QED
      BY <2>1
  <1>2. ASSUME NEW k \in 0..n - 1, Upto(k)
        PROVE  Upto(k + 1)
    <2>1. PICK g \in [0..k -> X] : g[0] = base /\ \A i \in 1..k : g[i] = F[i][g[i - 1]]
      BY <1>2
    <2> DEFINE h == [i \in 0..k + 1 |-> IF i \in 0..k THEN g[i] ELSE F[k + 1][g[k]]]
    <2>2. k \in 0..k /\ k + 1 \in 1..n /\ F[k + 1] \in [X -> X] /\ g[k] \in X
      BY <1>0
    <2>3. F[k + 1][g[k]] \in X
      BY <2>2
    <2>4. h \in [0..k + 1 -> X]
      BY <2>3
    <2>5. h[0] = base
      BY <2>1
    <2>6. ASSUME NEW i \in 1..k + 1
          PROVE  h[i] = F[i][h[i - 1]]
      <3>1. i - 1 \in 0..k /\ i \in 0..k + 1 /\ i - 1 \in 0..k + 1
        OBVIOUS
      <3>2. h[i - 1] = g[i - 1]
        BY <3>1
      <3>3. CASE i \in 1..k
        <4>1. h[i] = g[i]
          BY <3>3, <3>1
        <4> QED
          BY <4>1, <3>2, <3>3, <2>1
      <3>4. CASE i = k + 1
        <4>1. h[i] = F[k + 1][g[k]] /\ i - 1 = k
          BY <3>4, <3>1
        <4> QED
          BY <4>1, <3>2, <3>4
      <3> QED
        BY <3>3, <3>4
    <2> HIDE DEF h
    <2> QED
      BY <2>4, <2>5, <2>6
  <1>3. Bad = {}
    <2> SUFFICES ASSUME Bad # {} PROVE FALSE
      OBVIOUS
    <2>1. Bad \in SUBSET Nat
      OBVIOUS
    <2>2. PICK k \in Bad : \A i \in Bad : k <= i
      BY <2>1, LeastNat
    <2> HIDE DEF Upto
    <2>3. k # 0
      BY <1>1
    <2>4. k - 1 \in 0..n - 1 /\ k - 1 \notin Bad /\ k - 1 \in 0..n
      BY <1>0, <2>2, <2>3
    <2>5. Upto((k - 1) + 1)
      BY <2>4, <1>2
    <2>6. (k - 1) + 1 = k
      OBVIOUS
    <2> QED
      BY <2>5, <2>6
  <1> HIDE DEF Upto
  <1>4. Upto(n)
    BY <1>0, <1>3
  <1> QED
    BY <1>4 DEF Upto

-----------------------------------------------------------------------------
\* What list_append does to three elements of a memory, and list_remove to two.
AppendedIs(r, m, head, b, last) ==
  /\ r \in [DOMAIN m -> Link]
  /\ r[last].next = b /\ r[last].prev = m[last].prev
  /\ r[b].prev = last /\ r[b].next = head + 1
  /\ r[head + 1].prev = b /\ r[head + 1].next = m[head + 1].next
  /\ \A a \in DOMAIN m \ {last, b, head + 1} : r[a] = m[a]

UnlinkedIs(r, m, before, after) ==
  /\ r \in [DOMAIN m -> Link]
  /\ r[before].next = after /\ r[before].prev = m[before].prev
  /\ r[after].prev = before /\ r[after].next = m[after].next
  /\ \A a \in DOMAIN m \ {before, after} : r[a] = m[a]

\* list_append changes the last element, the tail and the appended element.
LEMMA AppendedAt ==
  ASSUME NEW m, m \in [DOMAIN m -> Link], DOMAIN m \subseteq Nat, NEW head \in Nat, NEW b \in DOMAIN m,
         head + 1 \in DOMAIN m, m[head + 1].prev \in DOMAIN m,
         b # head + 1, b # m[head + 1].prev, m[head + 1].prev # head + 1
  PROVE  AppendedIs(Appended(m, head, b), m, head, b, m[head + 1].prev)
  <1> DEFINE D == DOMAIN m
             last == m[head + 1].prev
             tail == head + 1
             r1 == [m EXCEPT ![last].next = b]
             r2 == [r1 EXCEPT ![b] = [prev |-> last, next |-> tail]]
             r3 == [r2 EXCEPT ![tail].prev = b]
  <1>1. Appended(m, head, b) = r3
    BY DEF Appended
  <1>2. m \in [D -> Link] /\ tail \in D /\ last \in D /\ b \in D /\ tail \in Nat /\ last \in Nat /\ b \in Nat
    OBVIOUS
  <1> HIDE DEF tail, D, last
  <1>3. b # tail /\ b # last /\ last # tail
    BY DEF tail, last
  <1>4. r1 \in [D -> Link] /\ r1[last].next = b /\ r1[last].prev = m[last].prev /\ \A a \in D \ {last} : r1[a] = m[a]
    BY <1>2 DEF Link
  <1> HIDE DEF r1
  <1>5. r2 \in [D -> Link] /\ r2[b].prev = last /\ r2[b].next = tail /\ \A a \in D \ {b} : r2[a] = r1[a]
    BY <1>2, <1>4 DEF Link
  <1> HIDE DEF r2
  <1>6. r3 \in [D -> Link] /\ r3[tail].prev = b /\ r3[tail].next = r2[tail].next /\ \A a \in D \ {tail} : r3[a] = r2[a]
    BY <1>2, <1>5 DEF Link
  <1> HIDE DEF r3
  <1>7. r3[last] = r1[last] /\ r3[b] = r2[b] /\ r2[tail] = m[tail]
    BY <1>2, <1>3, <1>4, <1>5, <1>6
  <1>8. \A a \in D \ {last, b, tail} : r3[a] = m[a]
    BY <1>4, <1>5, <1>6
  <1> QED
    BY <1>1, <1>4, <1>5, <1>6, <1>7, <1>8 DEF tail, D, last, AppendedIs

\* list_remove changes the two neighbours of the element.
LEMMA UnlinkAt ==
  ASSUME NEW m, m \in [DOMAIN m -> Link], DOMAIN m \subseteq Nat, NEW b \in DOMAIN m,
         m[b].prev \in DOMAIN m, m[b].next \in DOMAIN m, m[b].prev # m[b].next
  PROVE  UnlinkedIs(Unlink(m, b), m, m[b].prev, m[b].next)
  <1> DEFINE D == DOMAIN m
             before == m[b].prev
             after == m[b].next
             r1 == [m EXCEPT ![before].next = after]
             r2 == [r1 EXCEPT ![after].prev = before]
  <1>1. m \in [D -> Link] /\ before \in D /\ after \in D /\ before \in Nat /\ after \in Nat /\ before # after
    OBVIOUS
  <1>2. Unlink(m, b) = r2
    BY DEF Unlink
  <1> HIDE DEF D, before, after
  <1>3. /\ r1 \in [D -> Link] /\ r1[before].next = after /\ r1[before].prev = m[before].prev
        /\ \A a \in D \ {before} : r1[a] = m[a]
    BY <1>1 DEF Link
  <1> HIDE DEF r1
  <1>4. /\ r2 \in [D -> Link] /\ r2[after].prev = before /\ r2[after].next = r1[after].next
        /\ \A a \in D \ {after} : r2[a] = r1[a]
    BY <1>1, <1>3 DEF Link
  <1> HIDE DEF r2
  <1>5. r2[before] = r1[before] /\ r1[after] = m[after]
    BY <1>1, <1>3, <1>4
  <1>6. \A a \in D \ {before, after} : r2[a] = m[a]
    BY <1>3, <1>4
  <1> QED
    BY <1>2, <1>3, <1>4, <1>5, <1>6 DEF D, before, after, UnlinkedIs

-----------------------------------------------------------------------------
\* A list from head to head + 1 with n elements between, t[1] to t[n].
List(m, head, n, t) ==
  /\ t[0] = head /\ t[n + 1] = head + 1
  /\ \A i, j \in 0..n + 1 : t[i] = t[j] => i = j
  /\ \A i \in 0..n : m[t[i]].next = t[i + 1] /\ m[t[i + 1]].prev = t[i]

On(n, t) == {t[i] : i \in 1..n}
Along(n, t) == {t[i] : i \in 0..n + 1}

\* A list consists of its elements and its two ends.
LEMMA AlongOn ==
  ASSUME NEW n \in Nat, NEW t, NEW m, NEW head, List(m, head, n, t)
  PROVE  /\ Along(n, t) = On(n, t) \cup {head, head + 1}
         /\ head \notin On(n, t) /\ head + 1 \notin On(n, t)
  <1>1. 0..n + 1 = 1..n \cup {0, n + 1} /\ 0 \notin 1..n /\ n + 1 \notin 1..n
    OBVIOUS
  <1>2. Along(n, t) = On(n, t) \cup {head, head + 1}
    BY <1>1 DEF List, Along, On
  <1>3. \A i \in 1..n : i \in 0..n + 1 /\ 0 \in 0..n + 1 /\ n + 1 \in 0..n + 1 /\ i # 0 /\ i # n + 1
    OBVIOUS
  <1>4. head \notin On(n, t) /\ head + 1 \notin On(n, t)
    BY <1>3 DEF List, On
  <1> QED
    BY <1>2, <1>4

\* A list is the same in a memory that shows its elements the same.
LEMMA ListSame ==
  ASSUME NEW n \in Nat, NEW t, NEW m, NEW r, NEW head, List(m, head, n, t),
         \A a \in Along(n, t) : r[a] = m[a]
  PROVE  List(r, head, n, t)
  <1>1. \A i \in 0..n : i \in 0..n + 1 /\ i + 1 \in 0..n + 1
    OBVIOUS
  <1>2. \A i \in 0..n : r[t[i]] = m[t[i]] /\ r[t[i + 1]] = m[t[i + 1]]
    BY <1>1 DEF Along
  <1> QED
    BY <1>2 DEF List

\* Such a list in the memory m of the addresses D.
Chain(D, m, head, n, t) ==
  /\ D \in SUBSET Nat /\ m \in [D -> Link] /\ head \in Nat /\ n \in Nat
  /\ t \in [0..n + 1 -> D] /\ List(m, head, n, t)

\* list_append makes a list one element longer, and changes memory only along the
\* list.
LEMMA ListAppend ==
  ASSUME NEW D, NEW m, NEW head, NEW n, NEW t, Chain(D, m, head, n, t),
         NEW b, b \in D, b \notin Along(n, t)
  PROVE  /\ \E u : Chain(D, Appended(m, head, b), head, n + 1, u) /\ On(n + 1, u) = On(n, t) \cup {b}
         /\ \A a \in D \ (Along(n, t) \cup {b}) : Appended(m, head, b)[a] = m[a]
  <1> DEFINE r == Appended(m, head, b)
             u == [i \in 0..n + 2 |-> IF i \in 0..n THEN t[i] ELSE IF i = n + 1 THEN b ELSE head + 1]
  <1>0. /\ D \in SUBSET Nat /\ m \in [D -> Link] /\ head \in Nat /\ n \in Nat /\ t \in [0..n + 1 -> D]
        /\ List(m, head, n, t) /\ n + 1 \in Nat
    BY DEF Chain
  <1>1. /\ 0 \in 0..n + 1 /\ n \in 0..n + 1 /\ n + 1 \in 0..n + 1 /\ n # n + 1
        /\ t[n + 1] = head + 1 /\ t[0] = head /\ m[t[n + 1]].prev = t[n] /\ m[t[n]].next = t[n + 1]
    BY <1>0 DEF List
  <1>2. head + 1 \in D /\ m[head + 1].prev = t[n] /\ t[n] \in D /\ t[n] # head + 1
    BY <1>0, <1>1 DEF List
  <1>3. b # head + 1 /\ b # t[n] /\ \A i \in 0..n + 1 : b # t[i]
    BY <1>0, <1>1 DEF Along
  <1>4. /\ r \in [D -> Link]
        /\ r[t[n]].next = b /\ r[t[n]].prev = m[t[n]].prev
        /\ r[b].prev = t[n] /\ r[b].next = head + 1
        /\ r[head + 1].prev = b
        /\ \A a \in D \ {t[n], b, head + 1} : r[a] = m[a]
    <2> DEFINE last == t[n]
    <2>1. last \in D /\ last = m[head + 1].prev /\ b # head + 1 /\ b # last /\ last # head + 1
      BY <1>0, <1>2, <1>3
    <2>2. head + 1 \in D /\ D = DOMAIN m /\ m \in [DOMAIN m -> Link] /\ DOMAIN m \subseteq Nat
      BY <1>0, <1>2
    <2>3. AppendedIs(r, m, head, b, m[head + 1].prev)
      BY <1>0, <2>1, <2>2, AppendedAt
    <2> QED
      BY <1>0, <2>1, <2>2, <2>3 DEF last, AppendedIs
  <1> HIDE DEF r
  <1>5. /\ \A i \in 0..n : i \in 0..n + 1 /\ i \in 0..n + 2 /\ i # n + 1 /\ i # n + 2
        /\ n + 1 \in 0..n + 2 /\ n + 2 \in 0..n + 2 /\ n + 1 \notin 0..n /\ n + 2 \notin 0..n /\ n + 2 # n + 1
        /\ \A i \in 0..n + 2 : i \in 0..n \/ i = n + 1 \/ i = n + 2
    BY <1>0
  <1>6. u \in [0..n + 2 -> D] /\ u[n + 1] = b /\ u[n + 2] = head + 1 /\ \A i \in 0..n : u[i] = t[i]
    BY <1>0, <1>2, <1>5
  <1> HIDE DEF u
  <1>7. \A i \in 0..n : t[i] # head + 1 /\ t[i] # b
    BY <1>0, <1>1, <1>3, <1>5 DEF List
  <1>8. ASSUME NEW i \in 0..n + 2, NEW j \in 0..n + 2, u[i] = u[j]
        PROVE  i = j
    BY <1>0, <1>3, <1>5, <1>6, <1>7, <1>8 DEF List
  <1>9. ASSUME NEW i \in 0..n + 1
        PROVE  r[u[i]].next = u[i + 1] /\ r[u[i + 1]].prev = u[i]
    <2>1. CASE i \in 0..n - 1
      <3>1. i \in 0..n /\ i + 1 \in 0..n /\ i \in 0..n + 1 /\ i + 1 \in 0..n + 1 /\ i # n
        BY <1>0, <2>1
      <3>2. u[i] = t[i] /\ u[i + 1] = t[i + 1] /\ m[t[i]].next = t[i + 1] /\ m[t[i + 1]].prev = t[i]
        BY <1>0, <3>1, <1>6 DEF List
      <3>3. t[i] # t[n] /\ r[t[i]] = m[t[i]]
        BY <1>0, <3>1, <1>1, <1>4, <1>7 DEF List
      <3>4. r[t[i + 1]].prev = m[t[i + 1]].prev
        BY <1>0, <3>1, <1>4, <1>7
      <3> QED
        BY <1>0, <3>2, <3>3, <3>4
    <2>2. CASE i = n
      BY <1>0, <2>2, <1>4, <1>5, <1>6
    <2>3. CASE i = n + 1
      <3>1. i + 1 = n + 2
        BY <1>0, <2>3
      <3> QED
        BY <1>0, <2>3, <3>1, <1>4, <1>6
    <2>4. i \in 0..n - 1 \/ i = n \/ i = n + 1
      BY <1>0
    <2> QED
      BY <1>0, <2>1, <2>2, <2>3, <2>4
  <1>10. u[0] = head
    BY <1>0, <1>1, <1>5, <1>6
  <1>11. (n + 1) + 1 = n + 2 /\ 0..(n + 1) + 1 = 0..n + 2
    BY <1>0
  <1>12. List(r, head, n + 1, u)
    BY <1>0, <1>6, <1>8, <1>9, <1>10, <1>11 DEF List
  <1>13. On(n + 1, u) = On(n, t) \cup {b}
    <2>1. 1..n + 1 = 1..n \cup {n + 1} /\ \A i \in 1..n : i \in 0..n
      BY <1>0
    <2>2. On(n + 1, u) = {u[i] : i \in 1..n} \cup {u[n + 1]}
      BY <1>0, <2>1 DEF On
    <2>3. {u[i] : i \in 1..n} = {t[i] : i \in 1..n}
      BY <1>0, <2>1, <1>6
    <2>4. u[n + 1] = b
      BY <1>6
    <2> QED
      BY <2>2, <2>3, <2>4 DEF On
  <1>14. t[n] \in Along(n, t) /\ head + 1 \in Along(n, t)
    BY <1>0, <1>1 DEF Along
  <1> QED
    BY SMTT(20), <1>0, <1>4, <1>6, <1>12, <1>13, <1>14 DEF r, Chain

\* list_remove makes a list one element shorter, and changes memory only along the
\* list.
LEMMA ListUnlink ==
  ASSUME NEW D, NEW m, NEW head, NEW n, NEW t, Chain(D, m, head, n, t),
         NEW k, k \in 1..n
  PROVE  /\ \E u : Chain(D, Unlink(m, t[k]), head, n - 1, u) /\ On(n - 1, u) = On(n, t) \ {t[k]}
         /\ \A a \in D \ Along(n, t) : Unlink(m, t[k])[a] = m[a]
  <1> DEFINE r == Unlink(m, t[k])
             u == [i \in 0..n |-> IF i < k THEN t[i] ELSE t[i + 1]]
  <1>0. /\ D \in SUBSET Nat /\ m \in [D -> Link] /\ head \in Nat /\ n \in Nat /\ t \in [0..n + 1 -> D]
        /\ List(m, head, n, t) /\ n - 1 \in Nat
    BY DEF Chain
  <1>1. /\ k - 1 \in 0..n /\ k \in 0..n /\ k - 1 \in 0..n + 1 /\ k \in 0..n + 1 /\ k + 1 \in 0..n + 1
        /\ k - 1 # k + 1 /\ k # k - 1 /\ (k - 1) + 1 = k
    BY <1>0
  <1>2. m[t[k]].prev = t[k - 1] /\ m[t[k]].next = t[k + 1]
    <2>1. m[t[k]].next = t[k + 1]
      BY <1>0, <1>1 DEF List
    <2>2. m[t[(k - 1) + 1]].prev = t[k - 1]
      BY <1>0, <1>1 DEF List
    <2> QED
      BY <1>0, <2>1, <2>2, <1>1
  <1>3. t[k] \in D /\ t[k - 1] \in D /\ t[k + 1] \in D /\ t[k - 1] # t[k + 1] /\ t[k] # t[k - 1]
    BY <1>0, <1>1 DEF List
  <1>4. /\ r \in [D -> Link]
        /\ r[t[k - 1]].next = t[k + 1] /\ r[t[k - 1]].prev = m[t[k - 1]].prev
        /\ r[t[k + 1]].prev = t[k - 1] /\ r[t[k + 1]].next = m[t[k + 1]].next
        /\ \A a \in D \ {t[k - 1], t[k + 1]} : r[a] = m[a]
    <2> DEFINE b == t[k]
               before == t[k - 1]
               after == t[k + 1]
    <2>1. b \in D /\ before \in D /\ after \in D /\ m[b].prev = before /\ m[b].next = after /\ before # after
      BY <1>0, <1>2, <1>3
    <2> HIDE DEF b, before, after
    <2>2. D = DOMAIN m /\ m \in [DOMAIN m -> Link] /\ DOMAIN m \subseteq Nat
      BY <1>0
    <2>3. UnlinkedIs(Unlink(m, b), m, m[b].prev, m[b].next)
      BY <1>0, <2>1, <2>2, UnlinkAt
    <2> QED
      BY <1>0, <2>1, <2>2, <2>3 DEF b, before, after, UnlinkedIs
  <1> HIDE DEF r
  <1>5. \A i \in 0..n : i \in 0..n + 1 /\ i + 1 \in 0..n + 1
    BY <1>0
  <1>6. u \in [0..n -> D]
    BY <1>0, <1>5
  <1>7. \A i \in 0..n : u[i] = IF i < k THEN t[i] ELSE t[i + 1]
    BY <1>0
  <1> HIDE DEF u
  <1>8. \A i, j \in 0..n : u[i] = u[j] => i = j
    <2> SUFFICES ASSUME NEW i \in 0..n, NEW j \in 0..n, u[i] = u[j] PROVE i = j
      BY <1>0
    <2> DEFINE x == IF i < k THEN i ELSE i + 1
               y == IF j < k THEN j ELSE j + 1
    <2>1. x \in 0..n + 1 /\ y \in 0..n + 1 /\ t[x] = t[y]
      BY <1>0, <1>5, <1>7
    <2>2. x = y
      BY <1>0, <2>1 DEF List
    <2> QED
      BY <1>0, <2>2
  <1>9. ASSUME NEW i \in 0..n - 1
        PROVE  r[u[i]].next = u[i + 1] /\ r[u[i + 1]].prev = u[i]
    <2>1. i \in 0..n /\ i + 1 \in 0..n /\ (i + 1) + 1 = i + 2 /\ i + 2 \in 0..n + 1 /\ i \in 0..n + 1 /\ i + 1 \in 0..n + 1
      BY <1>0
    <2>2. CASE i + 1 < k
      <3>1. u[i] = t[i] /\ u[i + 1] = t[i + 1]
        BY <1>0, <2>1, <2>2, <1>7
      <3>2. m[t[i]].next = t[i + 1] /\ m[t[i + 1]].prev = t[i]
        BY <1>0, <2>1 DEF List
      <3>3. t[i] # t[k - 1] /\ t[i] # t[k + 1] /\ t[i + 1] # t[k + 1]
        BY <1>0, <2>1, <2>2, <1>1 DEF List
      <3>4. r[t[i]] = m[t[i]]
        BY <1>0, <3>3, <2>1, <1>4
      <3>5. r[t[i + 1]].prev = m[t[i + 1]].prev
        BY <1>0, <3>3, <2>1, <1>4
      <3> QED
        BY <1>0, <3>1, <3>2, <3>4, <3>5
    <2>3. CASE i + 1 = k
      <3>1. u[i] = t[k - 1] /\ u[i + 1] = t[k + 1]
        BY <1>0, <2>1, <2>3, <1>7
      <3> QED
        BY <1>0, <3>1, <1>4
    <2>4. CASE i + 1 > k
      <3>1. u[i] = t[i + 1] /\ u[i + 1] = t[i + 2]
        BY <1>0, <2>1, <2>4, <1>7
      <3>2. m[t[i + 1]].next = t[i + 2] /\ m[t[i + 2]].prev = t[i + 1]
        BY <1>0, <2>1 DEF List
      <3>3. t[i + 2] # t[k - 1] /\ t[i + 2] # t[k + 1] /\ t[i + 1] # t[k - 1]
        BY <1>0, <2>1, <2>4, <1>1 DEF List
      <3>4. r[t[i + 2]] = m[t[i + 2]]
        BY <1>0, <3>3, <2>1, <1>4
      <3>5. r[t[i + 1]].next = m[t[i + 1]].next
        BY <1>0, <3>3, <2>1, <1>4
      <3> QED
        BY <1>0, <3>1, <3>2, <3>4, <3>5
    <2> QED
      BY <1>0, <2>1, <2>2, <2>3, <2>4
  <1>10. (n - 1) + 1 = n /\ n - 1 \in Nat /\ 0 \in 0..n /\ n \in 0..n /\ 0 < k /\ ~(n < k)
    BY <1>0
  <1>11. u[0] = head /\ u[n] = head + 1
    BY <1>0, <1>7, <1>10 DEF List
  <1>12. List(r, head, n - 1, u)
    BY <1>0, <1>8, <1>9, <1>10, <1>11 DEF List
  <1>13. On(n - 1, u) = On(n, t) \ {t[k]}
    <2>1. ASSUME NEW i \in 1..n - 1
          PROVE  u[i] \in On(n, t) \ {t[k]}
      <3> DEFINE x == IF i < k THEN i ELSE i + 1
      <3>1. x \in 1..n /\ x \in 0..n + 1 /\ x # k /\ u[i] = t[x]
        BY <1>0, <1>7
      <3> QED
        BY SMTT(20), <1>0, <3>1, <1>1 DEF List, On
    <2>2. ASSUME NEW j \in 1..n, j # k
          PROVE  t[j] \in On(n - 1, u)
      <3> DEFINE x == IF j < k THEN j ELSE j - 1
      <3>1. x \in 1..n - 1 /\ u[x] = t[j]
        <4>1. CASE j < k
          BY <1>0, <4>1, <1>7
        <4>2. CASE j > k
          <5>1. x = j - 1 /\ x \in 1..n - 1 /\ x \in 0..n /\ ~(x < k) /\ x + 1 = j
            BY <1>0, <4>2
          <5> QED
            BY <1>0, <5>1, <1>7
        <4> QED
          BY <1>0, <4>1, <4>2, <2>2
      <3> QED
        BY <1>0, <3>1 DEF On
    <2> QED
      BY <1>0, <2>1, <2>2 DEF On
  <1>14. t[k - 1] \in Along(n, t) /\ t[k + 1] \in Along(n, t)
    BY <1>0, <1>1 DEF Along
  <1> QED
    BY <1>0, <1>4, <1>6, <1>12, <1>13, <1>10, <1>14 DEF r, Chain

SameBut(D, S, r, m) == \A a \in D \ S : r[a] = m[a]

\* In the memory m of the addresses D, the list from head to head + 1 has exactly the
\* elements S.
ListOf(D, m, head, S) ==
  \E n : \E t : Chain(D, m, head, n, t) /\ On(n, t) = S

\* list_append adds the element to the elements of the list.
LEMMA ListOfAppend ==
  ASSUME NEW D, NEW m, NEW head, NEW S, ListOf(D, m, head, S),
         NEW b, b \in D, b \notin S, b # head, b # head + 1
  PROVE  /\ ListOf(D, Appended(m, head, b), head, S \cup {b})
         /\ SameBut(D, S \cup {head, head + 1, b}, Appended(m, head, b), m)
  <1>1. PICK n : \E t : Chain(D, m, head, n, t) /\ On(n, t) = S
    BY DEF ListOf
  <1>2. PICK t : Chain(D, m, head, n, t) /\ On(n, t) = S
    BY <1>1
  <1>3. Along(n, t) = S \cup {head, head + 1}
    BY <1>2, AlongOn DEF Chain
  <1> QED
    BY <1>2, <1>3, ListAppend DEF ListOf, SameBut

\* list_remove takes the element from the elements of the list.
LEMMA ListOfUnlink ==
  ASSUME NEW D, NEW m, NEW head, NEW S, ListOf(D, m, head, S), NEW b, b \in S
  PROVE  /\ ListOf(D, Unlink(m, b), head, S \ {b})
         /\ SameBut(D, S \cup {head, head + 1}, Unlink(m, b), m)
  <1>1. PICK n : \E t : Chain(D, m, head, n, t) /\ On(n, t) = S
    BY DEF ListOf
  <1>2. PICK t : Chain(D, m, head, n, t) /\ On(n, t) = S
    BY <1>1
  <1>3. Along(n, t) = S \cup {head, head + 1}
    BY <1>2, AlongOn DEF Chain
  <1>4. PICK k \in 1..n : b = t[k]
    BY <1>2 DEF On
  <1>5. /\ \E u : Chain(D, Unlink(m, t[k]), head, n - 1, u) /\ On(n - 1, u) = On(n, t) \ {t[k]}
        /\ \A a \in D \ Along(n, t) : Unlink(m, t[k])[a] = m[a]
    BY <1>2, <1>4, ListUnlink
  <1> QED
    BY <1>2, <1>3, <1>4, <1>5 DEF ListOf, SameBut

\* A memory that shows the elements and the ends the same has the same list.
LEMMA ListOfSame ==
  ASSUME NEW D, NEW m, NEW head, NEW S, ListOf(D, m, head, S),
         NEW E, NEW r, E \in SUBSET Nat, r \in [E -> Link],
         \A a \in S \cup {head, head + 1} : a \in E /\ r[a] = m[a]
  PROVE  ListOf(E, r, head, S)
  <1>1. PICK n : \E t : Chain(D, m, head, n, t) /\ On(n, t) = S
    BY DEF ListOf
  <1>2. PICK t : Chain(D, m, head, n, t) /\ On(n, t) = S
    BY <1>1
  <1>3. Along(n, t) = S \cup {head, head + 1} /\ n \in Nat /\ head \in Nat /\ t \in [0..n + 1 -> D]
    BY <1>2, AlongOn DEF Chain
  <1>4. List(r, head, n, t)
    BY <1>2, <1>3, ListSame DEF Chain
  <1>5. \A i \in 0..n + 1 : t[i] \in E
    BY <1>3 DEF Along
  <1>6. t \in [0..n + 1 -> E]
    BY <1>3, <1>5
  <1> QED
    BY <1>2, <1>3, <1>4, <1>6 DEF Chain, ListOf

\* The elements of a list are linked both ways, and the first is the one after the
\* head.
LEMMA ListOfFacts ==
  ASSUME NEW D, NEW m, NEW head, NEW S, ListOf(D, m, head, S)
  PROVE  /\ D \in SUBSET Nat /\ m \in [D -> Link] /\ head \in Nat
         /\ S \subseteq D /\ head \in D /\ head + 1 \in D /\ head \notin S /\ head + 1 \notin S
         /\ m[head + 1].prev \in D
         /\ S = {} <=> m[head].next = head + 1
         /\ S # {} => m[head].next \in S
         /\ \A b \in S : Linked(m, b) /\ m[m[b].next].prev = b /\ m[m[b].prev].next = b
  <1>1. PICK n : \E t : Chain(D, m, head, n, t) /\ On(n, t) = S
    BY DEF ListOf
  <1>2. PICK t : Chain(D, m, head, n, t) /\ On(n, t) = S
    BY <1>1
  <1>3. /\ D \in SUBSET Nat /\ m \in [D -> Link] /\ head \in Nat /\ n \in Nat /\ t \in [0..n + 1 -> D]
        /\ List(m, head, n, t) /\ DOMAIN m = D
    BY <1>2 DEF Chain
  <1>4. head \notin S /\ head + 1 \notin S
    BY <1>2, <1>3, AlongOn
  <1>5. /\ 0 \in 0..n + 1 /\ n + 1 \in 0..n + 1 /\ n \in 0..n /\ 0 \in 0..n /\ n \in 0..n + 1 /\ 1 \in 0..n + 1
        /\ \A i \in 1..n : i \in 0..n + 1 /\ i \in 0..n /\ i - 1 \in 0..n /\ (i - 1) + 1 = i /\ i + 1 \in 0..n + 1
                           /\ i - 1 \in 0..n + 1
    BY <1>3
  <1>6. S \subseteq D
    BY <1>2, <1>3, <1>5 DEF On
  <1>7. head \in D /\ head + 1 \in D
    BY <1>3, <1>5 DEF List
  <1>8. m[head + 1].prev \in D
    <2>1. m[t[n + 1]].prev = t[n] /\ t[n + 1] = head + 1
      BY <1>3, <1>5 DEF List
    <2> QED
      BY <2>1, <1>3, <1>5
  <1>9. m[head].next = t[1]
    <2>1. 0 + 1 = 1
      OBVIOUS
    <2> QED
      BY <2>1, <1>3, <1>5 DEF List
  <1>10. CASE n = 0
    <2>1. S = {} /\ t[1] = head + 1
      BY <1>10, <1>2, <1>3 DEF On, List
    <2> QED
      BY <2>1, <1>3, <1>4, <1>6, <1>7, <1>8, <1>9
  <1>11. CASE n # 0
    <2>1. 1 \in 1..n
      BY <1>11, <1>3
    <2>2. t[1] \in S
      BY <2>1, <1>2 DEF On
    <2>3. ASSUME NEW b \in S
          PROVE  Linked(m, b) /\ m[m[b].next].prev = b /\ m[m[b].prev].next = b
      <3>1. PICK i \in 1..n : b = t[i]
        BY <1>2 DEF On
      <3>2. m[t[i]].next = t[i + 1] /\ m[t[i + 1]].prev = t[i]
        BY <1>3, <1>5 DEF List
      <3>3. m[t[i - 1]].next = t[i] /\ m[t[i]].prev = t[i - 1]
        <4>1. m[t[i - 1]].next = t[(i - 1) + 1] /\ m[t[(i - 1) + 1]].prev = t[i - 1]
          BY <1>3, <1>5 DEF List
        <4> QED
          BY <4>1, <1>5
      <3>4. t[i] \in D /\ t[i - 1] \in D /\ t[i + 1] \in D
        BY <1>3, <1>5
      <3> QED
        BY <3>1, <3>2, <3>3, <3>4, <1>3 DEF Linked
    <2> QED
      BY <2>2, <2>3, <1>3, <1>4, <1>6, <1>7, <1>8, <1>9
  <1> QED
    BY <1>10, <1>11

\* A list without elements has its ends linked, and the other way round.
LEMMA ListOfNone ==
  ASSUME NEW D, NEW m, NEW head, D \in SUBSET Nat, m \in [D -> Link], head \in D, head + 1 \in D,
         m[head].next = head + 1, m[head + 1].prev = head
  PROVE  ListOf(D, m, head, {})
  <1> DEFINE t == [i \in 0..0 + 1 |-> head + i]
  <1>1. \A i \in 0..0 + 1 : i = 0 \/ i = 1
    OBVIOUS
  <1>2. head \in Nat /\ head + 0 = head /\ 0 \in 0..0 + 1 /\ 1 \in 0..0 + 1
    OBVIOUS
  <1>3. t \in [0..0 + 1 -> D] /\ t[0] = head /\ t[1] = head + 1
    BY <1>1, <1>2
  <1> HIDE DEF t
  <1>4. \A i \in 0..0 : i = 0
    OBVIOUS
  <1>5. List(m, head, 0, t)
    BY <1>1, <1>2, <1>3, <1>4 DEF List
  <1>6. On(0, t) = {}
    BY DEF On
  <1> QED
    BY <1>2, <1>3, <1>5, <1>6 DEF Chain, ListOf

\* A set of numbers with 0 that goes on to the next number as far as n has all up to n.
LEMMA Climb ==
  ASSUME NEW n \in Nat, NEW S \in SUBSET Nat, 0 \in S, \A i \in 0..n - 1 : i \in S => i + 1 \in S
  PROVE  \A i \in 0..n : i \in S
  <1> SUFFICES ASSUME (0..n) \ S # {} PROVE FALSE
    OBVIOUS
  <1>1. (0..n) \ S \in SUBSET Nat
    OBVIOUS
  <1>2. PICK k \in (0..n) \ S : \A i \in (0..n) \ S : k <= i
    BY <1>1, LeastNat
  <1>3. k # 0 /\ k \in 0..n
    BY <1>2
  <1>4. k - 1 \in 0..n - 1 /\ k - 1 \in 0..n /\ ~(k <= k - 1) /\ (k - 1) + 1 = k
    BY <1>3
  <1>5. k - 1 \in S
    BY <1>4, <1>2
  <1>6. k \in S
    BY <1>5, <1>4
  <1> QED
    BY <1>6, <1>2

\* list_append and list_remove write links to the addresses there are.
LEMMA LinkTypes ==
  ASSUME NEW D \in SUBSET Nat, NEW x \in [D -> Link], NEW b \in D
  PROVE  /\ Unlink(x, b) \in [D -> Link]
         /\ \A head \in Nat : head + 1 \in D => Appended(x, head, b) \in [D -> Link]
  <1>1. Unlink(x, b) \in [D -> Link]
    <2>1. x[b].prev \in Nat /\ x[b].next \in Nat
      BY DEF Link
    <2> DEFINE before == x[b].prev
               after == x[b].next
               r == [x EXCEPT ![before].next = after]
    <2>2. Unlink(x, b) = [r EXCEPT ![after].prev = before]
      BY DEF Unlink
    <2>3. before \in Nat /\ after \in Nat
      BY <2>1
    <2> HIDE DEF before, after
    <2>4. r \in [D -> Link]
      BY <2>3 DEF Link
    <2> HIDE DEF r
    <2> QED
      BY <2>2, <2>3, <2>4 DEF Link
  <1>2. ASSUME NEW head \in Nat, head + 1 \in D
        PROVE  Appended(x, head, b) \in [D -> Link]
    <2> DEFINE last == x[head + 1].prev
               r1 == [x EXCEPT ![last].next = b]
               r2 == [r1 EXCEPT ![b] = [prev |-> last, next |-> head + 1]]
    <2>1. last \in Nat /\ b \in Nat /\ head + 1 \in Nat
      BY <1>2 DEF Link
    <2>2. Appended(x, head, b) = [r2 EXCEPT ![head + 1].prev = b]
      BY DEF Appended
    <2> HIDE DEF last
    <2>3. r1 \in [D -> Link]
      BY <2>1 DEF Link
    <2> HIDE DEF r1
    <2>4. r2 \in [D -> Link]
      BY <2>1, <2>3 DEF Link
    <2> HIDE DEF r2
    <2> QED
      BY <2>1, <2>2, <2>4 DEF Link
  <1> QED
    BY <1>1, <1>2

\* The loop of sys_malloc over the blocks of a new arena does list_append once per
\* block.
LEMMA AppendedAllSteps ==
  ASSUME NEW D \in SUBSET Nat, NEW m \in [D -> Link], NEW head \in Nat, head + 1 \in D, NEW blocks \in Seq(D)
  PROVE  \E g \in [0..Len(blocks) -> [D -> Link]] :
           /\ AppendedAll(m, head, blocks) = g[Len(blocks)]
           /\ g[0] = m
           /\ \A i \in 1..Len(blocks) : g[i] = Appended(g[i - 1], head, blocks[i])
  <1> DEFINE n == Len(blocks)
             X == [D -> Link]
             F == [i \in 1..n |-> [x \in X |-> Appended(x, head, blocks[i])]]
             mem == CHOOSE g : g = [i \in 0..n |-> IF i = 0 THEN m ELSE Appended(g[i - 1], head, blocks[i])]
  <1>1. n \in Nat /\ \A i \in 1..n : blocks[i] \in D
    OBVIOUS
  <1>2. Steps(F, n, X)
    BY <1>1, LinkTypes DEF Steps
  <1>3. \A i \in 1..n, x \in X : F[i][x] = Appended(x, head, blocks[i])
    OBVIOUS
  <1> HIDE DEF F, X
  <1>4. m \in X
    BY DEF X
  <1>5. PICK g \in [0..n -> X] : g[0] = m /\ \A i \in 1..n : g[i] = F[i][g[i - 1]]
    BY <1>2, <1>4, Iterates
  <1>6. \A i \in 1..n : i - 1 \in 0..n /\ i \in 0..n /\ i # 0
    BY <1>1
  <1>7. ASSUME NEW i \in 0..n
        PROVE  g[i] = IF i = 0 THEN m ELSE Appended(g[i - 1], head, blocks[i])
    <2>1. CASE i = 0
      BY <2>1, <1>5
    <2>2. CASE i # 0
      <3>1. i \in 1..n
        BY <2>2, <1>1
      <3>2. g[i - 1] \in X
        BY <3>1, <1>6
      <3> QED
        BY <3>1, <3>2, <1>3, <1>5, <1>6
    <2> QED
      BY <2>1, <2>2
  <1>8. g = [i \in 0..n |-> IF i = 0 THEN m ELSE Appended(g[i - 1], head, blocks[i])]
    BY <1>5, <1>7
  <1>9. mem = [i \in 0..n |-> IF i = 0 THEN m ELSE Appended(mem[i - 1], head, blocks[i])]
    BY <1>8
  <1>10. AppendedAll(m, head, blocks) = mem[n]
    BY DEF AppendedAll
  <1> HIDE DEF mem
  <1>11. 0 \in 0..n /\ mem[0] = m
    BY <1>1, <1>9
  <1>12. \A i \in 1..n : mem[i] = Appended(mem[i - 1], head, blocks[i])
    BY <1>6, <1>9
  <1>13. \A i \in 0..n : mem[i] \in X
    <2> DEFINE S == {i \in 0..n : mem[i] \in X}
    <2>1. 0 \in S /\ S \in SUBSET Nat
      BY <1>11, <1>4
    <2>2. ASSUME NEW i \in 0..n - 1, i \in S
          PROVE  i + 1 \in S
      <3>1. i + 1 \in 1..n /\ (i + 1) - 1 = i /\ i + 1 \in 0..n
        BY <1>1
      <3>2. mem[i + 1] = Appended(mem[i], head, blocks[i + 1])
        BY <3>1, <1>12
      <3>3. mem[i + 1] \in X
        <4> DEFINE x == mem[i]
                   b == blocks[i + 1]
        <4>1. x \in [D -> Link] /\ b \in D
          BY <2>2, <3>1, <1>1 DEF X
        <4> HIDE DEF x, b
        <4>2. Unlink(x, b) \in [D -> Link] /\ \A h \in Nat : h + 1 \in D => Appended(x, h, b) \in [D -> Link]
          BY <4>1, LinkTypes
        <4> QED
          BY <4>2, <3>2 DEF X, x, b
      <3> QED
        BY <3>1, <3>3
    <2> HIDE DEF S
    <2>3. \A i \in 0..n : i \in S
      BY <2>1, <2>2, <1>1, Climb
    <2> QED
      BY <2>3 DEF S
  <1>14. mem \in [0..n -> X]
    BY <1>9, <1>13
  <1> QED
    BY <1>10, <1>11, <1>12, <1>14 DEF X

\* The loop of sys_free over the blocks of an empty arena does list_remove once per
\* block.
LEMMA UnlinkedAllSteps ==
  ASSUME NEW D \in SUBSET Nat, NEW m \in [D -> Link], NEW blocks \in Seq(D)
  PROVE  \E g \in [0..Len(blocks) -> [D -> Link]] :
           /\ UnlinkedAll(m, blocks) = g[Len(blocks)]
           /\ g[0] = m
           /\ \A i \in 1..Len(blocks) : g[i] = Unlink(g[i - 1], blocks[i])
  <1> DEFINE n == Len(blocks)
             X == [D -> Link]
             F == [i \in 1..n |-> [x \in X |-> Unlink(x, blocks[i])]]
             mem == CHOOSE g : g = [i \in 0..n |-> IF i = 0 THEN m ELSE Unlink(g[i - 1], blocks[i])]
  <1>1. n \in Nat /\ \A i \in 1..n : blocks[i] \in D
    OBVIOUS
  <1>2. Steps(F, n, X)
    BY <1>1, LinkTypes DEF Steps
  <1>3. \A i \in 1..n, x \in X : F[i][x] = Unlink(x, blocks[i])
    OBVIOUS
  <1> HIDE DEF F, X
  <1>4. m \in X
    BY DEF X
  <1>5. PICK g \in [0..n -> X] : g[0] = m /\ \A i \in 1..n : g[i] = F[i][g[i - 1]]
    BY <1>2, <1>4, Iterates
  <1>6. \A i \in 1..n : i - 1 \in 0..n /\ i \in 0..n /\ i # 0
    BY <1>1
  <1>7. ASSUME NEW i \in 0..n
        PROVE  g[i] = IF i = 0 THEN m ELSE Unlink(g[i - 1], blocks[i])
    <2>1. CASE i = 0
      BY <2>1, <1>5
    <2>2. CASE i # 0
      <3>1. i \in 1..n
        BY <2>2, <1>1
      <3>2. g[i - 1] \in X
        BY <3>1, <1>6
      <3> QED
        BY <3>1, <3>2, <1>3, <1>5, <1>6
    <2> QED
      BY <2>1, <2>2
  <1>8. g = [i \in 0..n |-> IF i = 0 THEN m ELSE Unlink(g[i - 1], blocks[i])]
    BY <1>5, <1>7
  <1>9. mem = [i \in 0..n |-> IF i = 0 THEN m ELSE Unlink(mem[i - 1], blocks[i])]
    BY <1>8
  <1>10. UnlinkedAll(m, blocks) = mem[n]
    BY DEF UnlinkedAll
  <1> HIDE DEF mem
  <1>11. 0 \in 0..n /\ mem[0] = m
    BY <1>1, <1>9
  <1>12. \A i \in 1..n : mem[i] = Unlink(mem[i - 1], blocks[i])
    BY <1>6, <1>9
  <1>13. \A i \in 0..n : mem[i] \in X
    <2> DEFINE S == {i \in 0..n : mem[i] \in X}
    <2>1. 0 \in S /\ S \in SUBSET Nat
      BY <1>11, <1>4
    <2>2. ASSUME NEW i \in 0..n - 1, i \in S
          PROVE  i + 1 \in S
      <3>1. i + 1 \in 1..n /\ (i + 1) - 1 = i /\ i + 1 \in 0..n
        BY <1>1
      <3>2. mem[i + 1] = Unlink(mem[i], blocks[i + 1])
        BY <3>1, <1>12
      <3>3. mem[i + 1] \in X
        <4> DEFINE x == mem[i]
                   b == blocks[i + 1]
        <4>1. x \in [D -> Link] /\ b \in D
          BY <2>2, <3>1, <1>1 DEF X
        <4> HIDE DEF x, b
        <4>2. Unlink(x, b) \in [D -> Link] /\ \A h \in Nat : h + 1 \in D => Appended(x, h, b) \in [D -> Link]
          BY <4>1, LinkTypes
        <4> QED
          BY <4>2, <3>2 DEF X, x, b
      <3> QED
        BY <3>1, <3>3
    <2> HIDE DEF S
    <2>3. \A i \in 0..n : i \in S
      BY <2>1, <2>2, <1>1, Climb
    <2> QED
      BY <2>3 DEF S
  <1>14. mem \in [0..n -> X]
    BY <1>9, <1>13
  <1> QED
    BY <1>10, <1>11, <1>12, <1>14 DEF X


\* The blocks of a new arena on an empty list.
LEMMA ListOfAppendAll ==
  ASSUME NEW D, NEW m, NEW head, ListOf(D, m, head, {}), NEW blocks \in Seq(D),
         \A i, j \in 1..Len(blocks) : blocks[i] = blocks[j] => i = j,
         \A i \in 1..Len(blocks) : blocks[i] # head /\ blocks[i] # head + 1
  PROVE  /\ ListOf(D, AppendedAll(m, head, blocks), head, ToSet(blocks))
         /\ SameBut(D, ToSet(blocks) \cup {head, head + 1}, AppendedAll(m, head, blocks), m)
  <1> DEFINE n == Len(blocks)
             Upto(i) == {blocks[j] : j \in 1..i}
  <1>1. n \in Nat /\ (\A i \in 1..n : blocks[i] \in D) /\ DOMAIN blocks = 1..n
    OBVIOUS
  <1>2. head + 1 \in D /\ D \in SUBSET Nat /\ m \in [D -> Link] /\ head \in Nat
    BY ListOfFacts
  <1>3. PICK g \in [0..n -> [D -> Link]] :
          /\ AppendedAll(m, head, blocks) = g[n]
          /\ g[0] = m
          /\ \A i \in 1..n : g[i] = Appended(g[i - 1], head, blocks[i])
    BY <1>2, AppendedAllSteps
  <1> DEFINE P(i) == /\ ListOf(D, g[i], head, Upto(i))
                     /\ \A a \in D \ (Upto(i) \cup {head, head + 1}) : g[i][a] = m[a]
             S == {i \in 0..n : P(i)}
  <1>4. P(0)
    <2>1. Upto(0) = {}
      OBVIOUS
    <2> HIDE DEF Upto
    <2> QED
      BY <2>1, <1>3
  <1>5. ASSUME NEW i \in 0..n - 1, P(i)
        PROVE  P(i + 1)
    <2>1. i + 1 \in 1..n /\ (i + 1) - 1 = i /\ 1..i + 1 = 1..i \cup {i + 1} /\ \A j \in 1..i : j \in 1..n /\ j # i + 1
      BY <1>1
    <2> DEFINE b == blocks[i + 1]
               x == g[i]
    <2>2. b \in D /\ b # head /\ b # head + 1 /\ b \notin Upto(i)
      BY <1>1, <2>1
    <2>3. Upto(i + 1) = Upto(i) \cup {b}
      BY <2>1
    <2>4. g[i + 1] = Appended(x, head, b)
      BY <1>3, <2>1
    <2>5. ListOf(D, x, head, Upto(i)) /\ \A a \in D \ (Upto(i) \cup {head, head + 1}) : x[a] = m[a]
      BY <1>5
    <2> HIDE DEF b, Upto, x
    <2> DEFINE R == Upto(i)
    <2>11. ListOf(D, x, head, R) /\ b \in D /\ b \notin R /\ b # head /\ b # head + 1
      BY <2>2, <2>5
    <2> HIDE DEF R
    <2>12. /\ ListOf(D, Appended(x, head, b), head, R \cup {b})
           /\ SameBut(D, R \cup {head, head + 1, b}, Appended(x, head, b), x)
      BY <2>11, ListOfAppend
    <2>6. /\ ListOf(D, Appended(x, head, b), head, Upto(i) \cup {b})
          /\ \A a \in D \ (Upto(i) \cup {head, head + 1, b}) : Appended(x, head, b)[a] = x[a]
      BY <2>12 DEF R, SameBut
    <2>7. ListOf(D, g[i + 1], head, Upto(i + 1))
      BY <2>3, <2>4, <2>6
    <2>8. \A a \in D \ (Upto(i + 1) \cup {head, head + 1}) : g[i + 1][a] = m[a]
      BY <2>3, <2>4, <2>5, <2>6
    <2> QED
      BY <2>7, <2>8
  <1> HIDE DEF P
  <1>6. 0 \in S /\ S \in SUBSET Nat /\ \A i \in 0..n - 1 : i \in S => i + 1 \in S
    BY <1>1, <1>4, <1>5
  <1> HIDE DEF S
  <1>7. \A i \in 0..n : i \in S
    BY <1>1, <1>6, Climb
  <1>8. P(n)
    BY <1>1, <1>7 DEF S
  <1>9. Upto(n) = ToSet(blocks)
    BY <1>1 DEF ToSet
  <1> HIDE DEF Upto
  <1> QED
    BY <1>3, <1>8, <1>9 DEF P, SameBut

\* All blocks of an arena off a list they are on.
LEMMA ListOfUnlinkAll ==
  ASSUME NEW D, NEW m, NEW head, NEW T, ListOf(D, m, head, T), NEW blocks \in Seq(D),
         \A i, j \in 1..Len(blocks) : blocks[i] = blocks[j] => i = j,
         ToSet(blocks) \subseteq T
  PROVE  /\ ListOf(D, UnlinkedAll(m, blocks), head, T \ ToSet(blocks))
         /\ SameBut(D, T \cup {head, head + 1}, UnlinkedAll(m, blocks), m)
  <1> DEFINE n == Len(blocks)
             Upto(i) == {blocks[j] : j \in 1..i}
  <1>1. n \in Nat /\ (\A i \in 1..n : blocks[i] \in D) /\ DOMAIN blocks = 1..n
    OBVIOUS
  <1>2. D \in SUBSET Nat /\ m \in [D -> Link]
    BY ListOfFacts
  <1>3. PICK g \in [0..n -> [D -> Link]] :
          /\ UnlinkedAll(m, blocks) = g[n]
          /\ g[0] = m
          /\ \A i \in 1..n : g[i] = Unlink(g[i - 1], blocks[i])
    BY <1>2, UnlinkedAllSteps
  <1> DEFINE P(i) == /\ ListOf(D, g[i], head, T \ Upto(i))
                     /\ \A a \in D \ (T \cup {head, head + 1}) : g[i][a] = m[a]
             S == {i \in 0..n : P(i)}
  <1>4. P(0)
    <2>1. Upto(0) = {} /\ T \ {} = T
      OBVIOUS
    <2> HIDE DEF Upto
    <2> QED
      BY <2>1, <1>3
  <1>5. ASSUME NEW i \in 0..n - 1, P(i)
        PROVE  P(i + 1)
    <2>1. i + 1 \in 1..n /\ (i + 1) - 1 = i /\ 1..i + 1 = 1..i \cup {i + 1} /\ \A j \in 1..i : j \in 1..n /\ j # i + 1
      BY <1>1
    <2> DEFINE b == blocks[i + 1]
               x == g[i]
    <2>2. b \in ToSet(blocks) /\ b \notin Upto(i)
      BY <1>1, <2>1 DEF ToSet
    <2>3. Upto(i + 1) = Upto(i) \cup {b}
      BY <2>1
    <2>4. g[i + 1] = Unlink(x, b)
      BY <1>3, <2>1
    <2>5. ListOf(D, x, head, T \ Upto(i)) /\ \A a \in D \ (T \cup {head, head + 1}) : x[a] = m[a]
      BY <1>5
    <2> DEFINE R == T \ Upto(i)
    <2>6. b \in R /\ ListOf(D, x, head, R)
      BY <2>2, <2>5
    <2> HIDE DEF b, Upto, x, R
    <2>11. /\ ListOf(D, Unlink(x, b), head, R \ {b})
           /\ SameBut(D, R \cup {head, head + 1}, Unlink(x, b), x)
      BY <2>6, ListOfUnlink
    <2>7. /\ ListOf(D, Unlink(x, b), head, (T \ Upto(i)) \ {b})
          /\ \A a \in D \ ((T \ Upto(i)) \cup {head, head + 1}) : Unlink(x, b)[a] = x[a]
      BY <2>11 DEF R, SameBut
    <2>8. (T \ Upto(i)) \ {b} = T \ Upto(i + 1)
      BY <2>3
    <2>9. ListOf(D, g[i + 1], head, T \ Upto(i + 1))
      BY <2>4, <2>7, <2>8
    <2>10. \A a \in D \ (T \cup {head, head + 1}) : g[i + 1][a] = m[a]
      BY <2>4, <2>5, <2>7
    <2> QED
      BY <2>9, <2>10
  <1> HIDE DEF P
  <1>6. 0 \in S /\ S \in SUBSET Nat /\ \A i \in 0..n - 1 : i \in S => i + 1 \in S
    BY <1>1, <1>4, <1>5
  <1> HIDE DEF S
  <1>7. \A i \in 0..n : i \in S
    BY <1>1, <1>6, Climb
  <1>8. P(n)
    BY <1>1, <1>7 DEF S
  <1>9. Upto(n) = ToSet(blocks)
    BY <1>1 DEF ToSet
  <1> HIDE DEF Upto
  <1> QED
    BY <1>3, <1>8, <1>9 DEF P, SameBut

-----------------------------------------------------------------------------
\* Walking on from the head, as many steps as there are addresses, finds the elements of
\* the list and nothing else.
Walked(m, head, n, seen) ==
  /\ Walk(m, head) = seen[n] \ {head + 1}
  /\ seen[0] = {m[head].next}
  /\ \A i \in 1..n : seen[i] = Onward(m, head, seen[i - 1])

\* The addresses seen after each number of steps along a list are a function of that
\* number.
LEMMA WalkSteps ==
  ASSUME NEW m, NEW head, NEW n, n \in Nat, n = Cardinality(DOMAIN m)
  PROVE  \E seen : Walked(m, head, n, seen)
  <1> DEFINE A == {m[head].next} \cup {m[a].next : a \in DOMAIN m}
             X == SUBSET A
             F == [i \in 1..n |-> [x \in X |-> Onward(m, head, x)]]
             visited == CHOOSE g : g = [i \in 0..n |-> IF i = 0 THEN {m[head].next} ELSE Onward(m, head, g[i - 1])]
  <1>1. \A x \in X : Onward(m, head, x) \in X
    BY DEF Onward
  <1>2. Steps(F, n, X)
    BY <1>1 DEF Steps
  <1>3. \A i \in 1..n, x \in X : F[i][x] = Onward(m, head, x)
    OBVIOUS
  <1>4. {m[head].next} \in X
    OBVIOUS
  <1> HIDE DEF F, X
  <1>5. PICK g \in [0..n -> X] : g[0] = {m[head].next} /\ \A i \in 1..n : g[i] = F[i][g[i - 1]]
    <2> DEFINE first == {m[head].next}
    <2>1. first \in X
      BY <1>4
    <2> HIDE DEF first
    <2>2. \E g \in [0..n -> X] : g[0] = first /\ \A i \in 1..n : g[i] = F[i][g[i - 1]]
      BY <1>2, <2>1, Iterates
    <2> QED
      BY <2>2 DEF first
  <1>6. \A i \in 1..n : i - 1 \in 0..n /\ i \in 0..n /\ i # 0
    OBVIOUS
  <1>7. ASSUME NEW i \in 0..n
        PROVE  g[i] = IF i = 0 THEN {m[head].next} ELSE Onward(m, head, g[i - 1])
    <2>1. CASE i = 0
      BY <2>1, <1>5
    <2>2. CASE i # 0
      <3>1. i \in 1..n
        BY <2>2
      <3>2. g[i - 1] \in X
        BY <3>1, <1>6
      <3> QED
        BY <3>1, <3>2, <1>3, <1>5, <1>6
    <2> QED
      BY <2>1, <2>2
  <1>8. g = [i \in 0..n |-> IF i = 0 THEN {m[head].next} ELSE Onward(m, head, g[i - 1])]
    BY <1>5, <1>7
  <1>9. visited = [i \in 0..n |-> IF i = 0 THEN {m[head].next} ELSE Onward(m, head, visited[i - 1])]
    BY <1>8
  <1>10. Walk(m, head) = visited[n] \ {head + 1}
    BY DEF Walk
  <1> HIDE DEF visited
  <1>11. 0 \in 0..n /\ visited[0] = {m[head].next}
    BY <1>9
  <1>12. \A i \in 1..n : visited[i] = Onward(m, head, visited[i - 1])
    BY <1>6, <1>9
  <1> QED
    BY <1>10, <1>11, <1>12 DEF Walked

\* Walking along a list meets exactly its elements.
LEMMA WalkMeets ==
  ASSUME NEW D, NEW m, NEW head, NEW S, ListOf(D, m, head, S), IsFiniteSet(D)
  PROVE  Walk(m, head) = S
  <1>1. PICK n : \E t : Chain(D, m, head, n, t) /\ On(n, t) = S
    BY DEF ListOf
  <1>2. PICK t : Chain(D, m, head, n, t) /\ On(n, t) = S
    BY <1>1
  <1>3. /\ D \in SUBSET Nat /\ m \in [D -> Link] /\ head \in Nat /\ n \in Nat /\ t \in [0..n + 1 -> D]
        /\ List(m, head, n, t) /\ DOMAIN m = D
    BY <1>2 DEF Chain
  <1> DEFINE N == Cardinality(D)
             Reach(i) == {t[j] : j \in 1..IF i < n THEN i + 1 ELSE n + 1}
  <1>4. N \in Nat
    BY FS_CardinalityType
  <1>5. N >= n + 2
    <2>1. t \in Injection(0..n + 1, D)
      BY <1>3 DEF Injection, IsInjective, List
    <2>2. IsFiniteSet(0..n + 1) /\ Cardinality(0..n + 1) = n + 2
      BY <1>3, FS_Interval
    <2>3. Cardinality(0..n + 1) <= Cardinality(D)
      BY <2>1, <2>2, FS_Injection DEF ExistsInjection
    <2> QED
      BY <2>2, <2>3
  <1>6. PICK seen : /\ Walk(m, head) = seen[N] \ {head + 1}
                    /\ seen[0] = {m[head].next}
                    /\ \A i \in 1..N : seen[i] = Onward(m, head, seen[i - 1])
    <2>1. N = Cardinality(DOMAIN m)
      BY <1>3
    <2> HIDE DEF N
    <2>2. \E seen : Walked(m, head, N, seen)
      BY <1>4, <2>1, WalkSteps
    <2> QED
      BY <2>2 DEF Walked
  <1> DEFINE Z == {i \in 0..N : seen[i] = Reach(i)}
  <1>7. seen[0] = Reach(0)
    <2>1. m[t[0]].next = t[0 + 1] /\ t[0] = head /\ 0 + 1 = 1
      BY <1>3 DEF List
    <2>2. (IF 0 < n THEN 0 + 1 ELSE n + 1) = 1
      BY <1>3
    <2>3. Reach(0) = {t[1]}
      BY <2>2
    <2> QED
      BY <2>1, <2>3, <1>6
  <1>8. ASSUME NEW i \in 0..N - 1, seen[i] = Reach(i)
        PROVE  seen[i + 1] = Reach(i + 1)
    <2>1. i + 1 \in 1..N /\ (i + 1) - 1 = i
      BY <1>4
    <2>2. seen[i + 1] = Onward(m, head, Reach(i))
      BY <2>1, <1>6, <1>8
    <2>3. \A j \in 1..n : /\ t[j] \in D /\ t[j] # head + 1 /\ m[t[j]].next = t[j + 1]
      <3>1. \A j \in 1..n : j \in 0..n + 1 /\ j \in 0..n /\ j # n + 1 /\ n + 1 \in 0..n + 1
        BY <1>3
      <3> QED
        BY <3>1, <1>3 DEF List
    <2>4. t[n + 1] = head + 1
      BY <1>3 DEF List
    <2>5. CASE i < n
      <3>1. Reach(i) = {t[j] : j \in 1..i + 1} /\ Reach(i + 1) = {t[j] : j \in 1..i + 2}
        <4>1. (IF i < n THEN i + 1 ELSE n + 1) = i + 1
          BY <2>5
        <4>2. (IF i + 1 < n THEN (i + 1) + 1 ELSE n + 1) = i + 2
          BY <2>5, <1>3
        <4> QED
          BY <4>1, <4>2
      <3>2. \A j \in 1..i + 1 : j \in 1..n
        BY <2>5, <1>3
      <3>3. Onward(m, head, Reach(i)) = Reach(i) \cup {t[j + 1] : j \in 1..i + 1}
        <4>1. (Reach(i) \cap DOMAIN m) \ {head + 1} = {t[j] : j \in 1..i + 1}
          BY <3>1, <3>2, <2>3, <1>3
        <4> HIDE DEF Reach
        <4>2. {m[a].next : a \in {t[j] : j \in 1..i + 1}} = {t[j + 1] : j \in 1..i + 1}
          BY <3>2, <2>3
        <4> QED
          BY <4>1, <4>2 DEF Onward
      <3>4. {t[j] : j \in 1..i + 2} = {t[j] : j \in 1..i + 1} \cup {t[j + 1] : j \in 1..i + 1}
        <4>1. ASSUME NEW j \in 1..i + 2
              PROVE  t[j] \in {t[k] : k \in 1..i + 1} \cup {t[k + 1] : k \in 1..i + 1}
          <5>1. CASE j \in 1..i + 1
            BY <5>1
          <5>2. CASE j = i + 2
            <6>1. i + 1 \in 1..i + 1 /\ (i + 1) + 1 = j
              BY <5>2
            <6> QED
              BY <6>1
          <5> QED
            BY <5>1, <5>2
        <4>2. \A k \in 1..i + 1 : k \in 1..i + 2 /\ k + 1 \in 1..i + 2
          OBVIOUS
        <4> QED
          BY <4>1, <4>2
      <3> QED
        BY <2>2, <3>1, <3>3, <3>4
    <2>6. CASE ~(i < n)
      <3>1. Reach(i) = {t[j] : j \in 1..n + 1} /\ Reach(i + 1) = {t[j] : j \in 1..n + 1}
        <4>1. (IF i < n THEN i + 1 ELSE n + 1) = n + 1
          BY <2>6
        <4>2. (IF i + 1 < n THEN (i + 1) + 1 ELSE n + 1) = n + 1
          BY <2>6, <1>3
        <4> QED
          BY <4>1, <4>2
      <3>2. (Reach(i) \cap DOMAIN m) \ {head + 1} \subseteq {t[j] : j \in 1..n}
        <4>1. \A j \in 1..n + 1 : j \in 1..n \/ j = n + 1
          BY <1>3
        <4> QED
          BY <3>1, <4>1, <2>4
      <3>3. \A j \in 1..n : j + 1 \in 1..n + 1
        BY <1>3
      <3>4. \A a \in (Reach(i) \cap DOMAIN m) \ {head + 1} : m[a].next \in Reach(i)
        <4> SUFFICES ASSUME NEW a, a \in (Reach(i) \cap DOMAIN m) \ {head + 1}
                     PROVE  m[a].next \in Reach(i)
          OBVIOUS
        <4>1. a \in {t[j] : j \in 1..n}
          BY <3>2
        <4>2. PICK j \in 1..n : a = t[j]
          BY <4>1
        <4>3. m[a].next = t[j + 1] /\ j + 1 \in 1..n + 1
          BY <4>2, <3>3, <2>3
        <4> HIDE DEF Reach
        <4> QED
          BY <4>3, <3>1
      <3>5. Onward(m, head, Reach(i)) = Reach(i)
        BY <3>4 DEF Onward
      <3> QED
        BY <2>2, <3>1, <3>5
    <2> QED
      BY <2>5, <2>6
  <1> HIDE DEF Reach
  <1>9. 0 \in Z /\ Z \in SUBSET Nat /\ \A i \in 0..N - 1 : i \in Z => i + 1 \in Z
    BY <1>4, <1>7, <1>8
  <1> HIDE DEF Z
  <1>10. \A i \in 0..N : i \in Z
    BY <1>4, <1>9, Climb
  <1>11. seen[N] = Reach(N)
    BY <1>4, <1>10 DEF Z
  <1>12. Reach(N) = {t[j] : j \in 1..n + 1}
    <2>1. (IF N < n THEN N + 1 ELSE n + 1) = n + 1
      BY <1>3, <1>4, <1>5
    <2> QED
      BY <2>1 DEF Reach
  <1>13. {t[j] : j \in 1..n + 1} \ {head + 1} = S
    <2>1. \A j \in 1..n + 1 : j \in 1..n \/ j = n + 1
      BY <1>3
    <2>2. \A j \in 1..n : j \in 1..n + 1 /\ j # n + 1 /\ j \in 0..n + 1 /\ n + 1 \in 0..n + 1
      BY <1>3
    <2>3. t[n + 1] = head + 1 /\ \A j \in 1..n : t[j] # head + 1
      BY <2>2, <1>3 DEF List
    <2> QED
      BY <2>1, <2>2, <2>3, <1>2 DEF On
  <1> QED
    BY <1>6, <1>11, <1>12, <1>13

\* Min of some natural numbers is the least of them.
LEMMA MinOf ==
  ASSUME NEW S, S \in SUBSET Nat, S # {}
  PROVE  Min(S) \in S /\ \A n \in S : Min(S) <= n
  <1>1. PICK n \in S : \A k \in S : n <= k
    BY LeastNat
  <1> QED
    BY <1>1 DEF Min

\* bitmap_scan finds n free pages in a row, or says there are none; with one free page
\* left it finds one page.
LEMMA ScanFinds ==
  ASSUME NEW used, used \subseteq Pages, used # Pages, NEW n, n \in Nat, n > 0
  PROVE  /\ Scan(used, n) # -1 => /\ Scan(used, n) \in Pages
                                  /\ Scan(used, n)..Scan(used, n) + n - 1 \subseteq Pages \ used
         /\ n = 1 => Scan(used, n) # -1
  <1> DEFINE set == used \cup {NumPages + 1}
             starts == {k \in 1..NumPages + 3 - n : \A j \in k..k + n - 1 : j \notin set}
  <1>1. NumPages \in Nat /\ NumPages > 0
    BY HeapConstants
  <1>2. PICK x \in Pages : x \notin used
    OBVIOUS
  <1>3. x \in 1..NumPages
    BY DEF Pages
  <1>4. n = 1 => x \in starts
    BY <1>1, <1>2, <1>3
  <1>5. Scan(used, n) = IF starts = {} THEN -1 ELSE Min(starts)
    BY DEF Scan
  <1>6. CASE starts = {}
    <2>1. Scan(used, n) = -1 /\ n # 1
      BY <1>4, <1>5, <1>6
    <2> QED
      BY <2>1
  <1>7. CASE starts # {}
    <2> DEFINE page == Min(starts)
    <2>1. starts \in SUBSET Nat
      BY <1>1
    <2>2. page \in starts /\ \A k \in starts : page <= k
      BY <2>1, <1>7, MinOf
    <2>3. Scan(used, n) = page
      BY <1>5, <1>7
    <2> HIDE DEF page
    <2>4. page \in 1..NumPages + 3 - n /\ \A j \in page..page + n - 1 : j \notin used /\ j # NumPages + 1
      BY <2>2
    <2>5. page + n - 1 <= NumPages
      <3> SUFFICES ASSUME page + n - 1 > NumPages PROVE FALSE
        BY <1>1, <2>4
      <3>1. CASE page <= NumPages + 1
        <4>1. NumPages + 1 \in page..page + n - 1
          BY <3>1, <1>1, <2>4
        <4> QED
          BY <4>1, <2>4
      <3>2. CASE page > NumPages + 1
        <4>1. n = 1 /\ page = NumPages + 2
          BY <3>2, <1>1, <2>4
        <4>2. page <= x
          BY <4>1, <1>4, <2>2
        <4> QED
          BY <4>1, <4>2, <1>3, <1>1
      <3> QED
        BY <3>1, <3>2, <1>1, <2>4
    <2>6. page..page + n - 1 \subseteq 1..NumPages
      BY <2>4, <2>5, <1>1
    <2>7. page \in 1..NumPages /\ page # -1
      BY <2>4, <2>5, <1>1
    <2> QED
      BY <2>3, <2>4, <2>6, <2>7 DEF Pages
  <1> QED
    BY <1>6, <1>7

\* A small request has a class, whose blocks are large enough for it.
LEMMA ClassFound ==
  ASSUME NEW size, size \in RequestSizes, Small(size)
  PROVE  ClassFor(size) \in Classes /\ size <= BlockSizes[ClassFor(size)]
  <1> DEFINE S == {c \in Classes : size <= BlockSizes[c]}
  <1>1. Classes = 1..Len(BlockSizes) /\ Len(BlockSizes) \in Nat /\ Len(BlockSizes) > 0
    BY HeapConstants
  <1>2. Len(BlockSizes) \in S
    BY <1>1 DEF Small
  <1>3. S \in SUBSET Nat /\ S # {}
    BY <1>1, <1>2
  <1>4. Min(S) \in S
    BY <1>3, MinOf
  <1> QED
    BY <1>4 DEF ClassFor

-----------------------------------------------------------------------------
\* What is true of a process p with its pages T, the headers A on them, the memory m it
\* sees, of which E are the ends of lists, what it and its earlier programs were given and
\* have not freed, H, and the pages I it has inherited.

SmallOn(A, page) == A[page] # NoArena /\ ~A[page].large
LargeOn(A, page) == A[page] # NoArena /\ A[page].large
Span(A, page) == IF LargeOn(A, page) THEN page..page + A[page].cnt - 1 ELSE {page}

OwnArenas(p, T, A, I, c) == {page \in T \ I : A[page].list = ListHead(p, c)}
FreeOn(H, page, c) == ToSet(BlocksIn(page, c)) \ {h.at : h \in H}
FreeOf(p, T, A, H, I, c) == UNION {FreeOn(H, page, c) : page \in OwnArenas(p, T, A, I, c)}

Header == [list : Nat, cnt : Nat, large : BOOLEAN]

Typed(T, A, m, E, H, I) ==
  /\ T \subseteq Pages /\ I \subseteq T
  /\ A \in [Pages -> Header]
  /\ m \in [DOMAIN m -> Link] /\ DOMAIN m \in SUBSET Nat /\ IsFiniteSet(DOMAIN m) /\ E \subseteq DOMAIN m
  /\ H \subseteq [at : Nat, size : RequestSizes]
 

\* The links are those of the blocks of small arenas.
BlockOf(A, a) ==
  \E c \in Classes : \E q \in Slots : A[PageOf(a)].list = ListHead(q, c) /\ a \in ToSet(BlocksIn(PageOf(a), c))

OnArenas(T, A, m, E) ==
  /\ \A a \in E : PageOf(a) > NumPages + 1
  /\ \A a \in DOMAIN m \ E : PageOf(a) \in T /\ SmallOn(A, PageOf(a)) /\ BlockOf(A, a)

\* A small arena is on one page and on the list of a process, for its own pages this one;
\* a large one has the pages that its header counts to itself.
OfClass(p, A, I, page) ==
  \E c \in Classes : \E q \in Slots : A[page].list = ListHead(q, c) /\ (page \notin I => q = p)

Alone(T, A, page) ==
  /\ A[page].cnt > 0 /\ A[page].list = NULL
  /\ page..page + A[page].cnt - 1 \subseteq T
  /\ \A other \in page + 1..page + A[page].cnt - 1 : A[other] = NoArena

Arenas(p, T, A, I) ==
  \A page \in Pages :
    /\ SmallOn(A, page) => page \in T /\ OfClass(p, A, I, page)
    /\ LargeOn(A, page) => Alone(T, A, page)

\* What is held is a block of a small arena or what a large one is for.
HeldSmall(A, h) ==
  /\ SmallOn(A, PageOf(h.at))
  /\ \E c \in Classes : \E q \in Slots :
       /\ A[PageOf(h.at)].list = ListHead(q, c)
       /\ h.size <= BlockSizes[c] /\ h.at \in ToSet(BlocksIn(PageOf(h.at), c))

HeldLarge(A, h) ==
  /\ LargeOn(A, PageOf(h.at))
  /\ h.at = PageOf(h.at) * PG_SIZE + ArenaSize
  /\ h.size + ArenaSize <= A[PageOf(h.at)].cnt * PG_SIZE

Holdings(A, H) ==
  /\ \A h \in H : PageOf(h.at) \in Pages /\ (HeldSmall(A, h) \/ HeldLarge(A, h))
  /\ \A h, g \in H : h.at = g.at => h = g

\* The links of a held block of a small arena are there.
Backed(A, m, H) == \A h \in H : SmallOn(A, PageOf(h.at)) => h.at \in DOMAIN m

\* The lists have the free blocks of the arenas the process has made, and cnt counts them.
Counted(p, T, A, H, I) ==
  \A c \in Classes : \A page \in OwnArenas(p, T, A, I, c) : A[page].cnt = Cardinality(FreeOn(H, page, c))

Listed(p, T, A, m, H, I) ==
  \A c \in Classes : ListOf(DOMAIN m, m, ListHead(p, c), FreeOf(p, T, A, H, I, c))

Sound(p, T, A, m, E, H, I) ==
  /\ Typed(T, A, m, E, H, I) /\ OnArenas(T, A, m, E) /\ Arenas(p, T, A, I)
  /\ Holdings(A, H) /\ Backed(A, m, H)
  /\ Counted(p, T, A, H, I) /\ Listed(p, T, A, m, H, I)

\* No arena is all free.
Occupied(A, H) == \A page \in Pages : A[page] # NoArena => \E h \in H : PageOf(h.at) = page

-----------------------------------------------------------------------------
\* What the parts of the invariant say of pages, blocks and lists.

\* The pages are the numbers from 1 to NumPages.
LEMMA PagesAre ==
  /\ NumPages \in Nat /\ Pages = 1..NumPages /\ \A page \in Pages : page \in Nat /\ page > 0 /\ page <= NumPages
  BY HeapConstants DEF Pages

\* A page that has no arena or a large one is on no list.
LEMMA OwnFacts ==
  ASSUME NEW p, p \in Slots, NEW T, NEW A, NEW I, T \subseteq Pages, A \in [Pages -> Header],
         Arenas(p, T, A, I), NEW c, c \in Classes, NEW page, page \in OwnArenas(p, T, A, I, c)
  PROVE  /\ page \in T /\ page \in Pages /\ page \in Nat /\ page \notin I /\ SmallOn(A, page)
         /\ A[page].list = ListHead(p, c)
         /\ \A d \in Classes : page \in OwnArenas(p, T, A, I, d) => d = c
  <1>1. page \in T /\ page \in Pages /\ page \in Nat /\ page \notin I /\ A[page].list = ListHead(p, c)
    BY PagesAre DEF OwnArenas
  <1>2. ListHead(p, c) > 0
    <2>1. ListHead(p, c) \in Nat /\ PageOf(ListHead(p, c)) > NumPages + 1 /\ NumPages \in Nat
      BY Ends, HeapConstants
    <2>2. PageOf(0) = 0
      <3>1. 0 \in 0..PG_SIZE - 1 /\ 0 = PG_SIZE * 0 + 0
        BY HeapConstants
      <3> QED
        BY <3>1, PageQuotient
    <2> QED
      BY <2>1, <2>2
  <1>3. SmallOn(A, page)
    <2>1. A[page] # NoArena
      BY <1>1, <1>2 DEF NoArena, NULL
    <2>2. ~LargeOn(A, page)
      BY <1>1, <1>2 DEF Arenas, Alone, NULL
    <2> QED
      BY <2>1, <2>2 DEF SmallOn, LargeOn
  <1>4. ASSUME NEW d, d \in Classes, page \in OwnArenas(p, T, A, I, d)
        PROVE  d = c
    <2>1. ListHead(p, d) = ListHead(p, c)
      BY <1>1, <1>4 DEF OwnArenas
    <2> QED
      BY <2>1, <1>4, Ends
  <1> QED
    BY <1>1, <1>3, <1>4

\* A free block is a block of an own arena of its class, nobody holds it, and it is no
\* end of a list.
LEMMA FreeFacts ==
  ASSUME NEW p, p \in Slots, NEW T, NEW A, NEW H, NEW I, T \subseteq Pages, A \in [Pages -> Header],
         Arenas(p, T, A, I), NEW c, c \in Classes, NEW b, b \in FreeOf(p, T, A, H, I, c)
  PROVE  /\ b \in Nat /\ PageOf(b) \in OwnArenas(p, T, A, I, c) /\ b \in FreeOn(H, PageOf(b), c)
         /\ b \in ToSet(BlocksIn(PageOf(b), c)) /\ \A h \in H : h.at # b
         /\ PageOf(b) \in Pages /\ SmallOn(A, PageOf(b))
         /\ \A q \in Slots, d \in Classes : b # ListHead(q, d) /\ b # ListHead(q, d) + 1
  <1>1. PICK page \in OwnArenas(p, T, A, I, c) : b \in FreeOn(H, page, c)
    BY DEF FreeOf
  <1>2. page \in Nat /\ page \in Pages /\ SmallOn(A, page)
    BY <1>1, OwnFacts
  <1>3. b \in ToSet(BlocksIn(page, c)) /\ \A h \in H : h.at # b
    BY <1>1 DEF FreeOn
  <1>4. b \in Nat /\ PageOf(b) = page
    BY <1>2, <1>3, ArenaBlocks
  <1>5. ASSUME NEW q, q \in Slots, NEW d, d \in Classes
        PROVE  b # ListHead(q, d) /\ b # ListHead(q, d) + 1
    <2>1. PageOf(ListHead(q, d)) > NumPages + 1 /\ PageOf(ListHead(q, d) + 1) > NumPages + 1
      BY <1>5, Ends
    <2>2. PageOf(b) <= NumPages /\ PageOf(b) \in Nat /\ NumPages \in Nat
      BY <1>2, <1>4, PagesAre
    <2>3. ~(PageOf(b) > NumPages + 1)
      BY <2>2
    <2> QED
      BY <2>1, <2>3
  <1> QED
    BY <1>1, <1>2, <1>3, <1>4, <1>5

\* Only the blocks of a process and the ends of its lists matter to it.
LEMMA SoundSame ==
  ASSUME NEW p, p \in Slots, NEW T, NEW A, NEW m, NEW E, NEW H, NEW I,
         Sound(p, T, A, m, E, H, I),
         NEW r, NEW F, r \in [DOMAIN r -> Link], DOMAIN r \in SUBSET Nat, IsFiniteSet(DOMAIN r),
         F \subseteq DOMAIN r, \A a \in F : PageOf(a) > NumPages + 1,
         DOMAIN r \ F = DOMAIN m \ E,
         ListEnds(p) \subseteq DOMAIN r,
         \A a \in (DOMAIN m \ E) \cup ListEnds(p) : r[a] = m[a]
  PROVE  Sound(p, T, A, r, F, H, I)
  <1>1. Typed(T, A, m, E, H, I) /\ OnArenas(T, A, m, E) /\ Arenas(p, T, A, I) /\ Listed(p, T, A, m, H, I)
    BY DEF Sound
  <1>2. Typed(T, A, r, F, H, I)
    BY <1>1 DEF Typed
  <1>3. OnArenas(T, A, r, F)
    BY <1>1 DEF OnArenas
  <1>4. Listed(p, T, A, r, H, I)
    <2> SUFFICES ASSUME NEW c, c \in Classes
                 PROVE  ListOf(DOMAIN r, r, ListHead(p, c), FreeOf(p, T, A, H, I, c))
      BY DEF Listed
    <2> DEFINE S == FreeOf(p, T, A, H, I, c)
               head == ListHead(p, c)
    <2>1. ListOf(DOMAIN m, m, head, S)
      BY <1>1 DEF Listed
    <2>2. S \subseteq DOMAIN m
      BY <2>1, ListOfFacts
    <2>3. \A b \in S : b \in DOMAIN m \ E
      <3> SUFFICES ASSUME NEW b, b \in S PROVE b \notin E
        BY <2>2
      <3>1. PageOf(b) \in Pages
        BY <1>1, FreeFacts DEF Typed
      <3>2. ~(PageOf(b) > NumPages + 1)
        BY <3>1, PagesAre
      <3> QED
        BY <3>2, <1>1 DEF OnArenas
    <2>4. head \in ListEnds(p) /\ head + 1 \in ListEnds(p)
      BY DEF ListEnds, ListTail
    <2>5. \A a \in S \cup {head, head + 1} : a \in DOMAIN r /\ r[a] = m[a]
      BY <2>3, <2>4
    <2> HIDE DEF S, head
    <2>6. ListOf(DOMAIN r, r, head, S)
      BY <2>1, <2>5, ListOfSame
    <2> QED
      BY <2>6 DEF S, head
  <1>5. Backed(A, r, H)
    <2> SUFFICES ASSUME NEW h \in H, SmallOn(A, PageOf(h.at))
                 PROVE  h.at \in DOMAIN r
      BY DEF Backed
    <2>1. h.at \in DOMAIN m /\ PageOf(h.at) \in Pages
      BY DEF Sound, Backed, Holdings
    <2>2. ~(PageOf(h.at) > NumPages + 1)
      BY <2>1, PagesAre
    <2> QED
      BY <2>1, <2>2, <1>1 DEF OnArenas
  <1> QED
    BY <1>1, <1>2, <1>3, <1>4, <1>5 DEF Sound

\* Each class of each process has a list of its own.
LEMMA HeadsDiffer ==
  ASSUME NEW p, p \in Slots, NEW c, c \in Classes, NEW q, q \in Slots, NEW d, d \in Classes,
         ListHead(p, c) = ListHead(q, d)
  PROVE  p = q /\ c = d
  BY Ends

\* An arena is on a page of its process.
LEMMA ArenaPage ==
  ASSUME NEW p, NEW T, NEW A, NEW I, T \subseteq Pages, A \in [Pages -> Header], Arenas(p, T, A, I),
         NEW page, page \in Pages, A[page] # NoArena
  PROVE  /\ page \in T /\ Span(A, page) \subseteq T /\ page \in Span(A, page)
         /\ SmallOn(A, page) \/ LargeOn(A, page)
         /\ ~(SmallOn(A, page) /\ LargeOn(A, page))
  <1>1. (SmallOn(A, page) \/ LargeOn(A, page)) /\ ~(SmallOn(A, page) /\ LargeOn(A, page))
    BY DEF SmallOn, LargeOn
  <1>2. A[page].cnt \in Nat /\ page \in Nat
    BY PagesAre DEF Header
  <1>3. CASE LargeOn(A, page)
    <2>1. A[page].cnt > 0 /\ page..page + A[page].cnt - 1 \subseteq T
      BY <1>3 DEF Arenas, Alone
    <2>2. Span(A, page) = page..page + A[page].cnt - 1
      BY <1>3 DEF Span
    <2>3. page \in page..page + A[page].cnt - 1
      BY <2>1, <1>2
    <2> QED
      BY <1>1, <2>1, <2>2, <2>3
  <1>4. CASE SmallOn(A, page)
    <2>1. page \in T /\ Span(A, page) = {page}
      BY <1>1, <1>4 DEF Arenas, Span
    <2> QED
      BY <1>1, <2>1
  <1> QED
    BY <1>1, <1>3, <1>4

\* Arenas of different pages have no page in common.
LEMMA SpansApart ==
  ASSUME NEW p, NEW T, NEW A, NEW I, T \subseteq Pages, A \in [Pages -> Header], Arenas(p, T, A, I),
         NEW page, page \in Pages, A[page] # NoArena,
         NEW other, other \in Pages, A[other] # NoArena, other # page
  PROVE  Span(A, page) \cap Span(A, other) = {}
  <1>1. page \in Nat /\ other \in Nat /\ A[page].cnt \in Nat /\ A[other].cnt \in Nat
    BY PagesAre DEF Header
  <1>2. \A x, y \in Pages : A[y] # NoArena /\ x < y => \A z \in Span(A, x) : z < y
    <2> SUFFICES ASSUME NEW x \in Pages, NEW y \in Pages, A[y] # NoArena, x < y, NEW z \in Span(A, x), ~(z < y)
                 PROVE  FALSE
      OBVIOUS
    <2>1. x \in Nat /\ y \in Nat /\ A[x].cnt \in Nat
      BY PagesAre DEF Header
    <2>2. LargeOn(A, x) /\ z \in x..x + A[x].cnt - 1
      BY <2>1 DEF Span
    <2>3. y \in x + 1..x + A[x].cnt - 1
      BY <2>1, <2>2
    <2>4. A[y] = NoArena
      BY <2>2, <2>3 DEF Arenas, Alone
    <2> QED
      BY <2>4
  <1>3. \A x \in Pages : \A z \in Span(A, x) : z >= x
    <2> SUFFICES ASSUME NEW x \in Pages, NEW z \in Span(A, x)
                 PROVE  z >= x
      OBVIOUS
    <2>1. x \in Nat /\ A[x].cnt \in Nat
      BY PagesAre DEF Header
    <2>2. z \in x..x + A[x].cnt - 1 \/ z = x
      BY DEF Span
    <2> QED
      BY <2>1, <2>2
  <1>4. ASSUME NEW z, z \in Span(A, page), z \in Span(A, other)
        PROVE  FALSE
    <2>1. z \in Nat
      BY <1>4, ArenaPage, PagesAre
    <2>2. CASE page < other
      BY <1>1, <1>2, <1>3, <1>4, <2>1, <2>2
    <2>3. CASE other < page
      BY <1>1, <1>2, <1>3, <1>4, <2>1, <2>3
    <2> QED
      BY <1>1, <2>2, <2>3
  <1> QED
    BY <1>4

\* What is held is on an arena.
LEMMA HeldFacts ==
  ASSUME NEW p, p \in Slots, NEW T, NEW A, NEW m, NEW E, NEW H, NEW I, Sound(p, T, A, m, E, H, I),
         NEW h, h \in H
  PROVE  /\ h.at \in Nat /\ h.size \in RequestSizes /\ PageOf(h.at) \in T /\ PageOf(h.at) \in Pages /\ PageOf(h.at) \in Nat
         /\ A[PageOf(h.at)] # NoArena
         /\ SmallOn(A, PageOf(h.at)) => HeldSmall(A, h) /\ h.at \in DOMAIN m
         /\ LargeOn(A, PageOf(h.at)) => HeldLarge(A, h)
  <1>1. Typed(T, A, m, E, H, I) /\ Arenas(p, T, A, I) /\ Holdings(A, H) /\ Backed(A, m, H)
    BY DEF Sound
  <1>2. h.at \in Nat /\ h.size \in RequestSizes /\ T \subseteq Pages /\ A \in [Pages -> Header]
    BY <1>1 DEF Typed
  <1>3. PageOf(h.at) \in Pages /\ (HeldSmall(A, h) \/ HeldLarge(A, h)) /\ PageOf(h.at) \in Nat
    BY <1>1, PagesAre DEF Holdings
  <1>4. A[PageOf(h.at)] # NoArena
    BY <1>3 DEF HeldSmall, HeldLarge, SmallOn, LargeOn
  <1>5. PageOf(h.at) \in T /\ ~(SmallOn(A, PageOf(h.at)) /\ LargeOn(A, PageOf(h.at)))
    BY <1>1, <1>2, <1>3, <1>4, ArenaPage
  <1>6. SmallOn(A, PageOf(h.at)) => HeldSmall(A, h)
    BY <1>3, <1>5 DEF HeldLarge
  <1>7. LargeOn(A, PageOf(h.at)) => HeldLarge(A, h)
    BY <1>3, <1>5 DEF HeldSmall
  <1>8. SmallOn(A, PageOf(h.at)) => h.at \in DOMAIN m
    BY <1>1 DEF Backed
  <1> QED
    BY <1>2, <1>3, <1>4, <1>5, <1>6, <1>7, <1>8

\* A block a process holds of an arena it has made is of the class whose list the arena is on.
LEMMA OwnBlock ==
  ASSUME NEW p, p \in Slots, NEW T, NEW A, NEW m, NEW E, NEW H, NEW I, Sound(p, T, A, m, E, H, I),
         NEW h, h \in H, SmallOn(A, PageOf(h.at)), PageOf(h.at) \notin I
  PROVE  \E c \in Classes : /\ PageOf(h.at) \in OwnArenas(p, T, A, I, c) /\ A[PageOf(h.at)].list = ListHead(p, c)
                            /\ h.size <= BlockSizes[c] /\ h.at \in ToSet(BlocksIn(PageOf(h.at), c))
  <1> DEFINE page == PageOf(h.at)
  <1>1. page \in T /\ page \in Pages /\ HeldSmall(A, h)
    BY HeldFacts
  <1>2. Arenas(p, T, A, I)
    BY DEF Sound
  <1>3. OfClass(p, A, I, page)
    BY <1>1, <1>2 DEF Arenas
  <1>4. PICK d \in Classes : A[page].list = ListHead(p, d)
    BY <1>3 DEF OfClass
  <1>5. PICK c \in Classes : \E q \in Slots :
          /\ A[page].list = ListHead(q, c)
          /\ h.size <= BlockSizes[c] /\ h.at \in ToSet(BlocksIn(page, c))
    BY <1>1 DEF HeldSmall
  <1>6. PICK q \in Slots : A[page].list = ListHead(q, c)
    BY <1>5
  <1>7. c = d
    <2>1. ListHead(p, d) = ListHead(q, c)
      BY <1>4, <1>6
    <2> QED
      BY <2>1, Ends
  <1> QED
    BY <1>1, <1>4, <1>5, <1>7 DEF OwnArenas

\* Nothing differs but on the pages Z and at the ends of a list.
Elsewhere(Z, r, m, head) ==
  \A a \in DOMAIN m : PageOf(a) \in Z \/ a \in {head, head + 1} \/ (a \in DOMAIN r /\ r[a] = m[a])

\* Of the ends of lists, only those of one list differ.
OtherEnds(p, c, r, m) ==
  \A a \in DOMAIN m \cap DOMAIN r :
    PageOf(a) \in Pages \/ a = ListHead(p, c) \/ a = ListHead(p, c) + 1 \/ r[a] = m[a]

\* A list stays as it is when nothing of its arenas and of its ends changes.
LEMMA OtherList ==
  ASSUME NEW p, p \in Slots, NEW T, NEW A, NEW m, NEW H, NEW I, T \subseteq Pages, A \in [Pages -> Header],
         Arenas(p, T, A, I), Listed(p, T, A, m, H, I),
         NEW c, c \in Classes, NEW d, d \in Classes, c # d, NEW r, r \in [DOMAIN r -> Link], DOMAIN r \in SUBSET Nat,
         NEW Z, Z \cap OwnArenas(p, T, A, I, d) = {},
         Elsewhere(Z, r, m, ListHead(p, c)),
         \A z \in Z : ~(z > NumPages + 1)
  PROVE  ListOf(DOMAIN r, r, ListHead(p, d), FreeOf(p, T, A, H, I, d))
  <1> DEFINE S == FreeOf(p, T, A, H, I, d)
             head == ListHead(p, d)
  <1>1. ListOf(DOMAIN m, m, head, S)
    BY DEF Listed
  <1>2. S \subseteq DOMAIN m /\ head \in DOMAIN m /\ head + 1 \in DOMAIN m
    BY <1>1, ListOfFacts
  <1>3. ASSUME NEW b, b \in S
        PROVE  b \in DOMAIN r /\ r[b] = m[b]
    <2>1. PageOf(b) \in OwnArenas(p, T, A, I, d) /\ b # ListHead(p, c) /\ b # ListHead(p, c) + 1
      BY <1>3, FreeFacts
    <2> QED
      BY <2>1, <1>2, <1>3 DEF Elsewhere
  <1>4. ASSUME NEW b, b = head \/ b = head + 1
        PROVE  b \in DOMAIN r /\ r[b] = m[b]
    <2>1. /\ PageOf(b) > NumPages + 1 /\ ListHead(p, d) # ListHead(p, c) + 1 /\ ListHead(p, c) # ListHead(p, d) + 1
          /\ ListHead(p, d) # ListHead(p, c) /\ ListHead(p, d) \in Nat /\ ListHead(p, c) \in Nat
      BY <1>4, Ends
    <2>2. PageOf(b) \notin Z
      BY <2>1
    <2>3. b # ListHead(p, c) /\ b # ListHead(p, c) + 1
      BY <1>4, <2>1
    <2> QED
      BY <2>2, <2>3, <1>4, <1>2 DEF Elsewhere
  <1>5. \A a \in S \cup {head, head + 1} : a \in DOMAIN r /\ r[a] = m[a]
    BY <1>3, <1>4
  <1> HIDE DEF S, head
  <1>6. ListOf(DOMAIN r, r, head, S)
    BY <1>1, <1>5, ListOfSame
  <1> QED
    BY <1>6 DEF S, head

\* What the memory is when the blocks of a new page are added to it.
LEMMA Joined ==
  ASSUME NEW m, NEW X, NEW m0, m0 = Over([b \in X |-> NoLink], m)
  PROVE  /\ DOMAIN m0 = X \cup DOMAIN m
         /\ \A a \in DOMAIN m0 : m0[a] = IF a \in X THEN NoLink ELSE m[a]
  BY DEF Over

\* Headers that differ on one page.
OtherHeaders(A1, A, page) ==
  A1 \in [Pages -> Header] /\ \A other \in Pages : other # page => A1[other] = A[other]

\* The headers that a header on a page without one leaves as they are.
LEMMA NewHeader ==
  ASSUME NEW p, p \in Slots, NEW T, NEW A, NEW m, NEW E, NEW H, NEW I, Sound(p, T, A, m, E, H, I),
         NEW page, page \in Pages, page \notin T, NEW A1, OtherHeaders(A1, A, page)
  PROVE  /\ A[page] = NoArena /\ page \notin I
         /\ \A other \in Pages : other # page =>
              /\ A1[other] = A[other] /\ (SmallOn(A1, other) <=> SmallOn(A, other))
              /\ LargeOn(A1, other) <=> LargeOn(A, other)
              /\ Span(A1, other) = Span(A, other)
         /\ \A h \in H : PageOf(h.at) # page
         /\ \A a \in DOMAIN m : PageOf(a) # page \/ PageOf(a) > NumPages + 1
  <1>1. Typed(T, A, m, E, H, I) /\ Arenas(p, T, A, I) /\ OnArenas(T, A, m, E)
    BY DEF Sound
  <1>2. A \in [Pages -> Header] /\ T \subseteq Pages /\ I \subseteq T
    BY <1>1 DEF Typed
  <1>3. A[page] = NoArena
    BY <1>1, <1>2, ArenaPage
  <1>5. ASSUME NEW other, other \in Pages, other # page
        PROVE  A1[other] = A[other]
    BY <1>5 DEF OtherHeaders
  <1>6. ASSUME NEW other, other \in Pages, other # page
        PROVE  /\ SmallOn(A1, other) <=> SmallOn(A, other)
               /\ LargeOn(A1, other) <=> LargeOn(A, other)
               /\ Span(A1, other) = Span(A, other)
    <2>1. A1[other] = A[other]
      BY <1>6, <1>5
    <2> QED
      BY <2>1 DEF SmallOn, LargeOn, Span
  <1>7. \A h \in H : PageOf(h.at) # page
    BY HeldFacts
  <1>8. \A a \in DOMAIN m : PageOf(a) # page \/ PageOf(a) > NumPages + 1
    BY <1>1 DEF OnArenas
  <1> QED
    BY <1>2, <1>3, <1>5, <1>6, <1>7, <1>8

\* The blocks of a new arena on page are on its list.
MakesArena(p, r, m0, A1, m, A, page, c) ==
  /\ A1 = [A EXCEPT ![page] = [list |-> ListHead(p, c), cnt |-> PerArena(c), large |-> FALSE]]
  /\ m0 = Over([b \in ToSet(BlocksIn(page, c)) |-> NoLink], m)
  /\ r = AppendedAll(m0, ListHead(p, c), BlocksIn(page, c))

ArenaMade(p, r, A1, m, T, H, I, page, c) ==
  /\ FreeOf(p, T \cup {page}, A1, H, I, c) = ToSet(BlocksIn(page, c)) /\ ToSet(BlocksIn(page, c)) # {}
  /\ DOMAIN r = DOMAIN m \cup ToSet(BlocksIn(page, c))
  /\ OtherEnds(p, c, r, m)

\* sys_malloc of an arena on the page: all its blocks are on its list, which was empty.
LEMMA NewArenaSound ==
  ASSUME NEW p, p \in Slots, NEW T, NEW A, NEW m, NEW E, NEW H, NEW I, Sound(p, T, A, m, E, H, I),
         NEW c, c \in Classes, FreeOf(p, T, A, H, I, c) = {},
         NEW page, page \in Pages, page \notin T,
         NEW A1, NEW m0, NEW r, MakesArena(p, r, m0, A1, m, A, page, c)
  PROVE  Sound(p, T \cup {page}, A1, r, E, H, I) /\ ArenaMade(p, r, A1, m, T, H, I, page, c)
  <1> /\ A1 = [A EXCEPT ![page] = [list |-> ListHead(p, c), cnt |-> PerArena(c), large |-> FALSE]]
      /\ m0 = Over([b \in ToSet(BlocksIn(page, c)) |-> NoLink], m)
      /\ r = AppendedAll(m0, ListHead(p, c), BlocksIn(page, c))
    BY DEF MakesArena
  <1> DEFINE B == [list |-> ListHead(p, c), cnt |-> PerArena(c), large |-> FALSE]
             head == ListHead(p, c)
             X == ToSet(BlocksIn(page, c))
             D == DOMAIN m \cup X
             T1 == T \cup {page}
  <1>1. /\ Typed(T, A, m, E, H, I) /\ Arenas(p, T, A, I) /\ OnArenas(T, A, m, E) /\ Holdings(A, H)
        /\ Backed(A, m, H) /\ Counted(p, T, A, H, I) /\ Listed(p, T, A, m, H, I)
    BY DEF Sound
  <1>2. /\ T \subseteq Pages /\ I \subseteq T /\ A \in [Pages -> Header]
        /\ m \in [DOMAIN m -> Link] /\ DOMAIN m \in SUBSET Nat /\ IsFiniteSet(DOMAIN m) /\ E \subseteq DOMAIN m
        /\ H \subseteq [at : Nat, size : RequestSizes]
    BY <1>1 DEF Typed
  <1>3. /\ page \in Nat /\ NumPages \in Nat /\ page <= NumPages /\ ~(page > NumPages + 1)
    BY PagesAre
  <1>4. /\ head \in Nat /\ PageOf(head) > NumPages + 1 /\ PageOf(head + 1) > NumPages + 1
        /\ PageOf(0) = 0
    <2>1. 0 \in 0..PG_SIZE - 1 /\ 0 = PG_SIZE * 0 + 0
      BY HeapConstants
    <2>2. PageOf(0) = 0
      BY <2>1, PageQuotient
    <2> QED
      BY <2>2, Ends
  <1>5. head # 0
    BY <1>3, <1>4
  <1>6. PerArena(c) \in Nat /\ PerArena(c) > 0 /\ B \in Header
    BY <1>4, PerArenaBound DEF Header
  <1>7. /\ BlocksIn(page, c) \in Seq(Nat) /\ Len(BlocksIn(page, c)) = PerArena(c)
        /\ \A i \in 1..PerArena(c) : BlocksIn(page, c)[i] = Block(page, c, i)
        /\ \A i, j \in 1..PerArena(c) : Block(page, c, i) = Block(page, c, j) => i = j
        /\ X = {Block(page, c, i) : i \in 1..PerArena(c)}
        /\ \A b \in X : b \in Nat /\ PageOf(b) = page
        /\ IsFiniteSet(X) /\ Cardinality(X) = PerArena(c)
    BY <1>3, ArenaBlocks
  <1>8. X # {}
    BY <1>6, <1>7
  <1> HIDE DEF B
  <1>0. A1 \in [Pages -> Header] /\ A1[page] = B /\ OtherHeaders(A1, A, page)
    <2>1. A1 = [A EXCEPT ![page] = B]
      BY DEF B
    <2> QED
      BY <2>1, <1>2, <1>6 DEF OtherHeaders
  <1>9. /\ A1 \in [Pages -> Header] /\ A[page] = NoArena /\ A1[page] = B /\ page \notin I
        /\ \A h \in H : PageOf(h.at) # page
        /\ \A a \in DOMAIN m : PageOf(a) # page \/ PageOf(a) > NumPages + 1
    BY <1>0, NewHeader
  <1>10. ASSUME NEW other, other \in Pages, other # page
         PROVE  /\ A1[other] = A[other] /\ (SmallOn(A1, other) <=> SmallOn(A, other))
                /\ LargeOn(A1, other) <=> LargeOn(A, other)
                /\ Span(A1, other) = Span(A, other)
    BY <1>0, <1>10, NewHeader
  <1>11. SmallOn(A1, page) /\ ~LargeOn(A1, page) /\ Span(A1, page) = {page} /\ A1[page].list = head /\ A1[page].cnt = PerArena(c)
    <2>1. A1[page].list = head /\ A1[page].large = FALSE /\ A1[page].cnt = PerArena(c)
      BY <1>9 DEF B
    <2>2. A1[page] # NoArena
      BY <2>1, <1>5 DEF NoArena, NULL
    <2> QED
      BY <2>1, <2>2 DEF SmallOn, LargeOn, Span
  <1>12. X \cap DOMAIN m = {}
    <2> SUFFICES ASSUME NEW b, b \in X, b \in DOMAIN m PROVE FALSE
      OBVIOUS
    <2>1. PageOf(b) = page
      BY <1>7
    <2> QED
      BY <2>1, <1>9, <1>3
  <1>13. DOMAIN m0 = D /\ m0 \in [D -> Link] /\ D \in SUBSET Nat /\ \A a \in DOMAIN m : m0[a] = m[a]
    <2>1. DOMAIN m0 = X \cup DOMAIN m /\ \A a \in DOMAIN m0 : m0[a] = IF a \in X THEN NoLink ELSE m[a]
      BY DEF Over
    <2>2. NoLink \in Link
      BY DEF NoLink, Link, NULL
    <2>3. m0 = [a \in D |-> IF a \in X THEN NoLink ELSE m[a]]
      BY <2>1 DEF Over, D, X
    <2>4. \A a \in D : (IF a \in X THEN NoLink ELSE m[a]) \in Link
      BY <2>2, <1>2
    <2>5. m0 \in [D -> Link]
      BY <2>3, <2>4
    <2>6. D \in SUBSET Nat
      BY <1>2, <1>7
    <2>7. \A a \in DOMAIN m : m0[a] = m[a]
      BY <2>1, <1>12
    <2> QED
      BY <2>1, <2>5, <2>6, <2>7
  <1>14. ListOf(DOMAIN m, m, head, {}) /\ head \in DOMAIN m /\ head + 1 \in DOMAIN m
    <2>1. ListOf(DOMAIN m, m, head, {})
      BY <1>1 DEF Listed
    <2> QED
      BY <2>1, ListOfFacts
  <1>15. ListOf(D, m0, head, {})
    <2>1. \A a \in {} \cup {head, head + 1} : a \in D /\ m0[a] = m[a]
      BY <1>14, <1>13
    <2> QED
      BY <1>13, <1>14, <2>1, ListOfSame
  <1>16. /\ BlocksIn(page, c) \in Seq(D)
         /\ \A i, j \in 1..Len(BlocksIn(page, c)) : BlocksIn(page, c)[i] = BlocksIn(page, c)[j] => i = j
         /\ \A i \in 1..Len(BlocksIn(page, c)) : BlocksIn(page, c)[i] # head /\ BlocksIn(page, c)[i] # head + 1
    <2>1. \A i \in 1..PerArena(c) : BlocksIn(page, c)[i] \in X
      BY <1>7
    <2>2. head \notin X /\ head + 1 \notin X
      BY <1>7, <1>4, <1>3
    <2> HIDE DEF X
    <2>3. BlocksIn(page, c) \in Seq(D)
      BY <2>1, <1>7
    <2>4. \A i \in 1..Len(BlocksIn(page, c)) : BlocksIn(page, c)[i] # head /\ BlocksIn(page, c)[i] # head + 1
      BY <2>1, <2>2, <1>7
    <2> QED
      BY <2>3, <2>4, <1>7
  <1> HIDE DEF X, D, T1
  <1>17. ListOf(D, r, head, X) /\ SameBut(D, X \cup {head, head + 1}, r, m0)
    BY <1>15, <1>16, ListOfAppendAll DEF X
  <1>18. DOMAIN r = D /\ r \in [D -> Link]
    <2>1. r \in [D -> Link]
      BY <1>17, ListOfFacts
    <2> QED
      BY <2>1
  <1>19. \A a \in DOMAIN m : a = head \/ a = head + 1 \/ r[a] = m[a]
    BY <1>17, <1>13, <1>12 DEF SameBut, D
  <1>20. Typed(T1, A1, r, E, H, I)
    <2>1. IsFiniteSet(D)
      BY <1>2, <1>7, FS_Union DEF D
    <2>2. T1 \subseteq Pages /\ I \subseteq T1 /\ E \subseteq D
      BY <1>2 DEF T1, D
    <2> QED
      BY <1>2, <1>9, <1>13, <1>18, <2>1, <2>2 DEF Typed
  <1>21. OnArenas(T1, A1, r, E)
    <2>1. ASSUME NEW a, a \in D, a \notin E
          PROVE  PageOf(a) \in T1 /\ SmallOn(A1, PageOf(a)) /\ BlockOf(A1, a)
      <3>1. CASE a \in X
        BY <3>1, <1>7, <1>11 DEF T1, BlockOf, X
      <3>2. CASE a \in DOMAIN m
        <4>1. PageOf(a) \in T /\ SmallOn(A, PageOf(a)) /\ BlockOf(A, a)
          BY <3>2, <2>1, <1>1 DEF OnArenas
        <4>2. PageOf(a) \in Pages /\ PageOf(a) # page
          BY <4>1, <1>2
        <4> QED
          BY <4>1, <4>2, <1>10 DEF T1, BlockOf
      <3> QED
        BY <2>1, <3>1, <3>2 DEF D
    <2> QED
      BY <2>1, <1>1, <1>18 DEF OnArenas
  <1>22. Arenas(p, T1, A1, I)
    <2>1. OfClass(p, A1, I, page)
      BY <1>11 DEF OfClass
    <2>2. ASSUME NEW other, other \in Pages, other # page, SmallOn(A1, other)
          PROVE  other \in T1 /\ OfClass(p, A1, I, other)
      <3>1. SmallOn(A, other) /\ A1[other] = A[other]
        BY <2>2, <1>10
      <3> QED
        BY <3>1, <2>2, <1>1 DEF Arenas, OfClass, T1
    <2>3. ASSUME NEW other, other \in Pages, other # page, LargeOn(A1, other)
          PROVE  Alone(T1, A1, other)
      <3>1. LargeOn(A, other) /\ A1[other] = A[other]
        BY <2>3, <1>10
      <3>2. Alone(T, A, other)
        BY <3>1, <2>3, <1>1 DEF Arenas
      <3>3. other \in Nat /\ A[other].cnt \in Nat
        BY <1>2, <2>3, PagesAre DEF Header
      <3>4. ASSUME NEW z, z \in other + 1..other + A[other].cnt - 1
            PROVE  A1[z] = NoArena
        <4>1. z \in other..other + A[other].cnt - 1
          BY <3>3, <3>4
        <4>2. z \in T /\ z \in Pages /\ z # page
          BY <4>1, <3>2, <1>2 DEF Alone
        <4>3. A[z] = NoArena
          BY <3>2, <3>4 DEF Alone
        <4> QED
          BY <4>2, <4>3, <1>10
      <3> QED
        BY <3>1, <3>2, <3>4 DEF Alone, T1
    <2> QED
      BY <2>1, <2>2, <2>3, <1>11 DEF Arenas, T1
  <1>23. Holdings(A1, H)
    <2>1. ASSUME NEW h, h \in H
          PROVE  PageOf(h.at) \in Pages /\ (HeldSmall(A1, h) \/ HeldLarge(A1, h))
      <3>1. PageOf(h.at) \in Pages /\ PageOf(h.at) # page /\ (HeldSmall(A, h) \/ HeldLarge(A, h))
        BY <2>1, <1>9, <1>1 DEF Holdings
      <3>2. /\ A1[PageOf(h.at)] = A[PageOf(h.at)] /\ (SmallOn(A1, PageOf(h.at)) <=> SmallOn(A, PageOf(h.at)))
            /\ LargeOn(A1, PageOf(h.at)) <=> LargeOn(A, PageOf(h.at))
        BY <3>1, <1>10
      <3>3. HeldSmall(A, h) => HeldSmall(A1, h)
        BY <3>2 DEF HeldSmall
      <3>4. HeldLarge(A, h) => HeldLarge(A1, h)
        BY <3>2 DEF HeldLarge
      <3> QED
        BY <3>1, <3>3, <3>4
    <2> QED
      BY <2>1, <1>1 DEF Holdings
  <1>24. Backed(A1, r, H)
    <2> SUFFICES ASSUME NEW h \in H, SmallOn(A1, PageOf(h.at))
                 PROVE  h.at \in DOMAIN r
      BY DEF Backed
    <2>1. PageOf(h.at) \in Pages /\ PageOf(h.at) # page
      BY <1>9, <1>1 DEF Holdings
    <2>2. SmallOn(A, PageOf(h.at))
      BY <2>1, <1>10
    <2>3. h.at \in DOMAIN m
      BY <2>2, <1>1 DEF Backed
    <2> QED
      BY <2>3, <1>18 DEF D
  <1>26. \A d \in Classes : OwnArenas(p, T1, A1, I, d) = IF d = c THEN OwnArenas(p, T, A, I, d) \cup {page} ELSE OwnArenas(p, T, A, I, d)
    <2> SUFFICES ASSUME NEW d \in Classes
                 PROVE  OwnArenas(p, T1, A1, I, d) = IF d = c THEN OwnArenas(p, T, A, I, d) \cup {page} ELSE OwnArenas(p, T, A, I, d)
      OBVIOUS
    <2>1. \A other \in T : other # page /\ A1[other] = A[other]
      BY <1>2, <1>10
    <2>2. A1[page].list = ListHead(p, d) => d = c
      <3> SUFFICES ASSUME A1[page].list = ListHead(p, d) PROVE d = c
        OBVIOUS
      <3>1. ListHead(p, d) = ListHead(p, c)
        BY <1>11
      <3> QED
        BY <3>1, HeadsDiffer
    <2>3. A1[page].list = ListHead(p, c) /\ page \in T1 \ I
      BY <1>9, <1>11 DEF T1
    <2> QED
      BY <2>1, <2>2, <2>3 DEF OwnArenas, T1
  <1>27. FreeOn(H, page, c) = X
    BY <1>7, <1>9 DEF FreeOn, X
  <1>28. FreeOf(p, T1, A1, H, I, c) = X /\ \A d \in Classes : d # c => FreeOf(p, T1, A1, H, I, d) = FreeOf(p, T, A, H, I, d)
    BY <1>26, <1>27 DEF FreeOf
  <1>29. Counted(p, T1, A1, H, I)
    <2> SUFFICES ASSUME NEW d \in Classes, NEW other, other \in OwnArenas(p, T1, A1, I, d)
                 PROVE  A1[other].cnt = Cardinality(FreeOn(H, other, d))
      BY DEF Counted
    <2>1. CASE other = page
      <3>1. d = c
        <4>1. ListHead(p, d) = ListHead(p, c)
          BY <2>1, <1>11 DEF OwnArenas
        <4> QED
          BY <4>1, HeadsDiffer
      <3> QED
        BY <2>1, <3>1, <1>27, <1>7, <1>11
    <2>2. CASE other # page
      <3>1. other \in OwnArenas(p, T, A, I, d)
        BY <2>2, <1>26
      <3>2. A1[other] = A[other]
        BY <3>1, <2>2, <1>2, <1>10 DEF OwnArenas
      <3> QED
        BY <3>1, <3>2, <1>1 DEF Counted
    <2> QED
      BY <2>1, <2>2
  <1>30. Listed(p, T1, A1, r, H, I)
    <2> SUFFICES ASSUME NEW d \in Classes
                 PROVE  ListOf(DOMAIN r, r, ListHead(p, d), FreeOf(p, T1, A1, H, I, d))
      BY DEF Listed
    <2>1. CASE d = c
      BY <2>1, <1>17, <1>18, <1>28
    <2>2. CASE d # c
      <3> DEFINE Z == {page}
      <3>1. Z \cap OwnArenas(p, T, A, I, d) = {}
        BY DEF OwnArenas
      <3>2. Elsewhere(Z, r, m, ListHead(p, c))
        BY <1>18, <1>19 DEF D, Elsewhere
      <3>3. \A z \in Z : ~(z > NumPages + 1)
        BY <1>3
      <3> HIDE DEF Z
      <3>4. r \in [DOMAIN r -> Link] /\ DOMAIN r \in SUBSET Nat
        BY <1>13, <1>18
      <3>5. ListOf(DOMAIN r, r, ListHead(p, d), FreeOf(p, T, A, H, I, d))
        BY <1>1, <1>2, <2>2, <3>1, <3>2, <3>3, <3>4, OtherList
      <3> QED
        BY <3>5, <1>28, <2>2
    <2> QED
      BY <2>1, <2>2
  <1>31. Sound(p, T1, A1, r, E, H, I)
    BY <1>20, <1>21, <1>22, <1>23, <1>24, <1>29, <1>30 DEF Sound
  <1>32. OtherEnds(p, c, r, m)
    BY <1>19 DEF OtherEnds
  <1> QED
    BY <1>8, <1>18, <1>28, <1>31, <1>32 DEF X, D, T1, ArenaMade

\* The headers of a small arena with another count.
Recounted(A1, A, page) ==
  /\ OtherHeaders(A1, A, page)
  /\ A1[page].list = A[page].list /\ A1[page].large = A[page].large

\* No list begins at address 0.
LEMMA HeadNotNull ==
  ASSUME NEW q, q \in Slots, NEW c, c \in Classes
  PROVE  ListHead(q, c) # NULL
  <1>1. 0 \in 0..PG_SIZE - 1 /\ 0 = PG_SIZE * 0 + 0 /\ NumPages \in Nat
    BY HeapConstants
  <1>2. PageOf(0) = 0
    BY <1>1, PageQuotient
  <1>3. PageOf(ListHead(q, c)) > NumPages + 1
    BY Ends
  <1> QED
    BY <1>1, <1>2, <1>3 DEF NULL

\* Changing the count of one arena leaves all arenas arenas of the same kind.
LEMMA RecountedPages ==
  ASSUME NEW p, p \in Slots, NEW T, NEW A, NEW m, NEW E, NEW H, NEW I, Sound(p, T, A, m, E, H, I),
         NEW page, page \in Pages, SmallOn(A, page), NEW A1, Recounted(A1, A, page)
  PROVE  \A other \in Pages :
           /\ SmallOn(A1, other) <=> SmallOn(A, other)
           /\ LargeOn(A1, other) <=> LargeOn(A, other)
           /\ Span(A1, other) = Span(A, other)
           /\ A1[other].list = A[other].list
           /\ LargeOn(A, other) => A1[other] = A[other]
           /\ A1[other] = NoArena <=> A[other] = NoArena
  <1> SUFFICES ASSUME NEW other \in Pages
               PROVE  /\ SmallOn(A1, other) <=> SmallOn(A, other)
                      /\ LargeOn(A1, other) <=> LargeOn(A, other)
                      /\ Span(A1, other) = Span(A, other)
                      /\ A1[other].list = A[other].list
                      /\ LargeOn(A, other) => A1[other] = A[other]
                      /\ A1[other] = NoArena <=> A[other] = NoArena
    OBVIOUS
  <1>1. CASE other = page
    <2>1. OfClass(p, A, I, page)
      BY DEF Sound, Arenas
    <2>2. A[page].list # NULL
      BY <2>1, HeadNotNull DEF OfClass
    <2>3. A1[page].list = A[page].list /\ A1[page].large = A[page].large
      BY DEF Recounted
    <2>4. A[page] # NoArena /\ A1[page] # NoArena
      BY <2>2, <2>3 DEF NoArena
    <2>5. SmallOn(A1, page) /\ ~LargeOn(A1, page) /\ ~LargeOn(A, page)
      BY <2>3, <2>4 DEF SmallOn, LargeOn
    <2> QED
      BY <1>1, <2>3, <2>4, <2>5 DEF Span
  <1>2. CASE other # page
    <2>1. A1[other] = A[other]
      BY <1>2 DEF Recounted, OtherHeaders
    <2> QED
      BY <2>1 DEF SmallOn, LargeOn, Span
  <1> QED
    BY <1>1, <1>2

\* Changing the count of one arena disturbs nothing but the counts.
LEMMA RecountedSame ==
  ASSUME NEW p, p \in Slots, NEW T, NEW A, NEW m, NEW E, NEW H, NEW I, Sound(p, T, A, m, E, H, I),
         NEW page, page \in Pages, SmallOn(A, page), NEW A1, Recounted(A1, A, page)
  PROVE  /\ A1 \in [Pages -> Header] /\ Arenas(p, T, A1, I)
         /\ OnArenas(T, A1, m, E)
         /\ \A c : OwnArenas(p, T, A1, I, c) = OwnArenas(p, T, A, I, c)
         /\ \A h : PageOf(h.at) \in Pages => /\ HeldSmall(A1, h) <=> HeldSmall(A, h)
                                             /\ HeldLarge(A1, h) <=> HeldLarge(A, h)
  <1>1. /\ Typed(T, A, m, E, H, I) /\ Arenas(p, T, A, I) /\ OnArenas(T, A, m, E)
    BY DEF Sound
  <1>2. T \subseteq Pages /\ A \in [Pages -> Header]
    BY <1>1 DEF Typed
  <1>3. A1 \in [Pages -> Header]
    BY DEF Recounted, OtherHeaders
  <1>4. \A other \in Pages :
           /\ SmallOn(A1, other) <=> SmallOn(A, other)
           /\ LargeOn(A1, other) <=> LargeOn(A, other)
           /\ Span(A1, other) = Span(A, other)
           /\ A1[other].list = A[other].list
           /\ LargeOn(A, other) => A1[other] = A[other]
           /\ A1[other] = NoArena <=> A[other] = NoArena
    BY RecountedPages
  <1>5. Arenas(p, T, A1, I)
    <2>1. ASSUME NEW other, other \in Pages, SmallOn(A1, other)
          PROVE  other \in T /\ OfClass(p, A1, I, other)
      BY <2>1, <1>4, <1>1 DEF Arenas, OfClass
    <2>2. ASSUME NEW other, other \in Pages, LargeOn(A1, other)
          PROVE  Alone(T, A1, other)
      <3>1. Alone(T, A, other) /\ A1[other] = A[other]
        BY <2>2, <1>4, <1>1 DEF Arenas
      <3>2. other \in Nat /\ A[other].cnt \in Nat
        BY <2>2, <1>2, PagesAre DEF Header
      <3>3. ASSUME NEW z, z \in other + 1..other + A[other].cnt - 1
            PROVE  A1[z] = NoArena
        <4>1. z \in other..other + A[other].cnt - 1
          BY <3>2, <3>3
        <4>2. z \in Pages
          BY <4>1, <3>1, <1>2 DEF Alone
        <4>3. A[z] = NoArena
          BY <3>1, <3>3 DEF Alone
        <4> QED
          BY <4>2, <4>3, <1>4
      <3> QED
        BY <3>1, <3>3 DEF Alone
    <2> QED
      BY <2>1, <2>2 DEF Arenas
  <1>7. OnArenas(T, A1, m, E)
    <2>1. \A a \in DOMAIN m \ E : PageOf(a) \in T /\ SmallOn(A, PageOf(a)) /\ BlockOf(A, a) /\ PageOf(a) \in Pages
      BY <1>1, <1>2 DEF OnArenas
    <2> QED
      BY <2>1, <1>1, <1>4 DEF OnArenas, BlockOf
  <1>8. \A c : OwnArenas(p, T, A1, I, c) = OwnArenas(p, T, A, I, c)
    BY <1>2, <1>4 DEF OwnArenas
  <1>9. ASSUME NEW h, PageOf(h.at) \in Pages
        PROVE  /\ HeldSmall(A1, h) <=> HeldSmall(A, h)
               /\ HeldLarge(A1, h) <=> HeldLarge(A, h)
    <2>1. HeldSmall(A1, h) <=> HeldSmall(A, h)
      BY <1>4, <1>9 DEF HeldSmall
    <2>2. HeldLarge(A1, h) <=> HeldLarge(A, h)
      BY <1>4, <1>9 DEF HeldLarge
    <2> QED
      BY <2>1, <2>2
  <1> QED
    BY <1>3, <1>5, <1>7, <1>8, <1>9

-----------------------------------------------------------------------------
\* The first block of a list that is not empty.
LEMMA FirstBlock ==
  ASSUME NEW p, p \in Slots, NEW T, NEW A, NEW m, NEW E, NEW H, NEW I, Sound(p, T, A, m, E, H, I),
         NEW c, c \in Classes, FreeOf(p, T, A, H, I, c) # {},
         NEW b, b = m[ListHead(p, c)].next
  PROVE  /\ Linked(m, b) /\ b \in FreeOf(p, T, A, H, I, c) /\ b \in DOMAIN m /\ b \in Nat
         /\ PageOf(b) \in OwnArenas(p, T, A, I, c) /\ b \in FreeOn(H, PageOf(b), c)
         /\ b \in ToSet(BlocksIn(PageOf(b), c)) /\ (\A h \in H : h.at # b)
         /\ PageOf(b) \in Pages /\ PageOf(b) \in T /\ PageOf(b) \in Nat /\ PageOf(b) \notin I
         /\ SmallOn(A, PageOf(b)) /\ b # ListHead(p, c) /\ b # ListHead(p, c) + 1
         /\ A[PageOf(b)].list = ListHead(p, c)
         /\ \A d \in Classes : PageOf(b) \in OwnArenas(p, T, A, I, d) => d = c
         /\ IsFiniteSet(FreeOn(H, PageOf(b), c))
         /\ A[PageOf(b)].cnt = Cardinality(FreeOn(H, PageOf(b), c)) /\ A[PageOf(b)].cnt - 1 \in Nat
         /\ Unlink(m, b) \in [DOMAIN m -> Link]
  <1> DEFINE head == ListHead(p, c)
             S == FreeOf(p, T, A, H, I, c)
             page == PageOf(b)
             D == DOMAIN m
             u == Unlink(m, b)
             F == FreeOn(H, page, c)
  <1>1. /\ Typed(T, A, m, E, H, I) /\ Arenas(p, T, A, I) /\ OnArenas(T, A, m, E) /\ Holdings(A, H)
        /\ Backed(A, m, H) /\ Counted(p, T, A, H, I) /\ Listed(p, T, A, m, H, I)
    BY DEF Sound
  <1>2. /\ T \subseteq Pages /\ I \subseteq T /\ A \in [Pages -> Header]
        /\ m \in [D -> Link] /\ D \in SUBSET Nat /\ IsFiniteSet(D) /\ E \subseteq D
        /\ H \subseteq [at : Nat, size : RequestSizes]
    BY <1>1 DEF Typed
  <1>3. ListOf(D, m, head, S)
    BY <1>1 DEF Listed
  <1>4. b \in S /\ S \subseteq D /\ head \notin S /\ head + 1 \notin S
    BY <1>3, ListOfFacts
  <1>5. Linked(m, b)
    BY <1>3, <1>4, ListOfFacts
  <1>6. /\ b \in Nat /\ page \in OwnArenas(p, T, A, I, c) /\ b \in FreeOn(H, page, c)
        /\ b \in ToSet(BlocksIn(page, c)) /\ (\A h \in H : h.at # b)
        /\ page \in Pages /\ SmallOn(A, page) /\ b # head /\ b # head + 1
    BY <1>1, <1>2, <1>4, FreeFacts
  <1>7. page \in T /\ page \in Nat /\ page \notin I /\ A[page].list = head
        /\ \A d \in Classes : page \in OwnArenas(p, T, A, I, d) => d = c
    BY <1>1, <1>2, <1>6, OwnFacts
  <1> HIDE DEF S, page, D, head
  <1>8. u \in [D -> Link]
    <2>1. ListOf(D, u, head, S \ {b})
      BY <1>3, <1>4, ListOfUnlink DEF u
    <2> QED
      BY <2>1, ListOfFacts
  <1>15. A[page].cnt = Cardinality(FreeOn(H, page, c)) /\ A[page].cnt \in Nat
    BY <1>1, <1>2, <1>6 DEF Counted, Header
  <1>16. IsFiniteSet(F)
    <2>1. IsFiniteSet(ToSet(BlocksIn(page, c)))
      BY <1>7, ArenaBlocks
    <2>2. F \subseteq ToSet(BlocksIn(page, c))
      BY DEF FreeOn
    <2> QED
      BY <2>1, <2>2, FS_Subset
  <1>17. A[page].cnt # 0
    <2>1. b \in F
      BY <1>6
    <2> HIDE DEF F
    <2>2. Cardinality(F) # 0
      BY <2>1, <1>16, FS_EmptySet
    <2> QED
      BY <2>2, <1>15 DEF F
  <1>18. A[page].cnt - 1 \in Nat
    BY <1>15, <1>17
  <1> QED
    BY <1>2, <1>4, <1>5, <1>6, <1>7, <1>8, <1>15, <1>16, <1>18 DEF D, head, S, page, u

\* b is off its list, one less is counted on its page, and g is held there.
GivesBlock(r, A1, H1, m, A, H, c, b, g) ==
  /\ r \in [DOMAIN m -> Link] /\ SameBut(DOMAIN m, {b}, r, Unlink(m, b))
  /\ Recounted(A1, A, PageOf(b)) /\ A1[PageOf(b)].cnt = A[PageOf(b)].cnt - 1
  /\ g \in [at : Nat, size : RequestSizes] /\ g.at = b /\ g.size <= BlockSizes[c]
  /\ H1 = H \cup {g}

SameArenas(A1, A) == \A page \in Pages : A1[page] = NoArena <=> A[page] = NoArena

\* What sys_malloc makes of it.
LEMMA TakeBlockSound ==
  ASSUME NEW p, p \in Slots, NEW T, NEW A, NEW m, NEW E, NEW H, NEW I, Sound(p, T, A, m, E, H, I),
         NEW c, c \in Classes, FreeOf(p, T, A, H, I, c) # {},
         NEW b, b = m[ListHead(p, c)].next,
         NEW r, NEW A1, NEW g, NEW H1, GivesBlock(r, A1, H1, m, A, H, c, b, g)
  PROVE  Sound(p, T, A1, r, E, H1, I) /\ OtherEnds(p, c, r, m) /\ SameArenas(A1, A)
  <1> /\ r \in [DOMAIN m -> Link] /\ SameBut(DOMAIN m, {b}, r, Unlink(m, b))
      /\ Recounted(A1, A, PageOf(b)) /\ A1[PageOf(b)].cnt = A[PageOf(b)].cnt - 1
      /\ g \in [at : Nat, size : RequestSizes] /\ g.at = b /\ g.size <= BlockSizes[c]
      /\ H1 = H \cup {g}
    BY DEF GivesBlock
  <1> DEFINE head == ListHead(p, c)
             S == FreeOf(p, T, A, H, I, c)
             page == PageOf(b)
             D == DOMAIN m
             u == Unlink(m, b)
  <1>1. /\ Typed(T, A, m, E, H, I) /\ Arenas(p, T, A, I) /\ OnArenas(T, A, m, E) /\ Holdings(A, H)
        /\ Backed(A, m, H) /\ Counted(p, T, A, H, I) /\ Listed(p, T, A, m, H, I)
    BY DEF Sound
  <1>2. /\ T \subseteq Pages /\ I \subseteq T /\ A \in [Pages -> Header]
        /\ m \in [D -> Link] /\ D \in SUBSET Nat /\ IsFiniteSet(D) /\ E \subseteq D
        /\ H \subseteq [at : Nat, size : RequestSizes]
    BY <1>1 DEF Typed
  <1>3. ListOf(D, m, head, S)
    BY <1>1 DEF Listed
  <1>4. /\ b \in S /\ b \in D /\ b \in Nat /\ page \in OwnArenas(p, T, A, I, c) /\ b \in FreeOn(H, page, c)
        /\ b \in ToSet(BlocksIn(page, c)) /\ (\A h \in H : h.at # b)
        /\ page \in Pages /\ SmallOn(A, page) /\ b # head /\ b # head + 1
    BY FirstBlock
  <1>5. /\ page \in T /\ page \in Nat /\ page \notin I /\ A[page].list = head
        /\ \A d \in Classes : page \in OwnArenas(p, T, A, I, d) => d = c
    BY FirstBlock
  <1>6. IsFiniteSet(FreeOn(H, page, c)) /\ A[page].cnt = Cardinality(FreeOn(H, page, c))
    BY FirstBlock
  <1>7. S \subseteq D /\ head \notin S /\ head + 1 \notin S
    BY <1>3, ListOfFacts
  <1> HIDE DEF S, page, u, D, head
  <1>8. ListOf(D, u, head, S \ {b}) /\ SameBut(D, S \cup {head, head + 1}, u, m)
    BY <1>3, <1>4, ListOfUnlink DEF u
  <1>9. A1[page].cnt = A[page].cnt - 1
    BY DEF page
  <1>10. Recounted(A1, A, page)
    BY DEF page
  <1>11. r \in [D -> Link] /\ DOMAIN r = D /\ \A a \in D : a # b => r[a] = u[a]
    BY DEF u, D, SameBut
  <1>12. \A a \in D : a \in S \/ a = head \/ a = head + 1 \/ r[a] = m[a]
    BY <1>8, <1>11, <1>4 DEF SameBut
  <1>13. ListOf(D, r, head, S \ {b})
    <2>1. head \in D /\ head + 1 \in D
      BY <1>3, ListOfFacts
    <2>2. \A a \in (S \ {b}) \cup {head, head + 1} : a \in D /\ r[a] = u[a]
      BY <2>1, <1>4, <1>7, <1>11
    <2> QED
      BY <1>8, <1>11, <1>2, <2>2, ListOfSame
  <1>14. \A a \in S : PageOf(a) \in OwnArenas(p, T, A, I, c) /\ PageOf(a) \in Pages
    BY <1>1, <1>2, FreeFacts DEF S
  <1>15. {h.at : h \in H1} = {h.at : h \in H} \cup {b}
    OBVIOUS
  <1>16. FreeOn(H1, page, c) = FreeOn(H, page, c) \ {b}
    BY <1>15 DEF FreeOn
  <1>17. Cardinality(FreeOn(H1, page, c)) = A[page].cnt - 1
    <2> DEFINE F == FreeOn(H, page, c)
    <2>1. IsFiniteSet(F) /\ b \in F
      BY <1>4, <1>6
    <2> HIDE DEF F
    <2>2. Cardinality(F \ {b}) = Cardinality(F) - 1
      BY <2>1, FS_RemoveElement
    <2> QED
      BY <2>2, <1>16, <1>6 DEF F
  <1>19. /\ A1 \in [Pages -> Header] /\ Arenas(p, T, A1, I)
         /\ OnArenas(T, A1, m, E)
         /\ \A d : OwnArenas(p, T, A1, I, d) = OwnArenas(p, T, A, I, d)
         /\ \A h : PageOf(h.at) \in Pages => /\ HeldSmall(A1, h) <=> HeldSmall(A, h)
                                             /\ HeldLarge(A1, h) <=> HeldLarge(A, h)
    BY <1>4, <1>10, RecountedSame
  <1>20. Typed(T, A1, r, E, H1, I)
    BY <1>2, <1>11, <1>19 DEF Typed
  <1>21. OnArenas(T, A1, r, E)
    BY <1>19, <1>11 DEF OnArenas, D
  <1>22. Holdings(A1, H1)
    <2>1. HeldSmall(A, g)
      BY <1>4, <1>5 DEF HeldSmall, head, page
    <2>2. PageOf(g.at) \in Pages
      BY <1>4 DEF page
    <2>3. HeldSmall(A1, g)
      BY <2>1, <2>2, <1>19
    <2>4. \A h \in H : PageOf(h.at) \in Pages /\ (HeldSmall(A1, h) \/ HeldLarge(A1, h))
      BY <1>19, <1>1 DEF Holdings
    <2>5. \A h, k \in H1 : h.at = k.at => h = k
      BY <1>4, <1>1 DEF Holdings
    <2> QED
      BY <2>2, <2>3, <2>4, <2>5 DEF Holdings
  <1>23. Backed(A1, r, H1)
    <2>3. \A other \in Pages : SmallOn(A1, other) <=> SmallOn(A, other)
      BY <1>4, <1>10, RecountedPages
    <2>4. \A h \in H : PageOf(h.at) \in Pages
      BY <1>1 DEF Holdings
    <2>5. g.at \in DOMAIN r
      BY <1>4, <1>11
    <2>6. \A h \in H : SmallOn(A1, PageOf(h.at)) => h.at \in DOMAIN r
      BY <2>3, <2>4, <1>1, <1>11 DEF Backed, D
    <2> QED
      BY <2>5, <2>6 DEF Backed
  <1>24. \A d \in Classes : \A other \in OwnArenas(p, T, A, I, d) : other # page => FreeOn(H1, other, d) = FreeOn(H, other, d)
    <2> SUFFICES ASSUME NEW d, d \in Classes, NEW other, other \in OwnArenas(p, T, A, I, d), other # page
                 PROVE  FreeOn(H1, other, d) = FreeOn(H, other, d)
      OBVIOUS
    <2>2. other \in Nat
      BY <1>2, PagesAre DEF OwnArenas
    <2>3. \A a \in ToSet(BlocksIn(other, d)) : PageOf(a) = other
      BY <2>2, ArenaBlocks
    <2>4. b \notin ToSet(BlocksIn(other, d))
      BY <2>3 DEF page
    <2> QED
      BY <1>15, <2>4 DEF FreeOn
  <1>25. Counted(p, T, A1, H1, I)
    <2> SUFFICES ASSUME NEW d, d \in Classes, NEW other, other \in OwnArenas(p, T, A, I, d)
                 PROVE  A1[other].cnt = Cardinality(FreeOn(H1, other, d))
      BY <1>19 DEF Counted
    <2>1. CASE other = page
      <3>1. d = c
        BY <2>1, <1>5
      <3> QED
        BY <2>1, <3>1, <1>17, <1>9
    <2>2. CASE other # page
      <3>1. other \in Pages
        BY <1>2 DEF OwnArenas
      <3>2. A1[other] = A[other]
        BY <3>1, <2>2, <1>10 DEF Recounted, OtherHeaders
      <3> QED
        BY <3>2, <2>2, <1>24, <1>1 DEF Counted
    <2> QED
      BY <2>1, <2>2
  <1>26. FreeOf(p, T, A1, H1, I, c) = S \ {b}
    <2>1. \A other \in OwnArenas(p, T, A, I, c) : other # page => FreeOn(H1, other, c) = FreeOn(H, other, c) /\ b \notin FreeOn(H, other, c)
      <3> SUFFICES ASSUME NEW other, other \in OwnArenas(p, T, A, I, c), other # page
                   PROVE  FreeOn(H1, other, c) = FreeOn(H, other, c) /\ b \notin FreeOn(H, other, c)
        OBVIOUS
      <3>1. other \in Nat
        BY <1>2, PagesAre DEF OwnArenas
      <3>2. b \notin ToSet(BlocksIn(other, c))
        BY <3>1, ArenaBlocks DEF page
      <3> QED
        BY <3>2, <1>24 DEF FreeOn
    <2>2. OwnArenas(p, T, A1, I, c) = OwnArenas(p, T, A, I, c)
      BY <1>19
    <2> DEFINE old == OwnArenas(p, T, A, I, c)
    <2>3. \A x : x \in FreeOf(p, T, A1, H1, I, c) <=> \E other \in old : x \in FreeOn(H1, other, c)
      BY <2>2 DEF FreeOf
    <2>4. \A x : x \in S <=> \E other \in old : x \in FreeOn(H, other, c)
      BY DEF FreeOf, S
    <2> HIDE DEF old
    <2>5. ASSUME NEW other, other \in old, NEW x
          PROVE  x \in FreeOn(H1, other, c) <=> x \in FreeOn(H, other, c) /\ x # b
      BY <2>1, <2>5, <1>16 DEF old
    <2>6. \A x : x \in FreeOf(p, T, A1, H1, I, c) <=> x \in S /\ x # b
      BY <2>3, <2>4, <2>5
    <2> DEFINE now == FreeOf(p, T, A1, H1, I, c)
    <2>7. now \subseteq S \ {b} /\ S \ {b} \subseteq now
      BY <2>6
    <2> HIDE DEF now
    <2>8. now = S \ {b}
      BY <2>7
    <2> QED
      BY <2>8 DEF now
  <1>27. \A d \in Classes : d # c => FreeOf(p, T, A1, H1, I, d) = FreeOf(p, T, A, H, I, d)
    <2> SUFFICES ASSUME NEW d, d \in Classes, d # c
                 PROVE  FreeOf(p, T, A1, H1, I, d) = FreeOf(p, T, A, H, I, d)
      OBVIOUS
    <2>1. OwnArenas(p, T, A1, I, d) = OwnArenas(p, T, A, I, d) /\ page \notin OwnArenas(p, T, A, I, d)
      BY <1>19, <1>5
    <2>2. \A other \in OwnArenas(p, T, A, I, d) : FreeOn(H1, other, d) = FreeOn(H, other, d)
      BY <2>1, <1>24
    <2> QED
      BY <2>1, <2>2 DEF FreeOf
  <1>28. Listed(p, T, A1, r, H1, I)
    <2> SUFFICES ASSUME NEW d, d \in Classes
                 PROVE  ListOf(DOMAIN r, r, ListHead(p, d), FreeOf(p, T, A1, H1, I, d))
      BY DEF Listed
    <2>1. CASE d = c
      BY <2>1, <1>11, <1>13, <1>26 DEF head
    <2>2. CASE d # c
      <3> DEFINE Z == OwnArenas(p, T, A, I, c)
      <3>1. Z \cap OwnArenas(p, T, A, I, d) = {}
        BY <1>1, <1>2, <2>2, OwnFacts
      <3>2. Elsewhere(Z, r, m, ListHead(p, c))
        BY <1>11, <1>12, <1>14 DEF Elsewhere, D, head
      <3>3. \A z \in Z : ~(z > NumPages + 1)
        BY <1>2, PagesAre DEF OwnArenas
      <3> HIDE DEF Z
      <3>4. r \in [DOMAIN r -> Link] /\ DOMAIN r \in SUBSET Nat
        BY <1>2, <1>11
      <3>5. ListOf(DOMAIN r, r, ListHead(p, d), FreeOf(p, T, A, H, I, d))
        BY <1>1, <1>2, <2>2, <3>1, <3>2, <3>3, <3>4, OtherList
      <3> QED
        BY <3>5, <1>27, <2>2
    <2> QED
      BY <2>1, <2>2
  <1>29. Sound(p, T, A1, r, E, H1, I)
    BY <1>19, <1>20, <1>21, <1>22, <1>23, <1>25, <1>28 DEF Sound
  <1>30. \A other \in Pages : A1[other] = NoArena <=> A[other] = NoArena
    BY <1>4, <1>10, RecountedPages
  <1>31. \A a \in DOMAIN m : PageOf(a) \in Pages \/ a = ListHead(p, c) \/ a = ListHead(p, c) + 1 \/ r[a] = m[a]
    BY <1>12, <1>14 DEF D, head
  <1> QED
    BY <1>29, <1>30, <1>31 DEF OtherEnds, SameArenas

SameFree(p, T1, A1, H1, I1, T, A, H, I) ==
  \A c \in Classes :
    /\ OwnArenas(p, T1, A1, I1, c) = OwnArenas(p, T, A, I, c)
    /\ \A page \in OwnArenas(p, T, A, I, c) :
         A1[page].cnt = A[page].cnt /\ FreeOn(H1, page, c) = FreeOn(H, page, c)

\* When the arenas of the lists and their free blocks are the same, so are the lists.
LEMMA SameLists ==
  ASSUME NEW p, NEW T, NEW A, NEW m, NEW H, NEW I, Counted(p, T, A, H, I), Listed(p, T, A, m, H, I),
         NEW T1, NEW A1, NEW H1, NEW I1,
         SameFree(p, T1, A1, H1, I1, T, A, H, I)
  PROVE  Counted(p, T1, A1, H1, I1) /\ Listed(p, T1, A1, m, H1, I1)
  <1>1. Counted(p, T1, A1, H1, I1)
    BY DEF Counted, SameFree
  <1>2. ASSUME NEW c, c \in Classes
        PROVE  FreeOf(p, T1, A1, H1, I1, c) = FreeOf(p, T, A, H, I, c)
    BY <1>2 DEF FreeOf, SameFree
  <1>3. Listed(p, T1, A1, m, H1, I1)
    BY <1>2 DEF Listed
  <1> QED
    BY <1>1, <1>3

\* A large arena of n pages from page on, and g held of it.
GetsPages(T1, A1, H1, T, A, H, page, n, g) ==
  /\ page \in Pages /\ n \in Nat /\ n > 0 /\ page..page + n - 1 \subseteq Pages \ T
  /\ T1 = T \cup page..page + n - 1
  /\ OtherHeaders(A1, A, page) /\ A1[page] = [list |-> NULL, cnt |-> n, large |-> TRUE]
  /\ g \in [at : Nat, size : RequestSizes] /\ g.at = page * PG_SIZE + ArenaSize
  /\ g.size + ArenaSize <= n * PG_SIZE
  /\ H1 = H \cup {g}

\* sys_malloc of whole pages.
LEMMA NewLargeSound ==
  ASSUME NEW p, p \in Slots, NEW T, NEW A, NEW m, NEW E, NEW H, NEW I, Sound(p, T, A, m, E, H, I),
         NEW T1, NEW A1, NEW H1, NEW page, NEW n, NEW g, GetsPages(T1, A1, H1, T, A, H, page, n, g)
  PROVE  Sound(p, T1, A1, m, E, H1, I) /\ PageOf(g.at) = page
  <1> /\ page \in Pages /\ n \in Nat /\ n > 0 /\ page..page + n - 1 \subseteq Pages \ T
      /\ T1 = T \cup page..page + n - 1
      /\ OtherHeaders(A1, A, page) /\ A1[page] = [list |-> NULL, cnt |-> n, large |-> TRUE]
      /\ g \in [at : Nat, size : RequestSizes] /\ g.at = page * PG_SIZE + ArenaSize
      /\ g.size + ArenaSize <= n * PG_SIZE
      /\ H1 = H \cup {g}
    BY DEF GetsPages
  <1>1. /\ Typed(T, A, m, E, H, I) /\ Arenas(p, T, A, I) /\ OnArenas(T, A, m, E) /\ Holdings(A, H)
        /\ Backed(A, m, H) /\ Counted(p, T, A, H, I) /\ Listed(p, T, A, m, H, I)
    BY DEF Sound
  <1>2. /\ T \subseteq Pages /\ I \subseteq T /\ A \in [Pages -> Header]
        /\ H \subseteq [at : Nat, size : RequestSizes]
    BY <1>1 DEF Typed
  <1>3. page \in Nat /\ page \in page..page + n - 1 /\ page \notin T
    <2>1. page \in Nat
      BY PagesAre
    <2> QED
      BY <2>1
  <1>4. PageOf(g.at) = page
    <2>1. PG_SIZE \in Nat /\ ArenaSize \in 0..PG_SIZE - 1
      BY HeapConstants
    <2>2. g.at = PG_SIZE * page + ArenaSize
      BY <2>1, <1>3
    <2> QED
      BY <2>1, <2>2, <1>3, PageQuotient
  <1>5. A1 \in [Pages -> Header] /\ A[page] = NoArena /\ page \notin I /\ \A h \in H : PageOf(h.at) # page
    <2>1. A1 \in [Pages -> Header]
      BY DEF OtherHeaders
    <2> QED
      BY <1>3, <2>1, NewHeader
  <1>6. \A other \in Pages : other # page =>
              /\ A1[other] = A[other] /\ (SmallOn(A1, other) <=> SmallOn(A, other))
              /\ LargeOn(A1, other) <=> LargeOn(A, other)
              /\ Span(A1, other) = Span(A, other)
    BY <1>3, NewHeader
  <1>7. /\ LargeOn(A1, page) /\ ~SmallOn(A1, page) /\ A1[page].cnt = n /\ A1[page].list = NULL
        /\ Span(A1, page) = page..page + n - 1
    BY DEF LargeOn, SmallOn, NoArena, Span
  <1>8. \A other \in Pages : A[other] # NoArena => other \in T /\ Span(A, other) \subseteq T
    BY <1>1, <1>2, ArenaPage
  <1>9. Typed(T1, A1, m, E, H1, I)
    BY <1>1, <1>2, <1>5 DEF Typed
  <1>10. OnArenas(T1, A1, m, E)
    <2>1. \A a \in DOMAIN m \ E : PageOf(a) \in T /\ SmallOn(A, PageOf(a)) /\ BlockOf(A, a) /\ PageOf(a) \in Pages /\ PageOf(a) # page
      BY <1>1, <1>2, <1>3 DEF OnArenas
    <2> QED
      BY <2>1, <1>1, <1>6 DEF OnArenas, BlockOf
  <1>11. Arenas(p, T1, A1, I)
    <2>1. ASSUME NEW other, other \in Pages, SmallOn(A1, other)
          PROVE  other \in T1 /\ OfClass(p, A1, I, other)
      <3>1. other # page
        BY <2>1, <1>7
      <3>2. SmallOn(A, other) /\ A1[other] = A[other]
        BY <2>1, <3>1, <1>6
      <3> QED
        BY <2>1, <3>2, <1>1 DEF Arenas, OfClass
    <2>2. ASSUME NEW other, other \in Pages, LargeOn(A1, other), other # page
          PROVE  Alone(T1, A1, other)
      <3>1. LargeOn(A, other) /\ A1[other] = A[other]
        BY <2>2, <1>6
      <3>2. Alone(T, A, other)
        BY <2>2, <3>1, <1>1 DEF Arenas
      <3>3. other \in Nat /\ A[other].cnt \in Nat
        BY <2>2, <1>2, PagesAre DEF Header
      <3>4. ASSUME NEW z, z \in other + 1..other + A[other].cnt - 1
            PROVE  A1[z] = NoArena
        <4>1. z \in other..other + A[other].cnt - 1
          BY <3>3, <3>4
        <4>2. z \in T /\ z \in Pages /\ z # page
          BY <4>1, <3>2, <1>2, <1>3 DEF Alone
        <4>3. A[z] = NoArena
          BY <3>2, <3>4 DEF Alone
        <4> QED
          BY <4>2, <4>3, <1>6
      <3> QED
        BY <3>1, <3>2, <3>4 DEF Alone
    <2>3. Alone(T1, A1, page)
      <3>1. ASSUME NEW z, z \in page + 1..page + n - 1
            PROVE  A1[z] = NoArena
        <4>1. z \in page..page + n - 1 /\ z # page
          BY <3>1, <1>3
        <4>2. z \in Pages /\ z \notin T
          BY <4>1
        <4> QED
          BY <4>1, <4>2, <1>6, <1>8
      <3> QED
        BY <3>1, <1>7 DEF Alone
    <2> QED
      BY <2>1, <2>2, <2>3 DEF Arenas
  <1>12. Holdings(A1, H1)
    <2>1. PageOf(g.at) \in Pages /\ HeldLarge(A1, g)
      BY <1>4, <1>7 DEF HeldLarge
    <2>2. ASSUME NEW h, h \in H
          PROVE  PageOf(h.at) \in Pages /\ (HeldSmall(A1, h) \/ HeldLarge(A1, h))
      <3>1. PageOf(h.at) \in Pages /\ PageOf(h.at) # page /\ (HeldSmall(A, h) \/ HeldLarge(A, h))
        BY <2>2, <1>1, <1>5 DEF Holdings
      <3>2. /\ A1[PageOf(h.at)] = A[PageOf(h.at)] /\ (SmallOn(A1, PageOf(h.at)) <=> SmallOn(A, PageOf(h.at)))
            /\ LargeOn(A1, PageOf(h.at)) <=> LargeOn(A, PageOf(h.at))
        BY <3>1, <1>6
      <3>3. HeldSmall(A, h) => HeldSmall(A1, h)
        BY <3>2 DEF HeldSmall
      <3>4. HeldLarge(A, h) => HeldLarge(A1, h)
        BY <3>2 DEF HeldLarge
      <3> QED
        BY <3>1, <3>3, <3>4
    <2>3. \A h \in H : h.at # g.at
      BY <1>4, <1>5
    <2>4. \A h, k \in H : h.at = k.at => h = k
      BY <1>1 DEF Holdings
    <2>5. \A h, k \in H1 : h.at = k.at => h = k
      BY <2>3, <2>4
    <2> QED
      BY <2>1, <2>2, <2>5 DEF Holdings
  <1>13. Backed(A1, m, H1)
    <2>1. ~SmallOn(A1, PageOf(g.at))
      BY <1>4, <1>7
    <2>2. ASSUME NEW h, h \in H, SmallOn(A1, PageOf(h.at))
          PROVE  h.at \in DOMAIN m
      <3>1. PageOf(h.at) \in Pages /\ PageOf(h.at) # page
        BY <2>2, <1>1, <1>5 DEF Holdings
      <3>2. SmallOn(A, PageOf(h.at))
        BY <2>2, <3>1, <1>6
      <3> QED
        BY <2>2, <3>2, <1>1 DEF Backed
    <2> QED
      BY <2>1, <2>2 DEF Backed
  <1>15. ASSUME NEW c, c \in Classes
         PROVE  /\ OwnArenas(p, T1, A1, I, c) = OwnArenas(p, T, A, I, c)
                /\ \A other \in OwnArenas(p, T, A, I, c) :
                     A1[other].cnt = A[other].cnt /\ FreeOn(H1, other, c) = FreeOn(H, other, c)
    <2>1. ListHead(p, c) # NULL
      BY <1>15, HeadNotNull
    <2>2. \A other \in T : A1[other] = A[other] /\ other # page
      BY <1>2, <1>3, <1>6
    <2>3. ASSUME NEW other, other \in T1 \ T
          PROVE  A1[other].list = NULL
      <3>1. other \in Pages /\ other \notin T
        BY <2>3
      <3>2. A[other] = NoArena
        BY <3>1, <1>8
      <3>3. other = page \/ A1[other] = NoArena
        BY <3>1, <3>2, <1>6
      <3> QED
        BY <3>3, <1>7 DEF NoArena
    <2>4. OwnArenas(p, T1, A1, I, c) = OwnArenas(p, T, A, I, c)
      BY <2>1, <2>2, <2>3 DEF OwnArenas
    <2>5. ASSUME NEW other, other \in OwnArenas(p, T, A, I, c)
          PROVE  A1[other].cnt = A[other].cnt /\ FreeOn(H1, other, c) = FreeOn(H, other, c)
      <3>1. other \in T /\ other \in Nat
        BY <2>5, <1>2, PagesAre DEF OwnArenas
      <3>2. A1[other] = A[other] /\ other # page
        BY <3>1, <2>2
      <3>3. g.at \notin ToSet(BlocksIn(other, c))
        BY <1>4, <1>15, <3>1, <3>2, ArenaBlocks
      <3>4. {h.at : h \in H1} = {h.at : h \in H} \cup {g.at}
        OBVIOUS
      <3> QED
        BY <3>2, <3>3, <3>4 DEF FreeOn
    <2> QED
      BY <2>4, <2>5
  <1>16. Counted(p, T1, A1, H1, I) /\ Listed(p, T1, A1, m, H1, I)
    <2>1. SameFree(p, T1, A1, H1, I, T, A, H, I)
      BY <1>15 DEF SameFree
    <2> QED
      BY <1>1, <2>1, SameLists
  <1> QED
    BY <1>4, <1>9, <1>10, <1>11, <1>12, <1>13, <1>16 DEF Sound

\* The arena of h and its pages no more.
DropsPages(T1, A1, H1, I1, T, A, H, I, page, h) ==
  /\ h \in H /\ page = PageOf(h.at) /\ LargeOn(A, page)
  /\ T1 = T \ (page..page + A[page].cnt - 1) /\ I1 = I \ (page..page + A[page].cnt - 1)
  /\ OtherHeaders(A1, A, page) /\ A1[page] = NoArena
  /\ H1 = H \ {h}

\* sys_free of whole pages.
LEMMA FreeLargeSound ==
  ASSUME NEW p, p \in Slots, NEW T, NEW A, NEW m, NEW E, NEW H, NEW I, Sound(p, T, A, m, E, H, I),
         NEW T1, NEW A1, NEW H1, NEW I1, NEW page, NEW h, DropsPages(T1, A1, H1, I1, T, A, H, I, page, h)
  PROVE  Sound(p, T1, A1, m, E, H1, I1) /\ (Occupied(A, H) => Occupied(A1, H1))
  <1> /\ h \in H /\ page = PageOf(h.at) /\ LargeOn(A, page)
      /\ T1 = T \ (page..page + A[page].cnt - 1) /\ I1 = I \ (page..page + A[page].cnt - 1)
      /\ OtherHeaders(A1, A, page) /\ A1[page] = NoArena
      /\ H1 = H \ {h}
    BY DEF DropsPages
  <1> DEFINE P == page..page + A[page].cnt - 1
  <1>1. /\ Typed(T, A, m, E, H, I) /\ Arenas(p, T, A, I) /\ OnArenas(T, A, m, E) /\ Holdings(A, H)
        /\ Backed(A, m, H) /\ Counted(p, T, A, H, I) /\ Listed(p, T, A, m, H, I)
    BY DEF Sound
  <1>2. /\ T \subseteq Pages /\ I \subseteq T /\ A \in [Pages -> Header]
        /\ H \subseteq [at : Nat, size : RequestSizes]
    BY <1>1 DEF Typed
  <1>3. page \in Nat /\ page \in Pages /\ page \in T /\ A[page] # NoArena
    BY HeldFacts
  <1>4. Span(A, page) = P
    BY DEF Span
  <1>5. Alone(T, A, page) /\ A[page].cnt \in Nat
    BY <1>1, <1>2, <1>3 DEF Arenas, Header
  <1>6. A1 \in [Pages -> Header] /\ \A other \in Pages : other # page => A1[other] = A[other]
    BY DEF OtherHeaders
  <1>7. \A other \in Pages : other # page =>
              /\ SmallOn(A1, other) <=> SmallOn(A, other)
              /\ LargeOn(A1, other) <=> LargeOn(A, other)
              /\ Span(A1, other) = Span(A, other)
    BY <1>6 DEF SmallOn, LargeOn, Span
  <1>8. ~SmallOn(A1, page) /\ ~LargeOn(A1, page)
    BY DEF SmallOn, LargeOn
  <1>9. ~SmallOn(A, page)
    BY DEF SmallOn, LargeOn
  <1>10. \A other \in P : other # page => A[other] = NoArena /\ other \in Pages
    <2> SUFFICES ASSUME NEW other, other \in P, other # page
                 PROVE  A[other] = NoArena /\ other \in Pages
      OBVIOUS
    <2>1. other \in page + 1..page + A[page].cnt - 1
      BY <1>3, <1>5
    <2> QED
      BY <2>1, <1>2, <1>5 DEF Alone
  <1> HIDE DEF P
  <1>11. T1 = T \ P /\ I1 = I \ P
    BY DEF P
  <1>12. ASSUME NEW other, other \in Pages, SmallOn(A, other)
         PROVE  other # page /\ other \notin P /\ other \in T1 /\ (other \in I1 <=> other \in I)
    <2>1. other # page /\ A[other] # NoArena /\ other \in T
      BY <1>12, <1>9, <1>1 DEF SmallOn, Arenas
    <2>2. other \notin P
      BY <2>1, <1>10
    <2> QED
      BY <2>1, <2>2, <1>11
  <1>13. ASSUME NEW other, other \in Pages, A[other] # NoArena, other # page
         PROVE  Span(A, other) \cap P = {}
    BY <1>13, <1>1, <1>2, <1>3, <1>4, SpansApart
  <1>14. Typed(T1, A1, m, E, H1, I1)
    BY <1>1, <1>6, <1>11 DEF Typed
  <1>15. OnArenas(T1, A1, m, E)
    <2>1. \A a \in DOMAIN m \ E : PageOf(a) \in T /\ SmallOn(A, PageOf(a)) /\ BlockOf(A, a) /\ PageOf(a) \in Pages
      BY <1>1, <1>2 DEF OnArenas
    <2> QED
      BY <2>1, <1>1, <1>6, <1>7, <1>9, <1>12 DEF OnArenas, BlockOf
  <1>16. Arenas(p, T1, A1, I1)
    <2>1. ASSUME NEW other, other \in Pages, SmallOn(A1, other)
          PROVE  other \in T1 /\ OfClass(p, A1, I1, other)
      <3>1. other # page
        BY <2>1, <1>8
      <3>2. SmallOn(A, other) /\ A1[other] = A[other]
        BY <2>1, <3>1, <1>6, <1>7
      <3>3. other \in T1 /\ (other \in I1 <=> other \in I)
        BY <2>1, <3>2, <1>12
      <3> QED
        BY <2>1, <3>2, <3>3, <1>1 DEF Arenas, OfClass
    <2>2. ASSUME NEW other, other \in Pages, LargeOn(A1, other)
          PROVE  Alone(T1, A1, other)
      <3>1. other # page
        BY <2>2, <1>8
      <3>2. LargeOn(A, other) /\ A1[other] = A[other]
        BY <2>2, <3>1, <1>6, <1>7
      <3>3. Alone(T, A, other)
        BY <2>2, <3>2, <1>1 DEF Arenas
      <3>4. other \in Nat /\ A[other].cnt \in Nat
        BY <2>2, <1>2, PagesAre DEF Header
      <3>5. Span(A, other) = other..other + A[other].cnt - 1 /\ A[other] # NoArena
        BY <3>2 DEF Span, LargeOn
      <3>6. other..other + A[other].cnt - 1 \subseteq T1
        BY <2>2, <3>1, <3>3, <3>5, <1>13, <1>11 DEF Alone
      <3>7. ASSUME NEW z, z \in other + 1..other + A[other].cnt - 1
            PROVE  A1[z] = NoArena
        <4>1. z \in other..other + A[other].cnt - 1
          BY <3>4, <3>7
        <4>2. z \in Pages
          BY <4>1, <3>3, <1>2 DEF Alone
        <4>3. A[z] = NoArena
          BY <3>3, <3>7 DEF Alone
        <4> QED
          BY <4>2, <4>3, <1>6
      <3> QED
        BY <3>2, <3>3, <3>6, <3>7 DEF Alone
    <2> QED
      BY <2>1, <2>2 DEF Arenas
  <1>17. \A k \in H1 : k \in H /\ PageOf(k.at) # page
    <2> SUFFICES ASSUME NEW k, k \in H1, PageOf(k.at) = page
                 PROVE  FALSE
      OBVIOUS
    <2>1. HeldLarge(A, k) /\ HeldLarge(A, h)
      BY HeldFacts
    <2>2. k.at = h.at
      BY <2>1 DEF HeldLarge
    <2> QED
      BY <2>2, <1>1 DEF Holdings
  <1>18. Holdings(A1, H1)
    <2>1. ASSUME NEW k, k \in H1
          PROVE  PageOf(k.at) \in Pages /\ (HeldSmall(A1, k) \/ HeldLarge(A1, k))
      <3>1. PageOf(k.at) \in Pages /\ PageOf(k.at) # page /\ (HeldSmall(A, k) \/ HeldLarge(A, k))
        BY <2>1, <1>1, <1>17 DEF Holdings
      <3>2. /\ A1[PageOf(k.at)] = A[PageOf(k.at)] /\ (SmallOn(A1, PageOf(k.at)) <=> SmallOn(A, PageOf(k.at)))
            /\ LargeOn(A1, PageOf(k.at)) <=> LargeOn(A, PageOf(k.at))
        BY <3>1, <1>6, <1>7
      <3>3. HeldSmall(A, k) => HeldSmall(A1, k)
        BY <3>2 DEF HeldSmall
      <3>4. HeldLarge(A, k) => HeldLarge(A1, k)
        BY <3>2 DEF HeldLarge
      <3> QED
        BY <3>1, <3>3, <3>4
    <2>2. \A k, j \in H1 : k.at = j.at => k = j
      BY <1>1 DEF Holdings
    <2> QED
      BY <2>1, <2>2 DEF Holdings
  <1>19. Backed(A1, m, H1)
    <2> SUFFICES ASSUME NEW k, k \in H1, SmallOn(A1, PageOf(k.at))
                 PROVE  k.at \in DOMAIN m
      BY DEF Backed
    <2>1. k \in H /\ PageOf(k.at) \in Pages /\ PageOf(k.at) # page
      BY <1>1, <1>17 DEF Holdings
    <2>2. SmallOn(A, PageOf(k.at))
      BY <2>1, <1>7
    <2> QED
      BY <2>1, <2>2, <1>1 DEF Backed
  <1>21. ASSUME NEW c, c \in Classes
         PROVE  /\ OwnArenas(p, T1, A1, I1, c) = OwnArenas(p, T, A, I, c)
                /\ \A other \in OwnArenas(p, T, A, I, c) :
                     A1[other].cnt = A[other].cnt /\ FreeOn(H1, other, c) = FreeOn(H, other, c)
    <2>1. ListHead(p, c) # NULL
      BY <1>21, HeadNotNull
    <2>2. ASSUME NEW other, other \in OwnArenas(p, T, A, I, c)
          PROVE  other \in Pages /\ other # page /\ other \notin P /\ other \in Nat /\ A1[other] = A[other]
      <3>1. other \in Pages /\ SmallOn(A, other) /\ other \in Nat
        BY <1>1, <1>2, <1>21, <2>2, OwnFacts
      <3> QED
        BY <3>1, <1>6, <1>12
    <2>3. OwnArenas(p, T, A, I, c) \subseteq OwnArenas(p, T1, A1, I1, c)
      <3> SUFFICES ASSUME NEW other, other \in OwnArenas(p, T, A, I, c)
                   PROVE  other \in OwnArenas(p, T1, A1, I1, c)
        OBVIOUS
      <3>1. other \in T \ I /\ A[other].list = ListHead(p, c)
        BY DEF OwnArenas
      <3> QED
        BY <3>1, <2>2, <1>11 DEF OwnArenas
    <2>4. OwnArenas(p, T1, A1, I1, c) \subseteq OwnArenas(p, T, A, I, c)
      <3> SUFFICES ASSUME NEW other, other \in OwnArenas(p, T1, A1, I1, c)
                   PROVE  other \in OwnArenas(p, T, A, I, c)
        OBVIOUS
      <3>1. other \in T1 /\ other \notin I1 /\ A1[other].list = ListHead(p, c)
        BY DEF OwnArenas
      <3>2. other \in T /\ other \notin I /\ other \in Pages
        BY <3>1, <1>11, <1>2
      <3>3. other # page
        BY <3>1, <2>1 DEF NoArena
      <3> QED
        BY <3>1, <3>2, <3>3, <1>6 DEF OwnArenas
    <2>5. ASSUME NEW other, other \in OwnArenas(p, T, A, I, c)
          PROVE  FreeOn(H1, other, c) = FreeOn(H, other, c)
      <3>1. h.at \notin ToSet(BlocksIn(other, c))
        BY <1>21, <2>2, <2>5, ArenaBlocks
      <3>2. \A a : a # h.at => (a \in {k.at : k \in H1} <=> a \in {k.at : k \in H})
        OBVIOUS
      <3> QED
        BY <3>1, <3>2 DEF FreeOn
    <2> QED
      BY <2>2, <2>3, <2>4, <2>5
  <1>22. Counted(p, T1, A1, H1, I1) /\ Listed(p, T1, A1, m, H1, I1)
    <2>1. SameFree(p, T1, A1, H1, I1, T, A, H, I)
      BY <1>21 DEF SameFree
    <2> QED
      BY <1>1, <2>1, SameLists
  <1>23. Occupied(A, H) => Occupied(A1, H1)
    <2> SUFFICES ASSUME Occupied(A, H), NEW other, other \in Pages, A1[other] # NoArena
                 PROVE  \E k \in H1 : PageOf(k.at) = other
      BY DEF Occupied
    <2>1. other # page
      OBVIOUS
    <2>2. A[other] # NoArena
      BY <2>1, <1>6
    <2>3. PICK k \in H : PageOf(k.at) = other
      BY <2>2 DEF Occupied
    <2> QED
      BY <2>1, <2>3
  <1> QED
    BY <1>14, <1>15, <1>16, <1>18, <1>19, <1>22, <1>23 DEF Sound

\* h is on its list and held no more, and one more is counted on its page.
ReturnsBlock(p, r, A1, H1, m, T, A, H, I, page, c, h) ==
  /\ h \in H /\ page = PageOf(h.at) /\ SmallOn(A, page)
  /\ page \in OwnArenas(p, T, A, I, c) /\ h.at \in ToSet(BlocksIn(page, c))
  /\ r = Appended(m, ListHead(p, c), h.at)
  /\ Recounted(A1, A, page) /\ A1[page].cnt = A[page].cnt + 1
  /\ H1 = H \ {h}

BlockReturned(p, r, A1, H1, m, A, H, page, c) ==
  /\ m[ListHead(p, c) + 1].prev \in DOMAIN m
  /\ DOMAIN r = DOMAIN m
  /\ OtherEnds(p, c, r, m) /\ SameArenas(A1, A)
  /\ Occupied(A, H) /\ A1[page].cnt # PerArena(c) => Occupied(A1, H1)

\* sys_free of a block: it is the last of its list.
LEMMA ReturnBlockSound ==
  ASSUME NEW p, p \in Slots, NEW T, NEW A, NEW m, NEW E, NEW H, NEW I, Sound(p, T, A, m, E, H, I),
         NEW c, c \in Classes, NEW r, NEW A1, NEW H1, NEW page, NEW h,
         ReturnsBlock(p, r, A1, H1, m, T, A, H, I, page, c, h)
  PROVE  Sound(p, T, A1, r, E, H1, I) /\ BlockReturned(p, r, A1, H1, m, A, H, page, c)
  <1> /\ h \in H /\ page = PageOf(h.at) /\ SmallOn(A, page)
      /\ page \in OwnArenas(p, T, A, I, c) /\ h.at \in ToSet(BlocksIn(page, c))
      /\ r = Appended(m, ListHead(p, c), h.at)
      /\ Recounted(A1, A, page) /\ A1[page].cnt = A[page].cnt + 1
      /\ H1 = H \ {h}
    BY DEF ReturnsBlock
  <1> DEFINE head == ListHead(p, c)
             S == FreeOf(p, T, A, H, I, c)
             D == DOMAIN m
             b == h.at
  <1>1. /\ Typed(T, A, m, E, H, I) /\ Arenas(p, T, A, I) /\ OnArenas(T, A, m, E) /\ Holdings(A, H)
        /\ Backed(A, m, H) /\ Counted(p, T, A, H, I) /\ Listed(p, T, A, m, H, I)
    BY DEF Sound
  <1>2. /\ T \subseteq Pages /\ I \subseteq T /\ A \in [Pages -> Header]
        /\ m \in [D -> Link] /\ D \in SUBSET Nat /\ IsFiniteSet(D) /\ E \subseteq D
        /\ H \subseteq [at : Nat, size : RequestSizes]
    BY <1>1 DEF Typed
  <1>3. ListOf(D, m, head, S)
    BY <1>1 DEF Listed
  <1>4. /\ b \in Nat /\ page \in T /\ page \in Pages /\ page \in Nat /\ b \in D
    BY HeldFacts
  <1>5. \A d \in Classes : page \in OwnArenas(p, T, A, I, d) => d = c
    BY <1>1, <1>2, OwnFacts
  <1>6. /\ \A a \in S : (\A k \in H : k.at # a) /\ PageOf(a) \in OwnArenas(p, T, A, I, c) /\ PageOf(a) \in Pages
    BY <1>1, <1>2, FreeFacts DEF S
  <1>7. b \notin S
    BY <1>6
  <1>8. b # head /\ b # head + 1
    <2>1. PageOf(head) > NumPages + 1 /\ PageOf(head + 1) > NumPages + 1
      BY Ends
    <2>2. ~(PageOf(b) > NumPages + 1)
      BY <1>4, PagesAre
    <2> QED
      BY <2>1, <2>2
  <1> HIDE DEF S, D, head, b
  <1>9. ListOf(D, r, head, S \cup {b}) /\ SameBut(D, S \cup {head, head + 1, b}, r, m)
    BY <1>3, <1>4, <1>7, <1>8, ListOfAppend DEF b, head
  <1>10. r \in [D -> Link] /\ DOMAIN r = D
    BY <1>9, ListOfFacts
  <1>11. m[head + 1].prev \in D
    BY <1>3, ListOfFacts
  <1>12. \A a \in D : a \in S \/ a = b \/ a = head \/ a = head + 1 \/ r[a] = m[a]
    BY <1>9 DEF SameBut
  <1>13. \A k \in H1 : k \in H /\ k.at # b
    BY <1>1 DEF Holdings, b
  <1>14. {k.at : k \in H1} = {k.at : k \in H} \ {b}
    <2>1. {k.at : k \in H} \ {b} \subseteq {k.at : k \in H1}
      BY DEF b
    <2>2. {k.at : k \in H1} \subseteq {k.at : k \in H} \ {b}
      BY <1>13
    <2> QED
      BY <2>1, <2>2
  <1>15. FreeOn(H1, page, c) = FreeOn(H, page, c) \cup {b}
    BY <1>14 DEF FreeOn, b
  <1>16. A1[page].cnt = Cardinality(FreeOn(H1, page, c))
    <2> DEFINE F == FreeOn(H, page, c)
    <2>1. A[page].cnt = Cardinality(F)
      BY <1>1 DEF Counted
    <2>2. IsFiniteSet(ToSet(BlocksIn(page, c))) /\ F \subseteq ToSet(BlocksIn(page, c))
      BY <1>4, ArenaBlocks DEF FreeOn
    <2>3. b \notin F
      BY DEF FreeOn, b
    <2> HIDE DEF F
    <2>4. IsFiniteSet(F)
      BY <2>2, FS_Subset
    <2>5. Cardinality(F \cup {b}) = Cardinality(F) + 1
      BY <2>3, <2>4, FS_AddElement
    <2> QED
      BY <2>1, <2>5, <1>15 DEF F
  <1>17. /\ A1 \in [Pages -> Header] /\ Arenas(p, T, A1, I)
         /\ OnArenas(T, A1, m, E)
         /\ \A d : OwnArenas(p, T, A1, I, d) = OwnArenas(p, T, A, I, d)
         /\ \A k : PageOf(k.at) \in Pages => /\ HeldSmall(A1, k) <=> HeldSmall(A, k)
                                             /\ HeldLarge(A1, k) <=> HeldLarge(A, k)
    BY <1>4, RecountedSame
  <1>18. \A other \in Pages : /\ SmallOn(A1, other) <=> SmallOn(A, other)
                              /\ A1[other] = NoArena <=> A[other] = NoArena
    BY <1>4, RecountedPages
  <1>19. Typed(T, A1, r, E, H1, I)
    BY <1>1, <1>2, <1>10, <1>17 DEF Typed
  <1>20. OnArenas(T, A1, r, E)
    BY <1>17, <1>10 DEF OnArenas, D
  <1>21. Holdings(A1, H1)
    <2>1. \A k \in H1 : PageOf(k.at) \in Pages /\ (HeldSmall(A1, k) \/ HeldLarge(A1, k))
      BY <1>17, <1>1 DEF Holdings
    <2>2. \A k, j \in H1 : k.at = j.at => k = j
      BY <1>1 DEF Holdings
    <2> QED
      BY <2>1, <2>2 DEF Holdings
  <1>22. Backed(A1, r, H1)
    <2> SUFFICES ASSUME NEW k, k \in H1, SmallOn(A1, PageOf(k.at))
                 PROVE  k.at \in DOMAIN r
      BY DEF Backed
    <2>1. k \in H /\ PageOf(k.at) \in Pages
      BY <1>1 DEF Holdings
    <2>2. SmallOn(A, PageOf(k.at))
      BY <2>1, <1>18
    <2> QED
      BY <2>1, <2>2, <1>1, <1>10 DEF Backed, D
  <1>23. \A d \in Classes : \A other \in OwnArenas(p, T, A, I, d) : other # page => FreeOn(H1, other, d) = FreeOn(H, other, d)
    <2> SUFFICES ASSUME NEW d, d \in Classes, NEW other, other \in OwnArenas(p, T, A, I, d), other # page
                 PROVE  FreeOn(H1, other, d) = FreeOn(H, other, d)
      OBVIOUS
    <2>1. other \in Nat
      BY <1>2, PagesAre DEF OwnArenas
    <2>2. \A a \in ToSet(BlocksIn(other, d)) : PageOf(a) = other
      BY <2>1, ArenaBlocks
    <2>3. b \notin ToSet(BlocksIn(other, d))
      BY <2>2 DEF b
    <2> QED
      BY <1>14, <2>3 DEF FreeOn
  <1>24. Counted(p, T, A1, H1, I)
    <2> SUFFICES ASSUME NEW d, d \in Classes, NEW other, other \in OwnArenas(p, T, A, I, d)
                 PROVE  A1[other].cnt = Cardinality(FreeOn(H1, other, d))
      BY <1>17 DEF Counted
    <2>1. CASE other = page
      <3>1. d = c
        BY <2>1, <1>5
      <3> QED
        BY <2>1, <3>1, <1>16
    <2>2. CASE other # page
      <3>1. other \in Pages
        BY <1>2 DEF OwnArenas
      <3>2. A1[other] = A[other]
        BY <3>1, <2>2 DEF Recounted, OtherHeaders
      <3> QED
        BY <3>2, <2>2, <1>23, <1>1 DEF Counted
    <2> QED
      BY <2>1, <2>2
  <1>25. FreeOf(p, T, A1, H1, I, c) = S \cup {b}
    <2>1. OwnArenas(p, T, A1, I, c) = OwnArenas(p, T, A, I, c)
      BY <1>17
    <2>2. \A other \in OwnArenas(p, T, A, I, c) : other # page => FreeOn(H1, other, c) = FreeOn(H, other, c)
      BY <1>23
    <2> QED
      BY <2>1, <2>2, <1>15 DEF FreeOf, S
  <1>26. \A d \in Classes : d # c => FreeOf(p, T, A1, H1, I, d) = FreeOf(p, T, A, H, I, d)
    <2> SUFFICES ASSUME NEW d, d \in Classes, d # c
                 PROVE  FreeOf(p, T, A1, H1, I, d) = FreeOf(p, T, A, H, I, d)
      OBVIOUS
    <2>1. OwnArenas(p, T, A1, I, d) = OwnArenas(p, T, A, I, d) /\ page \notin OwnArenas(p, T, A, I, d)
      BY <1>17, <1>5
    <2>2. \A other \in OwnArenas(p, T, A, I, d) : FreeOn(H1, other, d) = FreeOn(H, other, d)
      BY <2>1, <1>23
    <2> QED
      BY <2>1, <2>2 DEF FreeOf
  <1>27. Listed(p, T, A1, r, H1, I)
    <2> SUFFICES ASSUME NEW d, d \in Classes
                 PROVE  ListOf(DOMAIN r, r, ListHead(p, d), FreeOf(p, T, A1, H1, I, d))
      BY DEF Listed
    <2>1. CASE d = c
      BY <2>1, <1>9, <1>10, <1>25 DEF head
    <2>2. CASE d # c
      <3> DEFINE Z == OwnArenas(p, T, A, I, c)
      <3>1. Z \cap OwnArenas(p, T, A, I, d) = {}
        BY <1>1, <1>2, <2>2, OwnFacts
      <3>2. PageOf(b) \in Z /\ \A a \in S : PageOf(a) \in Z
        BY <1>6 DEF b
      <3>7. Z \subseteq Pages
        BY <1>2 DEF OwnArenas
      <3>3. \A z \in Z : ~(z > NumPages + 1)
        BY <3>7, PagesAre
      <3> HIDE DEF Z
      <3>6. Elsewhere(Z, r, m, ListHead(p, c))
        BY <1>10, <1>12, <3>2 DEF Elsewhere, D, head
      <3>4. r \in [DOMAIN r -> Link] /\ DOMAIN r \in SUBSET Nat
        BY <1>2, <1>10
      <3>5. ListOf(DOMAIN r, r, ListHead(p, d), FreeOf(p, T, A, H, I, d))
        BY <1>1, <1>2, <2>2, <3>1, <3>6, <3>3, <3>4, OtherList
      <3> QED
        BY <3>5, <1>26, <2>2
    <2> QED
      BY <2>1, <2>2
  <1>28. Sound(p, T, A1, r, E, H1, I)
    BY <1>17, <1>19, <1>20, <1>21, <1>22, <1>24, <1>27 DEF Sound
  <1>29. ASSUME Occupied(A, H), A1[page].cnt # PerArena(c)
         PROVE  Occupied(A1, H1)
    <2> SUFFICES ASSUME NEW other, other \in Pages, A1[other] # NoArena
                 PROVE  \E k \in H1 : PageOf(k.at) = other
      BY DEF Occupied
    <2>1. PICK k \in H : PageOf(k.at) = other
      BY <1>18, <1>29 DEF Occupied
    <2>2. CASE other = page
      <3>1. Cardinality(ToSet(BlocksIn(page, c))) = PerArena(c)
        BY <1>4, ArenaBlocks
      <3>2. FreeOn(H1, page, c) # ToSet(BlocksIn(page, c))
        BY <3>1, <1>16, <1>29
      <3>3. PICK a \in ToSet(BlocksIn(page, c)) : a \in {j.at : j \in H1}
        BY <3>2 DEF FreeOn
      <3>4. PageOf(a) = page
        BY <1>4, ArenaBlocks
      <3> QED
        BY <2>2, <3>3, <3>4
    <2>3. CASE other # page
      BY <2>1, <2>3
    <2> QED
      BY <2>2, <2>3
  <1>30. /\ m[ListHead(p, c) + 1].prev \in DOMAIN m
         /\ Sound(p, T, A1, r, E, H1, I)
         /\ DOMAIN r = DOMAIN m
         /\ \A a \in DOMAIN m : PageOf(a) \in Pages \/ a = ListHead(p, c) \/ a = ListHead(p, c) + 1 \/ r[a] = m[a]
         /\ \A other \in Pages : A1[other] = NoArena <=> A[other] = NoArena
         /\ Occupied(A, H) /\ A1[page].cnt # PerArena(c) => Occupied(A1, H1)
    BY <1>6, <1>4, <1>10, <1>11, <1>12, <1>18, <1>28, <1>29 DEF D, head, b
  <1> QED
    BY <1>30 DEF BlockReturned, OtherEnds, SameArenas

\* A list stays in a part of the memory that has all of it.
LEMMA ListOfPart ==
  ASSUME NEW D, NEW m, NEW head, NEW S, ListOf(D, m, head, S),
         NEW F, F \subseteq D, NEW r, r \in [F -> Link], SameBut(F, {}, r, m),
         S \subseteq F, head \in F, head + 1 \in F
  PROVE  ListOf(F, r, head, S)
  <1>1. D \in SUBSET Nat
    BY ListOfFacts
  <1>2. F \in SUBSET Nat
    BY <1>1
  <1>3. \A a \in S \cup {head, head + 1} : a \in F /\ r[a] = m[a]
    BY DEF SameBut
  <1> QED
    BY <1>2, <1>3, ListOfSame

\* The blocks of the arena are off their list, and its page is given back.
DropsArena(p, u, r, T1, I1, A1, m, T, A, I, page, c) ==
  /\ page \in OwnArenas(p, T, A, I, c) /\ A[page].cnt = PerArena(c)
  /\ u = UnlinkedAll(m, BlocksIn(page, c))
  /\ r = Restrict(u, DOMAIN u \ ToSet(BlocksIn(page, c)))
  /\ T1 = T \ {page} /\ I1 = I \ {page}
  /\ OtherHeaders(A1, A, page) /\ A1[page] = NoArena

ArenaDropped(p, r, m, T, A, H, I, page, c) ==
  /\ ToSet(BlocksIn(page, c)) \subseteq FreeOf(p, T, A, H, I, c)
  /\ DOMAIN r = DOMAIN m \ ToSet(BlocksIn(page, c))
  /\ OtherEnds(p, c, r, m)
  /\ \A h \in H : PageOf(h.at) # page

\* sys_free of the last block held of an arena: the page is given back.
LEMMA RemoveArenaSound ==
  ASSUME NEW p, p \in Slots, NEW T, NEW A, NEW m, NEW E, NEW H, NEW I, Sound(p, T, A, m, E, H, I),
         NEW c, c \in Classes, NEW u, NEW r, NEW T1, NEW I1, NEW A1, NEW page,
         DropsArena(p, u, r, T1, I1, A1, m, T, A, I, page, c)
  PROVE  Sound(p, T1, A1, r, E, H, I1) /\ ArenaDropped(p, r, m, T, A, H, I, page, c)
  <1> /\ page \in OwnArenas(p, T, A, I, c) /\ A[page].cnt = PerArena(c)
      /\ u = UnlinkedAll(m, BlocksIn(page, c))
      /\ r = Restrict(u, DOMAIN u \ ToSet(BlocksIn(page, c)))
      /\ T1 = T \ {page} /\ I1 = I \ {page}
      /\ OtherHeaders(A1, A, page) /\ A1[page] = NoArena
    BY DEF DropsArena
  <1> DEFINE head == ListHead(p, c)
             S == FreeOf(p, T, A, H, I, c)
             D == DOMAIN m
             X == ToSet(BlocksIn(page, c))
  <1>1. /\ Typed(T, A, m, E, H, I) /\ Arenas(p, T, A, I) /\ OnArenas(T, A, m, E) /\ Holdings(A, H)
        /\ Backed(A, m, H) /\ Counted(p, T, A, H, I) /\ Listed(p, T, A, m, H, I)
    BY DEF Sound
  <1>2. /\ T \subseteq Pages /\ I \subseteq T /\ A \in [Pages -> Header]
        /\ m \in [D -> Link] /\ D \in SUBSET Nat /\ IsFiniteSet(D) /\ E \subseteq D
        /\ H \subseteq [at : Nat, size : RequestSizes]
    BY <1>1 DEF Typed
  <1>3. ListOf(D, m, head, S)
    BY <1>1 DEF Listed
  <1>4. /\ page \in T /\ page \in Pages /\ page \in Nat /\ page \notin I /\ SmallOn(A, page) /\ A[page].list = head
        /\ \A d \in Classes : page \in OwnArenas(p, T, A, I, d) => d = c
    BY <1>1, <1>2, OwnFacts
  <1>5. /\ BlocksIn(page, c) \in Seq(Nat) /\ Len(BlocksIn(page, c)) = PerArena(c)
        /\ DOMAIN BlocksIn(page, c) = 1..PerArena(c)
        /\ \A i \in 1..PerArena(c) : BlocksIn(page, c)[i] = Block(page, c, i)
        /\ \A i, j \in 1..PerArena(c) : Block(page, c, i) = Block(page, c, j) => i = j
        /\ \A b \in X : b \in Nat /\ PageOf(b) = page
        /\ IsFiniteSet(X) /\ Cardinality(X) = PerArena(c)
        /\ X = {Block(page, c, i) : i \in 1..PerArena(c)}
    BY <1>4, ArenaBlocks
  <1>6. FreeOn(H, page, c) = X
    <2> DEFINE F == FreeOn(H, page, c)
    <2>1. Cardinality(F) = Cardinality(X)
      BY <1>1, <1>5 DEF Counted
    <2>2. F \subseteq X
      BY DEF FreeOn
    <2> HIDE DEF F, X
    <2>3. F = X
      BY <2>1, <2>2, <1>5, FS_Subset
    <2> QED
      BY <2>3 DEF F
  <1>7. X \subseteq S
    BY <1>6 DEF FreeOf
  <1>8. \A h \in H : PageOf(h.at) # page
    <2> SUFFICES ASSUME NEW h, h \in H, PageOf(h.at) = page
                 PROVE  FALSE
      OBVIOUS
    <2>1. PICK d \in Classes : page \in OwnArenas(p, T, A, I, d) /\ h.at \in ToSet(BlocksIn(page, d))
      BY <1>4, OwnBlock
    <2>2. h.at \in X
      BY <2>1, <1>4
    <2> QED
      BY <2>2, <1>6 DEF FreeOn
  <1>9. BlocksIn(page, c) \in Seq(D)
    <2>1. S \subseteq D
      BY <1>3, ListOfFacts
    <2>2. \A i \in 1..PerArena(c) : BlocksIn(page, c)[i] \in X
      BY <1>5
    <2> HIDE DEF S, X, D
    <2>3. \A i \in 1..PerArena(c) : BlocksIn(page, c)[i] \in D
      BY <2>1, <2>2, <1>7
    <2> QED
      BY <2>3, <1>5
  <1>10. \A i, j \in 1..Len(BlocksIn(page, c)) : BlocksIn(page, c)[i] = BlocksIn(page, c)[j] => i = j
    BY <1>5
  <1> HIDE DEF S, D, head, X
  <1>11. ListOf(D, u, head, S \ X) /\ SameBut(D, S \cup {head, head + 1}, u, m)
    BY <1>3, <1>7, <1>9, <1>10, ListOfUnlinkAll DEF X
  <1>12. u \in [D -> Link] /\ DOMAIN u = D
    BY <1>11, ListOfFacts
  <1>13. DOMAIN r = D \ X /\ r \in [D \ X -> Link] /\ \A a \in D \ X : r[a] = u[a]
    BY <1>12 DEF Restrict, X
  <1>14. \A a \in S : PageOf(a) \in OwnArenas(p, T, A, I, c) /\ PageOf(a) \in Pages
    BY <1>1, <1>2, FreeFacts DEF S
  <1>15. \A a \in E : PageOf(a) > NumPages + 1
    BY <1>1 DEF OnArenas
  <1>16. ~(page > NumPages + 1)
    BY <1>4, PagesAre
  <1>17. E \subseteq D \ X
    BY <1>2, <1>5, <1>15, <1>16
  <1>18. head \in D \ X /\ head + 1 \in D \ X
    <2>1. head \in D /\ head + 1 \in D /\ head \notin S /\ head + 1 \notin S
      BY <1>3, ListOfFacts
    <2> QED
      BY <2>1, <1>7
  <1>19. ListOf(DOMAIN r, r, head, S \ X)
    <2> DEFINE R == S \ X
               F == DOMAIN r
    <2>1. S \subseteq D
      BY <1>3, ListOfFacts
    <2>2. F \subseteq D /\ R \subseteq F /\ head \in F /\ head + 1 \in F
      BY <2>1, <1>13, <1>18
    <2>3. r \in [F -> Link] /\ SameBut(F, {}, r, u)
      BY <1>13 DEF SameBut
    <2>4. ListOf(D, u, head, R)
      BY <1>11
    <2> HIDE DEF R, F
    <2>5. ListOf(F, r, head, R)
      BY <2>2, <2>3, <2>4, ListOfPart
    <2> QED
      BY <2>5 DEF R, F
  <1>20. \A a \in D \ X : a \in S \/ a = head \/ a = head + 1 \/ r[a] = m[a]
    BY <1>11, <1>13 DEF SameBut
  <1>21. A1 \in [Pages -> Header] /\ \A other \in Pages : other # page => A1[other] = A[other]
    BY DEF OtherHeaders
  <1>22. \A other \in Pages : other # page =>
              /\ SmallOn(A1, other) <=> SmallOn(A, other)
              /\ LargeOn(A1, other) <=> LargeOn(A, other)
              /\ Span(A1, other) = Span(A, other)
    BY <1>21 DEF SmallOn, LargeOn, Span
  <1>23. ~SmallOn(A1, page) /\ ~LargeOn(A1, page)
    BY DEF SmallOn, LargeOn
  <1>24. I1 = I
    BY <1>4
  <1>25. Typed(T1, A1, r, E, H, I1)
    <2>1. IsFiniteSet(D \ X)
      BY <1>2, FS_Subset
    <2>2. T1 \subseteq Pages /\ I1 \subseteq T1
      BY <1>2
    <2> QED
      BY <2>1, <2>2, <1>1, <1>2, <1>13, <1>17, <1>21 DEF Typed
  <1>26. OnArenas(T1, A1, r, E)
    <2>1. ASSUME NEW a, a \in DOMAIN r, a \notin E
          PROVE  PageOf(a) \in T1 /\ SmallOn(A1, PageOf(a)) /\ BlockOf(A1, a)
      <3>1. a \in D /\ a \notin X
        BY <2>1, <1>13
      <3>2. PageOf(a) \in T /\ SmallOn(A, PageOf(a)) /\ BlockOf(A, a) /\ PageOf(a) \in Pages
        BY <2>1, <3>1, <1>1, <1>2 DEF OnArenas, D
      <3>3. PageOf(a) # page
        <4> SUFFICES ASSUME PageOf(a) = page PROVE FALSE
          OBVIOUS
        <4>1. PICK d \in Classes : \E q \in Slots : A[page].list = ListHead(q, d) /\ a \in ToSet(BlocksIn(page, d))
          BY <3>2 DEF BlockOf
        <4>2. PICK q \in Slots : ListHead(p, c) = ListHead(q, d)
          BY <4>1, <1>4 DEF head
        <4>3. d = c
          BY <4>2, HeadsDiffer
        <4> QED
          BY <4>1, <4>3, <3>1 DEF X
      <3> QED
        BY <3>2, <3>3, <1>21, <1>22 DEF BlockOf
    <2> QED
      BY <2>1, <1>15 DEF OnArenas
  <1>27. Arenas(p, T1, A1, I1)
    <2>1. ASSUME NEW other, other \in Pages, SmallOn(A1, other)
          PROVE  other \in T1 /\ OfClass(p, A1, I1, other)
      <3>1. other # page
        BY <2>1, <1>23
      <3>2. SmallOn(A, other) /\ A1[other] = A[other]
        BY <2>1, <3>1, <1>21, <1>22
      <3> QED
        BY <2>1, <3>1, <3>2, <1>1, <1>24 DEF Arenas, OfClass
    <2>2. ASSUME NEW other, other \in Pages, LargeOn(A1, other)
          PROVE  Alone(T1, A1, other)
      <3>1. other # page
        BY <2>2, <1>23
      <3>2. LargeOn(A, other) /\ A1[other] = A[other]
        BY <2>2, <3>1, <1>21, <1>22
      <3>3. Alone(T, A, other)
        BY <2>2, <3>2, <1>1 DEF Arenas
      <3>4. other \in Nat /\ A[other].cnt \in Nat
        BY <2>2, <1>2, PagesAre DEF Header
      <3>5. ASSUME NEW z, z \in other + 1..other + A[other].cnt - 1
            PROVE  A1[z] = NoArena /\ z # page
        <4>1. z \in other..other + A[other].cnt - 1
          BY <3>4, <3>5
        <4>2. z \in Pages
          BY <4>1, <3>3, <1>2 DEF Alone
        <4>3. A[z] = NoArena
          BY <3>3, <3>5 DEF Alone
        <4> QED
          BY <4>2, <4>3, <1>4, <1>21 DEF SmallOn
      <3>6. other..other + A[other].cnt - 1 \subseteq T1
        <4>1. \A z \in other..other + A[other].cnt - 1 : z = other \/ z \in other + 1..other + A[other].cnt - 1
          BY <3>4
        <4>2. \A z \in other..other + A[other].cnt - 1 : z # page
          BY <4>1, <3>1, <3>5
        <4> QED
          BY <4>2, <3>3 DEF Alone
      <3> QED
        BY <3>2, <3>3, <3>5, <3>6 DEF Alone
    <2> QED
      BY <2>1, <2>2 DEF Arenas
  <1>28. Holdings(A1, H)
    <2>1. ASSUME NEW k, k \in H
          PROVE  PageOf(k.at) \in Pages /\ (HeldSmall(A1, k) \/ HeldLarge(A1, k))
      <3>1. PageOf(k.at) \in Pages /\ PageOf(k.at) # page /\ (HeldSmall(A, k) \/ HeldLarge(A, k))
        BY <2>1, <1>1, <1>8 DEF Holdings
      <3>2. /\ A1[PageOf(k.at)] = A[PageOf(k.at)] /\ (SmallOn(A1, PageOf(k.at)) <=> SmallOn(A, PageOf(k.at)))
            /\ LargeOn(A1, PageOf(k.at)) <=> LargeOn(A, PageOf(k.at))
        BY <3>1, <1>21, <1>22
      <3>3. HeldSmall(A, k) => HeldSmall(A1, k)
        BY <3>2 DEF HeldSmall
      <3>4. HeldLarge(A, k) => HeldLarge(A1, k)
        BY <3>2 DEF HeldLarge
      <3> QED
        BY <3>1, <3>3, <3>4
    <2> QED
      BY <2>1, <1>1 DEF Holdings
  <1>29. Backed(A1, r, H)
    <2> SUFFICES ASSUME NEW k, k \in H, SmallOn(A1, PageOf(k.at))
                 PROVE  k.at \in DOMAIN r
      BY DEF Backed
    <2>1. PageOf(k.at) \in Pages /\ PageOf(k.at) # page
      BY <1>1, <1>8 DEF Holdings
    <2>2. k.at \in D
      BY <2>1, <1>1, <1>22 DEF Backed, D
    <2>3. k.at \notin X
      BY <2>1, <1>5
    <2> QED
      BY <2>2, <2>3, <1>13
  <1>31. \A d \in Classes : OwnArenas(p, T1, A1, I1, d) = OwnArenas(p, T, A, I, d) \ {page}
    <2> SUFFICES ASSUME NEW d, d \in Classes
                 PROVE  OwnArenas(p, T1, A1, I1, d) = OwnArenas(p, T, A, I, d) \ {page}
      OBVIOUS
    <2>1. \A other \in T : other # page => A1[other] = A[other]
      BY <1>2, <1>21
    <2> QED
      BY <2>1, <1>24 DEF OwnArenas
  <1>32. Counted(p, T1, A1, H, I1)
    <2> SUFFICES ASSUME NEW d, d \in Classes, NEW other, other \in OwnArenas(p, T1, A1, I1, d)
                 PROVE  A1[other].cnt = Cardinality(FreeOn(H, other, d))
      BY DEF Counted
    <2>1. other \in OwnArenas(p, T, A, I, d) /\ other # page
      BY <1>31
    <2>2. A1[other] = A[other]
      BY <2>1, <1>2, <1>21 DEF OwnArenas
    <2> QED
      BY <2>1, <2>2, <1>1 DEF Counted
  <1>33. FreeOf(p, T1, A1, H, I1, c) = S \ X
    <2>1. OwnArenas(p, T1, A1, I1, c) = OwnArenas(p, T, A, I, c) \ {page}
      BY <1>31
    <2>2. \A other \in OwnArenas(p, T, A, I, c) : other # page => FreeOn(H, other, c) \cap X = {}
      <3> SUFFICES ASSUME NEW other, other \in OwnArenas(p, T, A, I, c), other # page,
                          NEW a, a \in FreeOn(H, other, c), a \in X
                   PROVE  FALSE
        OBVIOUS
      <3>1. other \in Nat
        BY <1>2, PagesAre DEF OwnArenas
      <3>2. PageOf(a) = other
        BY <3>1, ArenaBlocks DEF FreeOn
      <3> QED
        BY <3>2, <1>5
    <2>3. \A a : a \in FreeOf(p, T1, A1, H, I1, c) <=> \E other \in OwnArenas(p, T, A, I, c) : other # page /\ a \in FreeOn(H, other, c)
      BY <2>1 DEF FreeOf
    <2>4. \A a : a \in S <=> \E other \in OwnArenas(p, T, A, I, c) : a \in FreeOn(H, other, c)
      BY DEF FreeOf, S
    <2>5. \A a : a \in S /\ a \notin X <=> a \in FreeOf(p, T1, A1, H, I1, c)
      BY <2>2, <2>3, <2>4, <1>6
    <2> QED
      BY <2>5
  <1>34. \A d \in Classes : d # c => FreeOf(p, T1, A1, H, I1, d) = FreeOf(p, T, A, H, I, d)
    <2> SUFFICES ASSUME NEW d, d \in Classes, d # c
                 PROVE  FreeOf(p, T1, A1, H, I1, d) = FreeOf(p, T, A, H, I, d)
      OBVIOUS
    <2>1. OwnArenas(p, T1, A1, I1, d) = OwnArenas(p, T, A, I, d)
      BY <1>4, <1>31
    <2> QED
      BY <2>1 DEF FreeOf
  <1>35. Listed(p, T1, A1, r, H, I1)
    <2> SUFFICES ASSUME NEW d, d \in Classes
                 PROVE  ListOf(DOMAIN r, r, ListHead(p, d), FreeOf(p, T1, A1, H, I1, d))
      BY DEF Listed
    <2>1. CASE d = c
      BY <2>1, <1>19, <1>33 DEF head
    <2>2. CASE d # c
      <3> DEFINE Z == OwnArenas(p, T, A, I, c)
      <3>1. Z \cap OwnArenas(p, T, A, I, d) = {}
        BY <1>1, <1>2, <2>2, OwnFacts
      <3>2. \A a \in D : PageOf(a) \in Z \/ a \in {head, head + 1} \/ (a \in DOMAIN r /\ r[a] = m[a])
        <4> SUFFICES ASSUME NEW a, a \in D, a # head, a # head + 1, PageOf(a) \notin Z
                     PROVE  a \in DOMAIN r /\ r[a] = m[a]
          OBVIOUS
        <4>1. a \notin X
          BY <1>5
        <4>2. a \notin S
          BY <1>14
        <4> QED
          BY <4>1, <4>2, <1>13, <1>20
      <3>3. \A z \in Z : ~(z > NumPages + 1)
        BY <1>2, PagesAre DEF OwnArenas
      <3> HIDE DEF Z
      <3>4. Elsewhere(Z, r, m, ListHead(p, c))
        BY <3>2 DEF Elsewhere, D, head
      <3>5. r \in [DOMAIN r -> Link] /\ DOMAIN r \in SUBSET Nat
        BY <1>2, <1>13
      <3>6. ListOf(DOMAIN r, r, ListHead(p, d), FreeOf(p, T, A, H, I, d))
        BY <1>1, <1>2, <2>2, <3>1, <3>3, <3>4, <3>5, OtherList
      <3> QED
        BY <3>6, <1>34, <2>2
    <2> QED
      BY <2>1, <2>2
  <1>36. Sound(p, T1, A1, r, E, H, I1)
    BY <1>25, <1>26, <1>27, <1>28, <1>29, <1>32, <1>35 DEF Sound
  <1>37. \A a \in DOMAIN r : PageOf(a) \in Pages \/ a = head \/ a = head + 1 \/ r[a] = m[a]
    BY <1>13, <1>14, <1>20
  <1>38. OtherEnds(p, c, r, m)
    BY <1>37 DEF OtherEnds, head
  <1> QED
    BY <1>7, <1>8, <1>13, <1>36, <1>38 DEF D, X, S, head, ArenaDropped

\* The pages of a loaded segment are pages there are, and it lies on them.
LEMMA SegmentPages ==
  ASSUME NEW s, s \in Segments
  PROVE  /\ s.at \in Nat /\ s.size \in Nat
         /\ PagesOf(s) \subseteq Pages
         /\ \A b \in Extent(s) : PageOf(b) \in PagesOf(s)
  <1> DEFINE at == s.at
             size == s.size
             d == PageOf(at)
             o == at % PG_SIZE
             last == at + size - 1
             e == PageOf(last)
  <1>1. /\ at \in Nat /\ size \in Nat /\ size > 0 /\ at >= PG_SIZE /\ at + size <= (NumPages + 1) * PG_SIZE
    BY HeapAssumption
  <1>2. PG_SIZE \in Nat /\ PG_SIZE > 0 /\ NumPages \in Nat
    BY HeapConstants
  <1>3. d \in Nat /\ o \in 0..PG_SIZE - 1 /\ at = PG_SIZE * d + o
    BY <1>1, PageDivision
  <1>4. last \in Nat /\ at <= last /\ last < (NumPages + 1) * PG_SIZE
    <2>1. (NumPages + 1) * PG_SIZE \in Nat
      BY <1>2
    <2> QED
      BY <2>1, <1>1
  <1>5. d <= e /\ e \in Nat
    BY <1>1, <1>4, PageMonotone, PageDivision
  <1>6. d >= 1
    <2>1. at >= 1 * PG_SIZE
      BY <1>1, <1>2
    <2> QED
      BY <2>1, <1>1, PageBound
  <1>7. e < NumPages + 1
    BY <1>2, <1>4, PageBound
  <1> DEFINE in_first == PG_SIZE - o
             occupy == IF size > in_first THEN (size - in_first + PG_SIZE - 1) \div PG_SIZE + 1 ELSE 1
  <1>8. PagesOf(s) = d..d + occupy - 1
    BY DEF PagesOf
  <1> HIDE DEF at, size, d, o, e
  <1>9. occupy = e - d + 1
    <2>1. CASE size > in_first
      <3> DEFINE y == size - in_first + PG_SIZE - 1
                 k == y \div PG_SIZE
                 r == y % PG_SIZE
      <3>1. y \in Nat /\ occupy = k + 1
        BY <2>1, <1>1, <1>2, <1>3
      <3> HIDE DEF y
      <3>2. k \in Nat /\ r \in 0..PG_SIZE - 1 /\ y = PG_SIZE * k + r
        BY <3>1, PageDivision DEF PageOf
      <3> HIDE DEF k, r
      <3>3. last = PG_SIZE * d + PG_SIZE * k + r
        <4>1. PG_SIZE * d \in Nat /\ PG_SIZE * k \in Nat
          BY <1>2, <1>3, <3>2
        <4>2. last = PG_SIZE * d + o + size - 1
          BY <1>1, <1>3, <4>1
        <4>3. y = size - (PG_SIZE - o) + PG_SIZE - 1
          BY DEF y
        <4> HIDE DEF last, occupy
        <4>4. y = size + o - 1
          BY <4>3, <1>1, <1>2, <1>3
        <4> QED
          BY <4>1, <4>2, <4>4, <3>2, <1>1, <1>3
      <3>4. last = PG_SIZE * (d + k) + r
        BY <3>3, <3>2, <1>2, <1>3
      <3>5. e = d + k
        <4>1. d + k \in Nat
          BY <3>2, <1>3
        <4> HIDE DEF last
        <4> QED
          BY <4>1, <3>2, <3>4, <1>4, PageQuotient DEF e
      <3> QED
        BY <3>1, <3>2, <3>5, <1>3
    <2>2. CASE ~(size > in_first)
      <3>1. last < (d + 1) * PG_SIZE
        <4>1. PG_SIZE * d \in Nat /\ (d + 1) * PG_SIZE = PG_SIZE * d + PG_SIZE
          BY <1>2, <1>3
        <4> QED
          BY <4>1, <2>2, <1>1, <1>2, <1>3
      <3>2. e < d + 1
        <4>1. d + 1 \in Nat
          BY <1>3
        <4> HIDE DEF last
        <4> QED
          BY <4>1, <3>1, <1>4, PageBound DEF e
      <3> QED
        BY <2>2, <3>2, <1>3, <1>5
    <2> QED
      BY <2>1, <2>2
  <1> HIDE DEF occupy
  <1>10. PagesOf(s) = d..e
    BY <1>8, <1>9, <1>3, <1>5
  <1>11. d..e \subseteq 1..NumPages
    BY <1>2, <1>3, <1>5, <1>6, <1>7
  <1>12. ASSUME NEW b, b \in Extent(s)
         PROVE  PageOf(b) \in d..e
    <2>1. b \in Nat /\ at <= b /\ b <= last
      BY <1>12, <1>1 DEF Extent, at, size
    <2>2. PageOf(b) \in Nat
      BY <2>1, PageDivision
    <2> HIDE DEF last
    <2>3. d <= PageOf(b) /\ PageOf(b) <= e
      BY <2>1, <1>1, <1>4, PageMonotone DEF d, e
    <2> QED
      BY <2>2, <2>3, <1>3, <1>5
  <1> QED
    BY <1>1, <1>10, <1>11, <1>12 DEF Pages, at, size

\* The bytes of a block are behind the header of its page.
LEMMA BlockBytes ==
  ASSUME NEW page, page \in Nat, NEW c, c \in Classes, NEW a, a \in ToSet(BlocksIn(page, c)),
         NEW b, b \in BytesOf(a, c)
  PROVE  a \in Nat /\ b \in Nat /\ PageOf(b) = page /\ b % PG_SIZE >= ArenaSize
  <1>1. PICK i \in 1..PerArena(c) : a = Block(page, c, i)
    BY ArenaBlocks
  <1>2. a \in Nat /\ BlockSizes[c] \in Nat
    BY <1>1, BlockPlace, HeapConstants
  <1> DEFINE o == b - a
  <1>3. o \in 0..BlockSizes[c] - 1 /\ b = a + o /\ b \in Nat
    BY <1>2 DEF BytesOf
  <1> HIDE DEF o
  <1>4. PageOf(b) = page /\ b % PG_SIZE >= ArenaSize
    BY <1>1, <1>3, BlockPlace
  <1> QED
    BY <1>2, <1>3, <1>4

\* The bytes of the header of a page are its first ones.
LEMMA HeaderBytes ==
  ASSUME NEW page, page \in Nat
  PROVE  /\ \A b \in HeaderOf(page) : b \in Nat /\ PageOf(b) = page
         /\ \A b \in Nat : PageOf(b) = page /\ b % PG_SIZE < ArenaSize => b \in HeaderOf(page)
  <1>1. /\ PG_SIZE \in Nat /\ ArenaSize \in Nat /\ ArenaSize < PG_SIZE
        /\ page * PG_SIZE \in Nat /\ page * PG_SIZE = PG_SIZE * page
    BY HeapConstants
  <1>2. ASSUME NEW b, b \in HeaderOf(page)
        PROVE  b \in Nat /\ PageOf(b) = page
    <2> DEFINE o == b - page * PG_SIZE
    <2>1. b \in Nat /\ o \in 0..PG_SIZE - 1 /\ b = PG_SIZE * page + o
      BY <1>1, <1>2 DEF HeaderOf
    <2> HIDE DEF o
    <2> QED
      BY <2>1, PageQuotient
  <1>3. ASSUME NEW b \in Nat, PageOf(b) = page, b % PG_SIZE < ArenaSize
        PROVE  b \in HeaderOf(page)
    <2>1. b = PG_SIZE * page + (b % PG_SIZE) /\ b % PG_SIZE \in 0..PG_SIZE - 1
      BY <1>3, PageDivision
    <2> QED
      BY <2>1, <1>1, <1>3 DEF HeaderOf
  <1> QED
    BY <1>2, <1>3

\* Where the bytes of a held block are.
LEMMA HeldBytes ==
  ASSUME NEW p, p \in Slots, NEW T, NEW A, NEW m, NEW E, NEW H, NEW I, Sound(p, T, A, m, E, H, I),
         NEW h, h \in H, NEW b, b \in Extent(h)
  PROVE  /\ PageOf(b) \in Span(A, PageOf(h.at))
         /\ PageOf(b) = PageOf(h.at) => b % PG_SIZE >= ArenaSize
  <1> DEFINE page == PageOf(h.at)
  <1>1. /\ h.at \in Nat /\ h.size \in RequestSizes /\ page \in Pages /\ page \in Nat /\ A[page] # NoArena
        /\ SmallOn(A, page) => HeldSmall(A, h)
        /\ LargeOn(A, page) => HeldLarge(A, h)
    BY HeldFacts
  <1>2. h.size \in Nat /\ h.size > 0 /\ PG_SIZE \in Nat /\ PG_SIZE > 0 /\ ArenaSize \in Nat /\ ArenaSize < PG_SIZE
    BY <1>1, HeapConstants
  <1>3. b \in Nat /\ h.at <= b /\ b <= h.at + h.size - 1
    BY <1>1, <1>2 DEF Extent
  <1>4. CASE SmallOn(A, page)
    <2>1. PICK c \in Classes : h.size <= BlockSizes[c] /\ h.at \in ToSet(BlocksIn(page, c))
      BY <1>1, <1>4 DEF HeldSmall
    <2>2. PICK i \in 1..PerArena(c) : h.at = Block(page, c, i)
      BY <2>1, <1>1, ArenaBlocks
    <2> DEFINE o == b - h.at
    <2>3. BlockSizes[c] \in Nat
      BY HeapConstants
    <2>4. o \in 0..BlockSizes[c] - 1 /\ b = h.at + o
      BY <2>1, <2>3, <1>1, <1>2, <1>3
    <2> HIDE DEF o
    <2>5. PageOf(b) = page /\ b % PG_SIZE >= ArenaSize
      BY <2>2, <2>4, <1>1, BlockPlace
    <2>6. Span(A, page) = {page}
      BY <1>4 DEF Span, SmallOn, LargeOn
    <2> QED
      BY <2>5, <2>6
  <1>5. CASE LargeOn(A, page)
    <2> DEFINE n == A[page].cnt
    <2>1. h.at = page * PG_SIZE + ArenaSize /\ h.size + ArenaSize <= n * PG_SIZE
      BY <1>1, <1>5 DEF HeldLarge
    <2>2. n \in Nat
      BY <1>1 DEF Sound, Typed, Header
    <2>3. Span(A, page) = page..page + n - 1
      BY <1>5 DEF Span
    <2> HIDE DEF n, page
    <2>4. page * PG_SIZE \in Nat /\ n * PG_SIZE \in Nat /\ (page + n) * PG_SIZE = page * PG_SIZE + n * PG_SIZE
      BY <1>1, <1>2, <2>2
    <2>5. b >= page * PG_SIZE /\ b < (page + n) * PG_SIZE
      BY <2>1, <2>4, <1>2, <1>3
    <2>6. page + n \in Nat
      BY <1>1, <2>2
    <2>7. PageOf(b) >= page /\ PageOf(b) < page + n /\ PageOf(b) \in Nat
      BY <2>5, <2>6, <1>1, <1>3, PageBound, PageDivision
    <2>8. ASSUME PageOf(b) = page
          PROVE  b % PG_SIZE >= ArenaSize
      <3>1. b = PG_SIZE * page + (b % PG_SIZE) /\ b % PG_SIZE \in 0..PG_SIZE - 1
        BY <2>8, <1>3, PageDivision
      <3>2. PG_SIZE * page = page * PG_SIZE
        BY <1>1, <1>2
      <3> QED
        BY <3>1, <3>2, <2>1, <2>4, <1>2, <1>3
    <2>9. PageOf(b) \in page..page + n - 1
      BY <2>7, <2>6, <2>2, <1>1
    <2> QED
      BY <2>3, <2>8, <2>9 DEF page
  <1>6. SmallOn(A, page) \/ LargeOn(A, page)
    BY <1>1 DEF SmallOn, LargeOn
  <1> QED
    BY <1>4, <1>5, <1>6

\* In a sound process what is held is apart, lies on the pages of the process, and covers no
\* header of an arena.
LEMMA SoundApart ==
  ASSUME NEW p, p \in Slots, NEW T, NEW A, NEW m, NEW E, NEW H, NEW I, Sound(p, T, A, m, E, H, I)
  PROVE  /\ \A h, g \in H : h # g => Extent(h) \cap Extent(g) = {}
         /\ \A h \in H : \A b \in Extent(h) :
              PageOf(b) \in T /\ ~(A[PageOf(b)] # NoArena /\ b % PG_SIZE < ArenaSize)
  <1>1. /\ Typed(T, A, m, E, H, I) /\ Arenas(p, T, A, I) /\ Holdings(A, H)
    BY DEF Sound
  <1>2. T \subseteq Pages /\ A \in [Pages -> Header]
    BY <1>1 DEF Typed
  <1>3. ASSUME NEW h, h \in H, NEW g, g \in H, h # g, NEW b, b \in Extent(h), b \in Extent(g)
        PROVE  FALSE
    <2> DEFINE page == PageOf(h.at)
    <2>1. page \in Pages /\ PageOf(g.at) \in Pages /\ A[page] # NoArena /\ A[PageOf(g.at)] # NoArena
      BY <1>3, HeldFacts
    <2>2. PageOf(b) \in Span(A, page) /\ PageOf(b) \in Span(A, PageOf(g.at))
      BY <1>3, HeldBytes
    <2>3. PageOf(g.at) = page
      BY <2>1, <2>2, <1>1, <1>2, SpansApart
    <2>4. h.at # g.at
      BY <1>1, <1>3 DEF Holdings
    <2>5. ~LargeOn(A, page)
      <3> SUFFICES ASSUME LargeOn(A, page) PROVE FALSE
        OBVIOUS
      <3>1. HeldLarge(A, h) /\ HeldLarge(A, g)
        BY <1>3, <2>3, HeldFacts
      <3> QED
        BY <3>1, <2>3, <2>4 DEF HeldLarge
    <2>6. SmallOn(A, page)
      BY <2>1, <2>5 DEF SmallOn, LargeOn
    <2>7. HeldSmall(A, h) /\ HeldSmall(A, g)
      BY <1>3, <2>3, <2>6, HeldFacts
    <2>8. PICK c \in Classes : \E q \in Slots :
            A[page].list = ListHead(q, c) /\ h.size <= BlockSizes[c] /\ h.at \in ToSet(BlocksIn(page, c))
      BY <2>7 DEF HeldSmall
    <2>9. PICK d \in Classes : \E q \in Slots :
            A[page].list = ListHead(q, d) /\ g.size <= BlockSizes[d] /\ g.at \in ToSet(BlocksIn(page, d))
      BY <2>3, <2>7 DEF HeldSmall
    <2>10. c = d
      <3>1. PICK q \in Slots : A[page].list = ListHead(q, c)
        BY <2>8
      <3>2. PICK k \in Slots : A[page].list = ListHead(k, d)
        BY <2>9
      <3>3. ListHead(q, c) = ListHead(k, d)
        BY <3>1, <3>2
      <3> QED
        BY <3>3, HeadsDiffer
    <2>11. page \in Nat
      BY <2>1, PagesAre
    <2>12. PICK i \in 1..PerArena(c) : h.at = Block(page, c, i)
      BY <2>8, <2>11, ArenaBlocks
    <2>13. PICK j \in 1..PerArena(c) : g.at = Block(page, c, j)
      BY <2>9, <2>10, <2>11, ArenaBlocks
    <2>14. i \in Nat /\ j \in Nat /\ i # j
      BY <2>4, <2>12, <2>13
    <2>15. h.at + BlockSizes[c] <= g.at \/ g.at + BlockSizes[c] <= h.at
      <3>1. CASE i < j
        BY <3>1, <2>11, <2>12, <2>13, BlockPlace
      <3>2. CASE j < i
        BY <3>2, <2>11, <2>12, <2>13, BlockPlace
      <3> QED
        BY <2>14, <3>1, <3>2
    <2>16. /\ h.at \in Nat /\ g.at \in Nat /\ h.size \in Nat /\ g.size \in Nat /\ BlockSizes[c] \in Nat
           /\ h.size <= BlockSizes[c] /\ g.size <= BlockSizes[c]
      <3>1. h.at \in Nat /\ g.at \in Nat /\ h.size \in RequestSizes /\ g.size \in RequestSizes
        BY <1>3, HeldFacts
      <3> QED
        BY <3>1, <2>8, <2>9, <2>10, HeapConstants
    <2>17. h.at <= b /\ b <= h.at + h.size - 1 /\ g.at <= b /\ b <= g.at + g.size - 1 /\ b \in Int
      BY <2>16, <1>3 DEF Extent
    <2> QED
      BY <2>15, <2>16, <2>17
  <1>4. ASSUME NEW h, h \in H, NEW b, b \in Extent(h)
        PROVE  /\ PageOf(b) \in T /\ PageOf(b) \in Span(A, PageOf(h.at))
               /\ ~(A[PageOf(b)] # NoArena /\ b % PG_SIZE < ArenaSize)
    <2> DEFINE page == PageOf(h.at)
    <2>1. page \in Pages /\ A[page] # NoArena /\ page \in Nat
      BY <1>4, HeldFacts
    <2>2. PageOf(b) \in Span(A, page) /\ (PageOf(b) = page => b % PG_SIZE >= ArenaSize)
      BY <1>4, HeldBytes
    <2>3. PageOf(b) \in T
      BY <2>1, <2>2, <1>1, <1>2, ArenaPage
    <2>4. PageOf(b) # page => A[PageOf(b)] = NoArena
      <3> SUFFICES ASSUME PageOf(b) # page, A[PageOf(b)] # NoArena PROVE FALSE
        OBVIOUS
      <3>1. PageOf(b) \in Span(A, PageOf(b)) /\ PageOf(b) \in Pages
        BY <2>3, <1>1, <1>2, ArenaPage
      <3> QED
        BY <3>1, <2>1, <2>2, <1>1, <1>2, SpansApart
    <2>5. b % PG_SIZE \in Int /\ ArenaSize \in Int
      <3>1. h.at \in Nat /\ h.size \in Nat
        BY <1>4, HeldFacts, HeapConstants
      <3>2. b \in Nat
        BY <3>1, <1>4 DEF Extent
      <3> QED
        BY <3>2, PageDivision, HeapConstants
    <2> QED
      BY <2>2, <2>3, <2>4, <2>5
  <1> QED
    BY <1>3, <1>4

-----------------------------------------------------------------------------
\* What is true of a process with the pages T, of which I are inherited, the headers A,
\* the blocks H it holds, those that are lost to it, L, and the program G, as a set: the
\* program is loaded, covers no header, an arena on its pages has a block that is lost, so
\* that the pages stay, and no block is under it that is held or that a call may give.
OffHeaders(A, s) == \A page \in Pages : A[page] # NoArena => HeaderOf(page) \cap Extent(s) = {}

OnLost(A, L, s) ==
  \A page \in Pages : A[page] # NoArena =>
    Span(A, page) \cap PagesOf(s) = {} \/ \E g \in L : PageOf(g.at) = page

Usable(H, L, I, b) == (\E h \in H : h.at = b) \/ (PageOf(b) \notin I /\ \A g \in L : g.at # b)

OffBlocks(A, H, L, I, s) ==
  \A page \in Pages, c \in Classes, q \in Slots : SmallOn(A, page) /\ A[page].list = ListHead(q, c) =>
    \A b \in ToSet(BlocksIn(page, c)) : Usable(H, L, I, b) => BytesOf(b, c) \cap Extent(s) = {}

Unmixed(T, A, H, L, G, I) ==
  /\ G \subseteq Segments /\ H \cap L = {}
  /\ \A r, s \in G : r = s
  /\ \A s \in G : PagesOf(s) \subseteq T /\ OffHeaders(A, s) /\ OnLost(A, L, s) /\ OffBlocks(A, H, L, I, s)

\* What is on a large arena is alone there.
LEMMA LargeAlone ==
  ASSUME NEW p, p \in Slots, NEW T, NEW A, NEW m, NEW E, NEW H, NEW I, Sound(p, T, A, m, E, H, I),
         NEW h, h \in H, NEW g, g \in H, PageOf(g.at) = PageOf(h.at), LargeOn(A, PageOf(h.at))
  PROVE  g = h
  <1>1. HeldLarge(A, h) /\ HeldLarge(A, g)
    BY HeldFacts
  <1>2. g.at = h.at
    BY <1>1 DEF HeldLarge
  <1> QED
    BY <1>2 DEF Sound, Holdings

\* A program is on the pages of its process, and covers no header and nothing that is held.
LEMMA ProgramApart ==
  ASSUME NEW p, p \in Slots, NEW T, NEW A, NEW m, NEW E, NEW H, NEW L, NEW I, Sound(p, T, A, m, E, H \cup L, I),
         NEW G, Unmixed(T, A, H, L, G, I), NEW s, s \in G
  PROVE  /\ \A b \in Extent(s) : PageOf(b) \in T /\ ~(A[PageOf(b)] # NoArena /\ b % PG_SIZE < ArenaSize)
         /\ \A h \in H : Extent(h) \cap Extent(s) = {}
  <1>1. /\ s \in Segments /\ H \cap L = {}
        /\ PagesOf(s) \subseteq T /\ OffHeaders(A, s) /\ OnLost(A, L, s) /\ OffBlocks(A, H, L, I, s)
    BY DEF Unmixed
  <1>2. ASSUME NEW b, b \in Extent(s)
        PROVE  b \in Nat /\ PageOf(b) \in PagesOf(s) /\ PageOf(b) \in Pages /\ PageOf(b) \in Nat
    <2>1. s.at \in Nat /\ s.size \in Nat /\ PagesOf(s) \subseteq Pages /\ PageOf(b) \in PagesOf(s)
      BY <1>1, <1>2, SegmentPages
    <2> QED
      BY <2>1, <1>2, PagesAre DEF Extent
  <1>3. ASSUME NEW b, b \in Extent(s)
        PROVE  PageOf(b) \in T /\ ~(A[PageOf(b)] # NoArena /\ b % PG_SIZE < ArenaSize)
    BY <1>1, <1>2, <1>3, HeaderBytes DEF OffHeaders
  <1>4. ASSUME NEW h, h \in H, NEW b, b \in Extent(h), b \in Extent(s)
        PROVE  FALSE
    <2> DEFINE page == PageOf(h.at)
    <2>0. h \in H \cup L
      BY <1>4
    <2>1. /\ page \in Pages /\ h.at \in Nat /\ h.size \in RequestSizes /\ A[page] # NoArena
          /\ SmallOn(A, page) => HeldSmall(A, h)
      BY <2>0, HeldFacts
    <2>2. CASE SmallOn(A, page)
      <3>1. PICK c \in Classes : \E q \in Slots :
               A[page].list = ListHead(q, c) /\ h.size <= BlockSizes[c] /\ h.at \in ToSet(BlocksIn(page, c))
        BY <2>1, <2>2 DEF HeldSmall
      <3>2. Usable(H, L, I, h.at)
        BY <1>4 DEF Usable
      <3>3. BytesOf(h.at, c) \cap Extent(s) = {}
        BY <3>1, <3>2, <2>1, <2>2, <1>1 DEF OffBlocks
      <3>4. h.size \in Nat /\ BlockSizes[c] \in Nat
        BY <2>1, HeapConstants
      <3>5. b \in BytesOf(h.at, c)
        BY <3>1, <3>4, <2>1, <1>4 DEF Extent, BytesOf
      <3> QED
        BY <3>3, <3>5, <1>4
    <2>3. CASE LargeOn(A, page)
      <3>1. \A g \in L : PageOf(g.at) # page
        <4> SUFFICES ASSUME NEW g, g \in L, PageOf(g.at) = page PROVE FALSE
          OBVIOUS
        <4>1. g = h
          BY <2>0, <2>3, LargeAlone
        <4> QED
          BY <4>1, <1>1, <1>4
      <3>2. Span(A, page) \cap PagesOf(s) = {}
        BY <3>1, <2>1, <1>1 DEF OnLost
      <3>3. PageOf(b) \in Span(A, page)
        BY <2>0, <1>4, HeldBytes
      <3> QED
        BY <3>2, <3>3, <1>2, <1>4
    <2> QED
      BY <2>1, <2>2, <2>3 DEF SmallOn, LargeOn
  <1> QED
    BY <1>3, <1>4

SameArena(A1, A, page) ==
  /\ A[page] # NoArena /\ A1[page].list = A[page].list /\ Span(A1, page) = Span(A, page)
  /\ SmallOn(A1, page) => SmallOn(A, page)

\* A step leaves the program its pages, makes arenas on new pages only, and gives only what
\* could be given.
StaysUnmixed(T1, A1, H1, I1, T, A, H, L, G, I) ==
  /\ \A s \in G : PagesOf(s) \subseteq T1
  /\ \A page \in Pages : A1[page] # NoArena => SameArena(A1, A, page) \/ (page \notin T /\ Span(A1, page) \cap T = {})
  /\ \A page \in Pages : SmallOn(A1, page) /\ page \in I => page \in I1
  /\ \A h \in H1 : h \notin L /\ Usable(H, L, I, h.at)

\* Such a step leaves the program where it was, clear of everything.
LEMMA ClearKept ==
  ASSUME NEW T, NEW A, NEW H, NEW L, NEW G, NEW I, Unmixed(T, A, H, L, G, I),
         NEW T1, NEW A1, NEW H1, NEW I1, StaysUnmixed(T1, A1, H1, I1, T, A, H, L, G, I)
  PROVE  Unmixed(T1, A1, H1, L, G, I1)
  <1>1. G \subseteq Segments /\ H1 \cap L = {} /\ \A r, s \in G : r = s
    BY DEF Unmixed, StaysUnmixed
  <1> SUFFICES ASSUME NEW s, s \in G
               PROVE  PagesOf(s) \subseteq T1 /\ OffHeaders(A1, s) /\ OnLost(A1, L, s) /\ OffBlocks(A1, H1, L, I1, s)
    BY <1>1 DEF Unmixed
  <1>2. PagesOf(s) \subseteq T /\ OffHeaders(A, s) /\ OnLost(A, L, s) /\ OffBlocks(A, H, L, I, s)
    BY DEF Unmixed
  <1>3. \A b \in Extent(s) : PageOf(b) \in T
    BY <1>1, <1>2, SegmentPages
  <1>4. \A page \in Pages : A1[page] # NoArena => SameArena(A1, A, page) \/ (page \notin T /\ Span(A1, page) \cap T = {})
    BY DEF StaysUnmixed
  <1>5. OffHeaders(A1, s)
    <2> SUFFICES ASSUME NEW page \in Pages, A1[page] # NoArena, NEW b, b \in HeaderOf(page), b \in Extent(s)
                 PROVE  FALSE
      BY DEF OffHeaders
    <2>1. PageOf(b) = page
      BY PagesAre, HeaderBytes
    <2>2. A[page] # NoArena
      BY <2>1, <1>3, <1>4 DEF SameArena
    <2> QED
      BY <2>2, <1>2 DEF OffHeaders
  <1>6. OnLost(A1, L, s)
    <2> SUFFICES ASSUME NEW page \in Pages, A1[page] # NoArena
                 PROVE  Span(A1, page) \cap PagesOf(s) = {} \/ \E g \in L : PageOf(g.at) = page
      BY DEF OnLost
    <2>1. CASE SameArena(A1, A, page)
      BY <2>1, <1>2 DEF OnLost, SameArena
    <2>2. CASE Span(A1, page) \cap T = {}
      BY <2>2, <1>2
    <2> QED
      BY <2>1, <2>2, <1>4
  <1>7. OffBlocks(A1, H1, L, I1, s)
    <2> SUFFICES ASSUME NEW page \in Pages, NEW c \in Classes, NEW q \in Slots,
                        SmallOn(A1, page), A1[page].list = ListHead(q, c),
                        NEW b \in ToSet(BlocksIn(page, c)), Usable(H1, L, I1, b)
                 PROVE  BytesOf(b, c) \cap Extent(s) = {}
      BY DEF OffBlocks
    <2>0. page \in Nat /\ A1[page] # NoArena
      BY PagesAre DEF SmallOn
    <2>1. CASE SameArena(A1, A, page)
      <3>1. SmallOn(A, page) /\ A[page].list = ListHead(q, c)
        BY <2>1 DEF SameArena
      <3>2. PageOf(b) = page
        BY <2>0, ArenaBlocks
      <3>3. Usable(H, L, I, b)
        <4>1. CASE \E h \in H1 : h.at = b
          BY <4>1 DEF StaysUnmixed
        <4>2. CASE PageOf(b) \notin I1 /\ \A g \in L : g.at # b
          BY <4>2, <3>2 DEF StaysUnmixed, Usable
        <4> QED
          BY <4>1, <4>2 DEF Usable
      <3> QED
        BY <3>1, <3>3, <1>2 DEF OffBlocks
    <2>2. CASE page \notin T
      <3> SUFFICES ASSUME NEW x, x \in BytesOf(b, c), x \in Extent(s) PROVE FALSE
        OBVIOUS
      <3>1. PageOf(x) = page
        BY <2>0, BlockBytes
      <3> QED
        BY <3>1, <2>2, <1>3
    <2> QED
      BY <2>0, <2>1, <2>2, <1>4
  <1> QED
    BY <1>2, <1>5, <1>6, <1>7 DEF StaysUnmixed

\* Over gives the first function where it is defined, the second elsewhere.
LEMMA OverFacts ==
  ASSUME NEW l, NEW e
  PROVE  /\ DOMAIN Over(l, e) = DOMAIN l \cup DOMAIN e
         /\ \A a \in DOMAIN l : Over(l, e)[a] = l[a]
         /\ \A a \in DOMAIN e : a \notin DOMAIN l => Over(l, e)[a] = e[a]
  BY DEF Over

\* What a process remembers of a memory, and the ends of lists, are that memory.
LEMMA OverParts ==
  ASSUME NEW m, m \in [DOMAIN m -> Link], NEW e, DOMAIN e \subseteq DOMAIN m,
         NEW l, DOMAIN l = DOMAIN m \ DOMAIN e, \A a \in DOMAIN l : l[a] = m[a],
         NEW e1, DOMAIN e1 = DOMAIN e, \A a \in DOMAIN e : e1[a] = m[a]
  PROVE  Over(l, e1) = m
  <1>1. DOMAIN l = DOMAIN m \ DOMAIN e /\ DOMAIN e1 = DOMAIN e
    OBVIOUS
  <1>2. Over(l, e1) = [a \in DOMAIN m |-> IF a \in DOMAIN l THEN l[a] ELSE e1[a]]
    BY <1>1 DEF Over
  <1>3. \A a \in DOMAIN m : (IF a \in DOMAIN l THEN l[a] ELSE e1[a]) = m[a]
    BY <1>1
  <1>4. Over(l, e1) = [a \in DOMAIN m |-> m[a]]
    BY <1>2, <1>3
  <1> QED
    BY <1>4

-----------------------------------------------------------------------------
\* What a function has for the elements of a finite set is a finite set.
LEMMA ImageFinite ==
  ASSUME NEW S, IsFiniteSet(S), NEW f, DOMAIN f = S
  PROVE  IsFiniteSet({f[x] : x \in S})
  <1> DEFINE T == {f[x] : x \in S}
             g == [x \in S |-> f[x]]
  <1>1. g \in Surjection(S, T)
    BY DEF Surjection
  <1> HIDE DEF T, g
  <1>2. IsFiniteSet(T)
    BY <1>1, FS_Surjection
  <1> QED
    BY <1>2 DEF T

UserAddresses == {a \in Nat : PageOf(a) \in Pages}
Memories == UNION {[D -> Link] : D \in SUBSET UserAddresses}

\* The ends of the lists of the processes S.
EndsOf(S) == UNION {ListEnds(p) : p \in S}

\* The ends of lists lie above the pages of processes, each process having its own.
LEMMA EndsFacts ==
  ASSUME NEW S, S \subseteq Slots
  PROVE  /\ EndsOf(S) \in SUBSET Nat /\ IsFiniteSet(EndsOf(S))
         /\ \A a \in EndsOf(S) : PageOf(a) > NumPages + 1 /\ a \notin UserAddresses
         /\ \A p \in Slots : p \notin S => ListEnds(p) \cap EndsOf(S) = {}
  <1>1. \A p \in Slots : \A a \in ListEnds(p) : \E c \in Classes : a = ListHead(p, c) \/ a = ListHead(p, c) + 1
    BY DEF ListEnds, ListTail
  <1>2. ASSUME NEW p, p \in Slots, NEW a, a \in ListEnds(p)
        PROVE  a \in Nat /\ PageOf(a) > NumPages + 1 /\ a \notin UserAddresses
    <2>1. PICK c \in Classes : a = ListHead(p, c) \/ a = ListHead(p, c) + 1
      BY <1>1, <1>2
    <2>2. a \in Nat /\ PageOf(a) > NumPages + 1
      BY <2>1, <1>2, Ends
    <2>3. PageOf(a) \notin Pages
      BY <2>2, PagesAre
    <2> QED
      BY <2>2, <2>3 DEF UserAddresses
  <1>3. IsFiniteSet(EndsOf(S))
    <2>1. \A p \in S : IsFiniteSet(ListEnds(p))
      <3> SUFFICES ASSUME NEW p, p \in S PROVE IsFiniteSet(ListEnds(p))
        OBVIOUS
      <3>1. IsFiniteSet(Classes)
        <4>1. Classes = 1..Len(BlockSizes) /\ Len(BlockSizes) \in Nat
          BY HeapConstants
        <4> QED
          BY <4>1, FS_Interval
      <3> DEFINE x == [c \in Classes |-> ListHead(p, c)]
                 y == [c \in Classes |-> ListTail(p, c)]
                 X == {x[c] : c \in Classes}
                 Y == {y[c] : c \in Classes}
      <3>2. DOMAIN x = Classes /\ DOMAIN y = Classes
        OBVIOUS
      <3>5. ListEnds(p) = X \cup Y
        BY DEF ListEnds
      <3> HIDE DEF x, y
      <3>3. IsFiniteSet(X)
        BY <3>1, <3>2, ImageFinite
      <3>4. IsFiniteSet(Y)
        BY <3>1, <3>2, ImageFinite
      <3> HIDE DEF X, Y
      <3>6. IsFiniteSet(X \cup Y)
        BY <3>3, <3>4, FS_Union
      <3> QED
        BY <3>5, <3>6
    <2> DEFINE z == [p \in S |-> ListEnds(p)]
               Z == {z[p] : p \in S}
    <2>2. IsFiniteSet(S)
      BY HeapConstants, FS_Subset
    <2>6. DOMAIN z = S
      OBVIOUS
    <2>4. \A set \in Z : IsFiniteSet(set)
      BY <2>1
    <2>7. EndsOf(S) = UNION Z
      BY DEF EndsOf
    <2> HIDE DEF z
    <2>3. IsFiniteSet(Z)
      BY <2>2, <2>6, ImageFinite
    <2> HIDE DEF Z
    <2>5. IsFiniteSet(UNION Z)
      BY <2>3, <2>4, FS_UNION
    <2> QED
      BY <2>5, <2>7
  <1>4. ASSUME NEW p, p \in Slots, NEW q, q \in Slots, p # q, NEW a, a \in ListEnds(p), a \in ListEnds(q)
        PROVE  FALSE
    <2>1. PICK c \in Classes : a = ListHead(p, c) \/ a = ListHead(p, c) + 1
      BY <1>1, <1>4
    <2>2. PICK d \in Classes : a = ListHead(q, d) \/ a = ListHead(q, d) + 1
      BY <1>1, <1>4
    <2>3. /\ ListHead(p, c) \in Nat /\ ListHead(q, d) \in Nat /\ ListHead(p, c) # ListHead(q, d) + 1
          /\ ListHead(q, d) # ListHead(p, c) + 1 /\ ListHead(p, c) # ListHead(q, d)
      BY <1>4, Ends
    <2> QED
      BY <2>1, <2>2, <2>3
  <1>5. \A p \in Slots : p \notin S => ListEnds(p) \cap EndsOf(S) = {}
    BY <1>4 DEF EndsOf
  <1> QED
    BY <1>2, <1>3, <1>5 DEF EndsOf

-----------------------------------------------------------------------------
\* The inductive invariant of the heap: every living process is sound, none of its arenas
\* is all free, and its program is loaded clear of what it holds; the slot of any other is
\* empty.  That no arena is all free is needed for exec: what the old program held is lost
\* then, so each arena that the new program does not destroy has a block that is never
\* freed, and its pages, which may be the program's, stay.
NoArenas == [page \in Pages |-> NoArena]

HeapTypes ==
  /\ alive \in SUBSET Slots
  /\ taken \in [Slots -> SUBSET Pages] /\ inherited \in [Slots -> SUBSET Pages]
  /\ \A p \in Slots : inherited[p] \subseteq taken[p]
  /\ arena \in [Slots -> [Pages -> Header]]
  /\ links \in [Slots -> Memories] /\ list_ends \in [EndsOf(alive) -> Link]
  /\ held \in [Slots -> SUBSET [at : Nat, size : RequestSizes]]
  /\ lost \in [Slots -> SUBSET [at : Nat, size : RequestSizes]]
  /\ program \in [Slots -> SUBSET Segments]
  /\ stop \in {"no", "full", "fault", "overlaid", "mixed"}

\* A living process sees its own links and the ends of all lists.
Fine(p) ==
  /\ Sound(p, taken[p], arena[p], Over(links[p], list_ends), DOMAIN list_ends, held[p] \cup lost[p], inherited[p])
  /\ Occupied(arena[p], held[p] \cup lost[p])
  /\ Unmixed(taken[p], arena[p], held[p], lost[p], program[p], inherited[p])

\* A process that has exited has nothing.
Gone(p) ==
  /\ taken[p] = {} /\ inherited[p] = {} /\ held[p] = {} /\ lost[p] = {} /\ program[p] = {}
  /\ arena[p] = NoArenas /\ links[p] = <<>>

HeapIInv ==
  /\ HeapTypes /\ stop \in {"no", "full"}
  /\ (\A p \in alive : Fine(p)) /\ (\A p \in Slots \ alive : Gone(p))

\* When a program has been loaded over free blocks, or a child has freed a small block of
\* its parent, nothing follows, and only the types are known.
HeapSafe == HeapIInv \/ (HeapTypes /\ stop \in {"overlaid", "mixed"})

\* m consists of l, the memory of a process alone, and of e, the ends E.
Composed(l, E, e, m) ==
  /\ DOMAIN l \subseteq UserAddresses
  /\ DOMAIN e = E /\ DOMAIN m = DOMAIN l \cup E /\ DOMAIN l = DOMAIN m \ E
  /\ \A a \in DOMAIN l : m[a] = l[a]
  /\ \A a \in E : m[a] = e[a]

IsMemory(l, S, e) == l \in Memories /\ S \subseteq Slots /\ e \in [EndsOf(S) -> Link]

\* The memory of a process, and what others see of a change of it.
LEMMA MemoryFacts ==
  ASSUME NEW l, NEW S, NEW e, IsMemory(l, S, e)
  PROVE  /\ Composed(l, EndsOf(S), e, Over(l, e))
         /\ l \in [DOMAIN l -> Link] /\ DOMAIN Over(l, e) \in SUBSET Nat
         /\ Over(l, e) \in [DOMAIN Over(l, e) -> Link]
  <1> DEFINE m == Over(l, e)
  <1>0. l \in Memories /\ S \subseteq Slots /\ e \in [EndsOf(S) -> Link]
    BY DEF IsMemory
  <1>1. PICK D \in SUBSET UserAddresses : l \in [D -> Link]
    BY <1>0 DEF Memories
  <1>2. DOMAIN l = D /\ DOMAIN e = EndsOf(S)
    BY <1>0, <1>1
  <1>3. \A a \in EndsOf(S) : a \notin UserAddresses /\ a \in Nat
    BY <1>0, EndsFacts
  <1>4. DOMAIN m = D \cup EndsOf(S) /\ \A a \in D \cup EndsOf(S) : m[a] = IF a \in D THEN l[a] ELSE e[a]
    BY <1>2 DEF Over
  <1>5. m = [a \in D \cup EndsOf(S) |-> IF a \in D THEN l[a] ELSE e[a]]
    BY <1>2 DEF Over
  <1>6. \A a \in D \cup EndsOf(S) : (IF a \in D THEN l[a] ELSE e[a]) \in Link
    BY <1>0, <1>1
  <1>7. m \in [D \cup EndsOf(S) -> Link]
    BY <1>5, <1>6
  <1>8. D \in SUBSET Nat
    BY DEF UserAddresses
  <1> HIDE DEF m
  <1> QED
    BY <1>1, <1>2, <1>3, <1>4, <1>7, <1>8 DEF m, Composed

\* What a process has stays sound when the ends of the lists of others change, come or go.
LEMMA OthersSound ==
  ASSUME NEW q, q \in Slots, NEW l, NEW S, NEW e, IsMemory(l, S, e), q \in S,
         NEW T, NEW A, NEW H, NEW I, Sound(q, T, A, Over(l, e), DOMAIN e, H, I),
         NEW R, NEW e1, IsMemory(l, R, e1), q \in R, SameBut(ListEnds(q), {}, e1, e)
  PROVE  Sound(q, T, A, Over(l, e1), DOMAIN e1, H, I)
  <1> DEFINE m == Over(l, e)
             r == Over(l, e1)
             E == EndsOf(S)
             F == EndsOf(R)
  <1>1. Composed(l, E, e, m)
    BY MemoryFacts
  <1>2. Composed(l, F, e1, r)
    BY MemoryFacts
  <1>10. DOMAIN r \in SUBSET Nat
    BY MemoryFacts
  <1>11. r \in [DOMAIN r -> Link]
    BY MemoryFacts
  <1>3. IsFiniteSet(F) /\ \A a \in F : PageOf(a) > NumPages + 1
    BY EndsFacts DEF IsMemory
  <1>4. ListEnds(q) \subseteq E /\ ListEnds(q) \subseteq F
    BY DEF EndsOf
  <1> HIDE DEF m, r, E, F
  <1>5. Sound(q, T, A, m, E, H, I)
    BY <1>1 DEF m, Composed
  <1>6. IsFiniteSet(DOMAIN r)
    <2>1. IsFiniteSet(DOMAIN m)
      BY <1>5 DEF Sound, Typed
    <2>2. IsFiniteSet(DOMAIN l)
      BY <2>1, <1>1, FS_Subset DEF Composed
    <2> QED
      <3>1. IsFiniteSet(DOMAIN l \cup F)
        BY <2>2, <1>3, FS_Union
      <3> QED
        BY <3>1, <1>2 DEF Composed
  <1>7. \A a \in (DOMAIN m \ E) \cup ListEnds(q) : r[a] = m[a]
    BY <1>1, <1>2, <1>4 DEF SameBut, Composed
  <1>8. DOMAIN r \ F = DOMAIN m \ E /\ F \subseteq DOMAIN r /\ ListEnds(q) \subseteq DOMAIN r
    BY <1>1, <1>2, <1>4 DEF Composed
  <1>9. Sound(q, T, A, r, F, H, I)
    BY <1>10, <1>11, <1>3, <1>5, <1>6, <1>7, <1>8, SoundSame
  <1> QED
    BY <1>9, <1>2 DEF r, Composed

\* After a step of p it sees the memory m, and the others see what they saw.
Kept(p, m) ==
  /\ links' \in [Slots -> Memories] /\ \A q \in Slots : q # p => links'[q] = links[q]
  /\ list_ends' \in [EndsOf(alive) -> Link]
  /\ Over(links'[p], list_ends') = m
  /\ SameBut(EndsOf(alive), ListEnds(p), list_ends', list_ends)

\* A step of p gives p these.
Gets(p, T, A, H, L, G, I) ==
  /\ alive' = alive
  /\ taken' = [taken EXCEPT ![p] = T] /\ arena' = [arena EXCEPT ![p] = A]
  /\ held' = [held EXCEPT ![p] = H] /\ lost' = [lost EXCEPT ![p] = L]
  /\ program' = [program EXCEPT ![p] = G] /\ inherited' = [inherited EXCEPT ![p] = I]

Becomes(p, T, A, m, H, L, G, I) == Gets(p, T, A, H, L, G, I) /\ Kept(p, m) /\ stop' = stop

\* What the invariant says of a process.
LEMMA FineFacts ==
  ASSUME HeapIInv, NEW p, p \in alive
  PROVE  /\ p \in Slots /\ DOMAIN list_ends = EndsOf(alive)
         /\ IsMemory(links[p], alive, list_ends)
         /\ Composed(links[p], EndsOf(alive), list_ends, Memory(p))
         /\ Sound(p, taken[p], arena[p], Memory(p), DOMAIN list_ends, held[p] \cup lost[p], inherited[p])
         /\ Occupied(arena[p], held[p] \cup lost[p])
         /\ Unmixed(taken[p], arena[p], held[p], lost[p], program[p], inherited[p])
  <1>1. HeapTypes /\ Fine(p) /\ p \in Slots
    BY DEF HeapIInv, HeapTypes
  <1>2. IsMemory(links[p], alive, list_ends)
    BY <1>1 DEF HeapTypes, IsMemory
  <1>3. Composed(links[p], EndsOf(alive), list_ends, Over(links[p], list_ends))
    BY <1>2, MemoryFacts
  <1>4. DOMAIN list_ends = EndsOf(alive)
    BY <1>3 DEF Composed
  <1> QED
    BY <1>1, <1>2, <1>3, <1>4 DEF Fine, Memory

\* A memory with the ends of all lists, and one in which the ends of the others' are as before.
WithEnds(m) ==
  /\ m \in [DOMAIN m -> Link]
  /\ DOMAIN list_ends \subseteq DOMAIN m /\ DOMAIN m \ DOMAIN list_ends \subseteq UserAddresses

Follows(p, m) == WithEnds(m) /\ \A a \in DOMAIN list_ends \ ListEnds(p) : m[a] = list_ends[a]

\* What is remembered of a memory as links of a process and ends of lists is that memory.
LEMMA RememberedTypes ==
  ASSUME HeapTypes, NEW p, p \in Slots, NEW m, WithEnds(m), Remembered(p, m)
  PROVE  /\ links' \in [Slots -> Memories] /\ \A q \in Slots : q # p => links'[q] = links[q]
         /\ list_ends' \in [EndsOf(alive) -> Link]
         /\ Over(links'[p], list_ends') = m
         /\ \A a \in EndsOf(alive) : list_ends'[a] = m[a]
  <1> DEFINE E == DOMAIN list_ends
             l == [a \in DOMAIN m \ E |-> m[a]]
             e == [a \in E |-> m[a]]
  <1>1. links' = [links EXCEPT ![p] = l] /\ list_ends' = e
    BY DEF Remembered
  <1>2. E = EndsOf(alive)
    BY DEF HeapTypes
  <1>3. m \in [DOMAIN m -> Link] /\ E \subseteq DOMAIN m /\ DOMAIN m \ E \subseteq UserAddresses
    BY DEF WithEnds
  <1>4. l \in Memories
    <2> DEFINE D == DOMAIN m \ E
    <2>1. \A a \in D : m[a] \in Link
      BY <1>3
    <2> HIDE DEF D
    <2>2. [a \in D |-> m[a]] \in [D -> Link]
      BY <2>1
    <2>3. D \in SUBSET UserAddresses
      BY <1>3 DEF D
    <2> QED
      BY <2>2, <2>3 DEF Memories, D
  <1>5. \A a \in E : m[a] \in Link
    BY <1>3
  <1>6. e \in [E -> Link]
    BY <1>5
  <1>7. Over(l, e) = m
    <2>1. DOMAIN l = DOMAIN m \ DOMAIN list_ends /\ \A a \in DOMAIN l : l[a] = m[a]
      OBVIOUS
    <2>2. DOMAIN e = DOMAIN list_ends /\ \A a \in DOMAIN list_ends : e[a] = m[a]
      OBVIOUS
    <2>3. m \in [DOMAIN m -> Link] /\ DOMAIN list_ends \subseteq DOMAIN m
      BY <1>3
    <2> HIDE DEF l, e, E
    <2> QED
      BY ONLY <2>1, <2>2, <2>3, OverParts
  <1>8. \A a \in E : e[a] = m[a]
    OBVIOUS
  <1> HIDE DEF E, l, e
  <1>9. links \in [Slots -> Memories]
    BY DEF HeapTypes
  <1>10. links' \in [Slots -> Memories] /\ links'[p] = l /\ \A q \in Slots : q # p => links'[q] = links[q]
    BY <1>1, <1>4, <1>9
  <1> QED
    BY <1>1, <1>2, <1>6, <1>7, <1>8, <1>10

\* Remembering it keeps what others see.
LEMMA RememberedKept ==
  ASSUME HeapIInv, NEW p, p \in alive, NEW m, Follows(p, m), Remembered(p, m)
  PROVE  Kept(p, m)
  <1>1. HeapTypes /\ p \in Slots /\ DOMAIN list_ends = EndsOf(alive)
    BY FineFacts DEF HeapIInv
  <1>2. WithEnds(m) /\ \A a \in DOMAIN list_ends \ ListEnds(p) : m[a] = list_ends[a]
    BY DEF Follows
  <1>3. /\ links' \in [Slots -> Memories] /\ \A q \in Slots : q # p => links'[q] = links[q]
        /\ list_ends' \in [EndsOf(alive) -> Link]
        /\ Over(links'[p], list_ends') = m
        /\ \A a \in EndsOf(alive) : list_ends'[a] = m[a]
    BY <1>1, <1>2, RememberedTypes
  <1> QED
    BY <1>1, <1>2, <1>3 DEF Kept, SameBut

\* If neither links nor ends change, what others see is kept.
LEMMA UnchangedKept ==
  ASSUME HeapIInv, NEW p, p \in alive, UNCHANGED <<links, list_ends>>
  PROVE  Kept(p, Memory(p))
  BY DEF HeapIInv, HeapTypes, Kept, SameBut, Memory

\* What a process gets has the right types.
Shaped(T, A, H, L, G, I) ==
  /\ T \subseteq Pages /\ I \subseteq T /\ A \in [Pages -> Header]
  /\ H \subseteq [at : Nat, size : RequestSizes] /\ L \subseteq [at : Nat, size : RequestSizes]
  /\ G \subseteq Segments

LEMMA TypesKeep ==
  ASSUME HeapTypes, NEW p, p \in Slots, NEW T, NEW A, NEW H, NEW L, NEW G, NEW I,
         Gets(p, T, A, H, L, G, I), Shaped(T, A, H, L, G, I),
         links' \in [Slots -> Memories], list_ends' \in [EndsOf(alive) -> Link],
         stop' \in {"no", "full", "fault", "overlaid", "mixed"}
  PROVE  HeapTypes'
  <1>1. /\ alive' = alive
        /\ taken' = [taken EXCEPT ![p] = T] /\ arena' = [arena EXCEPT ![p] = A]
        /\ held' = [held EXCEPT ![p] = H] /\ lost' = [lost EXCEPT ![p] = L]
        /\ program' = [program EXCEPT ![p] = G] /\ inherited' = [inherited EXCEPT ![p] = I]
    BY DEF Gets
  <1>2. /\ T \in SUBSET Pages /\ I \in SUBSET Pages /\ I \subseteq T /\ A \in [Pages -> Header]
        /\ H \in SUBSET [at : Nat, size : RequestSizes] /\ L \in SUBSET [at : Nat, size : RequestSizes]
        /\ G \in SUBSET Segments
    BY DEF Shaped
  <1>3. /\ taken' \in [Slots -> SUBSET Pages] /\ inherited' \in [Slots -> SUBSET Pages]
        /\ arena' \in [Slots -> [Pages -> Header]]
    BY <1>1, <1>2 DEF HeapTypes
  <1>4. /\ held' \in [Slots -> SUBSET [at : Nat, size : RequestSizes]]
        /\ lost' \in [Slots -> SUBSET [at : Nat, size : RequestSizes]]
        /\ program' \in [Slots -> SUBSET Segments]
    BY <1>1, <1>2 DEF HeapTypes
  <1>5. \A q \in Slots : inherited'[q] \subseteq taken'[q]
    BY <1>1, <1>2 DEF HeapTypes
  <1> QED
    BY <1>1, <1>3, <1>4, <1>5 DEF HeapTypes

\* When what a process gets is sound, the heaps stay sound.
LEMMA StepKeeps ==
  ASSUME HeapIInv, NEW p, p \in alive, NEW T, NEW A, NEW m, NEW H, NEW L, NEW G, NEW I,
         Becomes(p, T, A, m, H, L, G, I), Sound(p, T, A, m, DOMAIN list_ends, H \cup L, I),
         Occupied(A, H \cup L), Unmixed(T, A, H, L, G, I)
  PROVE  HeapIInv'
  <1>1. HeapTypes /\ stop \in {"no", "full"} /\ p \in Slots /\ \A q \in Slots \ alive : Gone(q)
    BY DEF HeapIInv, HeapTypes
  <1>2. Kept(p, m) /\ Gets(p, T, A, H, L, G, I) /\ stop' = stop
    BY DEF Becomes
  <1>3. Shaped(T, A, H, L, G, I)
    BY DEF Sound, Typed, Unmixed, Shaped
  <1>4. /\ alive' = alive
        /\ taken' = [taken EXCEPT ![p] = T] /\ arena' = [arena EXCEPT ![p] = A]
        /\ held' = [held EXCEPT ![p] = H] /\ lost' = [lost EXCEPT ![p] = L]
        /\ program' = [program EXCEPT ![p] = G] /\ inherited' = [inherited EXCEPT ![p] = I]
    BY <1>2 DEF Gets
  <1>5. HeapTypes'
    <2>1. links' \in [Slots -> Memories] /\ list_ends' \in [EndsOf(alive) -> Link]
      BY <1>2 DEF Kept
    <2> QED
      BY <2>1, <1>1, <1>2, <1>3, TypesKeep
  <1>6. \A q \in Slots : q # p => /\ taken'[q] = taken[q] /\ arena'[q] = arena[q] /\ held'[q] = held[q]
                                  /\ lost'[q] = lost[q] /\ program'[q] = program[q] /\ inherited'[q] = inherited[q]
                                  /\ links'[q] = links[q]
    BY <1>1, <1>2, <1>4 DEF HeapTypes, Kept
  <1>7. DOMAIN list_ends = EndsOf(alive) /\ DOMAIN list_ends' = EndsOf(alive)
    BY <1>2, FineFacts DEF Kept
  <1>8. Fine(p)'
    <2>1. /\ taken'[p] = T /\ arena'[p] = A /\ held'[p] = H /\ lost'[p] = L /\ program'[p] = G /\ inherited'[p] = I
      BY <1>1, <1>4 DEF HeapTypes
    <2>2. Over(links'[p], list_ends') = m
      BY <1>2 DEF Kept
    <2>3. Sound(p, taken'[p], arena'[p], Over(links'[p], list_ends'), DOMAIN list_ends', held'[p] \cup lost'[p], inherited'[p])
      BY <2>1, <2>2, <1>7
    <2>4. Occupied(arena'[p], held'[p] \cup lost'[p]) /\ Unmixed(taken'[p], arena'[p], held'[p], lost'[p], program'[p], inherited'[p])
      BY <2>1
    <2> QED
      BY <2>3, <2>4 DEF Fine
  <1>9. ASSUME NEW q, q \in alive, q # p
        PROVE  Fine(q)'
    <2>1. q \in Slots /\ Fine(q)
      BY <1>1, <1>9 DEF HeapIInv, HeapTypes
    <2>2. IsMemory(links[q], alive, list_ends) /\ IsMemory(links[q], alive, list_ends')
      BY <2>1, <1>1, <1>2 DEF IsMemory, Kept, HeapTypes
    <2>3. SameBut(ListEnds(q), {}, list_ends', list_ends)
      <3>1. ListEnds(q) \cap EndsOf({p}) = {}
        BY <1>1, <1>9, <2>1, EndsFacts
      <3>2. ListEnds(q) \cap ListEnds(p) = {} /\ ListEnds(q) \subseteq EndsOf(alive)
        BY <3>1, <1>9 DEF EndsOf
      <3> QED
        BY <3>2, <1>2 DEF Kept, SameBut
    <2>4. Sound(q, taken[q], arena[q], Over(links[q], list_ends), DOMAIN list_ends, held[q] \cup lost[q], inherited[q])
      BY <2>1 DEF Fine
    <2>5. Sound(q, taken[q], arena[q], Over(links[q], list_ends'), DOMAIN list_ends', held[q] \cup lost[q], inherited[q])
      BY <2>1, <2>2, <2>3, <2>4, <1>9, OthersSound
    <2>6. Sound(q, taken'[q], arena'[q], Over(links'[q], list_ends'), DOMAIN list_ends', held'[q] \cup lost'[q], inherited'[q])
      BY <2>1, <2>5, <1>6, <1>9
    <2>7. Occupied(arena'[q], held'[q] \cup lost'[q]) /\ Unmixed(taken'[q], arena'[q], held'[q], lost'[q], program'[q], inherited'[q])
      BY <2>1, <1>6, <1>9 DEF Fine
    <2> QED
      BY <2>6, <2>7 DEF Fine
  <1>10. ASSUME NEW q, q \in Slots \ alive
         PROVE  Gone(q)'
    BY <1>1, <1>6, <1>10 DEF Gone
  <1> QED
    BY <1>1, <1>2, <1>4, <1>5, <1>8, <1>9, <1>10 DEF HeapIInv

\* A call that finds no page keeps the invariant.
LEMMA HaltsKeeps ==
  ASSUME HeapIInv, Halts("full")
  PROVE  HeapIInv'
  BY DEF HeapIInv, Halts, HeapTypes, Fine, Gone, Memory

\* A step that changes nothing keeps the invariant.
LEMMA StutterKeeps ==
  ASSUME HeapIInv, UNCHANGED heapVars
  PROVE  HeapIInv'
  BY DEF HeapIInv, heapVars, HeapTypes, Fine, Gone, Memory

\* The pages of a large request have room for it and the header.
LEMMA PagesForFacts ==
  ASSUME NEW size, size \in RequestSizes
  PROVE  /\ PagesFor(size) \in Nat /\ PagesFor(size) > 0
         /\ size + ArenaSize <= PagesFor(size) * PG_SIZE
  <1> DEFINE y == size + ArenaSize + PG_SIZE - 1
             n == PageOf(y)
  <1>1. size \in Nat /\ size > 0 /\ PG_SIZE \in Nat /\ PG_SIZE > 0 /\ ArenaSize \in Nat
    BY HeapConstants
  <1>2. y \in Nat /\ y >= 1 * PG_SIZE /\ size + ArenaSize = y - PG_SIZE + 1
    BY <1>1
  <1>3. PagesFor(size) = n
    BY DEF PagesFor, PageOf
  <1> HIDE DEF y, n
  <1>4. n \in Nat /\ y % PG_SIZE \in 0..PG_SIZE - 1 /\ y = PG_SIZE * n + (y % PG_SIZE)
    BY <1>2, PageDivision DEF n
  <1>5. n >= 1
    BY <1>2, PageBound DEF n
  <1>6. PG_SIZE * n = n * PG_SIZE /\ n * PG_SIZE \in Nat
    BY <1>1, <1>4
  <1> QED
    BY <1>1, <1>2, <1>3, <1>4, <1>5, <1>6

\* A new arena on pages of its own leaves the program clear.
LEMMA NewUnmixed ==
  ASSUME NEW p, p \in Slots, NEW T, NEW A, NEW m, NEW E, NEW K, NEW I, Sound(p, T, A, m, E, K, I),
         NEW H, NEW L, NEW G, Unmixed(T, A, H, L, G, I),
         NEW page, page \in Pages, page \notin T, NEW T1, T \subseteq T1,
         NEW A1, OtherHeaders(A1, A, page), Span(A1, page) \cap T = {},
         NEW H1, \A h \in H1 : h \notin L /\ Usable(H, L, I, h.at)
  PROVE  Unmixed(T1, A1, H1, L, G, I)
  <1>1. \A other \in Pages : other # page =>
          A1[other] = A[other] /\ (SmallOn(A1, other) <=> SmallOn(A, other)) /\ Span(A1, other) = Span(A, other)
    BY NewHeader
  <1>2. \A s \in G : PagesOf(s) \subseteq T1
    BY DEF Unmixed
  <1>3. \A other \in Pages : A1[other] # NoArena =>
          SameArena(A1, A, other) \/ (other \notin T /\ Span(A1, other) \cap T = {})
    BY <1>1 DEF SameArena
  <1>4. StaysUnmixed(T1, A1, H1, I, T, A, H, L, G, I)
    BY <1>2, <1>3 DEF StaysUnmixed
  <1> QED
    BY <1>4, ClearKept

\* So does an arena that has other blocks than before.
LEMMA RecountedUnmixed ==
  ASSUME NEW p, p \in Slots, NEW T, NEW A, NEW m, NEW E, NEW K, NEW I, Sound(p, T, A, m, E, K, I),
         NEW H, NEW L, NEW G, Unmixed(T, A, H, L, G, I),
         NEW page, page \in Pages, SmallOn(A, page), NEW A1, Recounted(A1, A, page),
         NEW H1, \A h \in H1 : h \notin L /\ Usable(H, L, I, h.at)
  PROVE  Unmixed(T, A1, H1, L, G, I)
  <1>1. \A other \in Pages :
          /\ SmallOn(A1, other) <=> SmallOn(A, other)
          /\ Span(A1, other) = Span(A, other) /\ A1[other].list = A[other].list
          /\ A1[other] = NoArena <=> A[other] = NoArena
    BY RecountedPages
  <1>2. \A s \in G : PagesOf(s) \subseteq T
    BY DEF Unmixed
  <1>3. \A other \in Pages : A1[other] # NoArena => SameArena(A1, A, other)
    BY <1>1 DEF SameArena
  <1>4. StaysUnmixed(T, A1, H1, I, T, A, H, L, G, I)
    BY <1>2, <1>3 DEF StaysUnmixed
  <1> QED
    BY <1>4, ClearKept

\* So does giving back the pages of an arena without a block that is lost.
LEMMA DroppedUnmixed ==
  ASSUME NEW p, p \in Slots, NEW T, NEW A, NEW m, NEW E, NEW K, NEW I, Sound(p, T, A, m, E, K, I),
         NEW H, NEW L, NEW G, Unmixed(T, A, H, L, G, I),
         NEW page, page \in Pages, A[page] # NoArena, \A g \in L : PageOf(g.at) # page,
         NEW T1, T1 = T \ Span(A, page), NEW I1, I1 = I \ Span(A, page),
         NEW A1, OtherHeaders(A1, A, page), A1[page] = NoArena, NEW H1, H1 \subseteq H
  PROVE  Unmixed(T1, A1, H1, L, G, I1)
  <1>1. T \subseteq Pages /\ A \in [Pages -> Header] /\ Arenas(p, T, A, I)
    BY DEF Sound, Typed
  <1>2. \A s \in G : PagesOf(s) \subseteq T1
    <2> SUFFICES ASSUME NEW s, s \in G PROVE PagesOf(s) \subseteq T1
      OBVIOUS
    <2>1. PagesOf(s) \subseteq T /\ OnLost(A, L, s)
      BY DEF Unmixed
    <2>2. Span(A, page) \cap PagesOf(s) = {}
      BY <2>1 DEF OnLost
    <2> QED
      BY <2>1, <2>2
  <1>3. ASSUME NEW other, other \in Pages, other # page
        PROVE  /\ A1[other] = A[other] /\ Span(A1, other) = Span(A, other)
               /\ SmallOn(A1, other) <=> SmallOn(A, other)
    <2>1. A1[other] = A[other]
      BY <1>3 DEF OtherHeaders
    <2> QED
      BY <2>1 DEF SmallOn, LargeOn, Span
  <1>4. \A other \in Pages : A1[other] # NoArena => SameArena(A1, A, other)
    BY <1>3 DEF SameArena
  <1>5. ASSUME NEW other, other \in Pages, SmallOn(A1, other), other \in I
        PROVE  other \in I1
    <2>1. other # page /\ A1[other] # NoArena
      BY <1>5 DEF SmallOn
    <2>2. A[other] # NoArena
      BY <2>1, <1>3, <1>5
    <2>3. other \in Span(A, other)
      BY <2>2, <1>1, <1>5, ArenaPage
    <2>4. other \notin Span(A, page)
      BY <2>1, <2>2, <2>3, <1>1, <1>5, SpansApart
    <2> QED
      BY <2>4, <1>5
  <1>6. \A h \in H1 : h \notin L /\ Usable(H, L, I, h.at)
    BY DEF Unmixed, Usable
  <1>7. StaysUnmixed(T1, A1, H1, I1, T, A, H, L, G, I)
    BY <1>2, <1>4, <1>5, <1>6 DEF StaysUnmixed
  <1> QED
    BY <1>7, ClearKept

\* What is held stays usable; a block may be held if it is on a page the process did not
\* inherit and no one has it.
LEMMA HeldUsable ==
  ASSUME NEW T, NEW A, NEW H, NEW L, NEW G, NEW I, Unmixed(T, A, H, L, G, I)
  PROVE  /\ \A h \in H : h \notin L /\ Usable(H, L, I, h.at)
         /\ \A g : PageOf(g.at) \notin I /\ (\A h \in L : h.at # g.at) => g \notin L /\ Usable(H, L, I, g.at)
  BY DEF Unmixed, Usable

\* sys_malloc of more than 1024 bytes keeps the invariant.
LEMMA MallocLargeKeeps ==
  ASSUME HeapIInv, NEW p, p \in alive, NEW size, size \in RequestSizes, MallocLarge(p, size)
  PROVE  HeapIInv'
  <1> DEFINE n == PagesFor(size)
             page == Scan(taken[p], n)
  <1>1. CASE taken[p] = Pages \/ (page # -1 /\ FramesUsed + n > Frames)
    <2>1. Halts("full")
      BY <1>1 DEF MallocLarge
    <2> QED
      BY <2>1, HaltsKeeps
  <1>2. CASE ~(taken[p] = Pages \/ (page # -1 /\ FramesUsed + n > Frames))
    <2> DEFINE T == taken[p]
               A == arena[p]
               m == Memory(p)
               H == held[p]
               L == lost[p]
               K == H \cup L
               G == program[p]
               I == inherited[p]
               g == [at |-> page * PG_SIZE + ArenaSize, size |-> size]
               T1 == T \cup page..page + n - 1
               A1 == [A EXCEPT ![page] = [list |-> NULL, cnt |-> n, large |-> TRUE]]
               H1 == H \cup {g}
               K1 == K \cup {g}
    <2>1. /\ page # -1 /\ T # Pages
          /\ taken' = [taken EXCEPT ![p] = T1]
          /\ arena' = [arena EXCEPT ![p] = A1]
          /\ held' = [held EXCEPT ![p] = H1]
          /\ UNCHANGED <<alive, links, list_ends, lost, program, inherited, stop>>
      BY <1>2 DEF MallocLarge, Gives
    <2>2. p \in Slots /\ Sound(p, T, A, m, DOMAIN list_ends, K, I) /\ Occupied(A, K) /\ Unmixed(T, A, H, L, G, I)
      BY FineFacts
    <2>3. /\ T \subseteq Pages /\ A \in [Pages -> Header] /\ I \subseteq T
      BY <2>2 DEF Sound, Typed
    <2>4. n \in Nat /\ n > 0 /\ size + ArenaSize <= n * PG_SIZE
      BY PagesForFacts
    <2>5. page \in Pages /\ page..page + n - 1 \subseteq Pages \ T
      BY <2>1, <2>3, <2>4, ScanFinds
    <2>6. page \in Nat /\ PG_SIZE \in Nat /\ ArenaSize \in Nat
      BY <2>5, PagesAre, HeapConstants
    <2>7. g \in [at : Nat, size : RequestSizes] /\ g.at = page * PG_SIZE + ArenaSize /\ g.size = size
      BY <2>6
    <2> HIDE DEF n, page, g
    <2>8. [list |-> NULL, cnt |-> n, large |-> TRUE] \in Header
      BY <2>4 DEF Header, NULL
    <2>9. OtherHeaders(A1, A, page) /\ A1[page] = [list |-> NULL, cnt |-> n, large |-> TRUE]
      BY <2>3, <2>5, <2>8 DEF OtherHeaders
    <2>10. /\ lost' = [lost EXCEPT ![p] = L] /\ program' = [program EXCEPT ![p] = G]
           /\ inherited' = [inherited EXCEPT ![p] = I]
      BY <2>1, <2>2 DEF HeapIInv, HeapTypes
    <2>11. Kept(p, m)
      BY <2>1, UnchangedKept
    <2>12. T1 = T \cup page..page + n - 1 /\ H1 = H \cup {g} /\ K1 = K \cup {g} /\ K1 = H1 \cup L /\ K = H \cup L
      OBVIOUS
    <2> HIDE DEF T1, A1, H1, K1, K
    <2>13. Becomes(p, T1, A1, m, H1, L, G, I)
      BY <2>1, <2>10, <2>11 DEF Becomes, Gets
    <2> HIDE DEF T, A, m, H, L, G, I
    <2>14. g.size + ArenaSize <= n * PG_SIZE
      BY <2>4, <2>7
    <2>17. GetsPages(T1, A1, K1, T, A, K, page, n, g)
      BY <2>4, <2>5, <2>7, <2>9, <2>12, <2>14 DEF GetsPages
    <2>15. Sound(p, T1, A1, m, DOMAIN list_ends, K1, I) /\ PageOf(g.at) = page
      BY <2>2, <2>17, NewLargeSound
    <2>16. Occupied(A1, K1)
      BY <2>2, <2>9, <2>12, <2>15 DEF Occupied, OtherHeaders
    <2>18. page \notin T
      <3>1. page \in page..page + n - 1
        BY <2>4, <2>6
      <3> QED
        BY <3>1, <2>5
    <2>19. LargeOn(A1, page) /\ A1[page].cnt = n
      BY <2>4, <2>9 DEF LargeOn, NoArena
    <2>20. Span(A1, page) \cap T = {}
      BY <2>5, <2>19 DEF Span
    <2>21. \A h \in L : h.at # g.at
      <3> SUFFICES ASSUME NEW h, h \in L PROVE h.at # g.at
        OBVIOUS
      <3>1. h \in K
        BY <2>12
      <3>2. PageOf(h.at) \in T
        BY <3>1, <2>2, HeldFacts
      <3> QED
        BY <3>2, <2>15, <2>18
    <2>22. \A h \in H1 : h \notin L /\ Usable(H, L, I, h.at)
      BY <2>2, <2>3, <2>12, <2>15, <2>18, <2>21, HeldUsable
    <2>24. T \subseteq T1
      BY <2>12
    <2>23. Unmixed(T1, A1, H1, L, G, I)
      BY <2>2, <2>5, <2>9, <2>18, <2>20, <2>22, <2>24, NewUnmixed
    <2> QED
      BY <2>12, <2>13, <2>15, <2>16, <2>23, StepKeeps
  <1> QED
    BY <1>1, <1>2

\* sys_free of whole pages keeps the invariant.
LEMMA FreeLargeKeeps ==
  ASSUME HeapIInv, NEW p, p \in alive, NEW h, h \in held[p], arena[p][PageOf(h.at)].large, Free(p, h)
  PROVE  HeapIInv'
  <1> DEFINE T == taken[p]
             A == arena[p]
             m == Memory(p)
             H == held[p]
             L == lost[p]
             K == H \cup L
             G == program[p]
             I == inherited[p]
             page == PageOf(h.at)
             S == page..page + A[page].cnt - 1
             T1 == T \ S
             I1 == I \ S
             A1 == [A EXCEPT ![page] = NoArena]
             H1 == H \ {h}
             K1 == K \ {h}
  <1>1. /\ taken' = [taken EXCEPT ![p] = T1] /\ inherited' = [inherited EXCEPT ![p] = I1]
        /\ arena' = [arena EXCEPT ![p] = A1] /\ held' = [held EXCEPT ![p] = H1]
        /\ UNCHANGED <<links, list_ends, stop>>
    BY DEF Free, FreeLarge, Unmap
  <1>2. UNCHANGED <<alive, lost, program>>
    BY DEF Free
  <1>3. p \in Slots /\ Sound(p, T, A, m, DOMAIN list_ends, K, I) /\ Occupied(A, K) /\ Unmixed(T, A, H, L, G, I)
    BY FineFacts
  <1>4. T \subseteq Pages /\ A \in [Pages -> Header]
    BY <1>3 DEF Sound, Typed
  <1>5. lost' = [lost EXCEPT ![p] = L] /\ program' = [program EXCEPT ![p] = G]
    BY <1>2, <1>3 DEF HeapIInv, HeapTypes
  <1>6. Kept(p, m)
    BY <1>1, UnchangedKept
  <1>7. Becomes(p, T1, A1, m, H1, L, G, I1)
    BY <1>1, <1>2, <1>5, <1>6 DEF Becomes, Gets
  <1>8. h \in H /\ h \in K /\ LargeOn(A, page) /\ page \in Pages
    <2>1. h \in H /\ h \in K /\ A[page].large
      OBVIOUS
    <2> HIDE DEF T, A, m, G, I, H, K
    <2>2. page \in Pages /\ A[page] # NoArena
      BY <1>3, <2>1, HeldFacts
    <2> QED
      BY <2>1, <2>2 DEF LargeOn
  <1>9. NoArena \in Header
    BY DEF NoArena, Header, NULL
  <1>10. OtherHeaders(A1, A, page) /\ A1[page] = NoArena
    BY <1>4, <1>8, <1>9 DEF OtherHeaders
  <1>11. /\ S = page..page + A[page].cnt - 1 /\ T1 = T \ S /\ I1 = I \ S /\ H1 = H \ {h} /\ K1 = K \ {h}
         /\ K = H \cup L /\ H1 \subseteq H
    OBVIOUS
  <1>12. page = PageOf(h.at)
    OBVIOUS
  <1> HIDE DEF T, A, m, H, L, K, G, I, page, S, T1, I1, A1, H1, K1
  <1>14. DropsPages(T1, A1, K1, I1, T, A, K, I, page, h)
    BY <1>8, <1>10, <1>11, <1>12 DEF DropsPages
  <1>13. Sound(p, T1, A1, m, DOMAIN list_ends, K1, I1) /\ Occupied(A1, K1)
    BY <1>3, <1>14, FreeLargeSound
  <1>15. \A g \in L : PageOf(g.at) # page
    <2> SUFFICES ASSUME NEW g, g \in L, PageOf(g.at) = page PROVE FALSE
      OBVIOUS
    <2>1. g \in K
      BY <1>11
    <2>2. g = h
      BY <2>1, <1>3, <1>8, <1>12, LargeAlone
    <2> QED
      BY <2>2, <1>3, <1>8 DEF Unmixed
  <1>16. Span(A, page) = S /\ A[page] # NoArena
    BY <1>8, <1>11 DEF Span, LargeOn
  <1>17. T1 = T \ Span(A, page) /\ I1 = I \ Span(A, page)
    BY <1>11, <1>16
  <1>18. Unmixed(T1, A1, H1, L, G, I1)
    BY <1>3, <1>8, <1>10, <1>11, <1>15, <1>16, <1>17, DroppedUnmixed
  <1>19. K1 = H1 \cup L
    BY <1>3, <1>8, <1>11 DEF Unmixed
  <1> QED
    BY <1>7, <1>13, <1>18, <1>19, StepKeeps

\* The program s is loaded: headers that it covers are gone, with what was on their pages.
Hit(A, s) == {page \in Pages : A[page] # NoArena /\ HeaderOf(page) \cap Extent(s) # {}}

LoadsProgram(T1, A1, r, L1, T, A, m, K, s) ==
  /\ T1 = T \cup PagesOf(s)
  /\ A1 \in [Pages -> Header]
  /\ \A page \in Pages : A1[page] = IF page \in Hit(A, s) THEN NoArena ELSE A[page]
  /\ r \in [DOMAIN r -> Link] /\ DOMAIN r = {a \in DOMAIN m : PageOf(a) \notin Hit(A, s)}
  /\ \A a \in DOMAIN r : r[a] = m[a]
  /\ L1 = {h \in K : PageOf(h.at) \notin Hit(A, s)}

OffFree(p, T, A, K, I, s) ==
  \A c \in Classes : \A b \in FreeOf(p, T, A, K, I, c) :
    Extent(s) \cap (BytesOf(b, c) \cup HeaderOf(PageOf(b))) = {}

\* What is left when a program is loaded is sound, if no free block and no header of an arena
\* with one is loaded over, and the program is clear of it.
LEMMA ExecSound ==
  ASSUME NEW p, p \in Slots, NEW T, NEW A, NEW m, NEW E, NEW K, NEW I, Sound(p, T, A, m, E, K, I),
         Occupied(A, K), NEW s, s \in Segments, OffFree(p, T, A, K, I, s),
         NEW T1, NEW A1, NEW r, NEW L1, LoadsProgram(T1, A1, r, L1, T, A, m, K, s)
  PROVE  Sound(p, T1, A1, r, E, L1, I) /\ Occupied(A1, L1) /\ Unmixed(T1, A1, {}, L1, {s}, I)
  <1> DEFINE hit == Hit(A, s)
             F == DOMAIN r
  <1>1. /\ T1 = T \cup PagesOf(s) /\ A1 \in [Pages -> Header]
        /\ r \in [F -> Link] /\ F = {a \in DOMAIN m : PageOf(a) \notin hit} /\ \A a \in F : r[a] = m[a]
        /\ L1 = {h \in K : PageOf(h.at) \notin hit}
    BY DEF LoadsProgram
  <1>2. \A page \in Pages : /\ page \in hit => A1[page] = NoArena
                            /\ page \notin hit => A1[page] = A[page]
    BY DEF LoadsProgram
  <1>3. \A page \in hit : page \in Pages /\ HeaderOf(page) \cap Extent(s) # {}
    BY DEF Hit
  <1>4. \A page \in Pages : A[page] # NoArena /\ page \notin hit => HeaderOf(page) \cap Extent(s) = {}
    BY DEF Hit
  <1> HIDE DEF hit
  <1>5. /\ Typed(T, A, m, E, K, I) /\ OnArenas(T, A, m, E) /\ Arenas(p, T, A, I)
        /\ Holdings(A, K) /\ Backed(A, m, K) /\ Counted(p, T, A, K, I) /\ Listed(p, T, A, m, K, I)
    BY DEF Sound
  <1>6. /\ T \subseteq Pages /\ I \subseteq T /\ A \in [Pages -> Header] /\ E \subseteq DOMAIN m
        /\ m \in [DOMAIN m -> Link] /\ DOMAIN m \in SUBSET Nat /\ IsFiniteSet(DOMAIN m)
        /\ K \subseteq [at : Nat, size : RequestSizes]
    BY <1>5 DEF Typed
  <1>7. \A page \in Pages : A1[page] # NoArena => page \notin hit /\ A1[page] = A[page]
    BY <1>2
  <1>8. \A page \in Pages : /\ SmallOn(A1, page) => SmallOn(A, page) /\ A1[page] = A[page]
                            /\ LargeOn(A1, page) => LargeOn(A, page) /\ A1[page] = A[page]
    BY <1>7 DEF SmallOn, LargeOn
  <1>9. \A a : PageOf(a) > NumPages + 1 => PageOf(a) \notin hit
    BY <1>3, PagesAre
  <1>10. E \subseteq F
    BY <1>1, <1>5, <1>6, <1>9 DEF OnArenas
  <1>11. F \subseteq DOMAIN m /\ IsFiniteSet(F) /\ F \in SUBSET Nat
    BY <1>1, <1>6, FS_Subset
  <1>12. Typed(T1, A1, r, E, L1, I)
    <2>1. T1 \subseteq Pages /\ I \subseteq T1 /\ L1 \subseteq [at : Nat, size : RequestSizes]
      BY <1>1, <1>6, SegmentPages
    <2> QED
      BY <2>1, <1>1, <1>10, <1>11 DEF Typed
  <1>13. OnArenas(T1, A1, r, E)
    <2>1. \A a \in E : PageOf(a) > NumPages + 1
      BY <1>5 DEF OnArenas
    <2>2. ASSUME NEW a, a \in F \ E
          PROVE  PageOf(a) \in T1 /\ SmallOn(A1, PageOf(a)) /\ BlockOf(A1, a)
      <3>1. PageOf(a) \in T /\ SmallOn(A, PageOf(a)) /\ BlockOf(A, a) /\ PageOf(a) \notin hit
        BY <2>2, <1>1, <1>5, <1>11 DEF OnArenas
      <3>2. A1[PageOf(a)] = A[PageOf(a)] /\ PageOf(a) \in T1
        BY <3>1, <1>1, <1>2, <1>6
      <3> QED
        BY <3>1, <3>2 DEF SmallOn, BlockOf
    <2> QED
      BY <2>1, <2>2 DEF OnArenas
  <1>14. Arenas(p, T1, A1, I)
    <2>1. ASSUME NEW page, page \in Pages, SmallOn(A1, page)
          PROVE  page \in T1 /\ OfClass(p, A1, I, page)
      <3>1. SmallOn(A, page) /\ A1[page] = A[page]
        BY <2>1, <1>8
      <3>2. page \in T /\ OfClass(p, A, I, page)
        BY <3>1, <2>1, <1>5 DEF Arenas
      <3> QED
        BY <3>1, <3>2, <1>1 DEF OfClass
    <2>2. ASSUME NEW page, page \in Pages, LargeOn(A1, page)
          PROVE  Alone(T1, A1, page)
      <3>1. LargeOn(A, page) /\ A1[page] = A[page]
        BY <2>2, <1>8
      <3>2. Alone(T, A, page)
        BY <3>1, <2>2, <1>5 DEF Arenas
      <3>3. page \in Nat /\ A[page].cnt \in Nat
        BY <2>2, <1>6, PagesAre DEF Header
      <3>4. ASSUME NEW other, other \in page + 1..page + A[page].cnt - 1
            PROVE  A1[other] = NoArena
        <4>1. other \in page..page + A[page].cnt - 1 /\ A[other] = NoArena
          BY <3>2, <3>3, <3>4 DEF Alone
        <4>2. other \in Pages
          BY <4>1, <3>2, <1>6 DEF Alone
        <4> QED
          BY <4>1, <4>2, <1>2
      <3> QED
        BY <3>1, <3>2, <3>4, <1>1 DEF Alone
    <2> QED
      BY <2>1, <2>2 DEF Arenas
  <1>15. \A h \in L1 : h \in K /\ PageOf(h.at) \in Pages /\ A1[PageOf(h.at)] = A[PageOf(h.at)] /\ PageOf(h.at) \notin hit
    BY <1>1, <1>2, <1>5 DEF Holdings
  <1>16. Holdings(A1, L1)
    <2>1. ASSUME NEW h, h \in L1
          PROVE  HeldSmall(A1, h) \/ HeldLarge(A1, h)
      <3>1. HeldSmall(A, h) \/ HeldLarge(A, h)
        BY <2>1, <1>5, <1>15 DEF Holdings
      <3> QED
        BY <3>1, <2>1, <1>15 DEF HeldSmall, HeldLarge, SmallOn, LargeOn
    <2>2. \A h, g \in L1 : h.at = g.at => h = g
      BY <1>5, <1>15 DEF Holdings
    <2> QED
      BY <2>1, <2>2, <1>15 DEF Holdings
  <1>17. Backed(A1, r, L1)
    <2> SUFFICES ASSUME NEW h, h \in L1, SmallOn(A1, PageOf(h.at)) PROVE h.at \in F
      BY DEF Backed
    <2>1. h \in K /\ SmallOn(A, PageOf(h.at)) /\ PageOf(h.at) \notin hit
      BY <1>15 DEF SmallOn
    <2>2. h.at \in DOMAIN m
      BY <2>1, <1>5 DEF Backed
    <2> QED
      BY <2>1, <2>2, <1>1
  \* The lists have the blocks they had.
  <1>18. ASSUME NEW c, c \in Classes, NEW page, page \in OwnArenas(p, T1, A1, I, c)
         PROVE  page \in OwnArenas(p, T, A, I, c) /\ page \notin hit /\ A1[page] = A[page]
    <2>1. page \in T1 /\ page \notin I /\ A1[page].list = ListHead(p, c) /\ page \in Pages
      BY <1>12, <1>18 DEF OwnArenas, Typed
    <2>2. ListHead(p, c) # NULL
      BY <1>18, HeadNotNull
    <2>3. A1[page] # NoArena
      BY <2>1, <2>2 DEF NoArena
    <2>4. page \notin hit /\ A1[page] = A[page]
      BY <2>1, <2>3, <1>7
    <2>5. page \in T
      BY <2>1, <2>3, <2>4, <1>5, <1>6, ArenaPage
    <2> QED
      BY <2>1, <2>4, <2>5 DEF OwnArenas
  <1>19. ASSUME NEW c, c \in Classes, NEW page, page \in OwnArenas(p, T, A, I, c), page \notin hit
         PROVE  page \in OwnArenas(p, T1, A1, I, c)
    BY <1>1, <1>2, <1>6, <1>19 DEF OwnArenas
  <1>20. ASSUME NEW c, c \in Classes, NEW page, page \in Pages, page \notin hit
         PROVE  FreeOn(L1, page, c) = FreeOn(K, page, c)
    <2>1. page \in Nat
      BY <1>20, PagesAre
    <2>2. \A b \in ToSet(BlocksIn(page, c)) : PageOf(b) = page
      BY <2>1, <1>20, ArenaBlocks
    <2>3. \A h \in K : h.at \in ToSet(BlocksIn(page, c)) => h \in L1
      BY <2>2, <1>1, <1>20
    <2>4. L1 \subseteq K
      BY <1>1
    <2> QED
      BY <2>3, <2>4 DEF FreeOn
  <1>21. ASSUME NEW c, c \in Classes, NEW b, b \in FreeOf(p, T, A, K, I, c)
         PROVE  /\ PageOf(b) \notin hit /\ BytesOf(b, c) \cap Extent(s) = {}
                /\ b \in FreeOf(p, T1, A1, L1, I, c)
    <2>1. /\ PageOf(b) \in OwnArenas(p, T, A, I, c) /\ b \in FreeOn(K, PageOf(b), c) /\ PageOf(b) \in Pages
          /\ SmallOn(A, PageOf(b))
      BY <1>5, <1>6, <1>21, FreeFacts
    <2>2. Extent(s) \cap (BytesOf(b, c) \cup HeaderOf(PageOf(b))) = {}
      BY <1>21 DEF OffFree
    <2>3. PageOf(b) \notin hit
      BY <2>2, <1>3
    <2>4. PageOf(b) \in OwnArenas(p, T1, A1, I, c) /\ b \in FreeOn(L1, PageOf(b), c)
      BY <2>1, <2>3, <1>19, <1>20, <1>21
    <2> QED
      BY <2>2, <2>3, <2>4 DEF FreeOf
  <1>22. ASSUME NEW c, c \in Classes
         PROVE  FreeOf(p, T1, A1, L1, I, c) = FreeOf(p, T, A, K, I, c)
    <2>1. ASSUME NEW b, b \in FreeOf(p, T1, A1, L1, I, c)
          PROVE  b \in FreeOf(p, T, A, K, I, c)
      <3>1. PICK page \in OwnArenas(p, T1, A1, I, c) : b \in FreeOn(L1, page, c)
        BY <2>1 DEF FreeOf
      <3>2. page \in OwnArenas(p, T, A, I, c) /\ page \notin hit
        BY <3>1, <1>18, <1>22
      <3>3. page \in Pages
        BY <3>2, <1>6 DEF OwnArenas
      <3>4. b \in FreeOn(K, page, c)
        BY <3>1, <3>2, <3>3, <1>20, <1>22
      <3> QED
        BY <3>2, <3>4 DEF FreeOf
    <2> QED
      BY <2>1, <1>21, <1>22
  <1>23. Counted(p, T1, A1, L1, I)
    <2> SUFFICES ASSUME NEW c \in Classes, NEW page \in OwnArenas(p, T1, A1, I, c)
                 PROVE  A1[page].cnt = Cardinality(FreeOn(L1, page, c))
      BY DEF Counted
    <2>1. page \in OwnArenas(p, T, A, I, c) /\ page \notin hit /\ A1[page] = A[page] /\ page \in Pages
      BY <1>6, <1>18 DEF OwnArenas
    <2>2. FreeOn(L1, page, c) = FreeOn(K, page, c)
      BY <2>1, <1>20
    <2> QED
      BY <2>1, <2>2, <1>5 DEF Counted
  <1>24. Listed(p, T1, A1, r, L1, I)
    <2> SUFFICES ASSUME NEW c \in Classes
                 PROVE  ListOf(F, r, ListHead(p, c), FreeOf(p, T, A, K, I, c))
      BY <1>22 DEF Listed
    <2> DEFINE head == ListHead(p, c)
               S == FreeOf(p, T, A, K, I, c)
    <2>1. ListOf(DOMAIN m, m, head, S)
      BY <1>5 DEF Listed
    <2>2. PageOf(head) > NumPages + 1 /\ PageOf(head + 1) > NumPages + 1
      BY Ends
    <2>3. \A b \in S : PageOf(b) \notin hit
      BY <1>21
    <2> HIDE DEF head, S
    <2>4. S \subseteq DOMAIN m /\ head \in DOMAIN m /\ head + 1 \in DOMAIN m
      BY <2>1, ListOfFacts
    <2>5. S \subseteq F /\ head \in F /\ head + 1 \in F
      BY <2>2, <2>3, <2>4, <1>1, <1>9
    <2>6. SameBut(F, {}, r, m)
      BY <1>1 DEF SameBut
    <2>7. r \in [F -> Link] /\ F \subseteq DOMAIN m
      BY <1>1, <1>11
    <2> HIDE DEF F
    <2>8. ListOf(F, r, head, S)
      BY <2>1, <2>5, <2>6, <2>7, ListOfPart
    <2> QED
      BY <2>8 DEF head, S
  <1>25. Sound(p, T1, A1, r, E, L1, I)
    BY <1>12, <1>13, <1>14, <1>16, <1>17, <1>23, <1>24 DEF Sound
  <1>26. Occupied(A1, L1)
    <2> SUFFICES ASSUME NEW page \in Pages, A1[page] # NoArena
                 PROVE  \E h \in L1 : PageOf(h.at) = page
      BY DEF Occupied
    <2>1. page \notin hit /\ A[page] # NoArena
      BY <1>7
    <2>2. PICK h \in K : PageOf(h.at) = page
      BY <2>1 DEF Occupied
    <2> QED
      BY <2>1, <2>2, <1>1
  <1>27. OffHeaders(A1, s)
    <2> SUFFICES ASSUME NEW page \in Pages, A1[page] # NoArena
                 PROVE  HeaderOf(page) \cap Extent(s) = {}
      BY DEF OffHeaders
    <2>1. page \notin hit /\ A[page] # NoArena
      BY <1>7
    <2> QED
      BY <2>1, <1>4
  <1>28. OnLost(A1, L1, s)
    BY <1>26 DEF OnLost, Occupied
  <1>29. OffBlocks(A1, {}, L1, I, s)
    <2> SUFFICES ASSUME NEW page \in Pages, NEW c \in Classes, NEW q \in Slots,
                        SmallOn(A1, page), A1[page].list = ListHead(q, c),
                        NEW b \in ToSet(BlocksIn(page, c)), Usable({}, L1, I, b)
                 PROVE  BytesOf(b, c) \cap Extent(s) = {}
      BY DEF OffBlocks
    <2>1. PageOf(b) = page
      BY PagesAre, ArenaBlocks
    <2>2. page \notin I /\ \A g \in L1 : g.at # b
      BY <2>1 DEF Usable
    <2>3. page \notin hit /\ SmallOn(A, page) /\ A1[page] = A[page]
      BY <1>7, <1>8 DEF SmallOn
    <2>4. page \in T /\ OfClass(p, A, I, page)
      BY <2>3, <1>5 DEF Arenas
    <2>5. PICK d \in Classes : A[page].list = ListHead(p, d)
      BY <2>2, <2>4 DEF OfClass
    <2>6. d = c
      <3>1. ListHead(p, d) = ListHead(q, c)
        BY <2>3, <2>5
      <3> QED
        BY <3>1, HeadsDiffer
    <2>7. page \in OwnArenas(p, T, A, I, c)
      BY <2>2, <2>4, <2>5, <2>6 DEF OwnArenas
    <2>8. b \in FreeOn(L1, page, c)
      BY <2>2 DEF FreeOn
    <2>9. b \in FreeOn(K, page, c)
      BY <2>3, <2>8, <1>20
    <2>10. b \in FreeOf(p, T, A, K, I, c)
      BY <2>7, <2>9 DEF FreeOf
    <2> QED
      BY <2>10, <1>21
  <1>30. Unmixed(T1, A1, {}, L1, {s}, I)
    BY <1>1, <1>27, <1>28, <1>29 DEF Unmixed
  <1> QED
    BY <1>25, <1>26, <1>30

\* Loading a program keeps the invariant, unless it is loaded over free blocks: then it
\* keeps the types.
LEMMA ExecKeeps ==
  ASSUME HeapIInv, NEW p, p \in alive, NEW s, s \in Segments, HeapExec(p, s)
  PROVE  HeapSafe'
  <1>1. CASE FramesUsed + Cardinality(PagesOf(s) \ taken[p]) > Frames
    <2>1. Halts("full")
      BY <1>1 DEF HeapExec
    <2> QED
      BY <2>1, HaltsKeeps DEF HeapSafe
  <1>2. CASE ~(FramesUsed + Cardinality(PagesOf(s) \ taken[p]) > Frames)
    <2> DEFINE T == taken[p]
               A == arena[p]
               m == Memory(p)
               H == held[p]
               L == lost[p]
               K == L \cup H
               I == inherited[p]
               l == links[p]
               hit == Hit(A, s)
               T1 == T \cup PagesOf(s)
               A1 == [page \in Pages |-> IF page \in hit THEN NoArena ELSE A[page]]
               l1 == Restrict(l, {a \in DOMAIN l : PageOf(a) \notin hit})
               L1 == {h \in K : PageOf(h.at) \notin hit}
               r == Over(l1, list_ends)
    <2>1. HeapTypes /\ stop \in {"no", "full"} /\ p \in Slots
      BY FineFacts DEF HeapIInv
    <2>2. /\ Sound(p, T, A, m, DOMAIN list_ends, K, I) /\ Occupied(A, K) /\ Unmixed(T, A, H, L, program[p], I)
          /\ Composed(l, EndsOf(alive), list_ends, m) /\ IsMemory(l, alive, list_ends)
          /\ DOMAIN list_ends = EndsOf(alive)
      <3>1. K = H \cup L
        OBVIOUS
      <3> HIDE DEF K
      <3> QED
        BY <3>1, FineFacts
    <2>3. /\ alive' = alive /\ taken' = [taken EXCEPT ![p] = T1] /\ program' = [program EXCEPT ![p] = {s}]
          /\ arena' = [arena EXCEPT ![p] = A1] /\ links' = [links EXCEPT ![p] = l1]
          /\ held' = [held EXCEPT ![p] = {}] /\ lost' = [lost EXCEPT ![p] = L1]
          /\ stop' = (IF Overlays(p, s) THEN "overlaid" ELSE stop)
          /\ UNCHANGED <<list_ends, inherited>>
      <3>1. hit = {page \in Pages : arena[p][page] # NoArena /\ HeaderOf(page) \cap Extent(s) # {}}
        BY DEF Hit
      <3> HIDE DEF hit
      <3> QED
        BY <1>2, <2>1, <3>1 DEF HeapExec, HeapTypes
    <2>4. inherited' = [inherited EXCEPT ![p] = I]
      BY <2>1, <2>3 DEF HeapTypes
    <2>5. Gets(p, T1, A1, {}, L1, {s}, I)
      BY <2>3, <2>4 DEF Gets
    <2>6. /\ T \subseteq Pages /\ I \subseteq T /\ A \in [Pages -> Header]
          /\ K \subseteq [at : Nat, size : RequestSizes]
      BY <2>2 DEF Sound, Typed
    <2>7. A1 \in [Pages -> Header] /\ \A page \in Pages : A1[page] = IF page \in hit THEN NoArena ELSE A[page]
      <3>1. NoArena \in Header
        BY DEF NoArena, Header, NULL
      <3> HIDE DEF hit, A
      <3> QED
        BY <3>1, <2>6
    <2>8. Shaped(T1, A1, {}, L1, {s}, I)
      <3>1. T1 \subseteq Pages /\ I \subseteq T1
        BY <2>6, SegmentPages
      <3>2. L1 \subseteq [at : Nat, size : RequestSizes]
        BY <2>6
      <3> HIDE DEF T1, L1, A1
      <3> QED
        BY <3>1, <3>2, <2>7 DEF Shaped
    <2>9. DOMAIN l1 = {a \in DOMAIN l : PageOf(a) \notin hit} /\ \A a \in DOMAIN l1 : l1[a] = l[a]
      BY DEF Restrict
    <2>10. l1 \in Memories
      <3>1. PICK D \in SUBSET UserAddresses : l \in [D -> Link]
        BY <2>2 DEF IsMemory, Memories
      <3> DEFINE F == {a \in D : PageOf(a) \notin hit}
      <3>2. DOMAIN l = D
        BY <3>1
      <3>3. l1 = [a \in F |-> l[a]]
        BY <3>2 DEF Restrict
      <3>4. F \in SUBSET UserAddresses /\ \A a \in F : l[a] \in Link
        BY <3>1
      <3> HIDE DEF F, l1
      <3>5. l1 \in [F -> Link]
        BY <3>3, <3>4
      <3> QED
        BY <3>4, <3>5 DEF Memories
    <2>11. links' \in [Slots -> Memories] /\ links'[p] = l1 /\ \A q \in Slots : q # p => links'[q] = links[q]
      <3> HIDE DEF l1
      <3> QED
        BY <2>1, <2>3, <2>10 DEF HeapTypes
    <2>12. list_ends' = list_ends /\ list_ends' \in [EndsOf(alive) -> Link]
      BY <2>1, <2>3 DEF HeapTypes
    <2>13. CASE Overlays(p, s)
      <3>1. stop' = "overlaid"
        BY <2>3, <2>13
      <3> HIDE DEF T1, A1, L1
      <3>2. HeapTypes'
        BY <2>1, <2>5, <2>8, <2>11, <2>12, <3>1, TypesKeep
      <3> QED
        BY <3>1, <3>2 DEF HeapSafe
    <2>14. CASE ~Overlays(p, s)
      <3>1. OffFree(p, T, A, K, I, s)
        <4> SUFFICES ASSUME NEW c \in Classes, NEW b \in FreeOf(p, T, A, K, I, c)
                     PROVE  Extent(s) \cap (BytesOf(b, c) \cup HeaderOf(PageOf(b))) = {}
          BY DEF OffFree
        <4>1. ListOf(DOMAIN m, m, ListHead(p, c), FreeOf(p, T, A, K, I, c)) /\ IsFiniteSet(DOMAIN m)
          BY <2>2 DEF Sound, Typed, Listed
        <4>2. b \in Walk(Memory(p), ListHead(p, c))
          <5> HIDE DEF T, A, K, I
          <5> QED
            BY <4>1, WalkMeets
        <4> QED
          BY <4>2, <2>14 DEF Overlays
      <3>2. IsMemory(l1, alive, list_ends)
        BY <2>2, <2>10 DEF IsMemory
      <3>3. /\ Composed(l1, EndsOf(alive), list_ends, r) /\ r \in [DOMAIN r -> Link]
        <4> HIDE DEF l1
        <4> QED
          BY <3>2, MemoryFacts
      <3>4. DOMAIN r = {a \in DOMAIN m : PageOf(a) \notin hit} /\ \A a \in DOMAIN r : r[a] = m[a]
        <4>1. \A a \in EndsOf(alive) : PageOf(a) \notin hit
          <5>1. \A a \in EndsOf(alive) : PageOf(a) > NumPages + 1
            BY <2>1, EndsFacts DEF HeapTypes
          <5> QED
            BY <5>1, PagesAre DEF Hit
        <4> HIDE DEF l1, r, m, l, hit
        <4>2. DOMAIN m = DOMAIN l \cup EndsOf(alive) /\ \A a \in DOMAIN l : m[a] = l[a]
          BY <2>2 DEF Composed
        <4>3. DOMAIN r = DOMAIN l1 \cup EndsOf(alive) /\ \A a \in DOMAIN l1 : r[a] = l1[a]
          BY <3>3 DEF Composed
        <4>4. \A a \in EndsOf(alive) : r[a] = m[a]
          BY <2>2, <3>3 DEF Composed
        <4> QED
          BY <4>1, <4>2, <4>3, <4>4, <2>9
      <3>5. LoadsProgram(T1, A1, r, L1, T, A, m, K, s)
        <4>1. T1 = T \cup PagesOf(s) /\ L1 = {h \in K : PageOf(h.at) \notin Hit(A, s)} /\ hit = Hit(A, s)
          OBVIOUS
        <4> HIDE DEF T1, A1, L1, r, m, T, K, A, hit
        <4> QED
          BY <4>1, <2>7, <3>3, <3>4 DEF LoadsProgram
      <3>6. Kept(p, r)
        <4>1. r = Over(l1, list_ends)
          OBVIOUS
        <4> HIDE DEF r, l1
        <4>2. Over(links'[p], list_ends') = r
          BY <4>1, <2>11, <2>12
        <4>3. SameBut(EndsOf(alive), ListEnds(p), list_ends', list_ends)
          BY <2>12 DEF SameBut
        <4> QED
          BY <4>2, <4>3, <2>11, <2>12 DEF Kept
      <3>7. stop' = stop
        BY <2>3, <2>14
      <3> HIDE DEF T1, A1, L1, r, m, T, K, A, I, l1, l, hit
      <3>8. Becomes(p, T1, A1, r, {}, L1, {s}, I)
        BY <2>5, <3>6, <3>7 DEF Becomes
      <3>9. Sound(p, T1, A1, r, DOMAIN list_ends, L1, I) /\ Occupied(A1, L1) /\ Unmixed(T1, A1, {}, L1, {s}, I)
        BY <2>1, <2>2, <3>1, <3>5, ExecSound
      <3>10. {} \cup L1 = L1
        OBVIOUS
      <3>11. HeapIInv'
        BY <3>8, <3>9, <3>10, StepKeeps
      <3> QED
        BY <3>11 DEF HeapSafe
    <2> QED
      BY <2>13, <2>14
  <1> QED
    BY <1>1, <1>2

\* The block b is off its list and held.
TakesBlock(r, A1, H1, m, A, H, b, size) ==
  /\ r = [Unlink(m, b) EXCEPT ![b] = NoLink]
  /\ A1 = [A EXCEPT ![PageOf(b)].cnt = @ - 1]
  /\ H1 = H \cup {[at |-> b, size |-> size]}

\* All arenas but the one on page have blocks that are held.
OccupiedBut(A, H, page) ==
  \A other \in Pages : other # page /\ A[other] # NoArena => \E h \in H : PageOf(h.at) = other

\* Taking the first block of a list that is not empty leaves the process sound.
LEMMA TakesBlockSound ==
  ASSUME NEW p, p \in Slots, NEW T, NEW A, NEW m, NEW E, NEW H, NEW I, Sound(p, T, A, m, E, H, I),
         NEW c, c \in Classes, FreeOf(p, T, A, H, I, c) # {},
         NEW b, b = m[ListHead(p, c)].next, NEW size, size \in RequestSizes, size <= BlockSizes[c],
         NEW r, NEW A1, NEW H1, TakesBlock(r, A1, H1, m, A, H, b, size)
  PROVE  /\ Sound(p, T, A1, r, E, H1, I) /\ OtherEnds(p, c, r, m)
         /\ Linked(m, b) /\ b \in FreeOf(p, T, A, H, I, c)
         /\ OccupiedBut(A, H, PageOf(b)) => Occupied(A1, H1)
         /\ PageOf(b) \in Pages /\ SmallOn(A, PageOf(b)) /\ Recounted(A1, A, PageOf(b))
  <1> DEFINE g == [at |-> b, size |-> size]
             page == PageOf(b)
  <1>1. /\ r = [Unlink(m, b) EXCEPT ![b] = NoLink]
        /\ A1 = [A EXCEPT ![page].cnt = @ - 1]
        /\ H1 = H \cup {g}
    BY DEF TakesBlock
  <1>2. /\ Linked(m, b) /\ b \in FreeOf(p, T, A, H, I, c) /\ b \in DOMAIN m /\ b \in Nat
        /\ page \in Pages /\ A[page].cnt - 1 \in Nat /\ SmallOn(A, page)
        /\ Unlink(m, b) \in [DOMAIN m -> Link]
    BY FirstBlock
  <1>3. g \in [at : Nat, size : RequestSizes] /\ g.at = b /\ g.size = size
    BY <1>2
  <1>4. NoLink \in Link
    BY DEF NoLink, Link, NULL
  <1>5. r \in [DOMAIN m -> Link] /\ SameBut(DOMAIN m, {b}, r, Unlink(m, b))
    <2> DEFINE u == Unlink(m, b)
    <2>1. u \in [DOMAIN m -> Link] /\ r = [u EXCEPT ![b] = NoLink]
      BY <1>1, <1>2
    <2> HIDE DEF u
    <2>2. r \in [DOMAIN m -> Link] /\ \A a \in DOMAIN m \ {b} : r[a] = u[a]
      BY <2>1, <1>2, <1>4
    <2> QED
      BY <2>2 DEF SameBut, u
  <1>6. A \in [Pages -> Header]
    BY DEF Sound, Typed
  <1>7. Recounted(A1, A, page) /\ A1[page].cnt = A[page].cnt - 1
    <2> HIDE DEF page
    <2>1. A[page] \in Header
      BY <1>2, <1>6
    <2>2. A1[page].list = A[page].list /\ A1[page].large = A[page].large /\ A1[page].cnt = A[page].cnt - 1
      BY <2>1, <1>1, <1>2, <1>6 DEF Header
    <2>3. A1[page] \in Header
      BY <2>1, <1>1, <1>2, <1>6 DEF Header
    <2>4. \A other \in Pages : other # page => A1[other] = A[other]
      BY <1>1, <1>6
    <2>5. A1 \in [Pages -> Header]
      BY <2>3, <2>4, <1>1, <1>6
    <2> QED
      BY <2>2, <2>4, <2>5 DEF Recounted, OtherHeaders
  <1>8. g.size <= BlockSizes[c] /\ H1 = H \cup {g}
    BY <1>1, <1>3
  <1> HIDE DEF g
  <1>11. GivesBlock(r, A1, H1, m, A, H, c, b, g)
    BY <1>3, <1>5, <1>7, <1>8 DEF GivesBlock
  <1>9. Sound(p, T, A1, r, E, H1, I) /\ OtherEnds(p, c, r, m) /\ SameArenas(A1, A)
    BY <1>11, TakeBlockSound
  <1>10. OccupiedBut(A, H, page) => Occupied(A1, H1)
    BY <1>3, <1>8, <1>9 DEF OccupiedBut, Occupied, SameArenas
  <1> QED
    BY <1>2, <1>7, <1>9, <1>10

-----------------------------------------------------------------------------
\* The actions.

\* With a free page left, bitmap_scan for one page finds a free page.
LEMMA ScanOne ==
  ASSUME NEW used, used \subseteq Pages, used # Pages
  PROVE  Scan(used, 1) \in Pages /\ Scan(used, 1) \notin used
  <1> DEFINE n == 1
             page == Scan(used, n)
  <1>1. n \in Nat /\ n > 0 /\ n = 1 /\ page = Scan(used, 1)
    OBVIOUS
  <1> HIDE DEF n, page
  <1>2. page # -1
    BY <1>1, ScanFinds DEF page
  <1>3. page \in Pages /\ page..page + n - 1 \subseteq Pages \ used
    BY <1>1, <1>2, ScanFinds DEF page
  <1>4. page \in page..page + n - 1
    BY <1>1, <1>3, PagesAre
  <1> QED
    BY <1>1, <1>3, <1>4

\* In a sound process the memory it sees changes no ends of lists but its own.
LEMMA SoundFollows ==
  ASSUME NEW p, p \in Slots, NEW T, NEW A, NEW m, NEW E, NEW H, NEW I, Sound(p, T, A, m, E, H, I),
         NEW c, c \in Classes, NEW l, NEW S, NEW e, p \in S, IsMemory(l, S, e), E = DOMAIN e,
         OtherEnds(p, c, m, Over(l, e))
  PROVE  /\ m \in [DOMAIN m -> Link]
         /\ DOMAIN e \subseteq DOMAIN m /\ DOMAIN m \ DOMAIN e \subseteq UserAddresses
         /\ \A a \in DOMAIN e \ ListEnds(p) : m[a] = e[a]
  <1>1. Typed(T, A, m, E, H, I) /\ OnArenas(T, A, m, E)
    BY DEF Sound
  <1>2. m \in [DOMAIN m -> Link] /\ DOMAIN e \subseteq DOMAIN m /\ DOMAIN m \in SUBSET Nat /\ T \subseteq Pages
    BY <1>1 DEF Typed
  <1>3. DOMAIN m \ DOMAIN e \subseteq UserAddresses
    BY <1>1, <1>2 DEF OnArenas, UserAddresses
  <1>4. Composed(l, EndsOf(S), e, Over(l, e))
    BY MemoryFacts
  <1>5. ASSUME NEW a, a \in DOMAIN e, a \notin ListEnds(p)
        PROVE  m[a] = e[a]
    <2>1. a \in DOMAIN Over(l, e) /\ Over(l, e)[a] = e[a]
      BY <1>4, <1>5 DEF Composed
    <2>2. a # ListHead(p, c) /\ a # ListHead(p, c) + 1
      BY <1>5 DEF ListEnds, ListTail
    <2>3. PageOf(a) \notin Pages
      BY <1>1, <1>5, PagesAre DEF OnArenas
    <2> QED
      BY <2>1, <2>2, <2>3, <1>2, <1>5 DEF OtherEnds
  <1> QED
    BY <1>2, <1>3, <1>5

\* Two changes that leave the lists of others alone do so together.
LEMMA EndsChain ==
  ASSUME NEW p, NEW c, NEW m, NEW m0, NEW r, OtherEnds(p, c, m0, m), OtherEnds(p, c, r, m0),
         DOMAIN m \subseteq DOMAIN m0
  PROVE  OtherEnds(p, c, r, m)
  BY DEF OtherEnds

\* sys_malloc of a block.
LEMMA MallocSmallKeeps ==
  ASSUME HeapIInv, stop = "no", NEW p, p \in alive, NEW size, size \in RequestSizes, Small(size), MallocSmall(p, size)
  PROVE  HeapIInv'
  <1> DEFINE T == taken[p]
             A == arena[p]
             M == Memory(p)
             H == held[p]
             L == lost[p]
             K == H \cup L
             G == program[p]
             I == inherited[p]
             E == DOMAIN list_ends
             c == ClassFor(size)
             head == ListHead(p, c)
             empty == list_ends[head].next = ListTail(p, c)
             page == Scan(T, 1)
             m == IF empty THEN NewArena(p, head, page, c) ELSE M
             b == m[head].next
             heads == IF empty THEN [A EXCEPT ![page] = [list |-> head, cnt |-> PerArena(c), large |-> FALSE]] ELSE A
  <1>1. CASE empty /\ (T = Pages \/ FramesUsed = Frames)
    <2>1. Halts("full")
      BY <1>1 DEF MallocSmall
    <2> QED
      BY <2>1, HaltsKeeps
  <1>2. CASE ~(empty /\ (T = Pages \/ FramesUsed = Frames))
    <2> DEFINE r == [Unlink(m, b) EXCEPT ![b] = NoLink]
               T1 == IF empty THEN T \cup {page} ELSE T
               A1 == [heads EXCEPT ![PageOf(b)].cnt = @ - 1]
               H1 == H \cup {[at |-> b, size |-> size]}
               K1 == K \cup {[at |-> b, size |-> size]}
    <2>1. p \in Slots /\ Sound(p, T, A, M, E, K, I) /\ Occupied(A, K) /\ Composed(links[p], EndsOf(alive), list_ends, M)
          /\ IsMemory(links[p], alive, list_ends) /\ E = EndsOf(alive)
          /\ Unmixed(T, A, H, L, G, I)
      BY FineFacts
    <2>2. c \in Classes /\ size <= BlockSizes[c]
      BY ClassFound
    <2>3. T \subseteq Pages /\ A \in [Pages -> Header] /\ Listed(p, T, A, M, K, I)
      BY <2>1 DEF Sound, Typed
    <2>4. empty <=> FreeOf(p, T, A, K, I, c) = {}
      <3>1. ListOf(DOMAIN M, M, head, FreeOf(p, T, A, K, I, c))
        BY <2>2, <2>3 DEF Listed
      <3>2. head \in E
        BY <2>1, <2>2 DEF EndsOf, ListEnds
      <3>3. M[head] = list_ends[head]
        BY <2>1, <3>2 DEF Composed
      <3>4. ListTail(p, c) = head + 1
        BY DEF ListTail
      <3> HIDE DEF M, T, A, K, I, c, head
      <3>5. FreeOf(p, T, A, K, I, c) = {} <=> M[head].next = head + 1
        BY <3>1, ListOfFacts
      <3> QED
        BY <3>3, <3>4, <3>5
    <2>5. /\ Sound(p, T1, heads, m, E, K, I) /\ OtherEnds(p, c, m, M) /\ DOMAIN M \subseteq DOMAIN m
          /\ FreeOf(p, T1, heads, K, I, c) # {}
          /\ \A x \in FreeOf(p, T1, heads, K, I, c) : OccupiedBut(heads, K, PageOf(x))
          /\ Unmixed(T1, heads, H, L, G, I)
      <3>1. CASE empty
        <4>1. page \in Pages /\ page \notin T
          BY <1>2, <2>3, <3>1, ScanOne
        <4>2. T1 = T \cup {page} /\ m = NewArena(p, head, page, c)
              /\ heads = [A EXCEPT ![page] = [list |-> head, cnt |-> PerArena(c), large |-> FALSE]]
          BY <3>1
        <4> DEFINE m0 == Over([x \in ToSet(BlocksIn(page, c)) |-> NoLink], M)
        <4>3. MakesArena(p, m, m0, heads, M, A, page, c)
          BY <4>2 DEF MakesArena, NewArena
        <4>4. FreeOf(p, T, A, K, I, c) = {}
          BY <2>4, <3>1
        <4>5. \A other \in Pages : other # page => heads[other] = A[other]
          BY <4>2, <2>3
        <4> HIDE DEF T, A, M, H, L, K, G, I, E, c, head, empty, page, m, heads, T1, m0
        <4>9. Sound(p, T \cup {page}, heads, m, E, K, I) /\ ArenaMade(p, m, heads, M, T, K, I, page, c)
          BY <2>1, <2>2, <4>1, <4>3, <4>4, NewArenaSound
        <4>6. /\ OtherEnds(p, c, m, M) /\ DOMAIN M \subseteq DOMAIN m
              /\ FreeOf(p, T \cup {page}, heads, K, I, c) = ToSet(BlocksIn(page, c))
              /\ FreeOf(p, T \cup {page}, heads, K, I, c) # {}
          BY <4>9 DEF ArenaMade
        <4>7. \A x \in ToSet(BlocksIn(page, c)) : PageOf(x) = page
          <5>1. page \in Nat
            BY <4>1, PagesAre
          <5> QED
            BY <5>1, <2>2, ArenaBlocks
        <4>8. OccupiedBut(heads, K, page)
          BY <2>1, <4>5 DEF Occupied, OccupiedBut
        <4>12. [list |-> ListHead(p, c), cnt |-> PerArena(c), large |-> FALSE] \in Header
          BY <2>1, <2>2, Ends, PerArenaBound DEF Header
        <4>13. OtherHeaders(heads, A, page) /\ heads[page].large = FALSE
          BY <4>1, <4>5, <4>12, <2>3, <4>3 DEF OtherHeaders, MakesArena
        <4>14. Span(heads, page) \cap T = {}
          BY <4>1, <4>13 DEF Span, LargeOn
        <4>15. \A h \in H : h \notin L /\ Usable(H, L, I, h.at)
          BY <2>1, HeldUsable
        <4>16. T \subseteq T1
          BY <4>2
        <4>17. Unmixed(T1, heads, H, L, G, I)
          BY <2>1, <4>1, <4>13, <4>14, <4>15, <4>16, NewUnmixed
        <4> QED
          BY <4>2, <4>6, <4>7, <4>8, <4>9, <4>17
      <3>2. CASE ~empty
        <4>1. T1 = T /\ heads = A /\ m = M
          BY <3>2
        <4> HIDE DEF T, A, M, H, L, K, G, I, E, c, head, empty, page, m, heads, T1
        <4>2. OtherEnds(p, c, m, M)
          BY <4>1 DEF OtherEnds
        <4>3. \A x : OccupiedBut(A, K, PageOf(x))
          BY <2>1 DEF Occupied, OccupiedBut
        <4> QED
          BY <2>1, <2>4, <3>2, <4>1, <4>2, <4>3
      <3> QED
        BY <3>1, <3>2
    <2>6. TakesBlock(r, A1, K1, m, heads, K, b, size)
      BY Zenon DEF TakesBlock
    <2>7. b = m[ListHead(p, c)].next
      BY Zenon
    <2>7a. IF empty /\ (taken[p] = Pages \/ FramesUsed = Frames) THEN Halts("full")
           ELSE IF ~Linked(m, b) THEN Halts("fault")
           ELSE /\ Remembered(p, [Unlink(m, b) EXCEPT ![b] = NoLink])
                /\ taken' = IF empty THEN [taken EXCEPT ![p] = @ \cup {page}] ELSE taken
                /\ arena' = [arena EXCEPT ![p] = [heads EXCEPT ![PageOf(b)].cnt = @ - 1]]
                /\ Gives(p, b, size)
                /\ UNCHANGED <<alive, lost, program, inherited, stop>>
      BY Zenon DEF MallocSmall
    <2>8. Linked(m, b) =>
            /\ Remembered(p, r) /\ arena' = [arena EXCEPT ![p] = A1]
            /\ held' = [held EXCEPT ![p] = H1]
            /\ taken' = (IF empty THEN [taken EXCEPT ![p] = T \cup {page}] ELSE taken)
            /\ UNCHANGED <<alive, lost, program, inherited, stop>>
      <3> HIDE DEF m, b, heads, empty, page
      <3> QED
        BY <2>7a, <1>2 DEF Gives
    <2>7b. T = taken[p] /\ L = lost[p] /\ G = program[p] /\ I = inherited[p] /\ T1 = IF empty THEN T \cup {page} ELSE T
      OBVIOUS
    <2>9. (IF empty THEN [taken EXCEPT ![p] = T \cup {page}] ELSE taken) = [taken EXCEPT ![p] = T1]
      <3> HIDE DEF T, L, G, I, m, b, heads, empty, page, T1
      <3> QED
        BY <2>1, <2>7b DEF HeapIInv, HeapTypes
    <2>10. Linked(m, b) => /\ lost' = [lost EXCEPT ![p] = L] /\ program' = [program EXCEPT ![p] = G]
                           /\ inherited' = [inherited EXCEPT ![p] = I]
      <3> HIDE DEF T, L, G, I, m, b, heads, empty, page, T1
      <3> QED
        BY <2>1, <2>7b, <2>8 DEF HeapIInv, HeapTypes
    <2>11. M = Over(links[p], list_ends) /\ E = DOMAIN list_ends
      BY DEF Memory
    <2>19. K1 = H1 \cup L /\ H1 = H \cup {[at |-> b, size |-> size]} /\ K = H \cup L
      OBVIOUS
    <2> HIDE DEF T, A, M, H, L, K, G, I, c, head, empty, page, m, b, heads, r, T1, A1, H1, K1, E
    <2>12. /\ Sound(p, T1, A1, r, E, K1, I) /\ OtherEnds(p, c, r, m)
           /\ Linked(m, b) /\ b \in FreeOf(p, T1, heads, K, I, c)
           /\ OccupiedBut(heads, K, PageOf(b)) => Occupied(A1, K1)
           /\ PageOf(b) \in Pages /\ SmallOn(heads, PageOf(b)) /\ Recounted(A1, heads, PageOf(b))
      <3>1. /\ p \in Slots /\ c \in Classes /\ size \in RequestSizes /\ size <= BlockSizes[c]
            /\ Sound(p, T1, heads, m, E, K, I) /\ FreeOf(p, T1, heads, K, I, c) # {}
        BY <2>1, <2>2, <2>5
      <3> QED
        BY <3>1, <2>6, <2>7, TakesBlockSound
    <2>13. Occupied(A1, K1)
      BY <2>5, <2>12
    <2>14. OtherEnds(p, c, r, Over(links[p], list_ends))
      BY <2>5, <2>11, <2>12, EndsChain
    <2>15. Follows(p, r)
      BY <2>1, <2>2, <2>11, <2>12, <2>14, SoundFollows DEF Follows, WithEnds
    <2>16. Kept(p, r)
      BY <2>8, <2>12, <2>15, RememberedKept
    <2>17. Becomes(p, T1, A1, r, H1, L, G, I)
      BY <2>8, <2>9, <2>10, <2>12, <2>16 DEF Becomes, Gets
    <2>18. Sound(p, T1, A1, r, DOMAIN list_ends, K1, I)
      BY <2>11, <2>12
    <2>20. PageOf(b) \notin I /\ \A h \in K : h.at # b
      <3>1. T1 \subseteq Pages /\ heads \in [Pages -> Header] /\ Arenas(p, T1, heads, I)
        BY <2>5 DEF Sound, Typed
      <3>2. PageOf(b) \in OwnArenas(p, T1, heads, I, c) /\ \A h \in K : h.at # b
        BY <2>1, <2>2, <2>12, <3>1, FreeFacts
      <3> QED
        BY <3>2 DEF OwnArenas
    <2>21. \A h \in H1 : h \notin L /\ Usable(H, L, I, h.at)
      <3> DEFINE g == [at |-> b, size |-> size]
      <3>1. g.at = b /\ \A h \in L : h.at # g.at
        BY <2>19, <2>20
      <3> HIDE DEF g
      <3>2. g \notin L /\ Usable(H, L, I, g.at)
        BY <2>5, <2>20, <3>1, HeldUsable
      <3>3. \A h \in H : h \notin L /\ Usable(H, L, I, h.at)
        BY <2>5, HeldUsable
      <3> QED
        BY <2>19, <3>2, <3>3 DEF g
    <2>22. Unmixed(T1, A1, H1, L, G, I)
      BY <2>1, <2>5, <2>12, <2>21, RecountedUnmixed
    <2> QED
      BY <2>13, <2>17, <2>18, <2>19, <2>22, StepKeeps
  <1> QED
    BY <1>1, <1>2

\* sys_free of a block of an arena that the process has made.
LEMMA FreeSmallKeeps ==
  ASSUME HeapIInv, NEW p, p \in alive, NEW h, h \in held[p], PageOf(h.at) \notin inherited[p],
         ~arena[p][PageOf(h.at)].large, Free(p, h)
  PROVE  HeapIInv'
  <1> DEFINE T == taken[p]
             A == arena[p]
             M == Memory(p)
             H == held[p]
             L == lost[p]
             K == H \cup L
             G == program[p]
             I == inherited[p]
             E == DOMAIN list_ends
             page == PageOf(h.at)
             head == A[page].list
             cc == CHOOSE d \in Classes : \E q \in Slots : head = ListHead(q, d)
             m == Appended(M, head, h.at)
             A1 == [A EXCEPT ![page].cnt = @ + 1]
             H1 == H \ {h}
             K1 == K \ {h}
  <1>1. p \in Slots /\ Sound(p, T, A, M, E, K, I) /\ Occupied(A, K) /\ Composed(links[p], EndsOf(alive), list_ends, M)
        /\ IsMemory(links[p], alive, list_ends) /\ E = EndsOf(alive) /\ Unmixed(T, A, H, L, G, I)
    BY FineFacts
  <1>2. A \in [Pages -> Header] /\ T \subseteq Pages /\ I \subseteq T /\ Listed(p, T, A, M, K, I)
    BY <1>1 DEF Sound, Typed
  <1>3. h \in H /\ h \in K /\ page \in Pages /\ SmallOn(A, page) /\ page \notin I
    <2>1. h \in H /\ h \in K
      OBVIOUS
    <2>2. ~A[page].large /\ page \notin I
      OBVIOUS
    <2> HIDE DEF T, A, M, H, L, K, G, I, E, head, cc, m, A1, H1, K1
    <2>3. PageOf(h.at) \in Pages /\ A[PageOf(h.at)] # NoArena
      BY <1>1, <2>1, HeldFacts
    <2> QED
      BY <2>1, <2>2, <2>3 DEF SmallOn
  <1>4. PICK c \in Classes : /\ page \in OwnArenas(p, T, A, I, c) /\ head = ListHead(p, c)
                             /\ h.size <= BlockSizes[c] /\ h.at \in ToSet(BlocksIn(page, c))
    <2> HIDE DEF T, A, M, H, L, K, G, I, E, cc, m, A1, H1, K1
    <2> QED
      BY <1>1, <1>3, OwnBlock
  <1>5. cc = c
    <2>1. \E d \in Classes : \E q \in Slots : head = ListHead(q, d)
      BY <1>1, <1>4
    <2> HIDE DEF head
    <2>2. cc \in Classes /\ \E q \in Slots : head = ListHead(q, cc)
      BY <2>1
    <2> HIDE DEF cc
    <2>3. PICK q \in Slots : head = ListHead(q, cc)
      BY <2>2
    <2>4. ListHead(q, cc) = ListHead(p, c)
      BY <2>3, <1>4
    <2> QED
      BY <2>2, <2>4, <1>1, HeadsDiffer
  <1>6. Recounted(A1, A, page) /\ A1[page].cnt = A[page].cnt + 1
    <2> HIDE DEF page, T, M, H, L, K, G, I, E, cc, m
    <2>1. A[page] \in Header
      BY <1>2, <1>3
    <2> HIDE DEF A
    <2>2. A1[page].list = A[page].list /\ A1[page].large = A[page].large /\ A1[page].cnt = A[page].cnt + 1
      BY <2>1, <1>2, <1>3 DEF Header
    <2>3. A1[page] \in Header
      BY <2>1, <1>2, <1>3 DEF Header
    <2>4. \A other \in Pages : other # page => A1[other] = A[other]
      BY <1>2
    <2>5. A1 \in [Pages -> Header]
      BY <2>3, <2>4, <1>2
    <2> QED
      BY <2>2, <2>4, <2>5 DEF Recounted, OtherHeaders
  <1>7. ReturnsBlock(p, m, A1, K1, M, T, A, K, I, page, c, h)
    BY <1>3, <1>4, <1>6 DEF ReturnsBlock
  <1>8. Sound(p, T, A1, m, E, K1, I) /\ BlockReturned(p, m, A1, K1, M, A, K, page, c)
    <2> HIDE DEF T, A, M, H, L, K, G, I, E, page, head, cc, m, A1, H1, K1
    <2> QED
      BY <1>1, <1>7, ReturnBlockSound
  <1>9. head \in E /\ M[head + 1].prev \in DOMAIN M
    <2>1. ListHead(p, c) \in E
      BY <1>1 DEF EndsOf, ListEnds
    <2> QED
      BY <2>1, <1>4, <1>8 DEF BlockReturned
  <1> DEFINE last == A[page].cnt + 1 = PerArena(c)
             blocks == BlocksIn(page, c)
             u == UnlinkedAll(m, blocks)
             r == Restrict(u, DOMAIN u \ ToSet(blocks))
             T1 == T \ {page}
             I1 == I \ {page}
             A2 == [A EXCEPT ![page] = NoArena]
  <1>18. K1 = H1 \cup L /\ H1 \subseteq H /\ K1 = K \ {h}
    <2>1. H \cap L = {}
      BY <1>1 DEF Unmixed
    <2> HIDE DEF H, L
    <2> QED
      BY <2>1, <1>3
  <1>19. Unmixed(T, A1, H1, L, G, I)
    <2>1. \A g \in H1 : g \notin L /\ Usable(H, L, I, g.at)
      BY <1>1, HeldUsable
    <2> HIDE DEF T, A, M, H, L, K, G, I, E, page, head, cc, m, A1, H1, K1
    <2> QED
      BY <1>1, <1>3, <1>6, <2>1, RecountedUnmixed
  <1>10. last => /\ \A b \in ToSet(blocks) : b \in Walk(m, head) /\ Linked(m, b)
                 /\ Unmixed(T1, A2, H1, L, G, I1)
                 /\ Sound(p, T1, A2, r, E, K1, I1) /\ OtherEnds(p, c, r, M) /\ Occupied(A2, K1)
    <2> SUFFICES ASSUME last
                 PROVE  /\ \A b \in ToSet(blocks) : b \in Walk(m, head) /\ Linked(m, b)
                        /\ Unmixed(T1, A2, H1, L, G, I1)
                        /\ Sound(p, T1, A2, r, E, K1, I1) /\ OtherEnds(p, c, r, M) /\ Occupied(A2, K1)
      OBVIOUS
    <2>1. A1 \in [Pages -> Header] /\ A1[page].list = head /\ \A other \in Pages : other # page => A1[other] = A[other]
      BY <1>6 DEF Recounted, OtherHeaders
    <2>2. page \in OwnArenas(p, T, A1, I, c) /\ A1[page].cnt = PerArena(c)
      <3> HIDE DEF page, A1
      <3> QED
        BY <1>4, <1>6, <2>1 DEF OwnArenas
    <2>3. NoArena \in Header
      BY DEF NoArena, Header, NULL
    <2>4. A2 \in [Pages -> Header] /\ A2[page] = NoArena /\ \A other \in Pages : other # page => A2[other] = A[other]
      <3> HIDE DEF page
      <3> QED
        BY <1>2, <1>3, <2>3
    <2>5. OtherHeaders(A2, A1, page)
      BY <2>1, <2>4 DEF OtherHeaders
    <2>6. DropsArena(p, u, r, T1, I1, A2, m, T, A1, I, page, c)
      <3> HIDE DEF A1, A2
      <3> QED
        BY <2>2, <2>4, <2>5 DEF DropsArena
    <2>7. K1 = K \ {h} /\ page = PageOf(h.at) /\ T1 = T \ {page} /\ I1 = I \ {page}
      OBVIOUS
    <2> HIDE DEF T, A, M, H, L, K, G, I, E, page, head, cc, m, A1, H1, K1, last, blocks, u, r, T1, I1, A2
    <2>8. Sound(p, T1, A2, r, E, K1, I1) /\ ArenaDropped(p, r, m, T, A1, K1, I, page, c)
      BY <1>1, <1>8, <2>6, RemoveArenaSound
    <2>9. \A b \in ToSet(blocks) : b \in Walk(m, head) /\ Linked(m, b)
      <3>1. Listed(p, T, A1, m, K1, I) /\ IsFiniteSet(DOMAIN m)
        BY <1>8 DEF Sound, Typed
      <3>2. ListOf(DOMAIN m, m, head, FreeOf(p, T, A1, K1, I, c))
        BY <3>1, <1>4 DEF Listed
      <3>3. Walk(m, head) = FreeOf(p, T, A1, K1, I, c)
        BY <3>1, <3>2, WalkMeets
      <3>4. \A b \in FreeOf(p, T, A1, K1, I, c) : Linked(m, b)
        BY <3>2, ListOfFacts
      <3> QED
        BY <3>3, <3>4, <2>8 DEF ArenaDropped, blocks
    <2>10. OtherEnds(p, c, r, M)
      BY <1>8, <2>8 DEF BlockReturned, ArenaDropped, OtherEnds
    <2>11. Occupied(A2, K1)
      BY <1>1, <2>4, <2>7 DEF Occupied
    <2>12. Unmixed(T1, A2, H1, L, G, I1)
      <3>1. SmallOn(A1, page) /\ page \in Pages
        BY <1>1, <1>3, <1>6, RecountedPages
      <3>2. A1[page] # NoArena /\ Span(A1, page) = {page}
        BY <3>1 DEF SmallOn, LargeOn, Span
      <3>3. \A g \in L : PageOf(g.at) # page
        BY <2>8, <1>18 DEF ArenaDropped
      <3>4. T1 = T \ Span(A1, page) /\ I1 = I \ Span(A1, page)
        BY <2>7, <3>2
      <3>5. p \in Slots /\ Sound(p, T, A1, m, E, K1, I) /\ H1 \subseteq H1
        BY <1>1, <1>8
      <3> QED
        BY <1>19, <2>4, <2>5, <3>1, <3>2, <3>3, <3>4, <3>5, DroppedUnmixed
    <2> QED
      BY <2>8, <2>9, <2>10, <2>11, <2>12
  <1>11. ~(head \notin DOMAIN list_ends \/ Memory(p)[head + 1].prev \notin DOMAIN Memory(p)
           \/ (last /\ \E b \in ToSet(blocks) : b \notin Walk(m, head) \/ ~Linked(m, b)))
    <2>1. E = DOMAIN list_ends /\ M = Memory(p)
      OBVIOUS
    <2> HIDE DEF T, A, M, H, L, K, G, I, E, page, head, cc, m, A1, H1, K1, last, blocks, u, r, T1, I1, A2
    <2> QED
      BY <2>1, <1>9, <1>10
  <1>12. /\ stop' = stop /\ held' = [held EXCEPT ![p] = H1]
         /\ last => /\ Remembered(p, r)
                    /\ taken' = [taken EXCEPT ![p] = T1] /\ inherited' = [inherited EXCEPT ![p] = I1]
                    /\ arena' = [arena EXCEPT ![p] = A2]
         /\ ~last => /\ Remembered(p, m)
                     /\ arena' = [arena EXCEPT ![p] = A1]
                     /\ UNCHANGED <<taken, inherited>>
    <2>1. FreeSmall(p, h)
      BY DEF Free
    <2> HIDE DEF cc
    <2>2. IF head \notin DOMAIN list_ends \/ Memory(p)[head + 1].prev \notin DOMAIN Memory(p)
             \/ (A[page].cnt + 1 = PerArena(cc)
                 /\ \E b \in ToSet(BlocksIn(page, cc)) : b \notin Walk(m, head) \/ ~Linked(m, b))
          THEN Halts(IF page \in inherited[p] THEN "mixed" ELSE "fault")
          ELSE /\ held' = [held EXCEPT ![p] = @ \ {h}]
               /\ stop' = IF page \in inherited[p] THEN "mixed" ELSE stop
               /\ IF A[page].cnt + 1 = PerArena(cc)
                  THEN /\ Remembered(p, Restrict(UnlinkedAll(m, BlocksIn(page, cc)),
                                          DOMAIN UnlinkedAll(m, BlocksIn(page, cc)) \ ToSet(BlocksIn(page, cc))))
                       /\ Unmap(p, {page})
                       /\ arena' = [arena EXCEPT ![p] = A2]
                  ELSE /\ Remembered(p, m)
                       /\ arena' = [arena EXCEPT ![p] = A1]
                       /\ UNCHANGED <<taken, inherited>>
      BY <2>1 DEF FreeSmall, cc
    <2>3. Unmap(p, {page}) => taken' = [taken EXCEPT ![p] = T1] /\ inherited' = [inherited EXCEPT ![p] = I1]
      BY DEF Unmap
    <2>4. [held EXCEPT ![p] = @ \ {h}] = [held EXCEPT ![p] = H1] /\ page \notin inherited[p]
      OBVIOUS
    <2> HIDE DEF head, m, A1, A2, page, T1, I1, H1
    <2> QED
      BY <2>2, <2>3, <2>4, <1>5, <1>11
  <1>13. UNCHANGED <<alive, lost, program>>
    BY DEF Free
  <1>14. lost' = [lost EXCEPT ![p] = L] /\ program' = [program EXCEPT ![p] = G]
    BY <1>1, <1>13 DEF HeapIInv, HeapTypes
  <1>15. M = Over(links[p], list_ends) /\ E = DOMAIN list_ends
    BY DEF Memory
  <1>16. CASE last
    <2> HIDE DEF T, A, M, H, L, K, G, I, E, page, head, cc, m, A1, H1, K1, last, blocks, u, r, T1, I1, A2
    <2>1. Follows(p, r)
      BY <1>1, <1>10, <1>15, <1>16, SoundFollows DEF Follows, WithEnds
    <2>2. Kept(p, r)
      BY <1>12, <1>16, <2>1, RememberedKept
    <2>3. Becomes(p, T1, A2, r, H1, L, G, I1)
      BY <1>12, <1>13, <1>14, <1>16, <2>2 DEF Becomes, Gets
    <2>4. Sound(p, T1, A2, r, DOMAIN list_ends, K1, I1) /\ Occupied(A2, K1)
      BY <1>10, <1>15, <1>16
    <2> QED
      BY <2>3, <2>4, <1>10, <1>16, <1>18, StepKeeps
  <1>17. CASE ~last
    <2>1. taken' = [taken EXCEPT ![p] = T] /\ inherited' = [inherited EXCEPT ![p] = I]
      BY <1>1, <1>12, <1>17 DEF HeapIInv, HeapTypes
    <2>2. A1[page].cnt # PerArena(c)
      BY <1>6, <1>17
    <2> HIDE DEF T, A, M, H, L, K, G, I, E, page, head, cc, m, A1, H1, K1, last, blocks, u, r, T1, I1, A2
    <2>3. OtherEnds(p, c, m, M) /\ Occupied(A1, K1)
      BY <1>1, <1>8, <2>2 DEF BlockReturned
    <2>4. Follows(p, m)
      BY <1>1, <1>8, <1>15, <2>3, SoundFollows DEF Follows, WithEnds
    <2>5. Kept(p, m)
      BY <1>12, <1>17, <2>4, RememberedKept
    <2>6. Becomes(p, T, A1, m, H1, L, G, I)
      BY <1>12, <1>13, <1>14, <1>17, <2>1, <2>5 DEF Becomes, Gets
    <2>7. Sound(p, T, A1, m, DOMAIN list_ends, K1, I)
      BY <1>8, <1>15
    <2> QED
      BY <2>3, <2>6, <2>7, <1>18, <1>19, StepKeeps
  <1> QED
    BY <1>16, <1>17

\* A child frees a block of an arena that it got from its parent: the block goes on the
\* parent's list, and nothing but the types is kept.
LEMMA FreeMixedKeeps ==
  ASSUME HeapIInv, NEW p, p \in alive, NEW h, h \in held[p], PageOf(h.at) \in inherited[p],
         ~arena[p][PageOf(h.at)].large, Free(p, h)
  PROVE  HeapTypes' /\ stop' = "mixed"
  <1> DEFINE T == taken[p]
             A == arena[p]
             M == Memory(p)
             D == DOMAIN M
             H == held[p]
             L == lost[p]
             G == program[p]
             I == inherited[p]
             E == DOMAIN list_ends
             page == PageOf(h.at)
             head == A[page].list
             cc == CHOOSE d \in Classes : \E q \in Slots : head = ListHead(q, d)
             m == Appended(M, head, h.at)
             blocks == BlocksIn(page, cc)
             u == UnlinkedAll(m, blocks)
             r == Restrict(u, DOMAIN u \ ToSet(blocks))
             A1 == [A EXCEPT ![page].cnt = @ + 1]
             A2 == [A EXCEPT ![page] = NoArena]
             H1 == H \ {h}
             faults == \/ head \notin E \/ M[head + 1].prev \notin D
                       \/ A[page].cnt + 1 = PerArena(cc) /\ \E b \in ToSet(blocks) : b \notin Walk(m, head) \/ ~Linked(m, b)
  <1>1. /\ HeapTypes /\ p \in Slots /\ Sound(p, T, A, M, E, H \cup L, I) /\ Composed(links[p], EndsOf(alive), list_ends, M)
        /\ E = EndsOf(alive) /\ Unmixed(T, A, H, L, G, I) /\ EndsOf(alive) \in SUBSET Nat
    BY FineFacts, EndsFacts DEF HeapIInv, HeapTypes
  <1>2. /\ A \in [Pages -> Header] /\ T \subseteq Pages /\ I \subseteq T
        /\ M \in [D -> Link] /\ D \in SUBSET Nat /\ H \cup L \subseteq [at : Nat, size : RequestSizes]
        /\ G \subseteq Segments
    BY <1>1 DEF Sound, Typed, Unmixed
  <1>3. UNCHANGED <<alive, lost, program>> /\ FreeSmall(p, h)
    BY SMTT(20) DEF Free
  <1>4. /\ faults => Halts("mixed")
        /\ ~faults => /\ stop' = "mixed" /\ held' = [held EXCEPT ![p] = H1]
                      /\ \/ /\ A[page].cnt + 1 = PerArena(cc)
                            /\ Remembered(p, r) /\ arena' = [arena EXCEPT ![p] = A2]
                            /\ taken' = [taken EXCEPT ![p] = T \ {page}]
                            /\ inherited' = [inherited EXCEPT ![p] = I \ {page}]
                         \/ Remembered(p, m) /\ arena' = [arena EXCEPT ![p] = A1] /\ UNCHANGED <<taken, inherited>>
    BY <1>3 DEF FreeSmall, Unmap
  <1>5. CASE faults
    <2>1. Halts("mixed")
      BY <1>4, <1>5
    <2> QED
      BY <2>1, <1>1 DEF Halts, HeapTypes
  <1>6. CASE ~faults
    <2>1. h \in H \cup L /\ page = PageOf(h.at) /\ ~A[page].large
      OBVIOUS
    <2>2. head \in E /\ M[head + 1].prev \in D /\ (A[page].cnt + 1 = PerArena(cc) => \A b \in ToSet(blocks) : Linked(m, b))
      BY <1>6
    <2>0. lost' = [lost EXCEPT ![p] = L] /\ program' = [program EXCEPT ![p] = G]
      BY <1>1, <1>3 DEF HeapTypes
    <2> HIDE DEF T, A, M, H, L, G, I, E, page, head, cc, blocks, m, u, r, A1, A2, H1, faults, D
    <2>3. page \in Pages /\ A[page] # NoArena /\ h.at \in D
      <3>1. /\ PageOf(h.at) \in Pages /\ A[PageOf(h.at)] # NoArena
            /\ SmallOn(A, PageOf(h.at)) => h.at \in DOMAIN M
        BY <1>1, <2>1, HeldFacts
      <3> QED
        BY <3>1, <2>1 DEF SmallOn, D
    <2>4. PICK c \in Classes : \E q \in Slots : head = ListHead(q, c)
      <3>1. OfClass(p, A, I, page)
        BY <1>1, <2>1, <2>3 DEF Sound, Arenas, SmallOn
      <3> QED
        BY <3>1 DEF OfClass, head
    <2>5. PICK q \in Slots : head = ListHead(q, c)
      BY <2>4
    <2>6. head \in Nat /\ head + 1 \in E
      <3>1. PICK o \in alive : head \in ListEnds(o)
        BY <1>1, <2>2 DEF EndsOf
      <3>2. o \in Slots
        BY <1>1, <3>1 DEF HeapTypes
      <3>3. PICK d \in Classes : head = ListHead(o, d) \/ head = ListHead(o, d) + 1
        BY <3>1 DEF ListEnds, ListTail
      <3>4. /\ ListHead(q, c) \in Nat /\ ListHead(o, d) \in Nat
            /\ ListHead(q, c) # ListHead(o, d) + 1
        BY <3>2, Ends
      <3>5. head = ListHead(o, d)
        BY <2>5, <3>3, <3>4
      <3>6. ListHead(o, d) + 1 \in ListEnds(o)
        BY DEF ListEnds, ListTail
      <3> QED
        BY <1>1, <2>5, <3>1, <3>4, <3>5, <3>6 DEF EndsOf
    <2>7. E \subseteq D /\ D \ E \subseteq UserAddresses
      BY <1>1 DEF Composed, D, E
    <2>8. m \in [D -> Link] /\ DOMAIN m = D
      BY <1>2, <2>3, <2>6, <2>7, LinkTypes DEF m
    <2>9. WithEnds(m)
      BY <2>7, <2>8 DEF WithEnds, E
    <2>10. A1 \in [Pages -> Header] /\ A2 \in [Pages -> Header]
      <3>1. A[page] \in Header
        BY <1>2, <2>3
      <3>2. [A[page] EXCEPT !.cnt = @ + 1] \in Header /\ NoArena \in Header
        BY <3>1 DEF Header, NoArena, NULL
      <3>3. A1 = [A EXCEPT ![page] = [A[page] EXCEPT !.cnt = @ + 1]]
        BY <1>2, <2>3 DEF A1
      <3> QED
        BY <3>2, <3>3, <1>2, <2>3 DEF A2
    <2>11. H1 \subseteq [at : Nat, size : RequestSizes] /\ L \subseteq [at : Nat, size : RequestSizes]
      BY <1>2 DEF H1
    <2>12. stop' = "mixed" /\ held' = [held EXCEPT ![p] = H1] /\ alive' = alive
      BY <1>3, <1>4, <1>6
    <2>13. CASE /\ A[page].cnt + 1 = PerArena(cc)
                /\ Remembered(p, r) /\ arena' = [arena EXCEPT ![p] = A2]
                /\ taken' = [taken EXCEPT ![p] = T \ {page}]
                /\ inherited' = [inherited EXCEPT ![p] = I \ {page}]
      <3>1. cc \in Classes
        BY <2>4 DEF cc
      <3>2. page \in Nat
        BY <2>3, PagesAre
      <3>3. /\ blocks \in Seq(Nat) /\ DOMAIN blocks = 1..Len(blocks)
            /\ \A b \in ToSet(blocks) : PageOf(b) = page
        BY <3>1, <3>2, ArenaBlocks DEF blocks
      <3>4. \A b \in ToSet(blocks) : b \in D
        BY <2>2, <2>8, <2>13 DEF Linked
      <3>5. blocks \in Seq(D)
        <4>1. \A i \in 1..Len(blocks) : blocks[i] \in D
          BY <3>3, <3>4 DEF ToSet
        <4> QED
          BY <3>3, <4>1
      <3>6. PICK g \in [0..Len(blocks) -> [D -> Link]] : UnlinkedAll(m, blocks) = g[Len(blocks)]
        <4>1. D \in SUBSET Nat /\ m \in [D -> Link]
          BY <1>2, <2>8
        <4>2. \E g \in [0..Len(blocks) -> [D -> Link]] :
                /\ UnlinkedAll(m, blocks) = g[Len(blocks)]
                /\ g[0] = m
                /\ \A i \in 1..Len(blocks) : g[i] = Unlink(g[i - 1], blocks[i])
          BY <4>1, <3>5, UnlinkedAllSteps
        <4> QED
          BY <4>2
      <3>7. u \in [D -> Link]
        BY <3>3, <3>6 DEF u
      <3>8. DOMAIN r = D \ ToSet(blocks) /\ r \in [D \ ToSet(blocks) -> Link]
        BY <3>7 DEF r, Restrict
      <3>9. E \cap ToSet(blocks) = {}
        <4>1. \A a \in E : PageOf(a) > NumPages + 1
          BY <1>1 DEF Sound, OnArenas
        <4> QED
          BY <4>1, <3>3, <2>3, PagesAre
      <3>10. WithEnds(r)
        <4>1. r \in [DOMAIN r -> Link]
          BY <3>8
        <4>2. E \subseteq DOMAIN r /\ DOMAIN r \ E \subseteq UserAddresses
          BY <2>7, <3>8, <3>9
        <4> QED
          BY <4>1, <4>2 DEF WithEnds, E
      <3>11. links' \in [Slots -> Memories] /\ list_ends' \in [EndsOf(alive) -> Link]
        BY <1>1, <2>13, <3>10, RememberedTypes
      <3>12. Gets(p, T \ {page}, A2, H1, L, G, I \ {page})
        BY <2>0, <2>12, <2>13 DEF Gets
      <3>13. Shaped(T \ {page}, A2, H1, L, G, I \ {page})
        BY <1>2, <2>10, <2>11 DEF Shaped
      <3>14. HeapTypes'
        BY <1>1, <2>12, <3>11, <3>12, <3>13, TypesKeep
      <3> QED
        BY <3>14, <2>12
    <2>14. CASE Remembered(p, m) /\ arena' = [arena EXCEPT ![p] = A1] /\ UNCHANGED <<taken, inherited>>
      <3>1. links' \in [Slots -> Memories] /\ list_ends' \in [EndsOf(alive) -> Link]
        BY <1>1, <2>9, <2>14, RememberedTypes
      <3>2. taken' = [taken EXCEPT ![p] = T] /\ inherited' = [inherited EXCEPT ![p] = I]
        BY <1>1, <2>14 DEF HeapTypes, T, I
      <3>3. Gets(p, T, A1, H1, L, G, I)
        BY <2>0, <2>12, <2>14, <3>2 DEF Gets
      <3>4. Shaped(T, A1, H1, L, G, I)
        BY <1>2, <2>10, <2>11 DEF Shaped
      <3>5. HeapTypes'
        BY <1>1, <2>12, <3>1, <3>3, <3>4, TypesKeep
      <3> QED
        BY <3>5, <2>12
    <2> QED
      BY <2>13, <2>14, <1>4, <1>6
  <1> QED
    BY <1>5, <1>6

\* A heap without lists of its own: what a child has, and, with nothing in it, what init has.
Copied(q, T, A, l, H) ==
  /\ T \subseteq Pages /\ A \in [Pages -> Header] /\ H \subseteq [at : Nat, size : RequestSizes]
  /\ IsFiniteSet(DOMAIN l)
  /\ \A a \in DOMAIN l : PageOf(a) \in T /\ SmallOn(A, PageOf(a)) /\ BlockOf(A, a)
  /\ Arenas(q, T, A, T) /\ Holdings(A, H)
  /\ \A h \in H : SmallOn(A, PageOf(h.at)) => h.at \in DOMAIN l

\* block_desc_init makes lists that are empty.
LEMMA EmptyListsFacts ==
  ASSUME NEW q, q \in Slots
  PROVE  /\ EmptyLists(q) \in [ListEnds(q) -> Link]
         /\ \A c \in Classes : /\ ListHead(q, c) \in ListEnds(q) /\ ListHead(q, c) + 1 \in ListEnds(q)
                               /\ EmptyLists(q)[ListHead(q, c)].next = ListHead(q, c) + 1
                               /\ EmptyLists(q)[ListHead(q, c) + 1].prev = ListHead(q, c)
  <1> DEFINE X == {ListHead(q, c) : c \in Classes}
             e == [a \in ListEnds(q) |-> IF a \in X THEN [prev |-> NULL, next |-> a + 1] ELSE [prev |-> a - 1, next |-> NULL]]
  <1>1. EmptyLists(q) = e
    BY DEF EmptyLists
  <1>2. \A a \in X : a \in Nat
    BY Ends
  <1>3. ASSUME NEW a, a \in ListEnds(q), a \notin X
        PROVE  a \in Nat /\ a - 1 \in Nat
    <2>1. PICK c \in Classes : a = ListHead(q, c) + 1
      BY <1>3 DEF ListEnds, ListTail
    <2>2. ListHead(q, c) \in Nat
      BY Ends
    <2> QED
      BY <2>1, <2>2
  <1>4. ASSUME NEW a, a \in ListEnds(q)
        PROVE  (IF a \in X THEN [prev |-> NULL, next |-> a + 1] ELSE [prev |-> a - 1, next |-> NULL]) \in Link
    <2> HIDE DEF X
    <2>1. CASE a \in X
      BY <1>2, <2>1 DEF Link, NULL
    <2>2. CASE a \notin X
      BY <1>3, <1>4, <2>2 DEF Link, NULL
    <2> QED
      BY <2>1, <2>2
  <1>5. e \in [ListEnds(q) -> Link]
    BY <1>4
  <1>6. ASSUME NEW c, c \in Classes
        PROVE  /\ ListHead(q, c) \in ListEnds(q) /\ ListHead(q, c) + 1 \in ListEnds(q)
               /\ e[ListHead(q, c)].next = ListHead(q, c) + 1
               /\ e[ListHead(q, c) + 1].prev = ListHead(q, c)
    <2> DEFINE head == ListHead(q, c)
    <2>1. head \in ListEnds(q) /\ head + 1 \in ListEnds(q) /\ head \in X
      BY <1>6 DEF ListEnds, ListTail
    <2>2. head \in Nat /\ \A d \in Classes : head + 1 # ListHead(q, d)
      <3>1. \A d \in Classes : ListHead(q, d) # head + 1
        BY <1>6, Ends
      <3> QED
        BY <1>6, <3>1, Ends
    <2>3. head + 1 \notin X
      BY <2>2
    <2> HIDE DEF X, head
    <2> QED
      BY <2>1, <2>2, <2>3 DEF head
  <1> HIDE DEF e
  <1> QED
    BY <1>1, <1>5, <1>6

\* A child, whose lists are empty and whose pages are all inherited, is sound.
LEMMA CopiedSound ==
  ASSUME NEW q, q \in Slots, NEW l, NEW S, NEW e, IsMemory(l, S, e), q \in S,
         SameBut(ListEnds(q), {}, e, EmptyLists(q)),
         NEW T, NEW A, NEW H, Copied(q, T, A, l, H)
  PROVE  Sound(q, T, A, Over(l, e), DOMAIN e, H, T)
  <1> DEFINE m == Over(l, e)
             E == EndsOf(S)
  <1>1. Composed(l, E, e, m)
    BY MemoryFacts
  <1>2. DOMAIN m \in SUBSET Nat
    BY MemoryFacts
  <1>3. m \in [DOMAIN m -> Link]
    BY MemoryFacts
  <1>4. IsFiniteSet(E) /\ \A a \in E : PageOf(a) > NumPages + 1
    BY EndsFacts DEF IsMemory
  <1>5. ListEnds(q) \subseteq E
    BY DEF EndsOf
  <1>6. DOMAIN e = E /\ DOMAIN m = DOMAIN l \cup E /\ DOMAIN l = DOMAIN m \ E /\ \A a \in E : m[a] = e[a]
    BY <1>1 DEF Composed
  <1> HIDE DEF m, E
  <1>7. IsFiniteSet(DOMAIN m)
    <2>1. IsFiniteSet(DOMAIN l)
      BY DEF Copied
    <2>2. IsFiniteSet(DOMAIN l \cup E)
      BY <2>1, <1>4, FS_Union
    <2> QED
      BY <2>2, <1>6
  <1>8. Typed(T, A, m, E, H, T)
    BY <1>2, <1>3, <1>6, <1>7 DEF Copied, Typed
  <1>9. OnArenas(T, A, m, E)
    BY <1>4, <1>6 DEF Copied, OnArenas
  <1>10. Backed(A, m, H)
    BY <1>6 DEF Copied, Backed
  <1>11. \A c : OwnArenas(q, T, A, T, c) = {}
    BY DEF OwnArenas
  <1>12. \A c : FreeOf(q, T, A, H, T, c) = {}
    BY <1>11 DEF FreeOf
  <1>13. Counted(q, T, A, H, T)
    BY <1>11 DEF Counted
  <1>14. Listed(q, T, A, m, H, T)
    <2> SUFFICES ASSUME NEW c, c \in Classes
                 PROVE  ListOf(DOMAIN m, m, ListHead(q, c), {})
      BY <1>12 DEF Listed
    <2> DEFINE head == ListHead(q, c)
    <2>1. head \in ListEnds(q) /\ head + 1 \in ListEnds(q) /\ EmptyLists(q)[head].next = head + 1
          /\ EmptyLists(q)[head + 1].prev = head
      BY EmptyListsFacts
    <2> HIDE DEF head
    <2>2. /\ head \in DOMAIN m /\ head + 1 \in DOMAIN m
          /\ m[head].next = head + 1 /\ m[head + 1].prev = head
      BY <2>1, <1>5, <1>6 DEF SameBut
    <2>3. ListOf(DOMAIN m, m, head, {})
      BY <2>2, <1>2, <1>3, ListOfNone
    <2> QED
      BY <2>3 DEF head
  <1>15. Arenas(q, T, A, T) /\ Holdings(A, H)
    BY DEF Copied
  <1>16. Sound(q, T, A, m, E, H, T)
    BY <1>8, <1>9, <1>10, <1>13, <1>14, <1>15 DEF Sound
  <1> QED
    BY <1>16, <1>6 DEF m

\* The first process starts with no pages and empty lists, which satisfies the
\* invariant.
LEMMA HeapInitSound ==
  ASSUME HeapInit
  PROVE  HeapIInv
  <1>1. 1 \in Slots /\ {1} \subseteq Slots
    BY HeapConstants
  <1>2. <<>> \in Memories /\ DOMAIN <<>> = {}
    <2>1. DOMAIN <<>> = {}
      OBVIOUS
    <2>2. <<>> \in [{} -> Link]
      OBVIOUS
    <2> QED
      BY <2>1, <2>2 DEF Memories
  <1>3. NoArenas \in [Pages -> Header]
    BY DEF NoArenas, NoArena, Header, NULL
  <1>4. EndsOf({1}) = ListEnds(1)
    BY DEF EndsOf
  <1>5. EmptyLists(1) \in [EndsOf({1}) -> Link]
    BY <1>1, <1>4, EmptyListsFacts
  <1>6. HeapTypes
    BY <1>1, <1>2, <1>3, <1>5 DEF HeapInit, HeapTypes, NoArenas
  <1>7. Fine(1)
    <2> DEFINE l == <<>>
               e == EmptyLists(1)
    <2>1. IsMemory(l, {1}, e)
      BY <1>1, <1>2, <1>5 DEF IsMemory
    <2>2. SameBut(ListEnds(1), {}, e, EmptyLists(1))
      BY DEF SameBut
    <2>3. Copied(1, {}, NoArenas, l, {})
      <3>1. IsFiniteSet({})
        BY FS_EmptySet
      <3>2. Arenas(1, {}, NoArenas, {})
        BY DEF Arenas, SmallOn, LargeOn, NoArenas
      <3>3. Holdings(NoArenas, {})
        BY DEF Holdings
      <3> QED
        BY <1>2, <1>3, <3>1, <3>2, <3>3 DEF Copied
    <2> HIDE DEF l, e
    <2>4. 1 \in {1}
      OBVIOUS
    <2>5. Sound(1, {}, NoArenas, Over(l, e), DOMAIN e, {}, {})
      BY <1>1, <2>1, <2>2, <2>3, <2>4, CopiedSound
    <2>6. Occupied(NoArenas, {}) /\ Unmixed({}, NoArenas, {}, {}, {}, {})
      BY DEF Occupied, NoArenas, Unmixed
    <2>7. /\ taken[1] = {} /\ arena[1] = NoArenas /\ links[1] = l /\ list_ends = e
          /\ held[1] = {} /\ lost[1] = {} /\ program[1] = {} /\ inherited[1] = {}
      BY <1>1 DEF HeapInit, NoArenas, l, e
    <2>8. held[1] \cup lost[1] = {}
      BY <2>7
    <2> QED
      BY <2>5, <2>6, <2>7, <2>8 DEF Fine
  <1>8. \A p \in Slots : Gone(p)
    BY DEF HeapInit, Gone, NoArenas
  <1> QED
    BY <1>6, <1>7, <1>8 DEF HeapIInv, HeapInit

\* copy_process: the child has what its parent has, and no block on its lists.
LEMMA ForkKeeps ==
  ASSUME HeapIInv, NEW p, p \in alive, NEW q, q \in Slots, HeapFork(p, q)
  PROVE  HeapIInv'
  <1>1. CASE FramesUsed + Cardinality(taken[p]) > Frames
    <2>1. Halts("full")
      BY <1>1 DEF HeapFork
    <2> QED
      BY <2>1, HaltsKeeps
  <1>2. CASE ~(FramesUsed + Cardinality(taken[p]) > Frames)
    <2> DEFINE R == alive \cup {q}
               e == Over(EmptyLists(q), list_ends)
    <2>1. /\ q \notin alive
          /\ alive' = R
          /\ taken' = [taken EXCEPT ![q] = taken[p]]
          /\ arena' = [arena EXCEPT ![q] = arena[p]]
          /\ links' = [links EXCEPT ![q] = links[p]]
          /\ list_ends' = e
          /\ held' = [held EXCEPT ![q] = held[p]]
          /\ lost' = [lost EXCEPT ![q] = lost[p]]
          /\ program' = [program EXCEPT ![q] = program[p]]
          /\ inherited' = [inherited EXCEPT ![q] = taken[p]]
          /\ UNCHANGED stop
      BY <1>2 DEF HeapFork
    <2>2. HeapTypes /\ p \in Slots /\ alive \subseteq Slots /\ R \subseteq Slots /\ stop \in {"no", "full"}
      BY DEF HeapIInv, HeapTypes
    <2>3. EndsOf(R) = ListEnds(q) \cup EndsOf(alive)
      BY DEF EndsOf
    <2>4. ListEnds(q) \cap EndsOf(alive) = {}
      BY <2>1, <2>2, EndsFacts
    <2>5. list_ends \in [EndsOf(alive) -> Link] /\ EmptyLists(q) \in [ListEnds(q) -> Link]
      BY <2>2, EmptyListsFacts DEF HeapTypes
    <2>6. DOMAIN EmptyLists(q) = ListEnds(q) /\ DOMAIN list_ends = EndsOf(alive)
      BY <2>5
    <2>7. /\ DOMAIN e = EndsOf(R)
          /\ \A a \in ListEnds(q) : e[a] = EmptyLists(q)[a]
          /\ \A a \in EndsOf(alive) : e[a] = list_ends[a]
      BY <2>3, <2>4, <2>6 DEF Over
    <2>8. e \in [EndsOf(R) -> Link]
      <3>1. e = [a \in EndsOf(R) |-> e[a]]
        BY <2>7 DEF Over
      <3> HIDE DEF e
      <3>2. \A a \in EndsOf(R) : e[a] \in Link
        BY <2>3, <2>5, <2>7
      <3> QED
        BY <3>1, <3>2
    <2> HIDE DEF e
    <2>9. HeapTypes'
      <3>1. R \in SUBSET Slots /\ list_ends' \in [EndsOf(R) -> Link]
        BY <2>1, <2>2, <2>8
      <3> HIDE DEF R
      <3>2. taken' \in [Slots -> SUBSET Pages] /\ inherited' \in [Slots -> SUBSET Pages] /\ arena' \in [Slots -> [Pages -> Header]]
        BY <2>1, <2>2 DEF HeapTypes
      <3>5. \A o \in Slots : inherited'[o] \subseteq taken'[o]
        BY <2>1, <2>2 DEF HeapTypes
      <3>3. /\ held' \in [Slots -> SUBSET [at : Nat, size : RequestSizes]]
            /\ lost' \in [Slots -> SUBSET [at : Nat, size : RequestSizes]]
            /\ program' \in [Slots -> SUBSET Segments] /\ links' \in [Slots -> Memories]
        BY <2>1, <2>2 DEF HeapTypes
      <3>4. alive' = R /\ stop' = stop
        BY <2>1
      <3> QED
        BY <3>1, <3>2, <3>3, <3>4, <3>5, <2>2 DEF HeapTypes
    <2>10. \A o \in Slots : o # q => /\ taken'[o] = taken[o] /\ arena'[o] = arena[o] /\ held'[o] = held[o]
                                     /\ lost'[o] = lost[o] /\ program'[o] = program[o] /\ inherited'[o] = inherited[o]
                                     /\ links'[o] = links[o]
      BY <2>1, <2>2 DEF HeapTypes
    <2>11. ASSUME NEW o, o \in alive
           PROVE  Fine(o)'
      <3>1. /\ o \in Slots /\ DOMAIN list_ends = EndsOf(alive) /\ IsMemory(links[o], alive, list_ends)
            /\ Sound(o, taken[o], arena[o], Over(links[o], list_ends), DOMAIN list_ends, held[o] \cup lost[o], inherited[o])
            /\ Occupied(arena[o], held[o] \cup lost[o])
            /\ Unmixed(taken[o], arena[o], held[o], lost[o], program[o], inherited[o])
        BY <2>11, FineFacts DEF Memory
      <3>2. IsMemory(links[o], R, e)
        BY <3>1, <2>2, <2>8 DEF IsMemory
      <3>3. ListEnds(o) \subseteq EndsOf(alive) /\ o \in R
        BY <2>11 DEF EndsOf
      <3>4. SameBut(ListEnds(o), {}, e, list_ends)
        BY <3>3, <2>7 DEF SameBut
      <3> HIDE DEF R
      <3>5. Sound(o, taken[o], arena[o], Over(links[o], e), DOMAIN e, held[o] \cup lost[o], inherited[o])
        BY <3>1, <3>2, <3>3, <3>4, <2>11, OthersSound
      <3>6. o # q
        BY <2>1, <2>11
      <3>7. Sound(o, taken'[o], arena'[o], Over(links'[o], list_ends'), DOMAIN list_ends', held'[o] \cup lost'[o], inherited'[o])
        BY <3>1, <3>5, <3>6, <2>1, <2>10
      <3>8. Occupied(arena'[o], held'[o] \cup lost'[o]) /\ Unmixed(taken'[o], arena'[o], held'[o], lost'[o], program'[o], inherited'[o])
        BY <3>1, <3>6, <2>10
      <3> QED
        BY <3>7, <3>8 DEF Fine
    <2>12. Fine(q)'
      <3> DEFINE T == taken[p]
                 A == arena[p]
                 l == links[p]
                 H == held[p]
                 L == lost[p]
                 K == H \cup L
                 G == program[p]
                 I == inherited[p]
      <3>1. /\ DOMAIN list_ends = EndsOf(alive) /\ IsMemory(l, alive, list_ends)
            /\ Composed(l, EndsOf(alive), list_ends, Memory(p))
            /\ Sound(p, T, A, Memory(p), DOMAIN list_ends, K, I)
            /\ Occupied(A, K) /\ Unmixed(T, A, H, L, G, I)
        BY FineFacts
      <3>2. IsMemory(l, R, e) /\ q \in R
        BY <3>1, <2>2, <2>8 DEF IsMemory
      <3>3. SameBut(ListEnds(q), {}, e, EmptyLists(q))
        BY <2>7 DEF SameBut
      <3>4. Copied(q, T, A, l, K)
        <4> DEFINE M == Memory(p)
                   E == DOMAIN list_ends
        <4>1. /\ Typed(T, A, M, E, K, I) /\ OnArenas(T, A, M, E) /\ Arenas(p, T, A, I)
              /\ Holdings(A, K) /\ Backed(A, M, K)
          BY <3>1 DEF Sound
        <4>2. DOMAIN l = DOMAIN M \ E
          BY <3>1 DEF Composed
        <4> HIDE DEF T, A, l, H, L, K, G, I, M, E
        <4>3. IsFiniteSet(DOMAIN l)
          <5>1. IsFiniteSet(DOMAIN M) /\ DOMAIN l \subseteq DOMAIN M
            BY <4>1, <4>2 DEF Typed
          <5> QED
            BY <5>1, FS_Subset
        <4>4. \A a \in DOMAIN l : PageOf(a) \in T /\ SmallOn(A, PageOf(a)) /\ BlockOf(A, a)
          BY <4>1, <4>2 DEF OnArenas
        <4>5. Arenas(q, T, A, T)
          <5>1. ASSUME NEW page, page \in Pages, SmallOn(A, page)
                PROVE  page \in T /\ OfClass(q, A, T, page)
            BY <4>1, <5>1 DEF Arenas, OfClass
          <5>2. \A page \in Pages : LargeOn(A, page) => Alone(T, A, page)
            BY <4>1 DEF Arenas
          <5> QED
            BY <5>1, <5>2 DEF Arenas
        <4>6. \A h \in K : SmallOn(A, PageOf(h.at)) => h.at \in DOMAIN l
          <5> SUFFICES ASSUME NEW h, h \in K, SmallOn(A, PageOf(h.at)) PROVE h.at \in DOMAIN l
            OBVIOUS
          <5>1. h.at \in DOMAIN M /\ PageOf(h.at) \in Pages
            BY <4>1 DEF Backed, Holdings
          <5>2. ~(PageOf(h.at) > NumPages + 1)
            BY <5>1, PagesAre
          <5> QED
            BY <5>1, <5>2, <4>1, <4>2 DEF OnArenas
        <4> QED
          BY <4>1, <4>3, <4>4, <4>5, <4>6 DEF Copied, Typed
      <3>5. /\ taken'[q] = T /\ arena'[q] = A /\ links'[q] = l /\ held'[q] = H /\ lost'[q] = L /\ program'[q] = G
            /\ inherited'[q] = T /\ list_ends' = e /\ K = H \cup L
        BY <2>1, <2>2 DEF HeapTypes
      <3> HIDE DEF T, A, l, H, L, K, G, I, R
      <3>6. Sound(q, T, A, Over(l, e), DOMAIN e, K, T)
        BY <3>2, <3>3, <3>4, CopiedSound
      <3>7. Sound(q, taken'[q], arena'[q], Over(links'[q], list_ends'), DOMAIN list_ends', held'[q] \cup lost'[q], inherited'[q])
        BY <3>5, <3>6
      <3>9. Unmixed(T, A, H, L, G, T)
        <4>1. I \subseteq T
          BY <3>1 DEF Sound, Typed
        <4>2. \A b : Usable(H, L, T, b) => Usable(H, L, I, b)
          BY <4>1 DEF Usable
        <4> QED
          BY <3>1, <4>2 DEF Unmixed, OffBlocks
      <3>8. Occupied(arena'[q], held'[q] \cup lost'[q]) /\ Unmixed(taken'[q], arena'[q], held'[q], lost'[q], program'[q], inherited'[q])
        BY <3>1, <3>5, <3>9
      <3> QED
        BY <3>7, <3>8 DEF Fine
    <2>13. ASSUME NEW o, o \in Slots \ R
           PROVE  Gone(o)'
      <3>1. Gone(o) /\ o # q /\ o \in Slots
        BY <2>13 DEF HeapIInv
      <3> QED
        BY <3>1, <2>10 DEF Gone
    <2> QED
      BY <2>1, <2>2, <2>9, <2>11, <2>12, <2>13 DEF HeapIInv
  <1> QED
    BY <1>1, <1>2

\* release_prog_resource and thread_exit.
LEMMA ExitKeeps ==
  ASSUME HeapIInv, NEW p, p \in alive, HeapExit(p)
  PROVE  HeapIInv'
  <1> DEFINE R == alive \ {p}
             e == Restrict(list_ends, DOMAIN list_ends \ ListEnds(p))
  <1>1. /\ alive' = R
        /\ taken' = [taken EXCEPT ![p] = {}]
        /\ arena' = [arena EXCEPT ![p] = NoArenas]
        /\ links' = [links EXCEPT ![p] = <<>>]
        /\ list_ends' = e
        /\ held' = [held EXCEPT ![p] = {}]
        /\ lost' = [lost EXCEPT ![p] = {}]
        /\ program' = [program EXCEPT ![p] = {}]
        /\ inherited' = [inherited EXCEPT ![p] = {}]
        /\ UNCHANGED stop
    BY DEF HeapExit, NoArenas
  <1>2. HeapTypes /\ p \in Slots /\ alive \subseteq Slots /\ R \subseteq Slots /\ stop \in {"no", "full"}
    BY DEF HeapIInv, HeapTypes
  <1>3. \A o \in Slots : o # p => ListEnds(o) \cap ListEnds(p) = {}
    <2> SUFFICES ASSUME NEW o, o \in Slots, o # p PROVE ListEnds(o) \cap ListEnds(p) = {}
      OBVIOUS
    <2>1. EndsOf({p}) = ListEnds(p) /\ {p} \subseteq Slots /\ o \notin {p}
      BY <1>2 DEF EndsOf
    <2> QED
      BY <2>1, EndsFacts
  <1>4. EndsOf(R) = EndsOf(alive) \ ListEnds(p)
    BY <1>2, <1>3 DEF EndsOf
  <1>5. list_ends \in [EndsOf(alive) -> Link]
    BY <1>2 DEF HeapTypes
  <1>6. e = [a \in EndsOf(R) |-> list_ends[a]]
    <2>1. DOMAIN list_ends \ ListEnds(p) = EndsOf(R)
      BY <1>4, <1>5
    <2> QED
      BY <2>1 DEF Restrict
  <1>7. e \in [EndsOf(R) -> Link] /\ \A a \in EndsOf(R) : e[a] = list_ends[a]
    BY <1>4, <1>5, <1>6
  <1>8. <<>> \in Memories
    <2>2. <<>> \in [{} -> Link]
      OBVIOUS
    <2> QED
      BY <2>2 DEF Memories
  <1>9. NoArenas \in [Pages -> Header]
    BY DEF NoArenas, NoArena, Header, NULL
  <1> HIDE DEF e
  <1>10. HeapTypes'
    <2>1. R \in SUBSET Slots /\ list_ends' \in [EndsOf(R) -> Link]
      BY <1>1, <1>2, <1>7
    <2> HIDE DEF R
    <2>2. taken' \in [Slots -> SUBSET Pages] /\ inherited' \in [Slots -> SUBSET Pages] /\ arena' \in [Slots -> [Pages -> Header]]
      BY <1>1, <1>2, <1>9 DEF HeapTypes
    <2>5. \A o \in Slots : inherited'[o] \subseteq taken'[o]
      BY <1>1, <1>2 DEF HeapTypes
    <2>3. /\ held' \in [Slots -> SUBSET [at : Nat, size : RequestSizes]]
          /\ lost' \in [Slots -> SUBSET [at : Nat, size : RequestSizes]]
          /\ program' \in [Slots -> SUBSET Segments] /\ links' \in [Slots -> Memories]
      BY <1>1, <1>2, <1>8 DEF HeapTypes
    <2>4. alive' = R /\ stop' = stop
      BY <1>1
    <2> QED
      BY <2>1, <2>2, <2>3, <2>4, <2>5, <1>2 DEF HeapTypes
  <1>11. \A o \in Slots : o # p => /\ taken'[o] = taken[o] /\ arena'[o] = arena[o] /\ held'[o] = held[o]
                                   /\ lost'[o] = lost[o] /\ program'[o] = program[o] /\ inherited'[o] = inherited[o]
                                   /\ links'[o] = links[o]
    BY <1>1, <1>2 DEF HeapTypes
  <1>12. ASSUME NEW o, o \in R
         PROVE  Fine(o)'
    <2>0. o \in alive /\ o # p
      BY <1>12
    <2>1. /\ o \in Slots /\ DOMAIN list_ends = EndsOf(alive) /\ IsMemory(links[o], alive, list_ends)
          /\ Sound(o, taken[o], arena[o], Over(links[o], list_ends), DOMAIN list_ends, held[o] \cup lost[o], inherited[o])
          /\ Occupied(arena[o], held[o] \cup lost[o])
          /\ Unmixed(taken[o], arena[o], held[o], lost[o], program[o], inherited[o])
      BY <2>0, FineFacts DEF Memory
    <2>2. IsMemory(links[o], R, e)
      BY <2>1, <1>2, <1>7 DEF IsMemory
    <2>3. ListEnds(o) \subseteq EndsOf(R)
      BY <1>12 DEF EndsOf
    <2>4. SameBut(ListEnds(o), {}, e, list_ends)
      BY <2>3, <1>7 DEF SameBut
    <2> HIDE DEF R
    <2>5. Sound(o, taken[o], arena[o], Over(links[o], e), DOMAIN e, held[o] \cup lost[o], inherited[o])
      BY <2>0, <2>1, <2>2, <2>4, <1>12, OthersSound
    <2>7. Sound(o, taken'[o], arena'[o], Over(links'[o], list_ends'), DOMAIN list_ends', held'[o] \cup lost'[o], inherited'[o])
      BY <2>0, <2>1, <2>5, <1>1, <1>11
    <2>8. Occupied(arena'[o], held'[o] \cup lost'[o]) /\ Unmixed(taken'[o], arena'[o], held'[o], lost'[o], program'[o], inherited'[o])
      BY <2>0, <2>1, <1>11
    <2> QED
      BY <2>7, <2>8 DEF Fine
  <1>13. ASSUME NEW o, o \in Slots \ R
         PROVE  Gone(o)'
    <2>1. CASE o = p
      BY <2>1, <1>1, <1>2 DEF Gone, HeapTypes
    <2>2. CASE o # p
      <3>1. Gone(o) /\ o \in Slots
        BY <1>13, <2>2 DEF HeapIInv
      <3> QED
        BY <3>1, <2>2, <1>11 DEF Gone
    <2> QED
      BY <2>1, <2>2
  <1> QED
    BY <1>1, <1>2, <1>10, <1>12, <1>13 DEF HeapIInv

\* Every operation of the heap keeps the invariant, or brings the heap to where only the
\* types are known and nothing follows.
LEMMA HeapNextKeeps ==
  ASSUME HeapSafe, [HeapNext]_heapVars
  PROVE  HeapSafe'
  <1>1. CASE UNCHANGED heapVars
    <2>1. HeapIInv => HeapIInv'
      BY <1>1, StutterKeeps
    <2>2. HeapTypes /\ stop \in {"overlaid", "mixed"} => HeapTypes' /\ stop' \in {"overlaid", "mixed"}
      BY <1>1 DEF heapVars, HeapTypes
    <2> QED
      BY <2>1, <2>2 DEF HeapSafe
  <1>2. CASE HeapNext
    <2>1. HeapIInv /\ stop = "no"
      BY <1>2 DEF HeapNext, HeapSafe
    <2>2. PICK p \in alive :
               \/ \E size \in RequestSizes : Malloc(p, size)
               \/ \E h \in held[p] : Free(p, h)
               \/ \E s \in Segments : HeapExec(p, s)
               \/ \E q \in Slots : HeapFork(p, q)
               \/ HeapExit(p)
      BY <1>2 DEF HeapNext
    <2>3. ASSUME NEW size, size \in RequestSizes, Malloc(p, size)
          PROVE  HeapIInv'
      <3>1. CASE Small(size) /\ MallocSmall(p, size)
        BY <2>1, <2>3, <3>1, MallocSmallKeeps
      <3>2. CASE MallocLarge(p, size)
        BY <2>1, <2>3, <3>2, MallocLargeKeeps
      <3> QED
        BY <2>3, <3>1, <3>2 DEF Malloc
    <2>4. ASSUME NEW h, h \in held[p], Free(p, h)
          PROVE  HeapSafe'
      <3>1. CASE arena[p][PageOf(h.at)].large
        BY <2>1, <2>4, <3>1, FreeLargeKeeps DEF HeapSafe
      <3>2. CASE ~arena[p][PageOf(h.at)].large /\ PageOf(h.at) \notin inherited[p]
        BY <2>1, <2>4, <3>2, FreeSmallKeeps DEF HeapSafe
      <3>3. CASE ~arena[p][PageOf(h.at)].large /\ PageOf(h.at) \in inherited[p]
        <4>1. HeapTypes' /\ stop' = "mixed"
          BY <2>1, <2>4, <3>3, FreeMixedKeeps
        <4> QED
          BY <4>1 DEF HeapSafe
      <3> QED
        BY <3>1, <3>2, <3>3
    <2>5. ASSUME NEW s, s \in Segments, HeapExec(p, s)
          PROVE  HeapSafe'
      BY <2>1, <2>5, ExecKeeps
    <2>6. ASSUME NEW q, q \in Slots, HeapFork(p, q)
          PROVE  HeapIInv'
      BY <2>1, <2>6, ForkKeeps
    <2>7. ASSUME HeapExit(p) PROVE HeapIInv'
      BY <2>1, <2>7, ExitKeeps
    <2> QED
      BY <2>2, <2>3, <2>4, <2>5, <2>6, <2>7 DEF HeapSafe
  <1> QED
    BY <1>1, <1>2

\* The invariant holds at all times.
LEMMA HeapInvariant == HeapSpec => []HeapSafe
  <1>1. HeapInit => HeapSafe
    BY HeapInitSound DEF HeapSafe
  <1>2. HeapSafe /\ [HeapNext]_heapVars => HeapSafe'
    BY HeapNextKeeps
  <1> QED
    BY <1>1, <1>2, PTL DEF HeapSpec

\* The invariant implies the types.
LEMMA HeapTypesHold ==
  ASSUME HeapSafe
  PROVE  HeapTypeOK
  <1>1. HeapTypes
    BY DEF HeapSafe, HeapIInv
  <1>2. ASSUME NEW p, p \in Slots
        PROVE  /\ taken[p] \subseteq Pages
               /\ inherited[p] \subseteq taken[p]
               /\ arena[p] \in [Pages -> Header]
               /\ \A a \in DOMAIN links[p] : PageOf(a) \in Pages /\ links[p][a] \in Link
               /\ held[p] \cup lost[p] \subseteq [at : Nat, size : RequestSizes]
               /\ program[p] \subseteq Segments
    <2>1. /\ taken[p] \subseteq Pages /\ inherited[p] \subseteq taken[p] /\ arena[p] \in [Pages -> Header]
          /\ program[p] \subseteq Segments /\ links[p] \in Memories
      BY <1>1, <1>2 DEF HeapTypes
    <2>2. /\ held[p] \subseteq [at : Nat, size : RequestSizes]
          /\ lost[p] \subseteq [at : Nat, size : RequestSizes]
      BY <1>1, <1>2 DEF HeapTypes
    <2>3. PICK D \in SUBSET UserAddresses : links[p] \in [D -> Link]
      BY <2>1 DEF Memories
    <2>4. \A a \in DOMAIN links[p] : PageOf(a) \in Pages /\ links[p][a] \in Link
      BY <2>3 DEF UserAddresses
    <2> QED
      BY <2>1, <2>2, <2>4
  <1>3. \A a \in UNION {ListEnds(p) : p \in alive} : list_ends[a] \in Link
    BY <1>1 DEF HeapTypes, EndsOf
  <1>4. alive \subseteq Slots /\ stop \in {"no", "full", "fault", "overlaid", "mixed"}
    BY <1>1 DEF HeapTypes
  <1> QED
    BY <1>2, <1>3, <1>4 DEF HeapTypeOK, Header

\* The invariant implies HeapSound.
LEMMA HeapSoundHolds ==
  ASSUME HeapSafe
  PROVE  HeapSound
  <1> SUFFICES ASSUME HeapIInv PROVE HeldApart /\ FreeListsExact /\ stop # "fault"
    BY DEF HeapSafe, HeapSound
  <1>1. HeldApart
    <2> SUFFICES ASSUME NEW p, p \in alive
                 PROVE  /\ \A h, g \in held[p] \cup program[p] : h # g => Extent(h) \cap Extent(g) = {}
                        /\ \A h \in held[p] \cup program[p] : \A b \in Extent(h) :
                             PageOf(b) \in taken[p] /\ ~(arena[p][PageOf(b)] # NoArena /\ b % PG_SIZE < ArenaSize)
      BY DEF HeldApart
    <2> DEFINE T == taken[p]
               A == arena[p]
               H == held[p]
               L == lost[p]
               G == program[p]
    <2>1. p \in Slots /\ Sound(p, T, A, Memory(p), DOMAIN list_ends, H \cup L, inherited[p])
          /\ Unmixed(T, A, H, L, G, inherited[p])
      BY FineFacts
    <2> HIDE DEF T, A, H, L, G
    <2>2. /\ \A h, g \in H \cup L : h # g => Extent(h) \cap Extent(g) = {}
          /\ \A h \in H \cup L : \A b \in Extent(h) :
               PageOf(b) \in T /\ ~(A[PageOf(b)] # NoArena /\ b % PG_SIZE < ArenaSize)
      BY <2>1, SoundApart
    <2>3. ASSUME NEW s, s \in G
          PROVE  /\ \A b \in Extent(s) : PageOf(b) \in T /\ ~(A[PageOf(b)] # NoArena /\ b % PG_SIZE < ArenaSize)
                 /\ \A h \in H : Extent(h) \cap Extent(s) = {}
      BY <2>1, <2>3, ProgramApart
    <2>4. \A r, s \in G : r = s
      BY <2>1 DEF Unmixed
    <2>5. ASSUME NEW h \in H \cup G, NEW g \in H \cup G, h # g
          PROVE  Extent(h) \cap Extent(g) = {}
      <3>1. CASE h \in H /\ g \in H
        BY <3>1, <2>2, <2>5
      <3>2. CASE h \in H /\ g \in G
        BY <3>2, <2>3
      <3>3. CASE h \in G /\ g \in H
        BY <3>3, <2>3
      <3>4. CASE h \in G /\ g \in G
        BY <3>4, <2>4, <2>5
      <3> QED
        BY <3>1, <3>2, <3>3, <3>4
    <2>6. \A h \in H \cup G : \A b \in Extent(h) : PageOf(b) \in T /\ ~(A[PageOf(b)] # NoArena /\ b % PG_SIZE < ArenaSize)
      BY <2>2, <2>3
    <2> QED
      BY <2>5, <2>6 DEF T, A, H, G
  <1>2. FreeListsExact
    <2> SUFFICES ASSUME NEW p, p \in alive, NEW c, c \in Classes
                 PROVE  LET m     == Memory(p)
                            head  == ListHead(p, c)
                            own   == {page \in taken[p] \ inherited[p] : arena[p][page].list = head}
                            chain == Walk(m, head)
                        IN /\ chain = UNION {FreeIn(p, page, c) : page \in own}
                           /\ \A page \in own : arena[p][page].cnt = Cardinality(FreeIn(p, page, c))
                           /\ \A b \in chain : Linked(m, b) /\ m[m[b].next].prev = b /\ m[m[b].prev].next = b
      BY DEF FreeListsExact
    <2> DEFINE T == taken[p]
               A == arena[p]
               m == Memory(p)
               K == held[p] \cup lost[p]
               I == inherited[p]
               E == DOMAIN list_ends
               S == FreeOf(p, T, A, K, I, c)
               head == ListHead(p, c)
               own == {page \in T \ I : A[page].list = head}
    <2>1. p \in Slots /\ Sound(p, T, A, m, E, K, I)
      BY FineFacts
    <2>2. own = OwnArenas(p, T, A, I, c)
      BY DEF OwnArenas
    <2>3. \A page : FreeIn(p, page, c) = FreeOn(K, page, c)
      BY DEF FreeIn, FreeOn
    <2>4. S = UNION {FreeIn(p, page, c) : page \in own}
      BY <2>2, <2>3 DEF FreeOf
    <2> HIDE DEF T, A, m, K, I, E, head, own
    <2>5. IsFiniteSet(DOMAIN m) /\ ListOf(DOMAIN m, m, head, S) /\ Counted(p, T, A, K, I)
      BY <2>1 DEF Sound, Typed, Listed, head
    <2>6. Walk(m, head) = S
      BY <2>5, WalkMeets
    <2>7. \A b \in S : Linked(m, b) /\ m[m[b].next].prev = b /\ m[m[b].prev].next = b
      BY <2>5, ListOfFacts
    <2>8. \A page \in own : A[page].cnt = Cardinality(FreeIn(p, page, c))
      BY <2>2, <2>3, <2>5 DEF Counted
    <2> QED
      BY <2>4, <2>6, <2>7, <2>8 DEF T, A, m, K, I, head, own
  <1>3. stop # "fault"
    BY DEF HeapIInv
  <1> QED
    BY <1>1, <1>2, <1>3

\* The heap keeps its types through every order of calls, loads, forks and exits, the ones
\* included in which a program is loaded over free blocks or a child frees a block of its
\* parent: pages, headers, links, what is held or lost and loaded segments (memory.c, fork.c,
\* exec.c).
THEOREM HeapTypeCorrect == HeapSpec => []HeapTypeOK
  BY HeapInvariant, HeapTypesHold, PTL

\* The heap is sound, for any number of pages, block sizes, processes and requests, whatever
\* a process holds when sys_execv loads a program into it, up to the step that loads it over
\* free blocks or frees a small block of the parent: no two things a process holds or runs
\* share a byte, none covers the header of an arena, every free list holds exactly the free
\* blocks of its arenas, linked both ways, every arena counts its free blocks, and no
\* assertion of list.c or memory.c fails (sys_malloc, sys_free, load, copy_process).
THEOREM HeapCorrect == HeapSpec => []HeapSound
  BY HeapInvariant, HeapSoundHolds, PTL

-----------------------------------------------------------------------------
\* What is true of the file and of the heap is true where the parts are put together.
LEMMA PartsOfSequential == SequentialSpec => Spec /\ HeapSpec
  <1>1. SequentialInit => Init /\ HeapInit
    BY DEF SequentialInit
  <1>2. [SequentialNext]_all => [Next]_vars
    BY DEF SequentialNext, all
  <1>3. [SequentialNext]_all => [HeapNext]_heapVars
    BY DEF SequentialNext, all
  <1> QED
    BY <1>1, <1>2, <1>3, PTL DEF SequentialSpec, Spec, HeapSpec

\* The file keeps its types.
THEOREM FileTypeCorrect == Spec => []TypeOK
  <1>1. IInv => TypeOK
    BY DEF IInv
  <1> QED
    BY <1>1, Invariant, PTL

\* The file and the heap keep their types wherever the parts run without interleaving.
THEOREM TypesCorrect == SequentialSpec => []TypesOK
  <1>1. TypeOK /\ HeapTypeOK => TypesOK
    BY DEF TypesOK
  <1> QED
    BY <1>1, PartsOfSequential, FileTypeCorrect, HeapTypeCorrect, PTL

=============================================================================
