--------------------------- MODULE FileTable_proofs ----------------------------
(***************************************************************************)
(* The inodes in memory for every set of processes and files, any number   *)
(* of slots and descriptors: IInv is inductive, so that no inode is freed  *)
(* while a slot of file_table or an inode_release uses it.                 *)
(***************************************************************************)
EXTENDS FileTable, SequencesExt, SequenceTheorems, FiniteSetTheorems, WellFoundedInduction, TLAPS

\* A set of numbers that is not empty has a least one.
LEMMA LeastNat ==
  ASSUME NEW S \in SUBSET Nat, S # {}
  PROVE  \E n \in S : \A m \in S : n <= m
  <1> DEFINE R == {ss \in Nat \X Nat : ss[1] < ss[2]}
  <1>1. IsWellFoundedOn(R, Nat)
    BY NatLessThanWellFounded DEF OpToRel
  <1>2. PICK n \in S : \A m \in S : ~(<<m, n>> \in R)
    BY <1>1, WFMin
  <1>3. \A m \in S : ~(m < n)
    BY <1>2
  <1> QED
    BY <1>3

\* list_push puts one more element on a list, in front.
LEMMA PushOnList ==
  ASSUME NEW S, NEW q \in Seq(S), NEW x \in S,
         IsInjective(q), ~Contains(q, x)
  PROVE  /\ Cons(x, q) \in Seq(S)
         /\ IsInjective(Cons(x, q))
         /\ \A y : Contains(Cons(x, q), y) <=> Contains(q, y) \/ y = x
         /\ Cons(x, q) # <<>>
  <1>1. /\ <<x>> \in Seq(S) /\ Len(<<x>>) = 1 /\ <<x>>[1] = x
    OBVIOUS
  <1>2. /\ Cons(x, q) \in Seq(S)
        /\ Len(Cons(x, q)) = Len(q) + 1
        /\ \A i \in 1 .. Len(q) + 1 : Cons(x, q)[i] = IF i = 1 THEN x ELSE q[i-1]
    BY <1>1, ConcatProperties DEF Cons
  <1>3. Len(q) \in Nat /\ DOMAIN q = 1 .. Len(q) /\ DOMAIN Cons(x, q) = 1 .. Len(q) + 1
    BY <1>2, LenProperties
  <1>4. IsInjective(Cons(x, q))
    <2> SUFFICES ASSUME NEW a \in 1 .. Len(q) + 1, NEW b \in 1 .. Len(q) + 1,
                        Cons(x, q)[a] = Cons(x, q)[b]
                 PROVE  a = b
      BY <1>3 DEF IsInjective
    <2>1. \A i \in 1 .. Len(q) : q[i] # x
      BY DEF Contains
    <2>2. \A i, j \in 1 .. Len(q) : q[i] = q[j] => i = j
      BY <1>3 DEF IsInjective
    <2>3. CASE a = 1
      BY <2>1, <2>3, <1>2, <1>3
    <2>4. CASE b = 1
      BY <2>1, <2>4, <1>2, <1>3
    <2>5. CASE a # 1 /\ b # 1
      <3>1. a - 1 \in 1 .. Len(q) /\ b - 1 \in 1 .. Len(q)
        BY <2>5, <1>3
      <3>2. q[a - 1] = q[b - 1]
        BY <2>5, <1>2
      <3> QED
        BY <3>1, <3>2, <2>2
    <2> QED
      BY <2>3, <2>4, <2>5
  <1>5. ASSUME NEW y
        PROVE  Contains(Cons(x, q), y) <=> Contains(q, y) \/ y = x
    <2>1. Contains(q, y) => Contains(Cons(x, q), y)
      <3> SUFFICES ASSUME NEW i \in 1 .. Len(q), q[i] = y
                   PROVE  Contains(Cons(x, q), y)
        BY DEF Contains
      <3>1. i + 1 \in 1 .. Len(q) + 1 /\ Cons(x, q)[i + 1] = y
        BY <1>2, <1>3
      <3> QED
        BY <1>2, <3>1 DEF Contains
    <2>2. Contains(Cons(x, q), x)
      BY <1>2, <1>3 DEF Contains
    <2>3. Contains(Cons(x, q), y) => Contains(q, y) \/ y = x
      BY <1>2, <1>3 DEF Contains
    <2> QED
      BY <2>1, <2>2, <2>3
  <1>6. Cons(x, q) # <<>>
    BY <1>2, <1>3, EmptySeq
  <1> QED
    BY <1>2, <1>4, <1>5, <1>6

\* list_remove of an element that is on the list once.
LEMMA RemoveFromList ==
  ASSUME NEW S, NEW q \in Seq(S), IsInjective(q), NEW x, Contains(q, x)
  PROVE  LET r == RemoveAt(q, CHOOSE i \in DOMAIN q : q[i] = x)
         IN /\ r \in Seq(S) /\ IsInjective(r)
            /\ \A y : Contains(r, y) <=> Contains(q, y) /\ y # x
  <1> DEFINE k == CHOOSE i \in DOMAIN q : q[i] = x
             r == RemoveAt(q, k)
             n == Len(q)
  <1>1. /\ n \in Nat /\ DOMAIN q = 1..n
        /\ \A i \in 1..n : q[i] \in S
        /\ \A i, j \in 1..n : q[i] = q[j] => i = j
    BY DEF IsInjective
  <1>2. k \in 1..n /\ q[k] = x
    BY <1>1 DEF Contains
  <1> HIDE DEF k, n
  <1>3. /\ SubSeq(q, 1, k-1) \in Seq(S) /\ Len(SubSeq(q, 1, k-1)) = k - 1
        /\ \A i \in 1..k-1 : SubSeq(q, 1, k-1)[i] = q[i]
    BY <1>1, <1>2
  <1>4. /\ SubSeq(q, k+1, n) \in Seq(S) /\ Len(SubSeq(q, k+1, n)) = n - k
        /\ \A i \in 1..n-k : SubSeq(q, k+1, n)[i] = q[k+i]
    <2>1. k+1 \in Int /\ n \in Int /\ \A i \in (k+1)..n : q[i] \in S
      BY <1>1, <1>2
    <2>2. /\ SubSeq(q, k+1, n) \in Seq(S)
          /\ Len(SubSeq(q, k+1, n)) = IF k+1 <= n THEN n - (k+1) + 1 ELSE 0
          /\ \A i \in 1..n-(k+1)+1 : SubSeq(q, k+1, n)[i] = q[(k+1)+i-1]
      BY <2>1, SubSeqProperties
    <2>3. n - (k+1) + 1 = n - k /\ (~(k+1 <= n) => n - k = 0)
          /\ \A i \in 1..n-k : (k+1)+i-1 = k+i
      BY <1>1, <1>2
    <2> QED
      BY <2>2, <2>3
  <1>5. r = SubSeq(q, 1, k-1) \o SubSeq(q, k+1, n)
    BY DEF RemoveAt, n
  <1>6. /\ r \in Seq(S) /\ Len(r) = n - 1 /\ DOMAIN r = 1..n-1
        /\ \A i \in 1..n-1 : r[i] = IF i < k THEN q[i] ELSE q[i+1]
    <2> DEFINE a == SubSeq(q, 1, k-1)
               b == SubSeq(q, k+1, n)
    <2>1. /\ a \in Seq(S) /\ Len(a) = k - 1 /\ \A i \in 1..k-1 : a[i] = q[i]
          /\ b \in Seq(S) /\ Len(b) = n - k /\ \A i \in 1..n-k : b[i] = q[k+i]
          /\ r = a \o b
      BY <1>3, <1>4, <1>5
    <2> HIDE DEF a, b, r
    <2>2. /\ r \in Seq(S) /\ Len(r) = (k-1) + (n-k)
          /\ \A i \in 1..(k-1)+(n-k) : r[i] = IF i <= k-1 THEN a[i] ELSE b[i - (k-1)]
      <3>1. /\ r \in Seq(S) /\ Len(r) = Len(a) + Len(b)
            /\ \A i \in 1..Len(a)+Len(b) : r[i] = IF i <= Len(a) THEN a[i] ELSE b[i - Len(a)]
        BY <2>1, ConcatProperties
      <3> QED
        BY <2>1, <3>1
    <2>3. (k-1) + (n-k) = n - 1
      BY <1>1, <1>2
    <2>4. \A i \in 1..n-1 : r[i] = IF i < k THEN q[i] ELSE q[i+1]
      <3> SUFFICES ASSUME NEW i \in 1..n-1 PROVE r[i] = IF i < k THEN q[i] ELSE q[i+1]
        OBVIOUS
      <3>1. CASE i < k
        <4>1. i <= k-1 /\ i \in 1..k-1
          BY <1>1, <1>2, <3>1
        <4> QED
          BY <2>1, <2>2, <2>3, <3>1, <4>1
      <3>2. CASE ~(i < k)
        <4>1. ~(i <= k-1) /\ i-(k-1) \in 1..n-k /\ k+(i-(k-1)) = i+1
          BY <1>1, <1>2, <3>2
        <4> QED
          BY <2>1, <2>2, <2>3, <3>2, <4>1
      <3> QED
        BY <3>1, <3>2
    <2> QED
      BY <2>2, <2>3, <2>4
  <1> HIDE DEF r
  <1>7. IsInjective(r)
    BY <1>1, <1>2, <1>6 DEF IsInjective
  <1>8. ASSUME NEW y, Contains(r, y)
        PROVE  Contains(q, y) /\ y # x
    <2>1. PICK i \in 1..n-1 : r[i] = y
      BY <1>6, <1>8 DEF Contains
    <2>2. PICK j \in 1..n : q[j] = y /\ j # k
      BY <1>1, <1>2, <1>6, <2>1
    <2> QED
      BY <1>1, <1>2, <2>2 DEF Contains
  <1>9. ASSUME NEW y, Contains(q, y), y # x
        PROVE  Contains(r, y)
    <2>1. PICK j \in 1..n : q[j] = y
      BY <1>1, <1>9 DEF Contains
    <2>2. j # k
      BY <1>2, <1>9, <2>1
    <2>3. CASE j < k
      <3>1. j \in 1..n-1 /\ r[j] = y
        BY <1>1, <1>2, <1>6, <2>1, <2>3
      <3> QED
        BY <1>6, <3>1 DEF Contains
    <2>4. CASE j > k
      <3>1. j - 1 \in 1..n-1 /\ r[j-1] = y
        BY <1>1, <1>2, <1>6, <2>1, <2>4
      <3> QED
        BY <1>6, <3>1 DEF Contains
    <2> QED
      BY <1>2, <2>1, <2>2, <2>3, <2>4
  <1> QED
    BY <1>6, <1>7, <1>8, <1>9 DEF r, k, n

-----------------------------------------------------------------------------
\* What the proofs need of the constants.
LEMMA Constants ==
  /\ First \in Processes /\ IsFiniteSet(Processes) /\ BootFile \in Files
  /\ MAX_FILE_OPEN \in Nat /\ MAX_FILES_OPEN_PER_PROC \in Nat
  /\ 0 \in Slots /\ 0 \in Fds /\ 1 \in Addresses /\ 1 \in 0..MaxCount
  /\ Slots \subseteq Nat /\ Addresses \subseteq Nat
  /\ NULL \notin Nat /\ NULL \notin InodeWith(Nat)
  BY FileTableAssumption, NullAssumption DEF Slots, Fds, Addresses

LEMMA FiniteSlots == IsFiniteSet(Slots)
  BY FileTableAssumption, FS_Interval DEF Slots

\* The memory, with open counts among counts.
MemWith(counts) ==
  [inode : [Addresses -> InodeWith(counts) \cup {NULL}],
   open  : Seq(Addresses),
   slot  : [Slots -> Addresses \cup {NULL}],
   writes : SUBSET Slots,
   ok    : BOOLEAN]


\* The parts of the memory, and the bound on the counts put back.
LEMMA Parts ==
  ASSUME NEW counts \in SUBSET Nat, NEW m \in MemWith(counts)
  PROVE  /\ m.inode \in [Addresses -> InodeWith(counts) \cup {NULL}]
         /\ m.open \in Seq(Addresses) /\ ToSet(m.open) \subseteq Addresses
         /\ m.slot \in [Slots -> Addresses \cup {NULL}]
         /\ m.writes \in SUBSET Slots /\ m.ok \in BOOLEAN
  BY DEF MemWith, ToSet

LEMMA Bounded ==
  ASSUME NEW m \in MemWith(Nat), CountsBounded(m)
  PROVE  m \in MemWith(0..MaxCount)
  <1>1. MaxCount \in Nat
    BY FileTableAssumption
  <1>2. ASSUME NEW a \in Addresses
        PROVE  m.inode[a] \in InodeWith(0..MaxCount) \cup {NULL}
    BY <1>1 DEF MemWith, CountsBounded, InodeWith
  <1> QED
    BY <1>2 DEF MemWith

\* Sets of counts from which a user may be taken away.
Ranges == {C \in SUBSET Nat : \A c \in C : c >= 1 => c - 1 \in C}

LEMMA TwoRanges == Nat \in Ranges /\ 0..MaxCount \in Ranges
  BY FileTableAssumption DEF Ranges

LEMMA Unbounded ==
  ASSUME NEW counts \in SUBSET Nat
  PROVE  InodeWith(counts) \subseteq InodeWith(Nat) /\ MemWith(counts) \subseteq MemWith(Nat)
  <1>1. InodeWith(counts) \subseteq InodeWith(Nat)
    BY DEF InodeWith
  <1> QED
    BY <1>1 DEF MemWith

\* The users of an inode are finitely many.
LEMMA FiniteUsers ==
  ASSUME NEW m, NEW a
  PROVE  /\ IsFiniteSet(SlotsAt(m, a)) /\ Cardinality(SlotsAt(m, a)) \in Nat
         /\ IsFiniteSet(Releasing(a)) /\ Cardinality(Releasing(a)) \in Nat
  BY FiniteSlots, Constants, FS_Subset, FS_CardinalityType DEF SlotsAt, Releasing

LEMMA LeastLemma ==
  ASSUME NEW S \in SUBSET Nat, S # {}
  PROVE  Least(S) \in S
  BY LeastNat DEF Least

\* inode_open finds the inode it looks for on open_inodes.
LEMMA FoundLemma ==
  ASSUME NEW m \in MemWith(Nat), NEW f, Known(m, f) # {}
  PROVE  Found(m, f) \in ToSet(m.open)
  <1> DEFINE K == {k \in DOMAIN m.open : m.inode[m.open[k]].i_no = f}
  <1>1. K # {} /\ K \in SUBSET Nat
    BY DEF MemWith, Known, ToSet
  <1>2. Least(K) \in K
    BY <1>1, LeastLemma
  <1> QED
    BY <1>2 DEF Found, ToSet

\* exit goes over the descriptors one by one: the recursive function Each stands
\* for exists.
LEMMA EachCloses ==
  ASSUME NEW m \in MemWith(Nat), NEW fds \in [Fds -> Slots \cup {NULL}]
  PROVE  \E after :
           /\ Each(FileClose, m, fds) = after[MAX_FILES_OPEN_PER_PROC]
           /\ after[0] = m
           /\ \A n \in 1..MAX_FILES_OPEN_PER_PROC :
                after[n] = IF fds[n - 1] = NULL THEN after[n - 1]
                           ELSE FileClose(after[n - 1], fds[n - 1])
  <1> DEFINE N == MAX_FILES_OPEN_PER_PROC
             Body(g, n) == IF n = 0 THEN m
                           ELSE IF fds[n - 1] = NULL THEN g[n - 1]
                           ELSE FileClose(g[n - 1], fds[n - 1])
  <1>1. PICK after : after = [n \in 0..N |-> Body(after, n)]
    <2> DEFINE Upto(k) == \E g : g = [n \in 0..k |-> Body(g, n)]
               Bad == {k \in Nat : ~Upto(k)}
    <2>1. Upto(0)
      <3> DEFINE g == [n \in 0..0 |-> m]
      <3>1. \A n \in 0..0 : n = 0
        OBVIOUS
      <3>2. g = [n \in 0..0 |-> Body(g, n)]
        BY <3>1
      <3> QED
        BY <3>2
    <2>2. ASSUME NEW k \in Nat, Upto(k)
          PROVE  Upto(k + 1)
      <3>1. PICK g : g = [n \in 0..k |-> Body(g, n)]
        BY <2>2
      <3> DEFINE h == [n \in 0..k+1 |-> IF n \in 0..k THEN g[n] ELSE Body(g, n)]
      <3>2. ASSUME NEW n \in 0..k+1
            PROVE  h[n] = Body(h, n)
        <4>1. n # 0 => n - 1 \in 0..k /\ n - 1 \in 0..k+1
          OBVIOUS
        <4>2. n # 0 => h[n - 1] = g[n - 1]
          BY <4>1
        <4>3. Body(h, n) = Body(g, n)
          BY <4>2
        <4>4. n \in 0..k => g[n] = Body(g, n)
          BY <3>1
        <4> QED
          BY <4>3, <4>4
      <3>3. h = [n \in 0..k+1 |-> Body(h, n)]
        BY <3>2
      <3> QED
        BY <3>3
    <2>3. Bad = {}
      <3> SUFFICES ASSUME Bad # {} PROVE FALSE
        OBVIOUS
      <3>1. PICK k \in Bad : \A i \in Bad : k <= i
        BY LeastNat
      <3> HIDE DEF Upto
      <3>2. k # 0
        BY <2>1
      <3>3. k - 1 \in Nat /\ k - 1 \notin Bad
        BY <3>1, <3>2
      <3>4. Upto(k - 1)
        BY <3>3
      <3>5. Upto((k - 1) + 1)
        BY <3>3, <3>4, <2>2
      <3>6. (k - 1) + 1 = k
        OBVIOUS
      <3> QED
        BY <3>5, <3>6
    <2>4. N \in Nat
      BY Constants
    <2> HIDE DEF Upto
    <2>5. Upto(N)
      BY <2>3, <2>4
    <2> QED
      BY <2>5 DEF Upto
  <1> DEFINE whole == CHOOSE g : g = [n \in 0..N |-> Body(g, n)]
  <1>2. whole = [n \in 0..N |-> Body(whole, n)]
    BY <1>1
  <1>3. Each(FileClose, m, fds) = whole[N]
    BY DEF Each
  <1> HIDE DEF whole
  <1>4. N \in Nat
    BY Constants
  <1>5. whole[0] = m
    BY <1>2, <1>4
  <1>6. \A n \in 1..N : whole[n] = Body(whole, n) /\ n # 0
    BY <1>2, <1>4
  <1> QED
    BY <1>3, <1>5, <1>6

\* The same for fork.
LEMMA EachCounts ==
  ASSUME NEW m \in MemWith(Nat), NEW fds \in [Fds -> Slots \cup {NULL}]
  PROVE  \E after :
           /\ Each(CountOnce, m, fds) = after[MAX_FILES_OPEN_PER_PROC]
           /\ after[0] = m
           /\ \A n \in 1..MAX_FILES_OPEN_PER_PROC :
                after[n] = IF fds[n - 1] = NULL THEN after[n - 1]
                           ELSE CountOnce(after[n - 1], fds[n - 1])
  <1> DEFINE N == MAX_FILES_OPEN_PER_PROC
             Body(g, n) == IF n = 0 THEN m
                           ELSE IF fds[n - 1] = NULL THEN g[n - 1]
                           ELSE CountOnce(g[n - 1], fds[n - 1])
  <1>1. PICK after : after = [n \in 0..N |-> Body(after, n)]
    <2> DEFINE Upto(k) == \E g : g = [n \in 0..k |-> Body(g, n)]
               Bad == {k \in Nat : ~Upto(k)}
    <2>1. Upto(0)
      <3> DEFINE g == [n \in 0..0 |-> m]
      <3>1. \A n \in 0..0 : n = 0
        OBVIOUS
      <3>2. g = [n \in 0..0 |-> Body(g, n)]
        BY <3>1
      <3> QED
        BY <3>2
    <2>2. ASSUME NEW k \in Nat, Upto(k)
          PROVE  Upto(k + 1)
      <3>1. PICK g : g = [n \in 0..k |-> Body(g, n)]
        BY <2>2
      <3> DEFINE h == [n \in 0..k+1 |-> IF n \in 0..k THEN g[n] ELSE Body(g, n)]
      <3>2. ASSUME NEW n \in 0..k+1
            PROVE  h[n] = Body(h, n)
        <4>1. n # 0 => n - 1 \in 0..k /\ n - 1 \in 0..k+1
          OBVIOUS
        <4>2. n # 0 => h[n - 1] = g[n - 1]
          BY <4>1
        <4>3. Body(h, n) = Body(g, n)
          BY <4>2
        <4>4. n \in 0..k => g[n] = Body(g, n)
          BY <3>1
        <4> QED
          BY <4>3, <4>4
      <3>3. h = [n \in 0..k+1 |-> Body(h, n)]
        BY <3>2
      <3> QED
        BY <3>3
    <2>3. Bad = {}
      <3> SUFFICES ASSUME Bad # {} PROVE FALSE
        OBVIOUS
      <3>1. PICK k \in Bad : \A i \in Bad : k <= i
        BY LeastNat
      <3> HIDE DEF Upto
      <3>2. k # 0
        BY <2>1
      <3>3. k - 1 \in Nat /\ k - 1 \notin Bad
        BY <3>1, <3>2
      <3>4. Upto(k - 1)
        BY <3>3
      <3>5. Upto((k - 1) + 1)
        BY <3>3, <3>4, <2>2
      <3>6. (k - 1) + 1 = k
        OBVIOUS
      <3> QED
        BY <3>5, <3>6
    <2>4. N \in Nat
      BY Constants
    <2> HIDE DEF Upto
    <2>5. Upto(N)
      BY <2>3, <2>4
    <2> QED
      BY <2>5 DEF Upto
  <1> DEFINE whole == CHOOSE g : g = [n \in 0..N |-> Body(g, n)]
  <1>2. whole = [n \in 0..N |-> Body(whole, n)]
    BY <1>1
  <1>3. Each(CountOnce, m, fds) = whole[N]
    BY DEF Each
  <1> HIDE DEF whole
  <1>4. N \in Nat
    BY Constants
  <1>5. whole[0] = m
    BY <1>2, <1>4
  <1>6. \A n \in 1..N : whole[n] = Body(whole, n) /\ n # 0
    BY <1>2, <1>4
  <1> QED
    BY <1>3, <1>5, <1>6

-----------------------------------------------------------------------------
\* Closing an inode and closing a file.

LEMMA ListedLemma ==
  ASSUME NEW S, NEW q \in Seq(S)
  PROVE  \A x : Contains(q, x) <=> x \in ToSet(q)
  BY DEF Contains, ToSet

\* list_remove leaves the other inodes where they are.
LEMMA DelistedLemma ==
  ASSUME NEW m \in MemWith(Nat), NEW a \in ToSet(m.open), IsInjective(m.open)
  PROVE  /\ Delisted(m, a) \in Seq(Addresses)
         /\ IsInjective(Delisted(m, a))
         /\ ToSet(Delisted(m, a)) = ToSet(m.open) \ {a}
  <1>1. m.open \in Seq(Addresses)
    BY DEF MemWith
  <1>2. Contains(m.open, a)
    BY <1>1, ListedLemma
  <1>3. /\ Delisted(m, a) \in Seq(Addresses)
        /\ IsInjective(Delisted(m, a))
        /\ \A y : Contains(Delisted(m, a), y) <=> Contains(m.open, y) /\ y # a
    BY <1>1, <1>2, RemoveFromList DEF Delisted
  <1>4. \A y : y \in ToSet(Delisted(m, a)) <=> y \in ToSet(m.open) /\ y # a
    BY <1>1, <1>3, ListedLemma
  <1> QED
    BY <1>3, <1>4

\* inode_close takes a user away, and the inode itself from its last one.
LEMMA InodeCloseLemma ==
  ASSUME NEW counts \in Ranges, NEW m \in MemWith(counts),
         NEW a \in ToSet(m.open), IsInjective(m.open),
         m.inode[a] # NULL, m.inode[a].i_open_cnts >= 1
  PROVE  LET r == InodeClose(m, a)
         IN /\ r \in MemWith(counts)
            /\ r.slot = m.slot /\ r.writes = m.writes /\ r.ok = m.ok
            /\ IsInjective(r.open)
            /\ \A b \in Addresses \ {a} : r.inode[b] = m.inode[b]
            /\ IF m.inode[a].i_open_cnts = 1 THEN ToSet(r.open) = ToSet(m.open) \ {a}
               ELSE /\ r.open = m.open
                    /\ r.inode[a] # NULL
                    /\ r.inode[a].i_open_cnts = m.inode[a].i_open_cnts - 1
                    /\ r.inode[a].i_no = m.inode[a].i_no
  <1> DEFINE r == InodeClose(m, a)
             c == m.inode[a].i_open_cnts
  <1>1. counts \in SUBSET Nat
    BY DEF Ranges
  <1>2. m \in MemWith(Nat) /\ InodeWith(counts) \subseteq InodeWith(Nat)
    BY <1>1, Unbounded
  <1>3. /\ m.inode \in [Addresses -> InodeWith(counts) \cup {NULL}]
        /\ m.open \in Seq(Addresses) /\ a \in Addresses
        /\ m.slot \in [Slots -> Addresses \cup {NULL}]
        /\ m.writes \in SUBSET Slots /\ m.ok \in BOOLEAN
    BY <1>1, Parts
  <1>4. m.inode[a] \in InodeWith(counts) /\ c \in counts /\ c \in Nat
    BY <1>1, <1>3 DEF InodeWith
  <1>5. CASE c = 1
    <2>1. r = [m EXCEPT !.inode[a] = NULL, !.open = Delisted(m, a)]
      BY <1>5 DEF InodeClose
    <2>2. /\ r.inode = [m.inode EXCEPT ![a] = NULL] /\ r.open = Delisted(m, a)
          /\ r.slot = m.slot /\ r.writes = m.writes /\ r.ok = m.ok
      BY <2>1 DEF MemWith
    <2>3. r.inode \in [Addresses -> InodeWith(counts) \cup {NULL}]
      BY <1>3, <2>2
    <2>4. /\ r.open \in Seq(Addresses) /\ IsInjective(r.open)
          /\ ToSet(r.open) = ToSet(m.open) \ {a}
      BY <1>2, <2>2, DelistedLemma
    <2>5. r \in MemWith(counts)
      <3> DEFINE i == [m.inode EXCEPT ![a] = NULL]
                 o == Delisted(m, a)
      <3>1. i \in [Addresses -> InodeWith(counts) \cup {NULL}] /\ o \in Seq(Addresses)
        BY <2>2, <2>3, <2>4
      <3>2. r = [m EXCEPT !.inode = i, !.open = o]
        BY <2>1
      <3> HIDE DEF i, o, r
      <3> QED
        BY <3>1, <3>2 DEF MemWith
    <2> QED
      BY <1>3, <1>5, <2>2, <2>4, <2>5
  <1>6. CASE c # 1
    <2> DEFINE x == [m.inode[a] EXCEPT !.i_open_cnts = @ - 1]
    <2>1. r = [m EXCEPT !.inode[a].i_open_cnts = @ - 1]
      BY <1>6 DEF InodeClose
    <2>2. /\ r.inode = [m.inode EXCEPT ![a] = x] /\ r.open = m.open
          /\ r.slot = m.slot /\ r.writes = m.writes /\ r.ok = m.ok
      BY <2>1 DEF MemWith
    <2>3. c - 1 \in counts
      BY <1>4 DEF Ranges
    <2>4. /\ x \in InodeWith(counts) /\ x.i_open_cnts = c - 1
          /\ x.i_no = m.inode[a].i_no
      BY <1>4, <2>3 DEF InodeWith
    <2>5. x # NULL
      BY <1>2, <2>4, Constants
    <2>6. r \in MemWith(counts)
      BY <1>3, <2>1, <2>2, <2>4 DEF MemWith
    <2> QED
      BY <1>3, <1>6, <2>2, <2>4, <2>5, <2>6
  <1> QED
    BY <1>5, <1>6

\* file_close: the slot is free and its inode has been closed, or the kernel has stopped.
LEMMA FileCloseLemma ==
  ASSUME NEW counts \in Ranges, NEW m \in MemWith(counts), NEW s \in Slots,
         m.slot[s] \in ToSet(m.open), IsInjective(m.open),
         m.inode[m.slot[s]] # NULL, m.inode[m.slot[s]].i_open_cnts >= 1
  PROVE  LET r == FileClose(m, s)
             a == m.slot[s]
         IN /\ r \in MemWith(counts)
            /\ r.slot = [m.slot EXCEPT ![s] = NULL]
            /\ IsInjective(r.open)
            /\ \A b \in Addresses \ {a} : r.inode[b] = m.inode[b]
            /\ IF m.inode[a].i_open_cnts = 1 THEN ToSet(r.open) = ToSet(m.open) \ {a}
               ELSE /\ r.open = m.open
                    /\ r.inode[a] # NULL
                    /\ r.inode[a].i_open_cnts = m.inode[a].i_open_cnts - 1
                    /\ r.inode[a].i_no = m.inode[a].i_no
  <1> DEFINE a == m.slot[s]
             x == [m.inode[a] EXCEPT !.write_deny = FALSE]
             d == [m EXCEPT !.inode[a].write_deny = FALSE]
             k == InodeClose(d, a)
             r == FileClose(m, s)
  <1>1. counts \in SUBSET Nat
    BY DEF Ranges
  <1>2. /\ m.inode \in [Addresses -> InodeWith(counts) \cup {NULL}]
        /\ m.open \in Seq(Addresses) /\ a \in Addresses
        /\ m.slot \in [Slots -> Addresses \cup {NULL}]
        /\ m.writes \in SUBSET Slots /\ m.ok \in BOOLEAN
    BY <1>1, Parts
  <1>3. m.inode[a] \in InodeWith(counts)
    BY <1>2
  <1>4. /\ x \in InodeWith(counts) /\ x.i_open_cnts = m.inode[a].i_open_cnts
        /\ x.i_no = m.inode[a].i_no
    BY <1>3 DEF InodeWith
  <1>5. x # NULL
    <2>1. InodeWith(counts) \subseteq InodeWith(Nat)
      BY <1>1, Unbounded
    <2> QED
      BY <1>4, <2>1, Constants
  <1>6. /\ d.inode = [m.inode EXCEPT ![a] = x] /\ d.open = m.open
        /\ d.slot = m.slot /\ d.writes = m.writes /\ d.ok = m.ok
    BY DEF MemWith
  <1>7. d \in MemWith(counts)
    BY <1>2, <1>4, <1>6 DEF MemWith
  <1>8. d.inode[a] = x /\ \A b \in Addresses \ {a} : d.inode[b] = m.inode[b]
    BY <1>2, <1>6
  <1>9. /\ k \in MemWith(counts)
        /\ k.slot = d.slot /\ k.writes = d.writes /\ k.ok = d.ok
        /\ IsInjective(k.open)
        /\ \A b \in Addresses \ {a} : k.inode[b] = d.inode[b]
        /\ IF d.inode[a].i_open_cnts = 1 THEN ToSet(k.open) = ToSet(d.open) \ {a}
           ELSE /\ k.open = d.open
                /\ k.inode[a] # NULL
                /\ k.inode[a].i_open_cnts = d.inode[a].i_open_cnts - 1
                /\ k.inode[a].i_no = d.inode[a].i_no
    <2>1. /\ a \in ToSet(d.open) /\ IsInjective(d.open)
          /\ d.inode[a] # NULL /\ d.inode[a].i_open_cnts >= 1
      BY <1>4, <1>5, <1>6, <1>8
    <2> HIDE DEF a, d, x
    <2> QED
      BY <1>7, <2>1, InodeCloseLemma
  <1>10. a # NULL
    BY <1>2, Constants
  <1>11. r = [k EXCEPT !.slot[s] = NULL, !.writes = @ \ {s}]
    BY <1>10 DEF FileClose
  <1> HIDE DEF k, r, d
  <1>12. /\ r.slot = [k.slot EXCEPT ![s] = NULL] /\ r.writes = k.writes \ {s}
         /\ r.open = k.open /\ r.inode = k.inode /\ r.ok = k.ok
    BY <1>9, <1>11 DEF MemWith
  <1>13. r \in MemWith(counts)
    <2>1. r.slot \in [Slots -> Addresses \cup {NULL}] /\ r.writes \in SUBSET Slots
      BY <1>2, <1>6, <1>9, <1>12
    <2> QED
      BY <1>9, <1>11, <1>12, <2>1 DEF MemWith
  <1>14. IF m.inode[a].i_open_cnts = 1 THEN ToSet(r.open) = ToSet(m.open) \ {a}
         ELSE /\ r.open = m.open
              /\ r.inode[a] # NULL
              /\ r.inode[a].i_open_cnts = m.inode[a].i_open_cnts - 1
              /\ r.inode[a].i_no = m.inode[a].i_no
    BY <1>4, <1>6, <1>8, <1>9, <1>12
  <1>15. \A b \in Addresses \ {a} : r.inode[b] = m.inode[b]
    BY <1>6, <1>8, <1>9, <1>12
  <1>16. r.slot = [m.slot EXCEPT ![s] = NULL] /\ IsInjective(r.open)
    BY <1>6, <1>9, <1>12
  <1> HIDE DEF a
  <1> QED
    BY <1>13, <1>14, <1>15, <1>16 DEF r, a

-----------------------------------------------------------------------------
\* The memory stays sound when a file is closed or a descriptor is inherited.

\* Where the calls that load or delete an inode have it.
LEMMA Loads ==
  ASSUME TypeOK
  PROVE  /\ \A p \in Processes : call[p].inode \in Addresses
         /\ Loading \subseteq Processes /\ Deleting \subseteq Processes
         /\ \A a : Releasing(a) = {p \in Deleting : call[p].inode = a}
         /\ mem \in MemWith(0..MaxCount) /\ mem \in MemWith(Nat)
  <1>1. mem \in MemWith(0..MaxCount)
    BY DEF TypeOK, MemWith, Inode
  <1>2. mem \in MemWith(Nat)
    BY <1>1, TwoRanges, Unbounded DEF Ranges
  <1> QED
    BY <1>1, <1>2 DEF TypeOK, Loading, Deleting, Releasing

\* A count that covers its users is 1 or more if there is one, and if it is 1 there
\* is no other.
LEMMA Covered ==
  ASSUME NEW S, NEW R, IsFiniteSet(S), IsFiniteSet(R), NEW c \in Nat,
         c >= Cardinality(S) + Cardinality(R), NEW x \in S
  PROVE  /\ c >= 1
         /\ c - 1 >= Cardinality(S \ {x}) + Cardinality(R)
         /\ c = 1 => S \ {x} = {} /\ R = {}
  <1>1. IsFiniteSet(S \ {x}) /\ Cardinality(S \ {x}) = Cardinality(S) - 1
    BY FS_RemoveElement
  <1>2. /\ Cardinality(S) \in Nat /\ Cardinality(R) \in Nat /\ Cardinality(S \ {x}) \in Nat
    BY <1>1, FS_CardinalityType
  <1>3. c - 1 >= Cardinality(S \ {x}) + Cardinality(R) /\ c >= 1
    BY <1>1, <1>2
  <1>4. c = 1 => Cardinality(S \ {x}) = 0 /\ Cardinality(R) = 0
    BY <1>2, <1>3
  <1> QED
    BY <1>1, <1>3, <1>4, FS_EmptySet

\* From m to r slots may be closed, but none comes to stand for another file.
Kept(m, r) ==
  \A t \in Slots :
    r.slot[t] # NULL =>
      r.slot[t] = m.slot[t] /\ r.inode[r.slot[t]].i_no = m.inode[m.slot[t]].i_no

LEMMA FileCloseSound ==
  ASSUME TypeOK, NEW counts \in Ranges, NEW m \in MemWith(counts),
         NEW s \in Slots, Sound(m)
  PROVE  /\ FileClose(m, s) \in MemWith(counts) /\ Sound(FileClose(m, s))
         /\ Kept(m, FileClose(m, s))
         /\ \A t \in Slots \ {s} : FileClose(m, s).slot[t] = m.slot[t]
  <1> DEFINE a == m.slot[s]
             r == FileClose(m, s)
             c == m.inode[a].i_open_cnts
  <1>1. counts \in SUBSET Nat
    BY DEF Ranges
  <1>2. /\ m.inode \in [Addresses -> InodeWith(counts) \cup {NULL}]
        /\ m.open \in Seq(Addresses) /\ ToSet(m.open) \subseteq Addresses
        /\ m.slot \in [Slots -> Addresses \cup {NULL}]
    BY <1>1, Parts
  <1>3. CASE a = NULL
    <2>1. r = [m EXCEPT !.ok = FALSE]
      BY <1>3 DEF FileClose
    <2>2. r \in MemWith(counts) /\ r.inode = m.inode /\ r.open = m.open /\ r.slot = m.slot
      BY <2>1 DEF MemWith
    <2> QED
      BY <2>2 DEF Sound, Referenced, Counted, Private, SlotsAt, Kept
  <1>4. CASE a # NULL
    <2>1. a \in ToSet(m.open) /\ a \in Addresses
      BY <1>2, <1>4 DEF Sound, Referenced
    <2>2. m.inode[a] # NULL /\ c \in Nat
      BY <1>1, <1>2, <2>1 DEF Sound, Counted, InodeWith
    <2>3. c >= Cardinality(SlotsAt(m, a)) + Cardinality(Releasing(a))
      BY <2>1 DEF Sound, Counted
    <2>4. s \in SlotsAt(m, a)
      BY DEF SlotsAt
    <2>5. /\ c >= 1
          /\ c - 1 >= Cardinality(SlotsAt(m, a) \ {s}) + Cardinality(Releasing(a))
          /\ c = 1 => SlotsAt(m, a) \ {s} = {} /\ Releasing(a) = {}
      <3> HIDE DEF c, a
      <3> QED
        BY <2>2, <2>3, <2>4, FiniteUsers, Covered
    <2>6. IsInjective(m.open) /\ c >= 1
      BY <2>5 DEF Sound, Referenced
    <2>7. /\ r \in MemWith(counts)
          /\ r.slot = [m.slot EXCEPT ![s] = NULL]
          /\ IsInjective(r.open)
          /\ \A b \in Addresses \ {a} : r.inode[b] = m.inode[b]
          /\ IF c = 1 THEN ToSet(r.open) = ToSet(m.open) \ {a}
             ELSE /\ r.open = m.open
                  /\ r.inode[a] # NULL
                  /\ r.inode[a].i_open_cnts = c - 1
                  /\ r.inode[a].i_no = m.inode[a].i_no
      <3>1. /\ m.slot[s] \in ToSet(m.open) /\ m.inode[m.slot[s]] # NULL
            /\ m.inode[m.slot[s]].i_open_cnts >= 1
        BY <2>1, <2>2, <2>6
      <3> HIDE DEF a, r, c
      <3>2. LET k == FileClose(m, s)
                d == m.slot[s]
            IN /\ k \in MemWith(counts)
               /\ k.slot = [m.slot EXCEPT ![s] = NULL]
               /\ IsInjective(k.open)
               /\ \A b \in Addresses \ {d} : k.inode[b] = m.inode[b]
               /\ IF m.inode[d].i_open_cnts = 1 THEN ToSet(k.open) = ToSet(m.open) \ {d}
                  ELSE /\ k.open = m.open
                       /\ k.inode[d] # NULL
                       /\ k.inode[d].i_open_cnts = m.inode[d].i_open_cnts - 1
                       /\ k.inode[d].i_no = m.inode[d].i_no
        BY <2>6, <3>1, FileCloseLemma
      <3> QED
        BY <3>2 DEF a, r, c
    <2> HIDE DEF r, c
    <2>8. SlotsAt(r, a) = SlotsAt(m, a) \ {s} /\ \A b \in Addresses \ {a} : SlotsAt(r, b) = SlotsAt(m, b)
      <3>1. a # NULL
        BY <1>4
      <3>2. \A t \in Slots : r.slot[t] = IF t = s THEN NULL ELSE m.slot[t]
        BY <1>2, <2>7
      <3>3. \A t : t \in SlotsAt(r, a) <=> t \in SlotsAt(m, a) \ {s}
        BY <3>1, <3>2 DEF SlotsAt
      <3>4. \A b \in Addresses \ {a} : b # NULL /\ m.slot[s] # b
        BY Constants
      <3>5. \A b \in Addresses \ {a} : \A t : t \in SlotsAt(r, b) <=> t \in SlotsAt(m, b)
        <4> HIDE DEF a
        <4> QED
          BY <3>2, <3>4 DEF SlotsAt
      <3>6. SlotsAt(r, a) = SlotsAt(m, a) \ {s}
        BY <3>3
      <3> QED
        BY <3>5, <3>6
    <2>9. ToSet(r.open) \subseteq ToSet(m.open) /\ ToSet(m.open) \ {a} \subseteq ToSet(r.open)
      BY <2>7
    <2>10. ASSUME NEW t \in Slots, r.slot[t] # NULL
           PROVE  r.slot[t] \in ToSet(r.open)
      <3>1. t # s /\ r.slot[t] = m.slot[t] /\ m.slot[t] \in ToSet(m.open)
        BY <1>2, <2>7, <2>10 DEF Sound, Referenced
      <3>2. m.slot[t] = a => c # 1
        BY <2>5, <3>1 DEF SlotsAt
      <3> QED
        BY <2>7, <2>9, <3>1, <3>2
    <2>11. ASSUME NEW p \in Deleting
           PROVE  call[p].inode \in ToSet(r.open)
      <3>1. call[p].inode \in ToSet(m.open)
        BY DEF Sound, Referenced
      <3>2. call[p].inode = a => c # 1
        BY <2>5, Loads
      <3> QED
        BY <2>7, <2>9, <3>1, <3>2
    <2>12. Referenced(r)
      BY <2>7, <2>10, <2>11 DEF Referenced
    <2>13. ASSUME NEW b \in ToSet(r.open)
           PROVE  /\ r.inode[b] # NULL
                  /\ r.inode[b].i_open_cnts >= Cardinality(SlotsAt(r, b)) + Cardinality(Releasing(b))
      <3>1. CASE b # a
        <4>1. r.inode[b] = m.inode[b] /\ SlotsAt(r, b) = SlotsAt(m, b) /\ b \in ToSet(m.open)
          BY <1>2, <2>7, <2>8, <2>9, <3>1
        <4> QED
          BY <4>1 DEF Sound, Counted
      <3>2. CASE b = a
        BY <2>5, <2>7, <2>8, <3>2
      <3> QED
        BY <3>1, <3>2
    <2>14. Counted(r)
      BY <2>13 DEF Counted
    <2>15. Private(r)
      <3>1. ASSUME NEW p \in Loading
            PROVE  r.inode[call[p].inode] # NULL /\ call[p].inode \notin ToSet(r.open)
        <4>1. m.inode[call[p].inode] # NULL /\ call[p].inode \notin ToSet(m.open)
          BY DEF Sound, Private
        <4>2. call[p].inode \in Addresses \ {a}
          BY <2>1, <4>1, Loads
        <4> QED
          BY <2>7, <2>9, <4>1, <4>2
      <3> QED
        BY <3>1 DEF Sound, Private
    <2>16. ASSUME NEW t \in Slots
           PROVE  /\ t # s => r.slot[t] = m.slot[t]
                  /\ r.slot[t] # NULL =>
                       r.slot[t] = m.slot[t] /\ r.inode[r.slot[t]].i_no = m.inode[m.slot[t]].i_no
      <3>1. r.slot[t] = IF t = s THEN NULL ELSE m.slot[t]
        BY <1>2, <2>7
      <3>2. CASE t = s
        BY <3>1, <3>2
      <3>3. CASE t # s /\ m.slot[t] = a
        <4>1. c # 1
          BY <2>5, <3>3 DEF SlotsAt
        <4> QED
          BY <2>7, <3>1, <3>3, <4>1
      <3>4. CASE t # s /\ m.slot[t] # a
        <4>1. m.slot[t] # NULL => m.slot[t] \in Addresses \ {a}
          BY <1>2, <3>4
        <4> QED
          BY <2>7, <3>1, <3>4, <4>1
      <3> QED
        BY <3>2, <3>3, <3>4
    <2> QED
      BY <2>7, <2>12, <2>14, <2>15, <2>16 DEF Sound, Kept, r
  <1> QED
    BY <1>3, <1>4

\* update_inode_open_cnts, for one descriptor.
LEMMA CountOnceSound ==
  ASSUME TypeOK, NEW m \in MemWith(Nat), NEW s \in Slots, Sound(m)
  PROVE  /\ CountOnce(m, s) \in MemWith(Nat) /\ Sound(CountOnce(m, s))
         /\ Kept(m, CountOnce(m, s)) /\ CountOnce(m, s).slot = m.slot
  <1> DEFINE a == m.slot[s]
             r == CountOnce(m, s)
  <1>2. /\ m.inode \in [Addresses -> InodeWith(Nat) \cup {NULL}]
        /\ m.open \in Seq(Addresses) /\ ToSet(m.open) \subseteq Addresses
        /\ m.slot \in [Slots -> Addresses \cup {NULL}]
    BY Parts
  <1>3. CASE a = NULL
    <2>1. r = [m EXCEPT !.ok = FALSE]
      BY <1>3 DEF CountOnce
    <2>2. r \in MemWith(Nat) /\ r.inode = m.inode /\ r.open = m.open /\ r.slot = m.slot
      BY <2>1 DEF MemWith
    <2> QED
      BY <2>2 DEF Sound, Referenced, Counted, Private, SlotsAt, Kept
  <1>4. CASE a # NULL
    <2> DEFINE x == [m.inode[a] EXCEPT !.i_open_cnts = @ + 1]
    <2>1. a \in ToSet(m.open) /\ a \in Addresses /\ m.inode[a] \in InodeWith(Nat)
      BY <1>2, <1>4 DEF Sound, Referenced, Counted
    <2>2. x \in InodeWith(Nat) /\ x # NULL /\ x.i_open_cnts = m.inode[a].i_open_cnts + 1
          /\ m.inode[a].i_open_cnts \in Nat /\ x.i_no = m.inode[a].i_no
      BY <2>1, Constants DEF InodeWith
    <2>3. r = [m EXCEPT !.inode[a].i_open_cnts = @ + 1]
      BY <1>4 DEF CountOnce
    <2>4. r.inode = [m.inode EXCEPT ![a] = x] /\ r.open = m.open /\ r.slot = m.slot
      BY <2>3 DEF MemWith
    <2>5. r \in MemWith(Nat)
      BY <1>2, <2>2, <2>3, <2>4 DEF MemWith
    <2> HIDE DEF x, r
    <2>6. \A b \in Addresses : r.inode[b] = IF b = a THEN x ELSE m.inode[b]
      BY <1>2, <2>1, <2>4
    <2>7. Referenced(r) /\ \A b : SlotsAt(r, b) = SlotsAt(m, b)
      BY <2>4 DEF Sound, Referenced, SlotsAt
    <2>8. Counted(r)
      <3> SUFFICES ASSUME NEW b \in ToSet(m.open)
                   PROVE  /\ r.inode[b] # NULL
                          /\ r.inode[b].i_open_cnts >=
                               Cardinality(SlotsAt(m, b)) + Cardinality(Releasing(b))
        BY <2>4, <2>7 DEF Counted
      <3>1. /\ m.inode[b] # NULL
            /\ m.inode[b].i_open_cnts >= Cardinality(SlotsAt(m, b)) + Cardinality(Releasing(b))
        BY DEF Sound, Counted
      <3>2. Cardinality(SlotsAt(m, b)) + Cardinality(Releasing(b)) \in Nat
        BY FiniteUsers
      <3>3. \A i, j \in Nat : i >= j => i + 1 >= j
        OBVIOUS
      <3> QED
        BY <1>2, <2>2, <2>6, <3>1, <3>2, <3>3
    <2>9. Private(r)
      BY <2>2, <2>4, <2>6, Loads DEF Sound, Private
    <2>10. Kept(m, r)
      <3>1. ASSUME NEW t \in Slots, r.slot[t] # NULL
            PROVE  r.slot[t] = m.slot[t] /\ r.inode[r.slot[t]].i_no = m.inode[m.slot[t]].i_no
        BY <1>2, <2>2, <2>4, <2>6, <3>1
      <3> QED
        BY <3>1 DEF Kept
    <2> QED
      BY <2>4, <2>5, <2>7, <2>8, <2>9, <2>10 DEF Sound, r
  <1> QED
    BY <1>3, <1>4

\* The last process that counts its descriptors or closes them leaves sound memory.
LEMMA EachCloseSound ==
  ASSUME TypeOK, NEW fds \in [Fds -> Slots \cup {NULL}], Sound(mem)
  PROVE  /\ Each(FileClose, mem, fds) \in MemWith(0..MaxCount)
         /\ Sound(Each(FileClose, mem, fds))
         /\ Kept(mem, Each(FileClose, mem, fds))
         /\ \A t \in Slots : (\A i \in Fds : fds[i] # t) =>
              Each(FileClose, mem, fds).slot[t] = mem.slot[t]
  <1> DEFINE N == MAX_FILES_OPEN_PER_PROC
             C == 0..MaxCount
  <1>1. N \in Nat /\ mem \in MemWith(C) /\ mem \in MemWith(Nat) /\ C \in Ranges
    BY Constants, Loads, TwoRanges
  <1>2. PICK after :
          /\ Each(FileClose, mem, fds) = after[N]
          /\ after[0] = mem
          /\ \A n \in 1..N :
               after[n] = IF fds[n - 1] = NULL THEN after[n - 1]
                          ELSE FileClose(after[n - 1], fds[n - 1])
    BY <1>1, EachCloses
  <1> DEFINE Good(r) == /\ r \in MemWith(C) /\ Sound(r) /\ Kept(mem, r)
                        /\ \A t \in Slots : (\A i \in Fds : fds[i] # t) => r.slot[t] = mem.slot[t]
             Bad == {n \in 0..N : ~Good(after[n])}
  <1>3. Bad = {}
    <2> SUFFICES ASSUME Bad # {} PROVE FALSE
      OBVIOUS
    <2>1. PICK n \in Bad : \A k \in Bad : n <= k
      <3>1. Bad \in SUBSET Nat
        BY <1>1
      <3> HIDE DEF Bad
      <3> QED
        BY <3>1, LeastNat
    <2>2. n # 0
      <3>1. Kept(mem, mem)
        BY DEF Kept
      <3>2. Good(after[0])
        BY <1>1, <1>2, <3>1
      <3> QED
        BY <2>1, <3>2
    <2>3. n \in 1..N /\ n - 1 \in 0..N /\ n - 1 \notin Bad /\ n - 1 \in Fds
      BY <1>1, <2>1, <2>2 DEF Fds
    <2>4. Good(after[n - 1])
      BY <2>3
    <2>5. fds[n - 1] \in Slots \cup {NULL}
      BY <2>3
    <2>6. after[n] = IF fds[n - 1] = NULL THEN after[n - 1]
                     ELSE FileClose(after[n - 1], fds[n - 1])
      BY <1>2, <2>3
    <2>7. CASE fds[n - 1] = NULL
      BY <2>1, <2>4, <2>6, <2>7
    <2>8. CASE fds[n - 1] # NULL
      <3> HIDE DEF C
      <3>1. /\ after[n] \in MemWith(C) /\ Sound(after[n]) /\ Kept(after[n - 1], after[n])
            /\ \A t \in Slots \ {fds[n - 1]} : after[n].slot[t] = after[n - 1].slot[t]
        BY <1>1, <2>4, <2>5, <2>6, <2>8, FileCloseSound, SMTT(30)
      <3>2. Kept(mem, after[n])
        BY <2>4, <3>1 DEF Kept
      <3>3. ASSUME NEW t \in Slots, \A i \in Fds : fds[i] # t
            PROVE  after[n].slot[t] = mem.slot[t]
        BY <2>3, <2>4, <3>1, <3>3
      <3> QED
        BY <2>1, <3>1, <3>2, <3>3
    <2> QED
      BY <2>7, <2>8
  <1>4. N \in 0..N
    BY <1>1
  <1> QED
    BY <1>2, <1>3, <1>4

LEMMA EachCountSound ==
  ASSUME TypeOK, NEW fds \in [Fds -> Slots \cup {NULL}], Sound(mem)
  PROVE  /\ Each(CountOnce, mem, fds) \in MemWith(Nat)
         /\ Sound(Each(CountOnce, mem, fds))
         /\ Kept(mem, Each(CountOnce, mem, fds))
         /\ Each(CountOnce, mem, fds).slot = mem.slot
  <1> DEFINE N == MAX_FILES_OPEN_PER_PROC
  <1>1. N \in Nat /\ mem \in MemWith(Nat)
    BY Constants, Loads
  <1>2. PICK after :
          /\ Each(CountOnce, mem, fds) = after[N]
          /\ after[0] = mem
          /\ \A n \in 1..N :
               after[n] = IF fds[n - 1] = NULL THEN after[n - 1]
                          ELSE CountOnce(after[n - 1], fds[n - 1])
    BY <1>1, EachCounts
  <1> DEFINE Good(r) == /\ r \in MemWith(Nat) /\ Sound(r)
                        /\ Kept(mem, r) /\ r.slot = mem.slot
             Bad == {n \in 0..N : ~Good(after[n])}
  <1>3. Bad = {}
    <2> SUFFICES ASSUME Bad # {} PROVE FALSE
      OBVIOUS
    <2>1. PICK n \in Bad : \A k \in Bad : n <= k
      <3>1. Bad \in SUBSET Nat
        BY <1>1
      <3> HIDE DEF Bad
      <3> QED
        BY <3>1, LeastNat
    <2>2. n # 0
      <3>1. Kept(mem, mem)
        BY DEF Kept
      <3>2. Good(after[0])
        BY <1>1, <1>2, <3>1
      <3> QED
        BY <2>1, <3>2
    <2>3. n \in 1..N /\ n - 1 \in 0..N /\ n - 1 \notin Bad /\ n - 1 \in Fds
      BY <1>1, <2>1, <2>2 DEF Fds
    <2>4. Good(after[n - 1])
      BY <2>3
    <2>5. fds[n - 1] \in Slots \cup {NULL}
      BY <2>3
    <2>6. after[n] = IF fds[n - 1] = NULL THEN after[n - 1]
                     ELSE CountOnce(after[n - 1], fds[n - 1])
      BY <1>2, <2>3
    <2>7. CASE fds[n - 1] = NULL
      BY <2>1, <2>4, <2>6, <2>7
    <2>8. CASE fds[n - 1] # NULL
      <3>1. /\ after[n] \in MemWith(Nat) /\ Sound(after[n]) /\ Kept(after[n - 1], after[n])
            /\ after[n].slot = after[n - 1].slot
        BY <2>4, <2>5, <2>6, <2>8, CountOnceSound
      <3>2. Kept(mem, after[n])
        BY <2>4, <3>1 DEF Kept
      <3> QED
        BY <2>1, <2>4, <3>1, <3>2
    <2> QED
      BY <2>7, <2>8
  <1>4. N \in 0..N
    BY <1>1
  <1> QED
    BY <1>2, <1>3, <1>4

-----------------------------------------------------------------------------
\* The steps. Most leave everybody who loads or deletes an inode where he is.
StayPut ==
  /\ Loading' = Loading /\ Deleting' = Deleting
  /\ \A p \in Loading \cup Deleting : call'[p].inode = call[p].inode

LEMMA SoundStays ==
  ASSUME TypeOK, StayPut, Sound(mem')
  PROVE  Sound(mem)'
  <1>1. \A a : Releasing(a)' = Releasing(a)
    BY DEF StayPut, Releasing, Deleting
  <1>2. \A a : SlotsAt(mem, a)' = SlotsAt(mem', a)
    BY DEF SlotsAt
  <1>3. Referenced(mem)'
    BY DEF Sound, Referenced, StayPut
  <1>4. Counted(mem)'
    BY <1>1, <1>2 DEF Sound, Counted
  <1>5. Private(mem)'
    BY DEF Sound, Private, StayPut
  <1> QED
    BY <1>3, <1>4, <1>5 DEF Sound

\* The process p alone moves.
LEMMA OneMoves ==
  ASSUME TypeOK, NEW p \in Processes, NEW loc \in Pcs, Goto(p, loc)
  PROVE  /\ pc' \in [Processes -> Pcs]
         /\ Loading' = IF loc \in {"reading", "loading"} THEN Loading \cup {p} ELSE Loading \ {p}
         /\ Deleting' = IF loc \in {"record", "cleared"} THEN Deleting \cup {p} ELSE Deleting \ {p}
  <1>1. /\ pc' \in [Processes -> Pcs]
        /\ \A q \in Processes : pc'[q] = IF q = p THEN loc ELSE pc[q]
    BY DEF TypeOK, Goto
  <1> QED
    BY <1>1 DEF Loading, Deleting

\* A step of p that changes neither the memory nor what p loads or deletes.
LEMMA QuietStep ==
  ASSUME IInv, NEW p \in Processes, NEW loc \in {"user", "opening", "unlinking", "entry", "release"},
         pc[p] \in {"user", "opening", "unlinking", "entry"},
         Goto(p, loc), mem' = mem, fd_table' = fd_table,
         call' \in [Processes -> [i_no : Files, write : BOOLEAN, slot : Slots, inode : Addresses]],
         \A q \in Processes \ {p} : call'[q] = call[q],
         entries' \subseteq Files, records' = records
  PROVE  IInv'
  <1>1. TypeOK /\ Sound(mem)
    BY DEF IInv
  <1>2. pc' \in [Processes -> Pcs] /\ Loading' = Loading \ {p} /\ Deleting' = Deleting \ {p}
    BY <1>1, OneMoves DEF Pcs
  <1>3. p \notin Loading /\ p \notin Deleting
    BY DEF Loading, Deleting
  <1>4. StayPut
    BY <1>2, <1>3, Loads, <1>1 DEF StayPut
  <1>5. Sound(mem)'
    BY <1>1, <1>4, SoundStays
  <1>6. TypeOK'
    BY <1>1, <1>2 DEF TypeOK
  <1> QED
    BY <1>5, <1>6 DEF IInv

LEMMA NoCallType ==
  /\ NoCall \in [i_no : Files, write : BOOLEAN, slot : Slots, inode : Addresses]
  /\ \A f \in Files, w \in BOOLEAN :
       [NoCall EXCEPT !.i_no = f, !.write = w] \in
         [i_no : Files, write : BOOLEAN, slot : Slots, inode : Addresses]
  /\ \A f \in Files : [NoCall EXCEPT !.i_no = f] \in
         [i_no : Files, write : BOOLEAN, slot : Slots, inode : Addresses]
  BY Constants DEF NoCall

\* A call that notes which inode it loads or deletes.
LEMMA NotesInode ==
  ASSUME TypeOK, NEW p \in Processes, NEW a \in Addresses, call' = [call EXCEPT ![p].inode = a]
  PROVE  /\ call' \in [Processes -> [i_no : Files, write : BOOLEAN, slot : Slots, inode : Addresses]]
         /\ call'[p].inode = a /\ \A q \in Processes \ {p} : call'[q] = call[q]
  <1> DEFINE x == [call[p] EXCEPT !.inode = a]
  <1>1. call \in [Processes -> [i_no : Files, write : BOOLEAN, slot : Slots, inode : Addresses]]
    BY DEF TypeOK
  <1>2. x \in [i_no : Files, write : BOOLEAN, slot : Slots, inode : Addresses] /\ x.inode = a
    BY <1>1
  <1>3. call' = [call EXCEPT ![p] = x]
    OBVIOUS
  <1> HIDE DEF x
  <1> QED
    BY <1>1, <1>2, <1>3

LEMMA CallStep ==
  ASSUME IInv, NEW p \in Processes, NEW f \in Files,
         UnlinkCall(p, f) \/ \E w \in BOOLEAN : OpenCall(p, f, w)
  PROVE  IInv'
  <1>1. call \in [Processes -> [i_no : Files, write : BOOLEAN, slot : Slots, inode : Addresses]]
    BY DEF IInv, TypeOK
  <1>2. CASE UnlinkCall(p, f)
    <2>1. call' = [call EXCEPT ![p] = [NoCall EXCEPT !.i_no = f]] /\ Goto(p, "unlinking")
      BY <1>2 DEF UnlinkCall
    <2>2. /\ call' \in [Processes -> [i_no : Files, write : BOOLEAN, slot : Slots, inode : Addresses]]
          /\ \A q \in Processes \ {p} : call'[q] = call[q]
      BY <1>1, <2>1, NoCallType
    <2> QED
      BY <1>2, <2>1, <2>2, QuietStep DEF UnlinkCall, At, IInv, TypeOK
  <1>3. ASSUME NEW w \in BOOLEAN, OpenCall(p, f, w)
        PROVE  IInv'
    <2>1. call' = [call EXCEPT ![p] = [NoCall EXCEPT !.i_no = f, !.write = w]] /\ Goto(p, "opening")
      BY <1>3 DEF OpenCall
    <2>2. /\ call' \in [Processes -> [i_no : Files, write : BOOLEAN, slot : Slots, inode : Addresses]]
          /\ \A q \in Processes \ {p} : call'[q] = call[q]
      BY <1>1, <2>1, NoCallType
    <2> QED
      BY <1>3, <2>1, <2>2, QuietStep DEF OpenCall, At, IInv, TypeOK
  <1> QED
    BY <1>2, <1>3

\* A call that returns.
LEMMA Returns ==
  ASSUME TypeOK, NEW p \in Processes, Return(p)
  PROVE  /\ Goto(p, "user")
         /\ call' \in [Processes -> [i_no : Files, write : BOOLEAN, slot : Slots, inode : Addresses]]
         /\ \A q \in Processes \ {p} : call'[q] = call[q]
  <1>1. call' = [call EXCEPT ![p] = NoCall] /\ Goto(p, "user")
    BY DEF Return
  <1> QED
    BY <1>1, NoCallType DEF TypeOK

LEMMA UnlinkCheckStep ==
  ASSUME IInv, NEW p \in Processes, UnlinkCheck(p)
  PROVE  IInv'
  <1>1. TypeOK
    BY DEF IInv
  <1>2. CASE Goto(p, "entry") /\ call' = call
    BY <1>1, <1>2, QuietStep DEF UnlinkCheck, At, TypeOK
  <1>3. CASE Return(p)
    <2>1. /\ pc[p] = "unlinking" /\ mem' = mem /\ fd_table' = fd_table
          /\ entries' = entries /\ records' = records /\ entries \subseteq Files
      BY <1>1 DEF UnlinkCheck, At, TypeOK
    <2> QED
      BY <1>1, <1>3, <2>1, Returns, QuietStep
  <1> QED
    BY <1>2, <1>3 DEF UnlinkCheck

LEMMA CloseStep ==
  ASSUME IInv, NEW p \in Processes, NEW i \in Fds, Close(p, i)
  PROVE  IInv'
  <1>1. TypeOK /\ Sound(mem) /\ mem \in MemWith(0..MaxCount) /\ 0..MaxCount \in Ranges
    BY Loads, TwoRanges DEF IInv
  <1>2. fd_table[p][i] \in Slots
    BY <1>1 DEF Close, TypeOK
  <1>3. mem' \in MemWith(0..MaxCount) /\ Sound(mem')
    <2>1. mem' = FileClose(mem, fd_table[p][i])
      BY DEF Close
    <2> QED
      BY <1>1, <1>2, <2>1, FileCloseSound
  <1>4. StayPut
    BY DEF StayPut, Loading, Deleting, Close
  <1>5. Sound(mem)'
    BY <1>1, <1>3, <1>4, SoundStays
  <1>6. TypeOK'
    BY <1>1, <1>3 DEF TypeOK, MemWith, Inode, Close
  <1> QED
    BY <1>5, <1>6 DEF IInv

LEMMA ForkStep ==
  ASSUME IInv, NEW p \in Processes, NEW q \in Processes, Fork(p, q)
  PROVE  IInv'
  <1>1. TypeOK /\ Sound(mem)
    BY DEF IInv
  <1>2. fd_table[p] \in [Fds -> Slots \cup {NULL}]
    BY <1>1 DEF TypeOK
  <1>3. mem' \in MemWith(Nat) /\ Sound(mem')
    <2>1. mem' = Each(CountOnce, mem, fd_table[p])
      BY DEF Fork
    <2> QED
      BY <1>1, <1>2, <2>1, EachCountSound
  <1>4. mem' \in MemWith(0..MaxCount)
    BY <1>3, Bounded DEF Fork
  <1>5. pc[q] = "unused" /\ Goto(q, "user") /\ call' = call
    BY DEF Fork
  <1>6. pc' \in [Processes -> Pcs] /\ Loading' = Loading \ {q} /\ Deleting' = Deleting \ {q}
    BY <1>1, <1>5, OneMoves DEF Pcs
  <1>7. StayPut
    BY <1>5, <1>6 DEF StayPut, Loading, Deleting
  <1>8. Sound(mem)'
    BY <1>1, <1>3, <1>7, SoundStays
  <1>9. fd_table' \in [Processes -> [Fds -> Slots \cup {NULL}]]
    BY <1>1, <1>2 DEF TypeOK, Fork
  <1>10. TypeOK'
    BY <1>1, <1>4, <1>5, <1>6, <1>9 DEF TypeOK, MemWith, Inode, Fork
  <1> QED
    BY <1>8, <1>10 DEF IInv

LEMMA ExitStep ==
  ASSUME IInv, NEW p \in Processes, Exit(p)
  PROVE  IInv'
  <1>1. TypeOK /\ Sound(mem)
    BY DEF IInv
  <1>2. fd_table[p] \in [Fds -> Slots \cup {NULL}]
    BY <1>1 DEF TypeOK
  <1>3. mem' \in MemWith(0..MaxCount) /\ Sound(mem')
    <2>1. mem' = Each(FileClose, mem, fd_table[p])
      BY DEF Exit
    <2> QED
      BY <1>1, <1>2, <2>1, EachCloseSound
  <1>4. pc[p] = "user" /\ Goto(p, "unused") /\ call' = call
    BY DEF Exit, At
  <1>5. pc' \in [Processes -> Pcs] /\ Loading' = Loading \ {p} /\ Deleting' = Deleting \ {p}
    BY <1>1, <1>4, OneMoves DEF Pcs
  <1>6. StayPut
    BY <1>4, <1>5 DEF StayPut, Loading, Deleting
  <1>7. Sound(mem)'
    BY <1>1, <1>3, <1>6, SoundStays
  <1>8. fd_table' \in [Processes -> [Fds -> Slots \cup {NULL}]]
    BY <1>1 DEF TypeOK, Exit
  <1>9. TypeOK'
    BY <1>1, <1>3, <1>4, <1>5, <1>8 DEF TypeOK, MemWith, Inode, Exit
  <1> QED
    BY <1>7, <1>9 DEF IInv

-----------------------------------------------------------------------------
\* What inode_open and file_open do to the memory.

\* One more user of an inode that is on the list.
LEMMA AgainLemma ==
  ASSUME TypeOK, Sound(mem), NEW f \in Files, Known(mem, f) # {}
  PROVE  LET r == Again(mem, f)
             a == Found(mem, f)
         IN /\ a \in ToSet(mem.open) /\ a \in Addresses
            /\ r \in MemWith(Nat)
            /\ r.open = mem.open /\ r.slot = mem.slot
            /\ \A b \in Addresses \ {a} : r.inode[b] = mem.inode[b]
            /\ r.inode[a] # NULL /\ mem.inode[a].i_open_cnts \in Nat
            /\ r.inode[a].i_open_cnts = mem.inode[a].i_open_cnts + 1
            /\ r.inode[a].i_no = mem.inode[a].i_no
  <1> DEFINE r == Again(mem, f)
             a == Found(mem, f)
             x == [mem.inode[a] EXCEPT !.i_open_cnts = @ + 1]
  <1>1. mem \in MemWith(Nat)
    BY Loads
  <1>2. /\ mem.inode \in [Addresses -> InodeWith(Nat) \cup {NULL}]
        /\ mem.open \in Seq(Addresses) /\ ToSet(mem.open) \subseteq Addresses
        /\ mem.slot \in [Slots -> Addresses \cup {NULL}]
    BY <1>1, Parts
  <1>3. a \in ToSet(mem.open)
    BY <1>1, FoundLemma
  <1>4. a \in Addresses /\ mem.inode[a] \in InodeWith(Nat)
    BY <1>2, <1>3 DEF Sound, Counted
  <1>5. r = [mem EXCEPT !.inode[a].i_open_cnts = @ + 1]
    BY DEF Again
  <1> HIDE DEF a
  <1>6. /\ x \in InodeWith(Nat) /\ mem.inode[a].i_open_cnts \in Nat
        /\ x.i_open_cnts = mem.inode[a].i_open_cnts + 1
        /\ x.i_no = mem.inode[a].i_no
    BY <1>4 DEF InodeWith
  <1>7. x # NULL
    BY <1>6, Constants
  <1>8. r.inode = [mem.inode EXCEPT ![a] = x] /\ r.open = mem.open /\ r.slot = mem.slot
    BY <1>1, <1>5 DEF MemWith
  <1>9. r \in MemWith(Nat)
    BY <1>1, <1>2, <1>5, <1>6, <1>8 DEF MemWith
  <1>10. \A b \in Addresses : r.inode[b] = IF b = a THEN x ELSE mem.inode[b]
    BY <1>2, <1>8
  <1> QED
    BY <1>3, <1>4, <1>6, <1>7, <1>8, <1>9, <1>10 DEF a

\* An inode from the disk is put on the list with its first user.
LEMMA LoadedLemma ==
  ASSUME TypeOK, Sound(mem), NEW a \in Addresses, NEW f \in Files, a \notin ToSet(mem.open)
  PROVE  LET r == Loaded(mem, a, f)
         IN /\ r \in MemWith(0..MaxCount)
            /\ IsInjective(r.open) /\ ToSet(r.open) = ToSet(mem.open) \cup {a}
            /\ r.slot = mem.slot
            /\ \A b \in Addresses \ {a} : r.inode[b] = mem.inode[b]
            /\ r.inode[a] # NULL /\ r.inode[a].i_open_cnts = 1
  <1> DEFINE r == Loaded(mem, a, f)
             C == 0..MaxCount
             x == [i_no        |-> IF f \in records THEN f ELSE Deleted,
                   i_open_cnts |-> 1,
                   write_deny  |-> FALSE]
             o == Cons(a, mem.open)
  <1>1. mem \in MemWith(C) /\ C \in SUBSET Nat /\ 1 \in C
    BY Loads, TwoRanges, Constants DEF Ranges
  <1>2. /\ mem.inode \in [Addresses -> InodeWith(C) \cup {NULL}]
        /\ mem.open \in Seq(Addresses) /\ ToSet(mem.open) \subseteq Addresses
        /\ mem.slot \in [Slots -> Addresses \cup {NULL}]
    BY <1>1, Parts
  <1>3. x \in InodeWith(C) /\ x.i_open_cnts = 1
    BY <1>1 DEF InodeWith
  <1>4. x # NULL
    BY <1>1, <1>3, Unbounded, Constants
  <1>5. /\ o \in Seq(Addresses) /\ IsInjective(o)
        /\ \A y : Contains(o, y) <=> Contains(mem.open, y) \/ y = a
    <2>1. IsInjective(mem.open) /\ ~Contains(mem.open, a)
      BY <1>2, ListedLemma DEF Sound, Referenced
    <2> QED
      BY <1>2, <2>1, PushOnList
  <1>6. ToSet(o) = ToSet(mem.open) \cup {a}
    <2>1. \A y : y \in ToSet(o) <=> y \in ToSet(mem.open) \/ y = a
      BY <1>2, <1>5, ListedLemma
    <2> QED
      BY <2>1
  <1>7. r = [mem EXCEPT !.inode[a] = x, !.open = o]
    BY DEF Loaded, Cons
  <1> HIDE DEF x, o, r, C
  <1>8. r.inode = [mem.inode EXCEPT ![a] = x] /\ r.open = o /\ r.slot = mem.slot
    BY <1>1, <1>7 DEF MemWith
  <1>9. r \in MemWith(C)
    BY <1>1, <1>2, <1>3, <1>5, <1>7, <1>8 DEF MemWith
  <1>10. \A b \in Addresses : r.inode[b] = IF b = a THEN x ELSE mem.inode[b]
    BY <1>2, <1>8
  <1> QED
    BY <1>3, <1>4, <1>5, <1>6, <1>8, <1>9, <1>10 DEF r, C

\* file_open writes the slot and write_deny.
LEMMA InstallLemma ==
  ASSUME TypeOK, NEW counts \in SUBSET Nat, NEW m \in MemWith(counts), NEW p \in Processes,
         NEW s \in Slots, NEW a \in Addresses, m.inode[a] # NULL, InstallInode(p, s, a, m)
  PROVE  /\ mem' \in MemWith(counts)
         /\ mem'.open = m.open /\ mem'.slot = [m.slot EXCEPT ![s] = a]
         /\ \A b \in Addresses \ {a} : mem'.inode[b] = m.inode[b]
         /\ mem'.inode[a] # NULL /\ mem'.inode[a].i_open_cnts = m.inode[a].i_open_cnts
         /\ mem'.inode[a].i_no = m.inode[a].i_no
         /\ \A q \in Processes, i \in Fds :
              fd_table[q][i] # NULL \/ q # p => fd_table'[q][i] = fd_table[q][i]
         /\ fd_table' \in [Processes -> [Fds -> Slots \cup {NULL}]]
  <1> DEFINE w == call[p].write
             x == [m.inode[a] EXCEPT !.write_deny = @ \/ w]
             W == IF w THEN m.writes \cup {s} ELSE m.writes \ {s}
  <1>1. /\ m.inode \in [Addresses -> InodeWith(counts) \cup {NULL}]
        /\ m.open \in Seq(Addresses)
        /\ m.slot \in [Slots -> Addresses \cup {NULL}] /\ m.writes \in SUBSET Slots
    BY Parts
  <1>2. m.inode[a] \in InodeWith(counts) /\ w \in BOOLEAN
    BY <1>1 DEF TypeOK
  <1>3. /\ x \in InodeWith(counts) /\ x.i_open_cnts = m.inode[a].i_open_cnts
        /\ x.i_no = m.inode[a].i_no
    BY <1>2 DEF InodeWith
  <1>4. x # NULL
    BY <1>3, Unbounded, Constants
  <1>5. mem' = [m EXCEPT !.slot[s] = a, !.writes = W, !.inode[a].write_deny = @ \/ w]
    BY DEF InstallInode
  <1>6. /\ mem'.inode = [m.inode EXCEPT ![a] = x] /\ mem'.open = m.open
        /\ mem'.slot = [m.slot EXCEPT ![s] = a] /\ mem'.writes = W /\ mem'.ok = m.ok
    BY <1>5 DEF MemWith
  <1>7. mem' \in MemWith(counts)
    <2>1. /\ mem'.inode \in [Addresses -> InodeWith(counts) \cup {NULL}]
          /\ mem'.slot \in [Slots -> Addresses \cup {NULL}] /\ mem'.writes \in SUBSET Slots
      BY <1>1, <1>3, <1>6
    <2> QED
      BY <1>5, <1>6, <2>1 DEF MemWith
  <1>8. /\ fd_table' \in [Processes -> [Fds -> Slots \cup {NULL}]]
        /\ \A q \in Processes, i \in Fds :
             fd_table[q][i] # NULL \/ q # p => fd_table'[q][i] = fd_table[q][i]
    <2>1. CASE fd_table' = fd_table
      BY <2>1 DEF TypeOK
    <2>2. CASE FreeFds(p) # {} /\ fd_table' = [fd_table EXCEPT ![p][Least(FreeFds(p))] = s]
      <3> DEFINE k == Least(FreeFds(p))
      <3>1. k \in Fds /\ fd_table[p][k] = NULL
        BY <2>2, LeastLemma, Constants DEF FreeFds, Fds
      <3> HIDE DEF k
      <3>2. fd_table' = [fd_table EXCEPT ![p][k] = s]
        BY <2>2 DEF k
      <3> QED
        BY <3>1, <3>2 DEF TypeOK
    <2> QED
      BY <2>1, <2>2 DEF InstallInode
  <1> HIDE DEF x
  <1>9. \A b \in Addresses : mem'.inode[b] = IF b = a THEN x ELSE m.inode[b]
    BY <1>1, <1>6
  <1> QED
    BY <1>3, <1>4, <1>6, <1>7, <1>8, <1>9

-----------------------------------------------------------------------------
\* Opening a file and loading its inode.

\* The open finds the inode in memory: one more user, and one more slot.
LEMMA OpenAgain ==
  ASSUME IInv, NEW p \in Processes, pc[p] = "opening", NEW s \in Slots, mem.slot[s] = NULL,
         Known(mem, call[p].i_no) # {},
         InstallInode(p, s, Found(mem, call[p].i_no), Again(mem, call[p].i_no)),
         CountsBounded(mem'), Return(p), entries' = entries, records' = records
  PROVE  IInv'
  <1> DEFINE f == call[p].i_no
             a == Found(mem, f)
             m == Again(mem, f)
  <1>1. TypeOK /\ Sound(mem) /\ f \in Files
    BY DEF IInv, TypeOK
  <1>2. /\ a \in ToSet(mem.open) /\ a \in Addresses
        /\ m \in MemWith(Nat)
        /\ m.open = mem.open /\ m.slot = mem.slot
        /\ \A b \in Addresses \ {a} : m.inode[b] = mem.inode[b]
        /\ m.inode[a] # NULL /\ mem.inode[a].i_open_cnts \in Nat
        /\ m.inode[a].i_open_cnts = mem.inode[a].i_open_cnts + 1
    BY <1>1, AgainLemma
  <1>3. InstallInode(p, s, a, m)
    OBVIOUS
  <1> HIDE DEF a, m
  <1>4. /\ mem' \in MemWith(Nat)
        /\ mem'.open = m.open /\ mem'.slot = [m.slot EXCEPT ![s] = a]
        /\ \A b \in Addresses \ {a} : mem'.inode[b] = m.inode[b]
        /\ mem'.inode[a] # NULL /\ mem'.inode[a].i_open_cnts = m.inode[a].i_open_cnts
        /\ fd_table' \in [Processes -> [Fds -> Slots \cup {NULL}]]
    BY <1>1, <1>2, <1>3, InstallLemma
  <1>5. /\ Goto(p, "user")
        /\ call' \in [Processes -> [i_no : Files, write : BOOLEAN, slot : Slots, inode : Addresses]]
        /\ \A q \in Processes \ {p} : call'[q] = call[q]
    BY <1>1, Returns
  <1>6. pc' \in [Processes -> Pcs] /\ Loading' = Loading \ {p} /\ Deleting' = Deleting \ {p}
    BY <1>1, <1>5, OneMoves DEF Pcs
  <1>7. StayPut
    BY <1>1, <1>5, <1>6, Loads DEF StayPut, Loading, Deleting
  <1>8. TypeOK'
    <2>1. mem' \in MemWith(0..MaxCount)
      BY <1>4, Bounded
    <2> QED
      BY <1>1, <1>4, <1>5, <1>6, <2>1 DEF TypeOK, MemWith, Inode
  <1>9. /\ mem.slot \in [Slots -> Addresses \cup {NULL}] /\ ToSet(mem.open) \subseteq Addresses
    BY <1>1, Loads, Parts
  <1>10. \A t \in Slots : mem'.slot[t] = IF t = s THEN a ELSE mem.slot[t]
    BY <1>2, <1>4, <1>9
  <1>11. Referenced(mem')
    BY <1>1, <1>2, <1>4, <1>10 DEF Sound, Referenced
  <1>12. Private(mem')
    <2>1. ASSUME NEW q \in Loading
          PROVE  mem'.inode[call[q].inode] # NULL /\ call[q].inode \notin ToSet(mem'.open)
      BY <1>1, <1>2, <1>4, Loads DEF Sound, Private
    <2> QED
      BY <1>1, <2>1 DEF Sound, Private
  <1>13. Counted(mem')
    <2> SUFFICES ASSUME NEW b \in ToSet(mem.open)
                 PROVE  /\ mem'.inode[b] # NULL
                        /\ mem'.inode[b].i_open_cnts >=
                             Cardinality(SlotsAt(mem', b)) + Cardinality(Releasing(b))
      BY <1>2, <1>4 DEF Counted
    <2>1. /\ mem.inode[b] # NULL /\ b \in Addresses
          /\ mem.inode[b].i_open_cnts >= Cardinality(SlotsAt(mem, b)) + Cardinality(Releasing(b))
      BY <1>1, <1>9 DEF Sound, Counted
    <2>2. CASE b # a
      <3>1. \A t : t \in SlotsAt(mem', b) <=> t \in SlotsAt(mem, b)
        BY <1>10, <2>1, <2>2, Constants DEF SlotsAt
      <3>2. SlotsAt(mem', b) = SlotsAt(mem, b)
        BY <3>1
      <3> QED
        BY <1>2, <1>4, <2>1, <2>2, <3>2
    <2>3. CASE b = a
      <3>1. \A t : t \in SlotsAt(mem', a) <=> t \in SlotsAt(mem, a) \cup {s}
        BY <1>10 DEF SlotsAt
      <3>2. SlotsAt(mem', a) = SlotsAt(mem, a) \cup {s}
        BY <3>1
      <3>3. s \notin SlotsAt(mem, a)
        BY <1>2, Constants DEF SlotsAt
      <3>4. /\ IsFiniteSet(SlotsAt(mem, a)) /\ Cardinality(SlotsAt(mem, a)) \in Nat
            /\ Cardinality(Releasing(a)) \in Nat
        BY FiniteUsers
      <3>5. Cardinality(SlotsAt(mem', a)) = Cardinality(SlotsAt(mem, a)) + 1
        BY <3>2, <3>3, <3>4, FS_AddElement
      <3> QED
        BY <1>2, <1>4, <2>1, <2>3, <3>4, <3>5
    <2> QED
      BY <2>2, <2>3
  <1>14. Sound(mem)'
    BY <1>1, <1>7, <1>11, <1>12, <1>13, SoundStays DEF Sound
  <1> QED
    BY <1>8, <1>14 DEF IInv

\* inode_open takes memory for an inode that it will read.
LEMMA AllocateStep ==
  ASSUME IInv, NEW p \in Processes, NEW loc \in {"reading", "loading"},
         p \notin Loading, p \notin Deleting, NEW f \in Files, FreeAddr(mem) # {},
         mem' = Allocate(mem, Least(FreeAddr(mem)), f), Goto(p, loc),
         call' \in [Processes -> [i_no : Files, write : BOOLEAN, slot : Slots, inode : Addresses]],
         call'[p].inode = Least(FreeAddr(mem)),
         \A q \in Processes \ {p} : call'[q] = call[q],
         fd_table' = fd_table, entries' = entries, records' = records
  PROVE  IInv'
  <1> DEFINE a == Least(FreeAddr(mem))
             x == [i_no |-> f, i_open_cnts |-> 0, write_deny |-> FALSE]
             C == 0..MaxCount
  <1>1. TypeOK /\ Sound(mem) /\ mem \in MemWith(C) /\ C \in SUBSET Nat /\ 0 \in C
    BY Loads, FileTableAssumption DEF IInv
  <1>2. a \in Addresses /\ mem.inode[a] = NULL
    BY LeastLemma, Constants DEF FreeAddr
  <1>3. mem' = [mem EXCEPT !.inode[a] = x]
    BY DEF Allocate
  <1> HIDE DEF a
  <1>4. /\ mem.inode \in [Addresses -> InodeWith(C) \cup {NULL}]
        /\ ToSet(mem.open) \subseteq Addresses
        /\ mem.slot \in [Slots -> Addresses \cup {NULL}]
    BY <1>1, Parts
  <1>5. x \in InodeWith(C)
    BY <1>1 DEF InodeWith
  <1>6. x # NULL
    BY <1>1, <1>5, Unbounded, Constants
  <1>7. mem'.inode = [mem.inode EXCEPT ![a] = x] /\ mem'.open = mem.open /\ mem'.slot = mem.slot
    BY <1>1, <1>3 DEF MemWith
  <1>8. mem' \in MemWith(C)
    <2>1. mem'.inode \in [Addresses -> InodeWith(C) \cup {NULL}]
      BY <1>4, <1>5, <1>7
    <2> QED
      BY <1>1, <1>3, <1>7, <2>1 DEF MemWith
  <1>9. pc' \in [Processes -> Pcs] /\ Loading' = Loading \cup {p} /\ Deleting' = Deleting
    <2>1. loc \in Pcs /\ loc \notin {"record", "cleared"}
      BY DEF Pcs
    <2>2. pc' \in [Processes -> Pcs] /\ Loading' = Loading \cup {p} /\ Deleting' = Deleting \ {p}
      BY <1>1, <2>1, OneMoves
    <2> QED
      BY <2>2
  <1>10. TypeOK'
    BY <1>1, <1>8, <1>9 DEF TypeOK, MemWith, Inode
  <1> HIDE DEF x
  <1>11. \A b \in Addresses : mem'.inode[b] = IF b = a THEN x ELSE mem.inode[b]
    BY <1>2, <1>4, <1>7
  <1>12. a \notin ToSet(mem.open) /\ \A q \in Loading : call[q].inode # a
    BY <1>1, <1>2 DEF Sound, Counted, Private
  <1>13. /\ \A q \in Loading \cup Deleting : q \in Processes \ {p} /\ call'[q].inode = call[q].inode
         /\ \A q \in Loading \cup Deleting : call[q].inode \in Addresses
         /\ call'[p].inode = a
    BY <1>1, Loads DEF a
  <1>14. Referenced(mem)'
    BY <1>1, <1>7, <1>9, <1>13 DEF Sound, Referenced
  <1>15. Counted(mem)'
    <2>1. \A b : Releasing(b)' = Releasing(b)
      <3>1. \A b : Releasing(b) = {q \in Deleting : call[q].inode = b}
        BY <1>1, Loads
      <3>2. \A b : Releasing(b)' = {q \in Deleting' : call'[q].inode = b}
        BY <1>10 DEF Releasing, Deleting
      <3> QED
        BY <1>9, <1>13, <3>1, <3>2
    <2>2. \A b : SlotsAt(mem, b)' = SlotsAt(mem, b)
      BY <1>7 DEF SlotsAt
    <2> QED
      BY <1>1, <1>4, <1>7, <1>11, <1>12, <2>1, <2>2 DEF Sound, Counted
  <1>16. Private(mem)'
    <2>1. ASSUME NEW q \in Loading'
          PROVE  mem'.inode[call'[q].inode] # NULL /\ call'[q].inode \notin ToSet(mem'.open)
      BY <1>1, <1>6, <1>7, <1>9, <1>11, <1>12, <1>13, <1>2 DEF Sound, Private
    <2>2. ASSUME NEW q \in Loading', NEW u \in Loading', call'[q].inode = call'[u].inode
          PROVE  q = u
      BY <1>1, <1>9, <1>12, <1>13, <2>2 DEF Sound, Private
    <2> QED
      BY <2>1, <2>2 DEF Private
  <1> QED
    BY <1>10, <1>14, <1>15, <1>16 DEF IInv, Sound

LEMMA FileOpenStep ==
  ASSUME IInv, NEW p \in Processes, FileOpen(p)
  PROVE  IInv'
  <1> DEFINE f == call[p].i_no
             a == Least(FreeAddr(mem))
  <1>1. TypeOK /\ f \in Files /\ pc[p] = "opening" /\ p \notin Loading /\ p \notin Deleting
    BY DEF IInv, TypeOK, FileOpen, At, Loading, Deleting
  <1>2. entries' = entries /\ records' = records /\ entries \subseteq Files
    BY <1>1 DEF FileOpen, TypeOK
  <1>3. CASE Return(p) /\ UNCHANGED <<mem, fd_table>>
    BY <1>1, <1>2, <1>3, Returns, QuietStep
  <1>4. CASE /\ FreeSlots # {} /\ Known(mem, f) # {}
             /\ InstallInode(p, Least(FreeSlots), Found(mem, f), Again(mem, f))
             /\ CountsBounded(mem') /\ Return(p)
    <2>1. Least(FreeSlots) \in FreeSlots
      BY <1>4, LeastLemma, Constants DEF FreeSlots
    <2>2. Least(FreeSlots) \in Slots /\ mem.slot[Least(FreeSlots)] = NULL
      BY <2>1 DEF FreeSlots
    <2> QED
      BY <1>1, <1>2, <1>4, <2>2, OpenAgain
  <1>5. CASE /\ FreeSlots # {} /\ FreeAddr(mem) # {}
             /\ mem' = Allocate(mem, a, f)
             /\ call' = [call EXCEPT ![p].slot = Least(FreeSlots), ![p].inode = a]
             /\ Goto(p, "reading") /\ UNCHANGED fd_table
    <2>1. Least(FreeSlots) \in Slots
      BY <1>5, LeastLemma, Constants DEF FreeSlots
    <2>2. a \in Addresses
      BY <1>5, LeastLemma, Constants DEF FreeAddr
    <2>3. /\ call' \in [Processes -> [i_no : Files, write : BOOLEAN, slot : Slots, inode : Addresses]]
          /\ call'[p].inode = a /\ \A q \in Processes \ {p} : call'[q] = call[q]
      <3> DEFINE slot == Least(FreeSlots)
                 rec  == [call[p] EXCEPT !.slot = slot, !.inode = a]
      <3>1. call \in [Processes -> [i_no : Files, write : BOOLEAN, slot : Slots, inode : Addresses]]
        BY <1>1 DEF TypeOK
      <3>2. call' = [call EXCEPT ![p] = rec]
        BY <1>5
      <3>3. slot \in Slots /\ a \in Addresses
        BY <2>1, <2>2
      <3> HIDE DEF a, slot
      <3>4. /\ rec \in [i_no : Files, write : BOOLEAN, slot : Slots, inode : Addresses]
            /\ rec.inode = a
        BY <3>1, <3>3
      <3> HIDE DEF rec
      <3> QED
        BY <3>1, <3>2, <3>4
    <2> QED
      BY <1>1, <1>2, <1>5, <2>3, AllocateStep
  <1> QED
    BY <1>3, <1>4, <1>5 DEF FileOpen

\* The inode that inode_open has read has its first user, in the slot that the
\* open chose before it waited, whatever that holds by now.
LEMMA InodeReadStep ==
  ASSUME IInv, NEW p \in Processes, InodeRead(p)
  PROVE  IInv'
  <1> DEFINE f == call[p].i_no
             a == call[p].inode
             s == call[p].slot
             m == Loaded(mem, a, f)
             C == 0..MaxCount
  <1>1. TypeOK /\ Sound(mem) /\ f \in Files /\ a \in Addresses /\ s \in Slots
    BY DEF IInv, TypeOK
  <1>2. pc[p] = "reading" /\ p \in Loading /\ p \notin Deleting
    BY DEF InodeRead, At, Loading, Deleting
  <1>3. a \notin ToSet(mem.open) /\ \A q \in Loading : call[q].inode = a => q = p
    BY <1>1, <1>2 DEF Sound, Private
  <1>4. /\ m \in MemWith(C)
        /\ IsInjective(m.open) /\ ToSet(m.open) = ToSet(mem.open) \cup {a}
        /\ m.slot = mem.slot
        /\ \A b \in Addresses \ {a} : m.inode[b] = mem.inode[b]
        /\ m.inode[a] # NULL /\ m.inode[a].i_open_cnts = 1
    BY <1>1, <1>3, LoadedLemma
  <1>5. InstallInode(p, s, a, m) /\ Return(p)
    BY DEF InodeRead
  <1>6. entries' = entries /\ records' = records
    BY DEF InodeRead
  <1>7. C \in SUBSET Nat
    BY TwoRanges DEF Ranges
  <1> HIDE DEF m, C, a, s
  <1>8. /\ mem' \in MemWith(C)
        /\ mem'.open = m.open /\ mem'.slot = [m.slot EXCEPT ![s] = a]
        /\ \A b \in Addresses \ {a} : mem'.inode[b] = m.inode[b]
        /\ mem'.inode[a] # NULL /\ mem'.inode[a].i_open_cnts = m.inode[a].i_open_cnts
        /\ fd_table' \in [Processes -> [Fds -> Slots \cup {NULL}]]
    BY <1>1, <1>4, <1>5, <1>7, InstallLemma
  <1>9. /\ Goto(p, "user")
        /\ call' \in [Processes -> [i_no : Files, write : BOOLEAN, slot : Slots, inode : Addresses]]
        /\ \A q \in Processes \ {p} : call'[q] = call[q]
    BY <1>1, <1>5, Returns
  <1>10. pc' \in [Processes -> Pcs] /\ Loading' = Loading \ {p} /\ Deleting' = Deleting
    <2>1. pc' \in [Processes -> Pcs] /\ Loading' = Loading \ {p} /\ Deleting' = Deleting \ {p}
      BY <1>1, <1>9, OneMoves DEF Pcs
    <2> QED
      BY <1>2, <2>1
  <1>11. TypeOK'
    BY <1>1, <1>6, <1>8, <1>9, <1>10 DEF TypeOK, MemWith, Inode, C
  <1>12. /\ mem.slot \in [Slots -> Addresses \cup {NULL}] /\ ToSet(mem.open) \subseteq Addresses
    BY <1>1, Loads, Parts
  <1>13. \A t \in Slots : mem'.slot[t] = IF t = s THEN a ELSE mem.slot[t]
    BY <1>4, <1>8, <1>12
  <1>14. /\ ToSet(mem'.open) = ToSet(mem.open) \cup {a} /\ IsInjective(mem'.open)
         /\ \A b \in Addresses \ {a} : mem'.inode[b] = mem.inode[b]
         /\ mem'.inode[a] # NULL /\ mem'.inode[a].i_open_cnts = 1
    BY <1>4, <1>8
  <1>15. /\ \A q \in Deleting \cup (Loading \ {p}) :
              call'[q].inode = call[q].inode /\ call[q].inode \in Addresses
         /\ \A q \in Loading \ {p} : call[q].inode # a
    BY <1>1, <1>2, <1>3, <1>9, Loads
  <1>16. Referenced(mem)'
    <2>1. ASSUME NEW t \in Slots, mem'.slot[t] # NULL
          PROVE  mem'.slot[t] \in ToSet(mem'.open)
      BY <1>1, <1>13, <1>14, <2>1 DEF Sound, Referenced
    <2>2. ASSUME NEW q \in Deleting'
          PROVE  call'[q].inode \in ToSet(mem'.open)
      BY <1>1, <1>10, <1>14, <1>15 DEF Sound, Referenced
    <2> QED
      BY <1>14, <2>1, <2>2 DEF Referenced
  <1>17. Private(mem)'
    <2>1. ASSUME NEW q \in Loading'
          PROVE  mem'.inode[call'[q].inode] # NULL /\ call'[q].inode \notin ToSet(mem'.open)
      BY <1>1, <1>10, <1>14, <1>15 DEF Sound, Private
    <2>2. ASSUME NEW q \in Loading', NEW u \in Loading', call'[q].inode = call'[u].inode
          PROVE  q = u
      BY <1>1, <1>10, <1>15, <2>2 DEF Sound, Private
    <2> QED
      BY <2>1, <2>2 DEF Private
  <1>18. \A b : Releasing(b)' = Releasing(b)
    <2>1. \A b : Releasing(b) = {q \in Deleting : call[q].inode = b}
      BY <1>1, Loads
    <2>2. \A b : Releasing(b)' = {q \in Deleting' : call'[q].inode = b}
      BY <1>11 DEF Releasing, Deleting
    <2> QED
      BY <1>10, <1>15, <2>1, <2>2
  <1>19. Counted(mem)'
    <2> SUFFICES ASSUME NEW b \in ToSet(mem'.open)
                 PROVE  /\ mem'.inode[b] # NULL
                        /\ mem'.inode[b].i_open_cnts >=
                             Cardinality(SlotsAt(mem, b)') + Cardinality(Releasing(b))
      BY <1>18 DEF Counted
    <2>1. CASE b # a
      <3>1. /\ b \in ToSet(mem.open) /\ b \in Addresses /\ mem'.inode[b] = mem.inode[b]
            /\ mem.inode[b] # NULL /\ mem.inode[b].i_open_cnts \in Nat
            /\ mem.inode[b].i_open_cnts >= Cardinality(SlotsAt(mem, b)) + Cardinality(Releasing(b))
        <4>1. b \in ToSet(mem.open) /\ b \in Addresses
          BY <1>12, <1>14, <2>1
        <4>2. mem.inode \in [Addresses -> InodeWith(Nat) \cup {NULL}]
          BY <1>1, Loads, Parts
        <4> QED
          BY <1>1, <1>14, <2>1, <4>1, <4>2 DEF Sound, Counted, InodeWith
      <3>2. SlotsAt(mem, b)' \subseteq SlotsAt(mem, b)
        BY <1>13, <2>1 DEF SlotsAt
      <3>3. /\ IsFiniteSet(SlotsAt(mem, b)) /\ Cardinality(SlotsAt(mem, b)) \in Nat
            /\ Cardinality(Releasing(b)) \in Nat
        BY FiniteUsers
      <3>4. Cardinality(SlotsAt(mem, b)') \in Nat /\ Cardinality(SlotsAt(mem, b)') <= Cardinality(SlotsAt(mem, b))
        BY <3>2, <3>3, FS_Subset, FS_CardinalityType
      <3>5. \A c, i, j, k \in Nat : c >= i + k /\ j <= i => c >= j + k
        OBVIOUS
      <3> QED
        BY <3>1, <3>3, <3>4, <3>5
    <2>2. CASE b = a
      <3>1. \A t : t \in SlotsAt(mem, b)' <=> t \in {s}
        BY <1>1, <1>3, <1>13, <2>2, Constants DEF SlotsAt, Sound, Referenced
      <3>2. SlotsAt(mem, b)' = {s}
        BY <3>1
      <3>3. Releasing(a) = {}
        BY <1>1, <1>3, Loads DEF Sound, Referenced
      <3>4. Cardinality({s}) = 1 /\ Cardinality({}) = 0
        BY FS_Singleton, FS_EmptySet
      <3> QED
        BY <1>14, <2>2, <3>2, <3>3, <3>4
    <2> QED
      BY <2>1, <2>2
  <1> QED
    BY <1>11, <1>16, <1>17, <1>19 DEF IInv, Sound

-----------------------------------------------------------------------------
\* Deleting a file.

\* inode_release finds the inode in memory and becomes its user.
LEMMA ReleaseAgain ==
  ASSUME IInv, NEW p \in Processes, p \notin Loading, p \notin Deleting,
         Known(mem, call[p].i_no) # {},
         mem' = Again(mem, call[p].i_no), CountsBounded(mem'),
         call' = [call EXCEPT ![p].inode = Found(mem, call[p].i_no)], Goto(p, "record"),
         fd_table' = fd_table, entries' \subseteq Files, records' = records
  PROVE  IInv'
  <1> DEFINE f == call[p].i_no
             a == Found(mem, f)
  <1>1. TypeOK /\ Sound(mem) /\ f \in Files
    BY DEF IInv, TypeOK
  <1>2. /\ a \in ToSet(mem.open) /\ a \in Addresses
        /\ mem' \in MemWith(Nat)
        /\ mem'.open = mem.open /\ mem'.slot = mem.slot
        /\ \A b \in Addresses \ {a} : mem'.inode[b] = mem.inode[b]
        /\ mem'.inode[a] # NULL /\ mem.inode[a].i_open_cnts \in Nat
        /\ mem'.inode[a].i_open_cnts = mem.inode[a].i_open_cnts + 1
    BY <1>1, AgainLemma
  <1>3. call' = [call EXCEPT ![p].inode = a]
    OBVIOUS
  <1> HIDE DEF a
  <1>4. /\ call' \in [Processes -> [i_no : Files, write : BOOLEAN, slot : Slots, inode : Addresses]]
        /\ call'[p].inode = a /\ \A q \in Processes \ {p} : call'[q] = call[q]
    BY <1>1, <1>2, <1>3, NotesInode
  <1>5. pc' \in [Processes -> Pcs] /\ Loading' = Loading /\ Deleting' = Deleting \cup {p}
    <2>1. pc' \in [Processes -> Pcs] /\ Loading' = Loading \ {p} /\ Deleting' = Deleting \cup {p}
      BY <1>1, OneMoves DEF Pcs
    <2> QED
      BY <2>1
  <1>6. TypeOK'
    <2>1. mem' \in MemWith(0..MaxCount)
      BY <1>2, Bounded
    <2> QED
      BY <1>1, <1>4, <1>5, <2>1 DEF TypeOK, MemWith, Inode
  <1>7. /\ \A q \in Loading \cup Deleting : call'[q] = call[q] /\ call[q].inode \in Addresses
        /\ ToSet(mem.open) \subseteq Addresses
    BY <1>1, <1>4, Loads, Parts
  <1>8. Referenced(mem)'
    BY <1>1, <1>2, <1>4, <1>5, <1>7 DEF Sound, Referenced
  <1>9. Private(mem)'
    <2>1. ASSUME NEW q \in Loading'
          PROVE  mem'.inode[call'[q].inode] # NULL /\ call'[q].inode \notin ToSet(mem'.open)
      BY <1>1, <1>2, <1>5, <1>7 DEF Sound, Private
    <2>2. ASSUME NEW q \in Loading', NEW u \in Loading', call'[q].inode = call'[u].inode
          PROVE  q = u
      BY <1>1, <1>5, <1>7, <2>2 DEF Sound, Private
    <2> QED
      BY <2>1, <2>2 DEF Private
  <1>10. \A b : /\ SlotsAt(mem, b)' = SlotsAt(mem, b)
                /\ Releasing(b)' = IF b = a THEN Releasing(b) \cup {p} ELSE Releasing(b)
    <2>1. \A b : Releasing(b) = {q \in Deleting : call[q].inode = b}
      BY <1>1, Loads
    <2>2. \A b : Releasing(b)' = {q \in Deleting' : call'[q].inode = b}
      BY <1>6 DEF Releasing, Deleting
    <2>3. ASSUME NEW b, NEW q
          PROVE  q \in Releasing(b)' <=> q \in Releasing(b) \/ (b = a /\ q = p)
      BY <1>4, <1>5, <1>7, <2>1, <2>2
    <2>4. \A b : SlotsAt(mem, b)' = SlotsAt(mem, b)
      BY <1>2 DEF SlotsAt
    <2>5. ASSUME NEW b
          PROVE  Releasing(b)' = IF b = a THEN Releasing(b) \cup {p} ELSE Releasing(b)
      BY <2>3
    <2> QED
      BY <2>4, <2>5
  <1>11. Counted(mem)'
    <2> SUFFICES ASSUME NEW b \in ToSet(mem.open)
                 PROVE  /\ mem'.inode[b] # NULL
                        /\ mem'.inode[b].i_open_cnts >=
                             Cardinality(SlotsAt(mem, b)) + Cardinality(Releasing(b)')
      BY <1>2, <1>10 DEF Counted
    <2>1. /\ mem.inode[b] # NULL /\ b \in Addresses
          /\ mem.inode[b].i_open_cnts >= Cardinality(SlotsAt(mem, b)) + Cardinality(Releasing(b))
      BY <1>1, <1>7 DEF Sound, Counted
    <2>2. CASE b # a
      BY <1>2, <1>10, <2>1, <2>2
    <2>3. CASE b = a
      <3>1. p \notin Releasing(b)
        BY <1>1, Loads
      <3>2. /\ IsFiniteSet(Releasing(b)) /\ Cardinality(SlotsAt(mem, b)) \in Nat
            /\ Cardinality(Releasing(b)) \in Nat
        BY FiniteUsers
      <3>3. Cardinality(Releasing(b) \cup {p}) = Cardinality(Releasing(b)) + 1
        BY <3>1, <3>2, FS_AddElement
      <3>4. Releasing(b)' = Releasing(b) \cup {p}
        BY <1>10, <2>3
      <3> QED
        BY <1>2, <2>1, <2>3, <3>2, <3>3, <3>4
    <2> QED
      BY <2>2, <2>3
  <1> QED
    BY <1>6, <1>8, <1>9, <1>11 DEF IInv, Sound

LEMMA OpenToReleaseStep ==
  ASSUME IInv, NEW p \in Processes, pc[p] \in {"entry", "release"}, OpenToRelease(p),
         fd_table' = fd_table, entries' = entries, records' = records
  PROVE  IInv'
  <1> DEFINE f == call[p].i_no
             a == Least(FreeAddr(mem))
  <1>1. TypeOK /\ f \in Files /\ p \notin Loading /\ p \notin Deleting /\ entries \subseteq Files
    BY DEF IInv, TypeOK, Loading, Deleting
  <1>2. CASE /\ Known(mem, f) # {} /\ mem' = Again(mem, f) /\ CountsBounded(mem')
             /\ call' = [call EXCEPT ![p].inode = Found(mem, f)] /\ Goto(p, "record")
    BY <1>1, <1>2, ReleaseAgain
  <1>3. CASE /\ FreeAddr(mem) # {} /\ mem' = Allocate(mem, a, f)
             /\ call' = [call EXCEPT ![p].inode = a] /\ Goto(p, "loading")
    <2>1. a \in Addresses
      BY <1>3, LeastLemma, Constants DEF FreeAddr
    <2>2. /\ call' \in [Processes -> [i_no : Files, write : BOOLEAN, slot : Slots, inode : Addresses]]
          /\ call'[p].inode = a /\ \A q \in Processes \ {p} : call'[q] = call[q]
      <3> HIDE DEF a
      <3> QED
        BY <1>1, <1>3, <2>1, NotesInode
    <2> QED
      BY <1>1, <1>3, <2>2, AllocateStep
  <1> QED
    BY <1>2, <1>3 DEF OpenToRelease

LEMMA DeleteEntryStep ==
  ASSUME IInv, NEW p \in Processes, DeleteEntry(p)
  PROVE  IInv'
  <1>1. TypeOK /\ pc[p] = "entry" /\ fd_table' = fd_table /\ records' = records
    BY DEF IInv, DeleteEntry, At
  <1>2. CASE entries' = entries \ {call[p].i_no} /\ Goto(p, "release") /\ UNCHANGED <<mem, call>>
    BY <1>1, <1>2, QuietStep DEF TypeOK
  <1>3. CASE OpenToRelease(p) /\ UNCHANGED entries
    BY <1>1, <1>3, OpenToReleaseStep
  <1> QED
    BY <1>2, <1>3 DEF DeleteEntry

\* The inode that inode_release has had to read has it as its first user.
LEMMA LoadToReleaseStep ==
  ASSUME IInv, NEW p \in Processes, LoadToRelease(p)
  PROVE  IInv'
  <1> DEFINE f == call[p].i_no
             a == call[p].inode
             m == Loaded(mem, a, f)
             C == 0..MaxCount
  <1>1. TypeOK /\ Sound(mem) /\ f \in Files /\ a \in Addresses
    BY DEF IInv, TypeOK
  <1>2. pc[p] = "loading" /\ p \in Loading /\ p \notin Deleting
    BY DEF LoadToRelease, At, Loading, Deleting
  <1>3. a \notin ToSet(mem.open) /\ \A q \in Loading : call[q].inode = a => q = p
    BY <1>1, <1>2 DEF Sound, Private
  <1>4. /\ m \in MemWith(C)
        /\ IsInjective(m.open) /\ ToSet(m.open) = ToSet(mem.open) \cup {a}
        /\ m.slot = mem.slot
        /\ \A b \in Addresses \ {a} : m.inode[b] = mem.inode[b]
        /\ m.inode[a] # NULL /\ m.inode[a].i_open_cnts = 1
    BY <1>1, <1>3, LoadedLemma
  <1>5. /\ mem' = [m EXCEPT !.ok = f \in records] /\ Goto(p, "record")
        /\ call' = call /\ fd_table' = fd_table /\ entries' = entries /\ records' = records
    BY DEF LoadToRelease
  <1> HIDE DEF m, C, a
  <1>6. /\ mem' \in MemWith(C)
        /\ mem'.open = m.open /\ mem'.slot = m.slot /\ mem'.inode = m.inode
    <2>1. PICK o \in BOOLEAN : mem' = [m EXCEPT !.ok = o]
      <3>1. (f \in records) \in BOOLEAN
        OBVIOUS
      <3> QED
        BY <1>5, <3>1, Zenon
    <2> QED
      BY <1>4, <2>1 DEF MemWith
  <1>7. pc' \in [Processes -> Pcs] /\ Loading' = Loading \ {p} /\ Deleting' = Deleting \cup {p}
    BY <1>1, <1>5, OneMoves DEF Pcs
  <1>8. TypeOK'
    BY <1>1, <1>5, <1>6, <1>7 DEF TypeOK, MemWith, Inode, C
  <1>9. /\ \A q \in Deleting \cup Loading : call[q].inode \in Addresses
        /\ ToSet(mem.open) \subseteq Addresses /\ call[p].inode = a
    BY <1>1, Loads, Parts DEF a
  <1>10. Referenced(mem)'
    BY <1>1, <1>4, <1>5, <1>6, <1>7, <1>9 DEF Sound, Referenced
  <1>11. Private(mem)'
    <2>1. ASSUME NEW q \in Loading \ {p}
          PROVE  mem'.inode[call[q].inode] # NULL /\ call[q].inode \notin ToSet(mem'.open)
      BY <1>1, <1>3, <1>4, <1>6, <1>9 DEF Sound, Private
    <2> QED
      BY <1>1, <1>5, <1>7, <2>1 DEF Sound, Private
  <1>12. \A b : /\ SlotsAt(mem, b)' = SlotsAt(mem, b)
                /\ Releasing(b)' = IF b = a THEN Releasing(b) \cup {p} ELSE Releasing(b)
    <2>1. \A b : Releasing(b) = {q \in Deleting : call[q].inode = b}
      BY <1>1, Loads
    <2>2. \A b : Releasing(b)' = {q \in Deleting' : call'[q].inode = b}
      BY <1>8 DEF Releasing, Deleting
    <2>3. ASSUME NEW b, NEW q
          PROVE  q \in Releasing(b)' <=> q \in Releasing(b) \/ (b = a /\ q = p)
      BY <1>5, <1>7, <1>9, <2>1, <2>2
    <2>4. \A b : SlotsAt(mem, b)' = SlotsAt(mem, b)
      BY <1>4, <1>6 DEF SlotsAt
    <2>5. ASSUME NEW b
          PROVE  Releasing(b)' = IF b = a THEN Releasing(b) \cup {p} ELSE Releasing(b)
      BY <2>3
    <2> QED
      BY <2>4, <2>5
  <1>13. Counted(mem)'
    <2> SUFFICES ASSUME NEW b \in ToSet(mem'.open)
                 PROVE  /\ mem'.inode[b] # NULL
                        /\ mem'.inode[b].i_open_cnts >=
                             Cardinality(SlotsAt(mem, b)) + Cardinality(Releasing(b)')
      BY <1>12 DEF Counted
    <2>1. CASE b # a
      <3>1. b \in ToSet(mem.open) /\ b \in Addresses /\ mem'.inode[b] = mem.inode[b]
        BY <1>4, <1>6, <1>9, <2>1
      <3> QED
        BY <1>1, <1>12, <2>1, <3>1 DEF Sound, Counted
    <2>2. CASE b = a
      <3>1. SlotsAt(mem, b) = {}
        BY <1>1, <1>3, <2>2, Constants DEF SlotsAt, Sound, Referenced
      <3>2. Releasing(b) = {}
        BY <1>1, <1>3, <2>2, Loads DEF Sound, Referenced
      <3>3. Cardinality({p}) = 1 /\ Cardinality({}) = 0
        BY FS_Singleton, FS_EmptySet
      <3>4. Releasing(b)' = {p}
        BY <1>12, <2>2, <3>2
      <3> QED
        BY <1>4, <1>6, <2>2, <3>1, <3>3, <3>4
    <2> QED
      BY <2>1, <2>2
  <1> QED
    BY <1>8, <1>10, <1>11, <1>13 DEF IInv, Sound

LEMMA DeleteRecordStep ==
  ASSUME IInv, NEW p \in Processes, DeleteRecord(p)
  PROVE  IInv'
  <1>1. TypeOK /\ Sound(mem) /\ pc[p] = "record" /\ p \in Deleting /\ p \notin Loading
    BY DEF IInv, DeleteRecord, At, Deleting, Loading
  <1>2. /\ Goto(p, "cleared") /\ mem' = mem /\ call' = call /\ fd_table' = fd_table
        /\ entries' = entries /\ records' \subseteq Files
    BY <1>1 DEF DeleteRecord, TypeOK
  <1>3. pc' \in [Processes -> Pcs] /\ Loading' = Loading \ {p} /\ Deleting' = Deleting \cup {p}
    BY <1>1, <1>2, OneMoves DEF Pcs
  <1>4. StayPut
    BY <1>1, <1>2, <1>3 DEF StayPut
  <1>5. Sound(mem)'
    BY <1>1, <1>2, <1>4, SoundStays
  <1>6. TypeOK'
    BY <1>1, <1>2, <1>3 DEF TypeOK
  <1> QED
    BY <1>5, <1>6 DEF IInv

\* inode_close at the end of inode_release: with the last user gone, no slot is
\* left that points to the inode.
LEMMA CloseReleasedStep ==
  ASSUME IInv, NEW p \in Processes, CloseReleased(p)
  PROVE  IInv'
  <1> DEFINE a == call[p].inode
             C == 0..MaxCount
             c == mem.inode[a].i_open_cnts
  <1>1. TypeOK /\ Sound(mem) /\ mem \in MemWith(C) /\ C \in Ranges
    BY Loads, TwoRanges DEF IInv
  <1>2. pc[p] = "cleared" /\ p \in Deleting /\ p \notin Loading
    BY DEF CloseReleased, At, Deleting, Loading
  <1>3. /\ mem' = InodeClose(mem, a) /\ Return(p)
        /\ fd_table' = fd_table /\ entries' = entries /\ records' = records
    BY DEF CloseReleased
  <1>4. a \in ToSet(mem.open) /\ ToSet(mem.open) \subseteq Addresses /\ IsInjective(mem.open)
    BY <1>1, <1>2, Loads, Parts DEF Sound, Referenced
  <1>5. /\ mem.inode[a] # NULL /\ c \in Nat
        /\ c >= Cardinality(Releasing(a)) + Cardinality(SlotsAt(mem, a))
    <2>1. mem.inode \in [Addresses -> InodeWith(Nat) \cup {NULL}]
      BY <1>1, Loads, Parts
    <2>2. mem.inode[a] # NULL /\ c \in Nat
      BY <1>1, <1>4, <2>1 DEF Sound, Counted, InodeWith
    <2>3. c >= Cardinality(SlotsAt(mem, a)) + Cardinality(Releasing(a))
      BY <1>1, <1>4 DEF Sound, Counted
    <2>4. Cardinality(SlotsAt(mem, a)) \in Nat /\ Cardinality(Releasing(a)) \in Nat
      BY FiniteUsers
    <2> QED
      BY <2>2, <2>3, <2>4
  <1> HIDE DEF a, C, c
  <1>6. p \in Releasing(a)
    BY <1>1, <1>2, Loads DEF a
  <1>7. /\ c >= 1
        /\ c - 1 >= Cardinality(Releasing(a) \ {p}) + Cardinality(SlotsAt(mem, a))
        /\ c = 1 => Releasing(a) \ {p} = {} /\ SlotsAt(mem, a) = {}
    <2>1. IsFiniteSet(Releasing(a)) /\ IsFiniteSet(SlotsAt(mem, a))
      BY FiniteUsers
    <2>2. c \in Nat /\ c >= Cardinality(Releasing(a)) + Cardinality(SlotsAt(mem, a))
      BY <1>5
    <2> QED
      BY <1>6, <2>1, <2>2, Covered
  <1>8. /\ mem' \in MemWith(C)
        /\ mem'.slot = mem.slot
        /\ IsInjective(mem'.open)
        /\ \A b \in Addresses \ {a} : mem'.inode[b] = mem.inode[b]
        /\ IF c = 1 THEN ToSet(mem'.open) = ToSet(mem.open) \ {a}
           ELSE mem'.open = mem.open /\ mem'.inode[a] # NULL /\ mem'.inode[a].i_open_cnts = c - 1
    <2>1. mem.inode[a].i_open_cnts >= 1
      BY <1>7 DEF c
    <2> QED
      BY <1>1, <1>3, <1>4, <1>5, <2>1, InodeCloseLemma DEF c
  <1>9. /\ Goto(p, "user")
        /\ call' \in [Processes -> [i_no : Files, write : BOOLEAN, slot : Slots, inode : Addresses]]
        /\ \A q \in Processes \ {p} : call'[q] = call[q]
    BY <1>1, <1>3, Returns
  <1>10. pc' \in [Processes -> Pcs] /\ Loading' = Loading /\ Deleting' = Deleting \ {p}
    <2>1. pc' \in [Processes -> Pcs] /\ Loading' = Loading \ {p} /\ Deleting' = Deleting \ {p}
      BY <1>1, <1>9, OneMoves DEF Pcs
    <2> QED
      BY <1>2, <2>1
  <1>11. TypeOK'
    BY <1>1, <1>3, <1>8, <1>9, <1>10 DEF TypeOK, MemWith, Inode, C
  <1>12. /\ \A q \in Loading \cup (Deleting \ {p}) : call'[q] = call[q] /\ call[q].inode \in Addresses
         /\ call[p].inode = a
         /\ ToSet(mem'.open) \subseteq ToSet(mem.open) /\ ToSet(mem.open) \ {a} \subseteq ToSet(mem'.open)
         /\ c # 1 => ToSet(mem'.open) = ToSet(mem.open)
    BY <1>1, <1>2, <1>8, <1>9, Loads DEF a
  <1>13. \A b : /\ SlotsAt(mem, b)' = SlotsAt(mem, b)
                /\ Releasing(b)' = IF b = a THEN Releasing(b) \ {p} ELSE Releasing(b)
    <2>1. \A b : Releasing(b) = {q \in Deleting : call[q].inode = b}
      BY <1>1, Loads
    <2>2. \A b : Releasing(b)' = {q \in Deleting' : call'[q].inode = b}
      BY <1>11 DEF Releasing, Deleting
    <2>3. ASSUME NEW b, NEW q
          PROVE  q \in Releasing(b)' <=> q \in Releasing(b) /\ ~(b = a /\ q = p)
      BY <1>10, <1>12, <2>1, <2>2
    <2>4. \A b : SlotsAt(mem, b)' = SlotsAt(mem, b)
      BY <1>8 DEF SlotsAt
    <2>5. ASSUME NEW b
          PROVE  Releasing(b)' = IF b = a THEN Releasing(b) \ {p} ELSE Releasing(b)
      BY <2>3
    <2> QED
      BY <2>4, <2>5
  <1>14. Referenced(mem)'
    <2>1. ASSUME NEW t \in Slots, mem'.slot[t] # NULL
          PROVE  mem'.slot[t] \in ToSet(mem'.open)
      <3>1. mem'.slot[t] = mem.slot[t] /\ mem.slot[t] \in ToSet(mem.open)
        BY <1>1, <1>8, <2>1 DEF Sound, Referenced
      <3>2. mem.slot[t] = a => c # 1
        BY <1>7 DEF SlotsAt
      <3> QED
        BY <1>12, <3>1, <3>2
    <2>2. ASSUME NEW q \in Deleting'
          PROVE  call'[q].inode \in ToSet(mem'.open)
      <3>1. q \in Deleting \ {p} /\ call'[q] = call[q] /\ call[q].inode \in ToSet(mem.open)
        BY <1>1, <1>10, <1>12 DEF Sound, Referenced
      <3>2. call[q].inode = a => q \in Releasing(a) \ {p}
        BY <1>1, <3>1, Loads
      <3> QED
        BY <1>7, <1>12, <3>1, <3>2
    <2> QED
      BY <1>8, <2>1, <2>2 DEF Referenced
  <1>15. Private(mem)'
    <2>1. ASSUME NEW q \in Loading'
          PROVE  mem'.inode[call'[q].inode] # NULL /\ call'[q].inode \notin ToSet(mem'.open)
      <3>1. /\ mem.inode[call[q].inode] # NULL /\ call[q].inode \notin ToSet(mem.open)
            /\ call'[q] = call[q] /\ call[q].inode \in Addresses
        BY <1>1, <1>10, <1>12 DEF Sound, Private
      <3> QED
        BY <1>4, <1>8, <1>12, <3>1
    <2>2. ASSUME NEW q \in Loading', NEW u \in Loading', call'[q].inode = call'[u].inode
          PROVE  q = u
      BY <1>1, <1>10, <1>12, <2>2 DEF Sound, Private
    <2> QED
      BY <2>1, <2>2 DEF Private
  <1>16. Counted(mem)'
    <2> SUFFICES ASSUME NEW b \in ToSet(mem'.open)
                 PROVE  /\ mem'.inode[b] # NULL
                        /\ mem'.inode[b].i_open_cnts >=
                             Cardinality(SlotsAt(mem, b)) + Cardinality(Releasing(b)')
      BY <1>13 DEF Counted
    <2>1. CASE b # a
      <3>1. b \in ToSet(mem.open) /\ b \in Addresses /\ mem'.inode[b] = mem.inode[b]
        BY <1>4, <1>8, <1>12, <2>1
      <3> QED
        BY <1>1, <1>13, <2>1, <3>1 DEF Sound, Counted
    <2>2. CASE b = a
      <3>1. c # 1
        BY <1>8, <2>2
      <3>2. Releasing(b)' = Releasing(a) \ {p}
        BY <1>13, <2>2
      <3>3. Cardinality(Releasing(a) \ {p}) \in Nat /\ Cardinality(SlotsAt(mem, a)) \in Nat
        BY FiniteUsers, FS_Subset, FS_CardinalityType
      <3> QED
        BY <1>5, <1>7, <1>8, <2>2, <3>1, <3>2, <3>3
    <2> QED
      BY <2>1, <2>2
  <1> QED
    BY <1>11, <1>14, <1>15, <1>16 DEF IInv, Sound

-----------------------------------------------------------------------------
\* At the start one slot stands for the one inode in memory.
THEOREM InitIInv == Init => IInv
  <1> SUFFICES ASSUME Init PROVE IInv
    OBVIOUS
  <1> DEFINE x == [i_no |-> BootFile, i_open_cnts |-> 1, write_deny |-> FALSE]
  <1>1. x \in Inode /\ x # NULL
    <2>1. x \in InodeWith(Nat) /\ x \in InodeWith(0..MaxCount)
      BY Constants DEF InodeWith
    <2> QED
      BY <2>1, Constants DEF Inode
  <1>2. /\ mem.inode = [a \in Addresses |-> IF a = 1 THEN x ELSE NULL]
        /\ mem.open = <<1>> /\ mem.slot = [s \in Slots |-> IF s = 0 THEN 1 ELSE NULL]
    BY DEF Init
  <1>3. TypeOK
    <2>1. /\ mem.inode \in [Addresses -> Inode \cup {NULL}] /\ mem.open \in Seq(Addresses)
          /\ mem.slot \in [Slots -> Addresses \cup {NULL}] /\ {0} \in SUBSET Slots
      BY <1>1, <1>2, Constants
    <2>2. mem = [inode |-> mem.inode, open |-> mem.open, slot |-> mem.slot,
                 writes |-> {0}, ok |-> TRUE]
      BY DEF Init
    <2>3. mem \in [inode : [Addresses -> Inode \cup {NULL}], open : Seq(Addresses),
                   slot : [Slots -> Addresses \cup {NULL}], writes : SUBSET Slots, ok : BOOLEAN]
      BY <2>1, <2>2
    <2>4. pc \in [Processes -> Pcs] /\ fd_table \in [Processes -> [Fds -> Slots \cup {NULL}]]
      BY DEF Init, Pcs
    <2>5. call \in [Processes -> [i_no : Files, write : BOOLEAN, slot : Slots, inode : Addresses]]
      BY NoCallType DEF Init
    <2> QED
      BY <2>3, <2>4, <2>5 DEF TypeOK, Init
  <1>4. Loading = {} /\ Deleting = {} /\ \A a : Releasing(a) = {}
    BY DEF Init, Loading, Deleting, Releasing
  <1>5. ToSet(mem.open) = {1} /\ IsInjective(mem.open)
    BY <1>2 DEF ToSet, IsInjective
  <1>6. Referenced(mem) /\ Private(mem)
    BY <1>2, <1>4, <1>5 DEF Referenced, Private
  <1>7. SlotsAt(mem, 1) = {0}
    <2>1. \A t : t \in SlotsAt(mem, 1) <=> t = 0
      BY <1>2, Constants DEF SlotsAt
    <2> QED
      BY <2>1
  <1>8. Counted(mem)
    <2>1. Cardinality({0}) = 1 /\ Cardinality({}) = 0
      BY FS_Singleton, FS_EmptySet
    <2>2. mem.inode[1] = x /\ x.i_open_cnts = 1
      BY <1>2, Constants
    <2> HIDE DEF x
    <2>3. Cardinality(SlotsAt(mem, 1)) + Cardinality(Releasing(1)) = 1
      BY <1>4, <1>7, <2>1
    <2> QED
      BY <1>1, <1>5, <2>2, <2>3 DEF Counted
  <1> QED
    BY <1>3, <1>6, <1>8 DEF IInv, Sound

\* Every step keeps the memory sound.
THEOREM StepIInv == IInv /\ [Next]_vars => IInv'
  <1> SUFFICES ASSUME IInv, [Next]_vars PROVE IInv'
    OBVIOUS
  <1>1. CASE UNCHANGED vars
    <2>1. /\ mem' = mem /\ fd_table' = fd_table /\ pc' = pc /\ call' = call
          /\ entries' = entries /\ records' = records
      BY <1>1 DEF vars
    <2>2. TypeOK' /\ TypeOK /\ Sound(mem)
      BY <2>1 DEF IInv, TypeOK
    <2>3. StayPut
      BY <2>1 DEF StayPut, Loading, Deleting
    <2> QED
      BY <2>1, <2>2, <2>3, SoundStays DEF IInv
  <1>2. ASSUME NEW p \in Processes, Unlinks(p)
        PROVE  IInv'
    <2>1. CASE UnlinkCheck(p)
      BY <2>1, UnlinkCheckStep
    <2>2. CASE DeleteEntry(p)
      BY <2>2, DeleteEntryStep
    <2>3. CASE Release(p)
      BY <2>3, OpenToReleaseStep DEF Release, At
    <2>4. CASE LoadToRelease(p)
      BY <2>4, LoadToReleaseStep
    <2>5. CASE DeleteRecord(p)
      BY <2>5, DeleteRecordStep
    <2>6. CASE CloseReleased(p)
      BY <2>6, CloseReleasedStep
    <2> QED
      BY <1>2, <2>1, <2>2, <2>3, <2>4, <2>5, <2>6 DEF Unlinks
  <1>3. ASSUME NEW p \in Processes, NEW f \in Files,
               UnlinkCall(p, f) \/ \E w \in BOOLEAN : OpenCall(p, f, w)
        PROVE  IInv'
    BY <1>3, CallStep
  <1>4. ASSUME NEW p \in Processes, FileOpen(p) PROVE IInv'
    BY <1>4, FileOpenStep
  <1>5. ASSUME NEW p \in Processes, InodeRead(p) PROVE IInv'
    BY <1>5, InodeReadStep
  <1>6. ASSUME NEW p \in Processes, NEW i \in Fds, Close(p, i) PROVE IInv'
    BY <1>6, CloseStep
  <1>7. ASSUME NEW p \in Processes, NEW q \in Processes, Fork(p, q) PROVE IInv'
    BY <1>7, ForkStep
  <1>8. ASSUME NEW p \in Processes, Exit(p) PROVE IInv'
    BY <1>8, ExitStep
  <1> QED
    BY <1>1, <1>2, <1>3, <1>4, <1>5, <1>6, <1>7, <1>8 DEF Next

\* The inductive invariant of the inodes in memory: open_inodes lists each once
\* and holds what any slot or inode_release points to, the counts cover the users,
\* and an inode that is being read from the disk is in memory of its own.
THEOREM Invariant == Spec => []IInv
  BY InitIInv, StepIInv, PTL DEF Spec

\* Every variable keeps its type: the code never counts an inode below zero.
THEOREM TypeCorrect == Spec => []TypeOK
  <1>1. IInv => TypeOK
    BY DEF IInv
  <1> QED
    BY <1>1, Invariant, PTL

\* No inode is freed while a slot of file_table or an inode_release uses it,
\* whatever opens, closes, forks, exits and unlinks race with each other.
THEOREM NothingDangles == Spec => []NoDanglingInode
  <1>1. IInv => NoDanglingInode
    BY DEF IInv, Sound, Referenced, Counted, NoDanglingInode
  <1> QED
    BY <1>1, Invariant, PTL

-----------------------------------------------------------------------------
\* What a step may do to a descriptor that is open.

\* A process that does not exist has no descriptors: fork overwrites none.
NothingHeld ==
  \A p \in Processes : pc[p] = "unused" => \A i \in Fds : fd_table[p][i] = NULL

AInv == IInv /\ NothingHeld

\* A slot is given back with a descriptor of it.
Closed(t) == \E q \in Processes, j \in Fds : fd_table[q][j] = t /\ fd_table'[q][j] = NULL

Raced(t) == \E q \in Processes : pc[q] = "reading" /\ call[q].slot = t

SameFile(t) ==
  /\ mem'.slot[t] = mem.slot[t]
  /\ mem'.inode[mem'.slot[t]].i_no = mem.inode[mem.slot[t]].i_no

SlotsKept == \A t \in Slots : mem.slot[t] # NULL => SameFile(t)

Outcome ==
  \A t \in Slots : mem.slot[t] # NULL =>
    \/ SameFile(t)
    \/ mem'.slot[t] # NULL /\ Raced(t)
    \/ mem'.slot[t] = NULL /\ Closed(t)

\* A descriptor that is open stays what it is or is closed.
FdsKept ==
  \A q \in Processes, j \in Fds : fd_table[q][j] # NULL => fd_table'[q][j] \in {fd_table[q][j], NULL}

\* The inode of a slot is on the list, so it is not the one an open is reading.
LEMMA SlotInode ==
  ASSUME IInv, NEW t \in Slots, mem.slot[t] # NULL
  PROVE  /\ mem.slot[t] \in Addresses /\ mem.inode[mem.slot[t]] # NULL
         /\ mem.slot[t] \in ToSet(mem.open)
         /\ \A p \in Loading : mem.slot[t] # call[p].inode
  <1>1. mem.slot[t] \in Addresses
    BY DEF IInv, TypeOK
  <1> QED
    BY <1>1 DEF IInv, Sound, Referenced, Counted, Private

LEMMA Elsewhere ==
  ASSUME IInv, NEW a \in Addresses, mem'.slot = mem.slot,
         \A t \in Slots : mem.slot[t] # a,
         \A b \in Addresses \ {a} : mem'.inode[b] = mem.inode[b]
  PROVE  SlotsKept
  <1> SUFFICES ASSUME NEW t \in Slots, mem.slot[t] # NULL PROVE SameFile(t)
    BY DEF SlotsKept
  <1>1. mem.slot[t] \in Addresses \ {a}
    BY SlotInode
  <1> QED
    BY <1>1 DEF SameFile

\* Memory for an inode is memory that was free.
LEMMA AllocateKeeps ==
  ASSUME IInv, NEW f \in Files, FreeAddr(mem) # {}, mem' = Allocate(mem, Least(FreeAddr(mem)), f)
  PROVE  SlotsKept
  <1> DEFINE a == Least(FreeAddr(mem))
  <1>1. a \in Addresses /\ mem.inode[a] = NULL
    <2>1. a \in FreeAddr(mem)
      BY LeastLemma, Constants DEF FreeAddr
    <2> QED
      BY <2>1 DEF FreeAddr
  <1>2. mem' = Allocate(mem, a, f)
    OBVIOUS
  <1> HIDE DEF a
  <1>3. mem'.slot = mem.slot /\ \A b \in Addresses \ {a} : mem'.inode[b] = mem.inode[b]
    <2>1. mem \in MemWith(Nat) /\ mem.inode \in [Addresses -> InodeWith(Nat) \cup {NULL}]
      BY Loads, Parts DEF IInv
    <2> QED
      BY <1>2, <2>1 DEF Allocate, MemWith
  <1>4. \A t \in Slots : mem.slot[t] # a
    BY <1>1, SlotInode, Constants
  <1> QED
    BY <1>1, <1>3, <1>4, Elsewhere

LEMMA AgainKeeps ==
  ASSUME IInv, NEW f \in Files, Known(mem, f) # {}, mem' = Again(mem, f)
  PROVE  SlotsKept
  <1> DEFINE a == Found(mem, f)
  <1>1. TypeOK /\ Sound(mem)
    BY DEF IInv
  <1>2. /\ mem'.slot = mem.slot
        /\ \A b \in Addresses \ {a} : mem'.inode[b] = mem.inode[b]
        /\ mem'.inode[a].i_no = mem.inode[a].i_no
    BY <1>1, AgainLemma
  <1> HIDE DEF a
  <1> SUFFICES ASSUME NEW t \in Slots, mem.slot[t] # NULL PROVE SameFile(t)
    BY DEF SlotsKept
  <1>3. mem.slot[t] \in Addresses
    BY SlotInode
  <1> QED
    BY <1>2, <1>3 DEF SameFile

LEMMA OpenToReleaseKeeps ==
  ASSUME IInv, NEW p \in Processes, OpenToRelease(p)
  PROVE  SlotsKept
  <1> DEFINE f == call[p].i_no
  <1>1. f \in Files
    BY DEF IInv, TypeOK
  <1>2. CASE Known(mem, f) # {} /\ mem' = Again(mem, f)
    BY <1>1, <1>2, AgainKeeps
  <1>3. CASE FreeAddr(mem) # {} /\ mem' = Allocate(mem, Least(FreeAddr(mem)), f)
    BY <1>1, <1>3, AllocateKeeps
  <1> QED
    BY <1>2, <1>3 DEF OpenToRelease

LEMMA LoadToReleaseKeeps ==
  ASSUME IInv, NEW p \in Processes, LoadToRelease(p)
  PROVE  SlotsKept
  <1> DEFINE f == call[p].i_no
             a == call[p].inode
             m == Loaded(mem, a, f)
  <1>1. TypeOK /\ Sound(mem) /\ f \in Files /\ a \in Addresses /\ p \in Loading
    BY DEF IInv, TypeOK, LoadToRelease, At, Loading
  <1>2. a \notin ToSet(mem.open)
    BY <1>1 DEF Sound, Private
  <1>3. /\ m \in MemWith(0..MaxCount) /\ m.slot = mem.slot
        /\ \A b \in Addresses \ {a} : m.inode[b] = mem.inode[b]
    BY <1>1, <1>2, LoadedLemma
  <1>4. mem' = [m EXCEPT !.ok = f \in records]
    BY DEF LoadToRelease
  <1>5. \A t \in Slots : mem.slot[t] # a
    <2> SUFFICES ASSUME NEW t \in Slots, mem.slot[t] = a PROVE FALSE
      OBVIOUS
    <2>1. mem.slot[t] # NULL
      BY <1>1, Constants
    <2> QED
      BY <1>2, <2>1, SlotInode
  <1> HIDE DEF m, a, f
  <1>6. mem'.slot = mem.slot /\ mem'.inode = m.inode
    BY <1>3, <1>4 DEF MemWith
  <1> QED
    BY <1>1, <1>3, <1>5, <1>6, Elsewhere

\* inode_close frees an inode only with its last user, and here that is no slot:
\* the invariant holds after the step.
LEMMA CloseReleasedKeeps ==
  ASSUME IInv, IInv', NEW p \in Processes, CloseReleased(p)
  PROVE  SlotsKept
  <1> DEFINE a == call[p].inode
             C == 0..MaxCount
  <1>1. TypeOK /\ Sound(mem) /\ mem \in MemWith(C) /\ C \in Ranges
    BY Loads, TwoRanges DEF IInv
  <1>2. mem' = InodeClose(mem, a) /\ p \in Deleting /\ a \in Addresses
    BY <1>1, Loads DEF CloseReleased, At, Deleting
  <1>3. a \in ToSet(mem.open) /\ IsInjective(mem.open) /\ mem.inode[a] # NULL
    BY <1>1, <1>2 DEF Sound, Referenced, Counted
  <1>4. mem.inode[a].i_open_cnts >= 1
    <2> DEFINE R == Releasing(a)
               S == SlotsAt(mem, a)
               c == mem.inode[a].i_open_cnts
    <2>1. c \in Nat
      <3>1. mem.inode \in [Addresses -> InodeWith(Nat) \cup {NULL}]
        BY <1>1, Loads, Parts
      <3> QED
        BY <1>2, <1>3, <3>1 DEF InodeWith
    <2>2. p \in R
      BY <1>1, <1>2, Loads
    <2>3. c >= Cardinality(S) + Cardinality(R)
      BY <1>1, <1>3 DEF Sound, Counted
    <2>4. IsFiniteSet(R) /\ IsFiniteSet(S) /\ Cardinality(R) \in Nat /\ Cardinality(S) \in Nat
      BY FiniteUsers, FS_CardinalityType
    <2> HIDE DEF R, S, c
    <2>5. c >= Cardinality(R) + Cardinality(S)
      BY <2>1, <2>3, <2>4
    <2>6. c >= 1
      BY <2>1, <2>2, <2>4, <2>5, Covered
    <2> QED
      BY <2>6 DEF c
  <1> HIDE DEF a, C
  <1>5. /\ mem'.slot = mem.slot
        /\ \A b \in Addresses \ {a} : mem'.inode[b] = mem.inode[b]
        /\ mem.inode[a].i_open_cnts = 1 => ToSet(mem'.open) = ToSet(mem.open) \ {a}
        /\ mem.inode[a].i_open_cnts # 1 => mem'.inode[a].i_no = mem.inode[a].i_no
    BY <1>1, <1>2, <1>3, <1>4, InodeCloseLemma
  <1> SUFFICES ASSUME NEW t \in Slots, mem.slot[t] # NULL PROVE SameFile(t)
    BY DEF SlotsKept
  <1>6. mem.slot[t] \in Addresses
    BY SlotInode
  <1>7. mem.slot[t] \in ToSet(mem'.open)
    BY <1>5 DEF IInv, Sound, Referenced
  <1>8. mem.slot[t] = a => mem'.inode[a].i_no = mem.inode[a].i_no
    BY <1>5, <1>7
  <1> QED
    BY <1>5, <1>6, <1>8 DEF SameFile

\* The slot an open takes was free, or it is the one the open has raced for.
LEMMA OpenAgainKeeps ==
  ASSUME IInv, NEW p \in Processes, NEW f \in Files, NEW s \in Slots, mem.slot[s] = NULL,
         Known(mem, f) # {}, InstallInode(p, s, Found(mem, f), Again(mem, f))
  PROVE  SlotsKept /\ FdsKept
  <1> DEFINE a == Found(mem, f)
             m == Again(mem, f)
  <1>1. TypeOK /\ Sound(mem) /\ Nat \in SUBSET Nat
    BY DEF IInv
  <1>2. /\ a \in Addresses /\ m \in MemWith(Nat) /\ m.slot = mem.slot
        /\ \A b \in Addresses \ {a} : m.inode[b] = mem.inode[b]
        /\ m.inode[a] # NULL /\ m.inode[a].i_no = mem.inode[a].i_no
    BY <1>1, AgainLemma
  <1>3. InstallInode(p, s, a, m)
    OBVIOUS
  <1> HIDE DEF a, m
  <1>4. /\ mem'.slot = [m.slot EXCEPT ![s] = a]
        /\ \A b \in Addresses \ {a} : mem'.inode[b] = m.inode[b]
        /\ mem'.inode[a].i_no = m.inode[a].i_no
        /\ \A q \in Processes, i \in Fds :
             fd_table[q][i] # NULL \/ q # p => fd_table'[q][i] = fd_table[q][i]
    BY <1>1, <1>2, <1>3, InstallLemma
  <1>5. FdsKept
    BY <1>4 DEF FdsKept
  <1>6. ASSUME NEW t \in Slots, mem.slot[t] # NULL
        PROVE  SameFile(t)
    <2>1. mem.slot[t] \in Addresses /\ t # s
      BY <1>6, SlotInode
    <2>2. mem'.slot[t] = mem.slot[t]
      BY <1>1, <1>2, <1>4, <2>1 DEF TypeOK
    <2> QED
      BY <1>2, <1>4, <2>1, <2>2 DEF SameFile
  <1> QED
    BY <1>5, <1>6 DEF SlotsKept

LEMMA InodeReadOutcome ==
  ASSUME IInv, NEW p \in Processes, InodeRead(p)
  PROVE  Outcome /\ FdsKept
  <1> DEFINE f == call[p].i_no
             a == call[p].inode
             s == call[p].slot
             m == Loaded(mem, a, f)
             C == 0..MaxCount
  <1>1. TypeOK /\ Sound(mem) /\ f \in Files /\ a \in Addresses /\ s \in Slots
    BY DEF IInv, TypeOK
  <1>2. pc[p] = "reading" /\ p \in Loading /\ InstallInode(p, s, a, m)
    BY DEF InodeRead, At, Loading
  <1>3. a \notin ToSet(mem.open)
    BY <1>1, <1>2 DEF Sound, Private
  <1>4. /\ m \in MemWith(C) /\ m.slot = mem.slot
        /\ \A b \in Addresses \ {a} : m.inode[b] = mem.inode[b]
        /\ m.inode[a] # NULL
    BY <1>1, <1>3, LoadedLemma
  <1>5. Raced(s)
    BY <1>2 DEF Raced
  <1>6. C \in SUBSET Nat
    BY TwoRanges DEF Ranges
  <1> HIDE DEF m, a, s, f, C
  <1>7. /\ mem'.slot = [m.slot EXCEPT ![s] = a]
        /\ \A b \in Addresses \ {a} : mem'.inode[b] = m.inode[b]
        /\ \A q \in Processes, i \in Fds :
             fd_table[q][i] # NULL \/ q # p => fd_table'[q][i] = fd_table[q][i]
    BY <1>1, <1>2, <1>4, <1>6, InstallLemma
  <1>8. FdsKept
    BY <1>7 DEF FdsKept
  <1>9. ASSUME NEW t \in Slots, mem.slot[t] # NULL
        PROVE  SameFile(t) \/ (mem'.slot[t] # NULL /\ Raced(t))
    <2>1. mem'.slot[t] = IF t = s THEN a ELSE mem.slot[t]
      BY <1>1, <1>4, <1>7 DEF TypeOK
    <2>2. CASE t = s
      BY <1>1, <1>5, <2>1, <2>2, Constants
    <2>3. CASE t # s
      <3>1. mem.slot[t] \in Addresses \ {a}
        BY <1>3, <1>9, SlotInode
      <3> QED
        BY <1>4, <1>7, <2>1, <2>3, <3>1 DEF SameFile
    <2> QED
      BY <2>2, <2>3
  <1> QED
    BY <1>8, <1>9 DEF Outcome

\* file_close touches the slot of the descriptor that is closed and no other.
LEMMA CloseOutcome ==
  ASSUME IInv, NEW p \in Processes, NEW i \in Fds, Close(p, i)
  PROVE  Outcome /\ FdsKept
  <1> DEFINE s == fd_table[p][i]
             C == 0..MaxCount
  <1>1. TypeOK /\ Sound(mem) /\ mem \in MemWith(C) /\ C \in Ranges
    BY Loads, TwoRanges DEF IInv
  <1>2. /\ s \in Slots /\ mem' = FileClose(mem, s)
        /\ fd_table' = [fd_table EXCEPT ![p][i] = NULL]
    BY <1>1 DEF Close, TypeOK
  <1>3. fd_table'[p][i] = NULL
    BY <1>1, <1>2 DEF TypeOK
  <1>4. FdsKept
    BY <1>1, <1>2 DEF FdsKept, TypeOK
  <1>5. Closed(s)
    BY <1>3 DEF Closed
  <1> HIDE DEF C, s
  <1>6. Kept(mem, mem') /\ \A t \in Slots \ {s} : mem'.slot[t] = mem.slot[t]
    BY <1>1, <1>2, FileCloseSound
  <1>7. ASSUME NEW t \in Slots, mem.slot[t] # NULL
        PROVE  SameFile(t) \/ (mem'.slot[t] = NULL /\ Closed(t))
    <2>1. CASE mem'.slot[t] # NULL
      BY <1>6, <2>1 DEF Kept, SameFile
    <2>2. CASE mem'.slot[t] = NULL
      BY <1>5, <1>6, <1>7, <2>2
    <2> QED
      BY <2>1, <2>2
  <1> QED
    BY <1>4, <1>7 DEF Outcome

LEMMA ExitOutcome ==
  ASSUME IInv, NEW p \in Processes, Exit(p)
  PROVE  Outcome /\ FdsKept
  <1> DEFINE fds == fd_table[p]
  <1>1. TypeOK /\ Sound(mem) /\ fds \in [Fds -> Slots \cup {NULL}]
    BY DEF IInv, TypeOK
  <1>2. /\ mem' = Each(FileClose, mem, fds)
        /\ fd_table' = [fd_table EXCEPT ![p] = [i \in Fds |-> NULL]]
    BY DEF Exit
  <1>3. \A q \in Processes, j \in Fds :
          fd_table'[q][j] = IF q = p THEN NULL ELSE fd_table[q][j]
    BY <1>1, <1>2 DEF TypeOK
  <1>4. FdsKept
    BY <1>3 DEF FdsKept
  <1>5. /\ Kept(mem, mem')
        /\ \A t \in Slots : (\A i \in Fds : fds[i] # t) => mem'.slot[t] = mem.slot[t]
    BY <1>1, <1>2, EachCloseSound
  <1>6. ASSUME NEW t \in Slots, mem.slot[t] # NULL
        PROVE  SameFile(t) \/ (mem'.slot[t] = NULL /\ Closed(t))
    <2>1. CASE mem'.slot[t] # NULL
      BY <1>5, <2>1 DEF Kept, SameFile
    <2>2. CASE mem'.slot[t] = NULL
      <3>1. PICK i \in Fds : fds[i] = t
        BY <1>5, <1>6, <2>2
      <3>2. fd_table'[p][i] = NULL
        BY <1>3
      <3> QED
        BY <2>2, <3>1, <3>2 DEF Closed
    <2> QED
      BY <2>1, <2>2
  <1> QED
    BY <1>4, <1>6 DEF Outcome

LEMMA ForkOutcome ==
  ASSUME AInv, NEW p \in Processes, NEW q \in Processes, Fork(p, q)
  PROVE  Outcome /\ FdsKept
  <1>1. TypeOK /\ Sound(mem) /\ fd_table[p] \in [Fds -> Slots \cup {NULL}]
    BY DEF AInv, IInv, TypeOK
  <1>2. /\ mem' = Each(CountOnce, mem, fd_table[p]) /\ pc[q] = "unused"
        /\ fd_table' = [fd_table EXCEPT ![q] = fd_table[p]]
    BY DEF Fork
  <1>3. Kept(mem, mem') /\ mem'.slot = mem.slot
    BY <1>1, <1>2, EachCountSound
  <1>4. \A i \in Fds : fd_table[q][i] = NULL
    BY <1>2 DEF AInv, NothingHeld
  <1>5. FdsKept
    BY <1>1, <1>2, <1>4 DEF FdsKept, TypeOK
  <1> QED
    BY <1>3, <1>5 DEF Outcome, Kept, SameFile

LEMMA Unchanging ==
  /\ mem' = mem => SlotsKept
  /\ fd_table' = fd_table => FdsKept
  /\ SlotsKept => Outcome
  BY DEF SlotsKept, SameFile, FdsKept, Outcome

LEMMA UnlinksOutcome ==
  ASSUME IInv, IInv', NEW p \in Processes, Unlinks(p)
  PROVE  Outcome /\ FdsKept
  <1>1. fd_table' = fd_table
    BY DEF Unlinks, UnlinkCheck, DeleteEntry, Release, LoadToRelease, DeleteRecord, CloseReleased
  <1>2. SlotsKept
    <2>1. CASE UnlinkCheck(p)
      BY <2>1, Unchanging DEF UnlinkCheck
    <2>2. CASE DeleteEntry(p)
      BY <2>2, Unchanging, OpenToReleaseKeeps DEF DeleteEntry
    <2>3. CASE Release(p)
      BY <2>3, OpenToReleaseKeeps DEF Release
    <2>4. CASE LoadToRelease(p)
      BY <2>4, LoadToReleaseKeeps
    <2>5. CASE DeleteRecord(p)
      BY <2>5, Unchanging DEF DeleteRecord
    <2>6. CASE CloseReleased(p)
      BY <2>6, CloseReleasedKeeps
    <2> QED
      BY <2>1, <2>2, <2>3, <2>4, <2>5, <2>6 DEF Unlinks
  <1> QED
    BY <1>1, <1>2, Unchanging

LEMMA FileOpenOutcome ==
  ASSUME IInv, NEW p \in Processes, FileOpen(p)
  PROVE  Outcome /\ FdsKept
  <1> DEFINE f == call[p].i_no
  <1>1. f \in Files
    BY DEF IInv, TypeOK
  <1>2. CASE UNCHANGED <<mem, fd_table>>
    BY <1>2, Unchanging
  <1>3. CASE /\ FreeSlots # {} /\ Known(mem, f) # {}
             /\ InstallInode(p, Least(FreeSlots), Found(mem, f), Again(mem, f))
    <2>1. Least(FreeSlots) \in FreeSlots
      BY <1>3, LeastLemma, Constants DEF FreeSlots
    <2>2. Least(FreeSlots) \in Slots /\ mem.slot[Least(FreeSlots)] = NULL
      BY <2>1 DEF FreeSlots
    <2> QED
      BY <1>1, <1>3, <2>2, OpenAgainKeeps, Unchanging
  <1>4. CASE /\ FreeAddr(mem) # {} /\ mem' = Allocate(mem, Least(FreeAddr(mem)), f)
             /\ fd_table' = fd_table
    BY <1>1, <1>4, AllocateKeeps, Unchanging
  <1> QED
    BY <1>2, <1>3, <1>4 DEF FileOpen

\* Every step leaves an open descriptor and its slot alone, closes them, or is an
\* open that has raced for the slot.
LEMMA StepOutcome ==
  ASSUME AInv, IInv', [Next]_vars
  PROVE  Outcome /\ FdsKept
  <1>1. IInv
    BY DEF AInv
  <1>2. CASE UNCHANGED vars
    BY <1>2, Unchanging DEF vars
  <1>3. ASSUME NEW p \in Processes, NEW f \in Files,
               UnlinkCall(p, f) \/ \E w \in BOOLEAN : OpenCall(p, f, w)
        PROVE  Outcome /\ FdsKept
    BY <1>3, Unchanging DEF UnlinkCall, OpenCall
  <1>4. ASSUME NEW p \in Processes, FileOpen(p) PROVE Outcome /\ FdsKept
    BY <1>1, <1>4, FileOpenOutcome
  <1>5. ASSUME NEW p \in Processes, InodeRead(p) PROVE Outcome /\ FdsKept
    BY <1>1, <1>5, InodeReadOutcome
  <1>6. ASSUME NEW p \in Processes, NEW i \in Fds, Close(p, i) PROVE Outcome /\ FdsKept
    BY <1>1, <1>6, CloseOutcome
  <1>7. ASSUME NEW p \in Processes, NEW q \in Processes, Fork(p, q) PROVE Outcome /\ FdsKept
    BY <1>7, ForkOutcome
  <1>8. ASSUME NEW p \in Processes, Exit(p) PROVE Outcome /\ FdsKept
    BY <1>1, <1>8, ExitOutcome
  <1>9. ASSUME NEW p \in Processes, Unlinks(p) PROVE Outcome /\ FdsKept
    BY <1>1, <1>9, UnlinksOutcome
  <1> QED
    BY <1>2, <1>3, <1>4, <1>5, <1>6, <1>7, <1>8, <1>9 DEF Next

-----------------------------------------------------------------------------
LEMMA StaysHeld ==
  ASSUME AInv, NEW p \in Processes, pc[p] # "unused",
         NEW loc \in Pcs, loc # "unused", pc' = pc \/ Goto(p, loc),
         \A q \in Processes \ {p} : \A i \in Fds : fd_table'[q][i] = fd_table[q][i]
  PROVE  NothingHeld'
  <1>1. pc \in [Processes -> Pcs] /\ NothingHeld
    BY DEF AInv, IInv, TypeOK
  <1>2. \A q \in Processes : pc'[q] = "unused" => q # p /\ pc[q] = "unused"
    BY <1>1 DEF Goto
  <1> QED
    BY <1>1, <1>2 DEF NothingHeld

\* Nobody takes a descriptor before he exists, and exit gives all back.
LEMMA StepNothingHeld == AInv /\ [Next]_vars => NothingHeld'
  <1> SUFFICES ASSUME AInv, [Next]_vars PROVE NothingHeld'
    OBVIOUS
  <1>1. TypeOK /\ NothingHeld
    BY DEF AInv, IInv
  <1>2. CASE UNCHANGED vars
    BY <1>1, <1>2 DEF vars, NothingHeld
  <1>3. ASSUME NEW p \in Processes, NEW f \in Files,
               UnlinkCall(p, f) \/ \E w \in BOOLEAN : OpenCall(p, f, w)
        PROVE  NothingHeld'
    <2>1. pc[p] # "unused" /\ fd_table' = fd_table
      BY <1>3 DEF UnlinkCall, OpenCall, At
    <2>2. \E loc \in Pcs : loc # "unused" /\ Goto(p, loc)
      BY <1>3 DEF UnlinkCall, OpenCall, Pcs
    <2> QED
      BY <2>1, <2>2, StaysHeld
  <1>4. ASSUME NEW p \in Processes, NEW s, NEW a, NEW m, InstallInode(p, s, a, m)
        PROVE  \A q \in Processes \ {p} : \A i \in Fds : fd_table'[q][i] = fd_table[q][i]
    BY <1>1, <1>4 DEF InstallInode, TypeOK
  <1>5. ASSUME NEW p \in Processes, FileOpen(p) \/ InodeRead(p)
        PROVE  NothingHeld'
    <2>1. pc[p] # "unused"
      BY <1>5 DEF FileOpen, InodeRead, At
    <2>2. \A q \in Processes \ {p} : \A i \in Fds : fd_table'[q][i] = fd_table[q][i]
      BY <1>4, <1>5 DEF FileOpen, InodeRead
    <2>3. Goto(p, "user") \/ Goto(p, "reading")
      BY <1>5 DEF FileOpen, InodeRead, Return
    <2>4. "user" \in Pcs /\ "reading" \in Pcs
      BY DEF Pcs
    <2> QED
      BY <2>1, <2>2, <2>3, <2>4, StaysHeld
  <1>6. ASSUME NEW p \in Processes, NEW i \in Fds, Close(p, i)
        PROVE  NothingHeld'
    <2>1. pc[p] # "unused" /\ pc' = pc
      BY <1>6 DEF Close, At
    <2>2. \A q \in Processes \ {p} : \A j \in Fds : fd_table'[q][j] = fd_table[q][j]
      BY <1>1, <1>6 DEF Close, TypeOK
    <2>3. "user" \in Pcs
      BY DEF Pcs
    <2> QED
      BY <2>1, <2>2, <2>3, StaysHeld
  <1>7. ASSUME NEW p \in Processes, NEW q \in Processes, Fork(p, q)
        PROVE  NothingHeld'
    <2>1. pc' = [pc EXCEPT ![q] = "user"] /\ fd_table' = [fd_table EXCEPT ![q] = fd_table[p]]
      BY <1>7 DEF Fork, Goto
    <2>2. \A u \in Processes : pc'[u] = "unused" =>
            pc[u] = "unused" /\ fd_table'[u] = fd_table[u]
      BY <1>1, <2>1 DEF TypeOK
    <2> QED
      BY <1>1, <2>2 DEF NothingHeld
  <1>8. ASSUME NEW p \in Processes, Exit(p)
        PROVE  NothingHeld'
    <2>1. /\ pc' = [pc EXCEPT ![p] = "unused"]
          /\ fd_table' = [fd_table EXCEPT ![p] = [i \in Fds |-> NULL]]
      BY <1>8 DEF Exit, Goto
    <2>2. \A u \in Processes \ {p} : pc'[u] = pc[u] /\ fd_table'[u] = fd_table[u]
      BY <1>1, <2>1 DEF TypeOK
    <2>3. \A i \in Fds : fd_table'[p][i] = NULL
      BY <1>1, <2>1 DEF TypeOK
    <2> QED
      BY <1>1, <2>2, <2>3 DEF NothingHeld
  <1>9. ASSUME NEW p \in Processes, Unlinks(p)
        PROVE  NothingHeld'
    <2>1. fd_table' = fd_table
      BY <1>9 DEF Unlinks, UnlinkCheck, DeleteEntry, Release, LoadToRelease, DeleteRecord,
                  CloseReleased
    <2>2. pc[p] # "unused"
      BY <1>9 DEF Unlinks, UnlinkCheck, DeleteEntry, Release, LoadToRelease, DeleteRecord,
                  CloseReleased, At
    <2>3. \E loc \in Pcs : loc # "unused" /\ Goto(p, loc)
      BY <1>9 DEF Unlinks, UnlinkCheck, DeleteEntry, Release, LoadToRelease, DeleteRecord,
                  CloseReleased, OpenToRelease, Return, Pcs
    <2> QED
      BY <2>1, <2>2, <2>3, StaysHeld
  <1> QED
    BY <1>2, <1>3, <1>5, <1>6, <1>7, <1>8, <1>9 DEF Next

THEOREM DescriptorInvariant == Spec => []AInv
  <1>1. Init => NothingHeld
    BY DEF Init, NothingHeld
  <1>2. IInv /\ NothingHeld /\ [Next]_vars => NothingHeld'
    BY StepNothingHeld DEF AInv
  <1>3. Spec => []NothingHeld
    BY <1>1, <1>2, Invariant, PTL DEF Spec
  <1>4. IInv /\ NothingHeld => AInv
    BY DEF AInv
  <1> QED
    BY <1>3, <1>4, Invariant, PTL

LEMMA Share ==
  ASSUME IInv, NEW p \in Processes, NEW i \in Fds, NEW q \in Processes, NEW j \in Fds,
         <<p, i>> # <<q, j>>, fd_table[p][i] = fd_table[q][j]
  PROVE  Cardinality(Users(fd_table[p][i])) > 1
  <1> DEFINE U == Users(fd_table[p][i])
             u == <<p, i>>
             v == <<q, j>>
  <1>1. u \in U /\ v \in U /\ u # v
    BY DEF Users
  <1>2. IsFiniteSet(U)
    <2>1. IsFiniteSet(Fds)
      BY Constants, FS_Interval DEF Fds
    <2>2. IsFiniteSet(Processes \X Fds)
      BY <2>1, Constants, FS_Product
    <2>3. U \subseteq Processes \X Fds
      BY DEF Users
    <2> QED
      BY <2>2, <2>3, FS_Subset
  <1> HIDE DEF U, u, v
  <1>3. Cardinality({u, v}) = 2
    <2>1. IsFiniteSet({u}) /\ Cardinality({u}) = 1 /\ v \notin {u}
      BY <1>1, FS_Singleton
    <2>2. Cardinality({u} \cup {v}) = Cardinality({u}) + 1
      BY <2>1, FS_AddElement
    <2>3. {u, v} = {u} \cup {v}
      OBVIOUS
    <2> QED
      BY <2>1, <2>2, <2>3
  <1>4. Cardinality({u, v}) <= Cardinality(U) /\ Cardinality(U) \in Nat
    <2>1. {u, v} \subseteq U
      BY <1>1
    <2> QED
      BY <1>2, <2>1, FS_Subset, FS_CardinalityType
  <1> QED
    BY <1>3, <1>4 DEF U

\* A descriptor that stays open loses its file only through the close of another
\* descriptor of its slot: no close, exit or unlink elsewhere takes a file away.
THEOREM ShareTheorem == Spec => DiesOnlyByShare
  <1>1. ASSUME AInv, IInv', [Next]_vars
        PROVE  [ \A p \in Processes, i \in Fds :
                   Live(p, i) /\ ~Live(p, i)' =>
                     fd_table'[p][i] = NULL \/ Cardinality(Users(fd_table[p][i])) > 1 ]_vars
    <2> SUFFICES ASSUME NEW p \in Processes, NEW i \in Fds,
                        fd_table[p][i] # NULL, mem.slot[fd_table[p][i]] # NULL,
                        fd_table'[p][i] # NULL, mem'.slot[fd_table'[p][i]] = NULL
                 PROVE  Cardinality(Users(fd_table[p][i])) > 1
      BY DEF Live
    <2> DEFINE t == fd_table[p][i]
    <2>1. Outcome /\ FdsKept
      BY <1>1, StepOutcome
    <2>2. t \in Slots /\ fd_table'[p][i] = t
      BY <1>1, <2>1 DEF FdsKept, AInv, IInv, TypeOK
    <2>3. Closed(t)
      BY <2>1, <2>2 DEF Outcome, SameFile
    <2>4. PICK q \in Processes, j \in Fds : fd_table[q][j] = t /\ fd_table'[q][j] = NULL
      BY <2>3 DEF Closed
    <2>5. <<p, i>> # <<q, j>>
      BY <2>4
    <2> QED
      BY <1>1, <2>4, <2>5, Share DEF AInv
  <1> QED
    BY <1>1, DescriptorInvariant, Invariant, PTL DEF Spec, DiesOnlyByShare

\* A descriptor comes to stand for another file only through an open that chose its
\* slot before it waited for the inode.
THEOREM RaceTheorem == Spec => ChangesOnlyByRace
  <1>1. ASSUME AInv, IInv', [Next]_vars
        PROVE  [ \A p \in Processes, i \in Fds :
                   Live(p, i) /\ Live(p, i)' /\ FileOf(p, i)' # FileOf(p, i) =>
                     \E q \in Processes : pc[q] = "reading" /\ call[q].slot = fd_table[p][i] ]_vars
    <2> SUFFICES ASSUME NEW p \in Processes, NEW i \in Fds,
                        fd_table[p][i] # NULL, mem.slot[fd_table[p][i]] # NULL,
                        fd_table'[p][i] # NULL, mem'.slot[fd_table'[p][i]] # NULL,
                        mem'.inode[mem'.slot[fd_table'[p][i]]].i_no
                          # mem.inode[mem.slot[fd_table[p][i]]].i_no
                 PROVE  Raced(fd_table[p][i])
      BY DEF Live, FileOf, Raced
    <2>1. Outcome /\ FdsKept
      BY <1>1, StepOutcome
    <2>2. fd_table[p][i] \in Slots /\ fd_table'[p][i] = fd_table[p][i]
      BY <1>1, <2>1 DEF FdsKept, AInv, IInv, TypeOK
    <2> QED
      BY <2>1, <2>2 DEF Outcome, SameFile
  <1> QED
    BY <1>1, DescriptorInvariant, Invariant, PTL DEF Spec, ChangesOnlyByRace
=============================================================================
