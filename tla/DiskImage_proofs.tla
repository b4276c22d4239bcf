--------------------------- MODULE DiskImage_proofs ----------------------------
(***************************************************************************)
(* The disk under power cuts, for every number of inodes, blocks, entries  *)
(* of a block and power cuts, and all names.                               *)
(*                                                                         *)
(* An image (Img) is what a disk holds of a file system: inodes V and      *)
(* directories D, a tree whose links, blocks and names are each of one     *)
(* inode.  Three lemmas say how images change: AlikeImage (nothing that is *)
(* looked at changes), GainedImage (one entry more) and LostImage (one     *)
(* entry less).  ImageSound says that an image is what the model calls a   *)
(* file system that can be used.                                           *)
(*                                                                         *)
(* The invariant speaks of what is still to be written: Ready says that    *)
(* the writes lead, one by one, through images or windows, to an image     *)
(* whose bitmaps are those in memory.  It is a greatest fixed point, so    *)
(* that a step of WriteSector keeps it by definition (ReadyGoes), and what *)
(* there is to prove of an operation is that its writes are Ready when it  *)
(* begins (Begins).                                                        *)
(***************************************************************************)
EXTENDS DiskImage, SequenceTheorems, FiniteSetTheorems, WellFoundedInduction, TLAPS

\* A set of numbers that is not empty has a least one.
LEMMA LeastNat ==
  ASSUME NEW S \in SUBSET Nat, S # {}
  PROVE  \E n \in S : \A m \in S : n <= m
  <1> DEFINE R == {ss \in Nat \X Nat : ss[1] < ss[2]}
  <1>1. IsWellFoundedOn(R, Nat)
    BY NatLessThanWellFounded DEF OpToRel
  <1>2. PICK n \in S : \A m \in S : ~(<<m, n>> \in R)
    BY <1>1, WFMin
  <1>3. \A m \in S : ~(m < n)
    BY <1>2
  <1> QED
    BY <1>3

\* What the assumptions say of the constants, in the form the proofs use.
LEMMA DiskConstants ==
  /\ NumInodes \in Nat /\ NumInodes > 0 /\ NumBlocks \in Nat /\ NumBlocks > 0
  /\ Direct \in Nat /\ Direct > 0 /\ PerBlock \in Nat /\ PerBlock >= 2
  /\ InodeNoSize \in Nat /\ InodeNoSize > 0 /\ MaxCuts \in Nat
  /\ "." \notin Names /\ ".." \notin Names
  /\ NULL \notin Nat /\ NULL \notin Entry /\ NULL \notin Blocks /\ NULL \notin Inodes
  /\ Root \in Inodes /\ 0 \in Blocks /\ Inodes \subseteq Nat /\ Blocks \subseteq Nat
  BY DiskImageAssumption DEF Entry, Blocks, Inodes, Root

\* The inodes whose number inode_sync keeps whole.
Synced == {n \in Inodes : n % InodeNoSize = n}

\* The root is one, and the number of another is cut down to one that there is.
LEMMA SyncedNumbers ==
  /\ Root \in Synced
  /\ \A n \in Inodes : n % InodeNoSize \in Inodes
  <1>1. 0 % InodeNoSize = 0
    BY DiskConstants
  <1>2. ASSUME NEW n \in Inodes PROVE n % InodeNoSize \in Inodes
    <2>1. n \in Nat /\ n < NumInodes /\ NumInodes \in Nat /\ InodeNoSize \in Nat /\ InodeNoSize > 0
      BY DiskConstants DEF Inodes
    <2>2. n % InodeNoSize \in Nat /\ n % InodeNoSize < InodeNoSize
      BY <2>1
    <2>3. CASE n < InodeNoSize
      BY <2>1, <2>3 DEF Inodes
    <2>4. CASE ~(n < InodeNoSize)
      BY <2>1, <2>2, <2>4 DEF Inodes
    <2> QED
      BY <2>3, <2>4
  <1> QED
    BY <1>1, <1>2, DiskConstants DEF Synced, Root

Disk == [magic : BOOLEAN, imap : SUBSET Inodes, bmap : SUBSET Blocks,
         inode : [Inodes -> Inode], block : [Blocks -> Content]]

-----------------------------------------------------------------------------
\* Disks d, as functions of everything: what inode n has in them.
Sector(d, n, k) == d.inode[n].i_sectors[k]
UsedOf(d, n)    == {k \in 1..Direct : Sector(d, n, k) # NULL}
EntryAt(d, n, x) == d.block[Sector(d, n, x[1])][x[2]]
PlacesOf(d, n)  == {x \in UsedOf(d, n) \X (1..PerBlock) : EntryAt(d, n, x) # NULL}
NamedOf(d, n)   == {x \in PlacesOf(d, n) : EntryAt(d, n, x).filename \in Names}
SectorsOf(d, V) == UNION {{Sector(d, v, k) : k \in UsedOf(d, v)} : v \in V}

Inside(d, V, D) ==
  Root \in D /\ D \subseteq V /\ V \subseteq Inodes /\ V \subseteq Synced /\ V \subseteq d.imap
Typing(d, V, D) ==
  \A n \in D : \A x \in NamedOf(d, n) :
    /\ EntryAt(d, n, x).i_no \in V
    /\ EntryAt(d, n, x).f_type = "directory" <=> EntryAt(d, n, x).i_no \in D
HasEntry(d, D, v) == \E n \in D : \E x \in NamedOf(d, n) : EntryAt(d, n, x).i_no = v
Entered(d, V, D) == \A v \in V : v # Root => HasEntry(d, D, v)
OneEntry(d, D) ==
  /\ \A n \in D : \A x \in NamedOf(d, n) : EntryAt(d, n, x).i_no # Root
  /\ \A n, m \in D : \A x \in NamedOf(d, n) : \A y \in NamedOf(d, m) :
       EntryAt(d, n, x).i_no = EntryAt(d, m, y).i_no => n = m /\ x = y
Recorded(d, V) == \A v \in V : d.inode[v].i_no = v
OwnBlocks(d, V) ==
  /\ SectorsOf(d, V) \subseteq d.bmap
  /\ \A v, w \in V : \A k \in UsedOf(d, v) : \A l \in UsedOf(d, w) :
       Sector(d, v, k) = Sector(d, w, l) => v = w /\ k = l
DotsAt(d, n) ==
  /\ 1 \in UsedOf(d, n) /\ <<1, 1>> \in PlacesOf(d, n) /\ <<1, 2>> \in PlacesOf(d, n)
  /\ EntryAt(d, n, <<1, 1>>).filename = "." /\ EntryAt(d, n, <<1, 2>>).filename = ".."
  /\ EntryAt(d, n, <<1, 1>>).i_no = n
  /\ NamedOf(d, n) = PlacesOf(d, n) \ {<<1, 1>>, <<1, 2>>}
Dotted(d, D) == \A n \in D : DotsAt(d, n)
Parents(d, D) ==
  /\ EntryAt(d, Root, <<1, 2>>).i_no = Root
  /\ \A n \in D : \A x \in NamedOf(d, n) :
       EntryAt(d, n, x).i_no \in D => EntryAt(d, EntryAt(d, n, x).i_no, <<1, 2>>).i_no = n
UniqueNames(d, D) ==
  \A n \in D : \A x, y \in NamedOf(d, n) : EntryAt(d, n, x).filename = EntryAt(d, n, y).filename => x = y
Sized(d, D) == \A n \in D : Cardinality(PlacesOf(d, n)) <= d.inode[n].i_size
Needed(d, D) == \A n \in D : \A k \in UsedOf(d, n) : k # 1 => \E j \in 1..PerBlock : <<k, j>> \in PlacesOf(d, n)
Closed(d, D, X) ==
  /\ Root \in X
  /\ \A n \in X \cap D : \A x \in NamedOf(d, n) : EntryAt(d, n, x).i_no \in D => EntryAt(d, n, x).i_no \in X
Tree(d, D) == \A X : Closed(d, D, X) => D \subseteq X

Img(d, V, D) ==
  /\ Inside(d, V, D) /\ Typing(d, V, D) /\ Entered(d, V, D) /\ OneEntry(d, D) /\ Recorded(d, V)
  /\ OwnBlocks(d, V) /\ Dotted(d, D) /\ Parents(d, D) /\ UniqueNames(d, D) /\ Sized(d, D) /\ Needed(d, D)
  /\ Tree(d, D)

-----------------------------------------------------------------------------
\* What types say of it.
LEMMA SectorTypes ==
  ASSUME NEW d \in Disk, NEW n \in Inodes
  PROVE  /\ \A k \in 1..Direct : Sector(d, n, k) \in Blocks \cup {NULL}
         /\ \A k \in UsedOf(d, n) : k \in 1..Direct /\ k \in Nat /\ Sector(d, n, k) \in Blocks
         /\ UsedOf(d, n) \in SUBSET (1..Direct)
  <1>1. d.inode[n].i_sectors \in [1..Direct -> Blocks \cup {NULL}]
    BY DEF Disk, Inode
  <1> QED
    BY <1>1, DiskConstants DEF Sector, UsedOf

\* The places of an inode hold entries.
LEMMA EntryTypes ==
  ASSUME NEW d \in Disk, NEW n \in Inodes
  PROVE  /\ \A x \in UsedOf(d, n) \X (1..PerBlock) : EntryAt(d, n, x) \in Entry \cup {NULL}
         /\ \A x \in PlacesOf(d, n) : /\ x[1] \in UsedOf(d, n) /\ x[2] \in 1..PerBlock /\ x = <<x[1], x[2]>>
                                       /\ EntryAt(d, n, x) \in Entry
         /\ NamedOf(d, n) \subseteq PlacesOf(d, n)
  <1>1. \A k \in UsedOf(d, n) : d.block[Sector(d, n, k)] \in [1..PerBlock -> Entry \cup {NULL}]
    BY SectorTypes DEF Disk, Content
  <1>2. ASSUME NEW x \in UsedOf(d, n) \X (1..PerBlock)
        PROVE  EntryAt(d, n, x) \in Entry \cup {NULL} /\ x[1] \in UsedOf(d, n) /\ x[2] \in 1..PerBlock /\ x = <<x[1], x[2]>>
    <2>1. x[1] \in UsedOf(d, n) /\ x[2] \in 1..PerBlock /\ x = <<x[1], x[2]>>
      BY <1>2
    <2> QED
      BY <2>1, <1>1 DEF EntryAt
  <1> QED
    BY <1>2 DEF PlacesOf, NamedOf

\* An inode has finitely many blocks and entries.
LEMMA PlacesFinite ==
  ASSUME NEW d \in Disk, NEW n \in Inodes
  PROVE  /\ IsFiniteSet(UsedOf(d, n)) /\ Cardinality(UsedOf(d, n)) \in Nat
         /\ IsFiniteSet(PlacesOf(d, n)) /\ Cardinality(PlacesOf(d, n)) \in Nat
  <1>1. IsFiniteSet(1..Direct) /\ IsFiniteSet(1..PerBlock)
    <2>1. 1 \in Int /\ Direct \in Int /\ PerBlock \in Int
      BY DiskConstants
    <2> QED
      BY <2>1, FS_Interval
  <1>2. IsFiniteSet(UsedOf(d, n))
    BY <1>1, SectorTypes, FS_Subset
  <1>3. IsFiniteSet(UsedOf(d, n) \X (1..PerBlock))
    BY <1>1, <1>2, FS_Product
  <1>4. PlacesOf(d, n) \subseteq UsedOf(d, n) \X (1..PerBlock)
    BY DEF PlacesOf
  <1>5. IsFiniteSet(PlacesOf(d, n))
    BY <1>3, <1>4, FS_Subset
  <1> QED
    BY <1>2, <1>5, FS_CardinalityType

-----------------------------------------------------------------------------
\* An inode looks the same on two disks.
LooksSame(d, e, n) ==
  /\ UsedOf(e, n) = UsedOf(d, n)
  /\ \A k \in UsedOf(d, n) : Sector(e, n, k) = Sector(d, n, k)
  /\ \A x \in UsedOf(d, n) \X (1..PerBlock) : EntryAt(e, n, x) = EntryAt(d, n, x)
  /\ PlacesOf(e, n) = PlacesOf(d, n)
  /\ NamedOf(e, n) = NamedOf(d, n)

\* An inode whose blocks are the same and hold the same looks the same.
LEMMA LooksSameFrom ==
  ASSUME NEW d, NEW e, NEW n,
         e.inode[n].i_sectors = d.inode[n].i_sectors,
         \A k \in UsedOf(d, n) : e.block[Sector(d, n, k)] = d.block[Sector(d, n, k)]
  PROVE  LooksSame(d, e, n)
  <1>1. \A k : Sector(e, n, k) = Sector(d, n, k)
    BY DEF Sector
  <1>2. UsedOf(e, n) = UsedOf(d, n)
    BY <1>1 DEF UsedOf
  <1>3. \A x \in UsedOf(d, n) \X (1..PerBlock) : EntryAt(e, n, x) = EntryAt(d, n, x)
    <2> SUFFICES ASSUME NEW x \in UsedOf(d, n) \X (1..PerBlock)
                 PROVE  EntryAt(e, n, x) = EntryAt(d, n, x)
      OBVIOUS
    <2>1. x[1] \in UsedOf(d, n)
      OBVIOUS
    <2> QED
      BY <2>1, <1>1 DEF EntryAt
  <1>4. PlacesOf(e, n) = PlacesOf(d, n)
    BY <1>2, <1>3 DEF PlacesOf
  <1>5. \A x \in PlacesOf(d, n) : x \in UsedOf(d, n) \X (1..PerBlock)
    BY DEF PlacesOf
  <1>6. NamedOf(e, n) = NamedOf(d, n)
    BY <1>3, <1>4, <1>5 DEF NamedOf
  <1> QED
    BY <1>1, <1>2, <1>3, <1>4, <1>6 DEF LooksSame

\* What an image looks like, where its directories are at least as large as their entries.
Alike(d, e, V, D) ==
  /\ \A n \in D : LooksSame(d, e, n)
  /\ \A v \in V : e.inode[v].i_no = d.inode[v].i_no
  /\ V \subseteq e.imap
  /\ \A n \in D : Cardinality(PlacesOf(d, n)) <= e.inode[n].i_size

\* What looks the same has the same entries at the same places.
LEMMA SameEntries ==
  ASSUME NEW d, NEW e, NEW n, LooksSame(d, e, n)
  PROVE  /\ PlacesOf(e, n) = PlacesOf(d, n) /\ NamedOf(e, n) = NamedOf(d, n)
         /\ \A x \in NamedOf(d, n) : EntryAt(e, n, x) = EntryAt(d, n, x)
         /\ \A x \in PlacesOf(d, n) : EntryAt(e, n, x) = EntryAt(d, n, x)
  BY DEF LooksSame, NamedOf, PlacesOf

\* An image that looks the same afterwards is one still, if no block is taken away from it.
LEMMA AlikeImage ==
  ASSUME NEW d, NEW e, NEW V, NEW D, Img(d, V, D), Alike(d, e, V, D), OwnBlocks(e, V)
  PROVE  Img(e, V, D)
  <1>1. ASSUME NEW n \in D
        PROVE  /\ NamedOf(e, n) = NamedOf(d, n) /\ PlacesOf(e, n) = PlacesOf(d, n) /\ UsedOf(e, n) = UsedOf(d, n)
               /\ \A x \in NamedOf(d, n) : EntryAt(e, n, x) = EntryAt(d, n, x)
               /\ \A x \in PlacesOf(d, n) : EntryAt(e, n, x) = EntryAt(d, n, x)
    <2>1. LooksSame(d, e, n)
      BY DEF Alike
    <2> QED
      BY <2>1, SameEntries DEF LooksSame
  <1> USE DEF Img
  <1>3. Inside(e, V, D)
    BY DEF Inside, Alike
  <1>4. Typing(e, V, D)
    BY <1>1 DEF Typing
  <1>5. Entered(e, V, D)
    BY <1>1 DEF Entered, HasEntry
  <1>6. OneEntry(e, D)
    BY <1>1 DEF OneEntry
  <1>7. Recorded(e, V)
    BY DEF Recorded, Alike
  <1>9. Dotted(e, D)
    <2> SUFFICES ASSUME NEW n \in D PROVE DotsAt(e, n)
      BY DEF Dotted
    <2>1. DotsAt(d, n)
      BY DEF Dotted
    <2> QED
      BY <2>1, <1>1 DEF DotsAt
  <1>10. \A n \in D : EntryAt(e, n, <<1, 2>>) = EntryAt(d, n, <<1, 2>>)
    BY <1>1 DEF Dotted, DotsAt
  <1>11. Parents(e, D)
    <2>1. EntryAt(e, Root, <<1, 2>>).i_no = Root
      BY <1>10 DEF Inside, Parents
    <2>2. ASSUME NEW n \in D, NEW x \in NamedOf(e, n), EntryAt(e, n, x).i_no \in D
          PROVE  EntryAt(e, EntryAt(e, n, x).i_no, <<1, 2>>).i_no = n
      <3>1. x \in NamedOf(d, n) /\ EntryAt(e, n, x) = EntryAt(d, n, x)
        BY <1>1, <2>2
      <3>2. EntryAt(d, EntryAt(d, n, x).i_no, <<1, 2>>).i_no = n
        BY <3>1, <2>2 DEF Parents
      <3> QED
        BY <3>1, <3>2, <2>2, <1>10
    <2> QED
      BY <2>1, <2>2 DEF Parents
  <1>12. UniqueNames(e, D)
    BY <1>1 DEF UniqueNames
  <1>13. Sized(e, D)
    BY <1>1 DEF Sized, Alike
  <1>14. Needed(e, D)
    BY <1>1 DEF Needed
  <1>15. Tree(e, D)
    <2> SUFFICES ASSUME NEW X, Closed(e, D, X) PROVE D \subseteq X
      BY DEF Tree
    <2>1. Closed(d, D, X)
      BY <1>1 DEF Closed
    <2> QED
      BY <2>1 DEF Tree
  <1> QED
    BY <1>3, <1>4, <1>5, <1>6, <1>7, <1>9, <1>11, <1>12, <1>13, <1>14, <1>15

\* The blocks are the same ones, and marked.
SameSectors(d, e, v) == UsedOf(e, v) = UsedOf(d, v) /\ \A k \in UsedOf(d, v) : Sector(e, v, k) = Sector(d, v, k)

\* Inodes that keep their blocks own them still.
LEMMA SameSectorsOwn ==
  ASSUME NEW d, NEW e, NEW V, OwnBlocks(d, V), \A v \in V : SameSectors(d, e, v), SectorsOf(d, V) \subseteq e.bmap
  PROVE  OwnBlocks(e, V)
  <1>1. SectorsOf(e, V) = SectorsOf(d, V)
    BY DEF SameSectors, SectorsOf
  <1>2. ASSUME NEW v \in V, NEW w \in V, NEW k \in UsedOf(e, v), NEW l \in UsedOf(e, w),
               Sector(e, v, k) = Sector(e, w, l)
        PROVE  v = w /\ k = l
    <2>1. k \in UsedOf(d, v) /\ l \in UsedOf(d, w) /\ Sector(d, v, k) = Sector(d, w, l)
      BY <1>2 DEF SameSectors
    <2> QED
      BY <2>1 DEF OwnBlocks
  <1> QED
    BY <1>1, <1>2 DEF OwnBlocks

-----------------------------------------------------------------------------
\* Images that change: an entry goes, an entry comes.

\* Entry x of directory p, the one of n, is gone, and with it n, which had no entries itself.
Lost(d, e, V, D, p, x, n) ==
  /\ p \in D /\ x \in NamedOf(d, p) /\ EntryAt(d, p, x).i_no = n
  /\ n \in D => NamedOf(d, n) = {}
  /\ \A m \in D : m # n /\ m # p => LooksSame(d, e, m) /\ e.inode[m].i_size = d.inode[m].i_size
  /\ \A v \in V : v # n => e.inode[v].i_no = d.inode[v].i_no
  /\ \A v \in V : v # n /\ v # p => SameSectors(d, e, v)
  /\ UsedOf(e, p) \subseteq UsedOf(d, p) /\ \A k \in UsedOf(e, p) : Sector(e, p, k) = Sector(d, p, k)
  /\ PlacesOf(e, p) = PlacesOf(d, p) \ {x} /\ \A y \in PlacesOf(e, p) : EntryAt(e, p, y) = EntryAt(d, p, y)
  /\ \A k \in UsedOf(e, p) : k # 1 => \E j \in 1..PerBlock : <<k, j>> \in PlacesOf(e, p)
  /\ Cardinality(PlacesOf(e, p)) <= e.inode[p].i_size
  /\ V \ {n} \subseteq e.imap /\ SectorsOf(e, V \ {n}) \subseteq e.bmap

\* An image without one of its entries, and the inode it is for, is an image.
LEMMA LostImage ==
  ASSUME NEW d, NEW e, NEW V, NEW D, NEW p, NEW x, NEW n, Img(d, V, D), Lost(d, e, V, D, p, x, n)
  PROVE  Img(e, V \ {n}, D \ {n})
  <1> DEFINE W == V \ {n}
             C == D \ {n}
  <1>1. /\ Inside(d, V, D) /\ Typing(d, V, D) /\ Entered(d, V, D) /\ OneEntry(d, D) /\ Recorded(d, V)
        /\ OwnBlocks(d, V) /\ Dotted(d, D) /\ Parents(d, D) /\ UniqueNames(d, D) /\ Sized(d, D) /\ Needed(d, D)
        /\ Tree(d, D)
    BY DEF Img
  <1>2. p \in D /\ x \in NamedOf(d, p) /\ EntryAt(d, p, x).i_no = n /\ (n \in D => NamedOf(d, n) = {}) /\ n # p /\ n # Root
    BY <1>1 DEF Lost, OneEntry
  <1>3. NamedOf(e, p) = NamedOf(d, p) \ {x}
    BY DEF NamedOf, Lost
  <1>4. ASSUME NEW m \in C
        PROVE  /\ m \in D /\ NamedOf(e, m) \subseteq NamedOf(d, m) /\ PlacesOf(e, m) \subseteq PlacesOf(d, m)
               /\ \A y \in PlacesOf(e, m) : EntryAt(e, m, y) = EntryAt(d, m, y)
               /\ \A y \in NamedOf(e, m) : EntryAt(e, m, y) = EntryAt(d, m, y)
               /\ \A y \in NamedOf(d, m) : (m = p /\ y = x) \/ y \in NamedOf(e, m)
               /\ NamedOf(e, m) = NamedOf(d, m) \ {y \in {x} : m = p}
               /\ PlacesOf(e, m) = PlacesOf(d, m) \ {y \in {x} : m = p}
               /\ EntryAt(e, m, <<1, 2>>) = EntryAt(d, m, <<1, 2>>)
    <2>1. m \in D /\ m # n
      OBVIOUS
    <2>2. <<1, 2>> \in PlacesOf(d, m) /\ <<1, 2>> \notin NamedOf(d, m)
      BY <2>1, <1>1 DEF Dotted, DotsAt
    <2>3. CASE m = p
      <3>1. /\ PlacesOf(e, m) = PlacesOf(d, m) \ {x} /\ NamedOf(e, m) = NamedOf(d, m) \ {x}
            /\ \A y \in PlacesOf(e, m) : EntryAt(e, m, y) = EntryAt(d, m, y)
            /\ {y \in {x} : m = p} = {x}
        BY <2>3, <1>3 DEF Lost
      <3>2. NamedOf(e, m) \subseteq PlacesOf(e, m)
        BY DEF NamedOf
      <3>3. <<1, 2>> \in PlacesOf(e, m)
        BY <2>2, <2>3, <3>1, <1>2
      <3> QED
        BY <2>1, <3>1, <3>2, <3>3
    <2>4. CASE m # p
      <3>1. LooksSame(d, e, m) /\ {y \in {x} : m = p} = {}
        BY <2>1, <2>4 DEF Lost
      <3>2. /\ PlacesOf(e, m) = PlacesOf(d, m) /\ NamedOf(e, m) = NamedOf(d, m)
            /\ \A y \in NamedOf(d, m) : EntryAt(e, m, y) = EntryAt(d, m, y)
            /\ \A y \in PlacesOf(d, m) : EntryAt(e, m, y) = EntryAt(d, m, y)
        BY <3>1, SameEntries
      <3> QED
        BY <2>1, <2>2, <3>1, <3>2
    <2> QED
      BY <2>3, <2>4
  <1>5. Inside(e, W, C)
    BY <1>1, <1>2 DEF Inside, Lost
  <1>6. ASSUME NEW m \in C, NEW y \in NamedOf(e, m)
        PROVE  EntryAt(e, m, y) = EntryAt(d, m, y) /\ EntryAt(e, m, y).i_no # n /\ y \in NamedOf(d, m)
    <2>1. m \in D /\ y \in NamedOf(d, m) /\ EntryAt(e, m, y) = EntryAt(d, m, y) /\ (m = p => y # x)
      BY <1>4
    <2>2. EntryAt(d, m, y).i_no = EntryAt(d, p, x).i_no => m = p /\ y = x
      BY <2>1, <1>2, <1>1 DEF OneEntry
    <2> QED
      BY <2>1, <2>2, <1>2
  <1>7. Typing(e, W, C)
    <2> SUFFICES ASSUME NEW m \in C, NEW y \in NamedOf(e, m)
                 PROVE  /\ EntryAt(e, m, y).i_no \in W
                        /\ EntryAt(e, m, y).f_type = "directory" <=> EntryAt(e, m, y).i_no \in C
      BY DEF Typing
    <2>1. /\ EntryAt(d, m, y).i_no \in V
          /\ EntryAt(d, m, y).f_type = "directory" <=> EntryAt(d, m, y).i_no \in D
      BY <1>6, <1>1 DEF Typing
    <2> QED
      BY <2>1, <1>6
  <1>8. Entered(e, W, C)
    <2> SUFFICES ASSUME NEW v \in W, v # Root PROVE HasEntry(e, C, v)
      BY DEF Entered
    <2>1. PICK m \in D : \E y \in NamedOf(d, m) : EntryAt(d, m, y).i_no = v
      BY <1>1 DEF Entered, HasEntry
    <2>2. PICK y \in NamedOf(d, m) : EntryAt(d, m, y).i_no = v
      BY <2>1
    <2>3. m \in C
      BY <2>2, <1>2
    <2>4. y \in NamedOf(e, m)
      BY <2>2, <2>3, <1>2, <1>4
    <2>5. EntryAt(e, m, y).i_no = v
      BY <2>2, <2>3, <2>4, <1>4
    <2> QED
      BY <2>3, <2>4, <2>5 DEF HasEntry
  <1>9. OneEntry(e, C)
    <2>1. ASSUME NEW m \in C, NEW y \in NamedOf(e, m)
          PROVE  EntryAt(e, m, y).i_no # Root
      BY <1>6, <1>1 DEF OneEntry
    <2>2. ASSUME NEW m \in C, NEW k \in C, NEW y \in NamedOf(e, m), NEW z \in NamedOf(e, k),
                 EntryAt(e, m, y).i_no = EntryAt(e, k, z).i_no
          PROVE  m = k /\ y = z
      <3>1. /\ EntryAt(e, m, y) = EntryAt(d, m, y) /\ EntryAt(e, k, z) = EntryAt(d, k, z)
            /\ y \in NamedOf(d, m) /\ z \in NamedOf(d, k) /\ m \in D /\ k \in D
        BY <1>6
      <3> QED
        BY <3>1, <2>2, <1>1 DEF OneEntry
    <2> QED
      BY <2>1, <2>2 DEF OneEntry
  <1>10. Recorded(e, W)
    BY <1>1 DEF Recorded, Lost
  <1>11. OwnBlocks(e, W)
    <2>1. ASSUME NEW v \in W
          PROVE  v \in V /\ UsedOf(e, v) \subseteq UsedOf(d, v) /\ \A k \in UsedOf(e, v) : Sector(e, v, k) = Sector(d, v, k)
      BY DEF Lost, SameSectors
    <2>2. ASSUME NEW v \in W, NEW w \in W, NEW k \in UsedOf(e, v), NEW l \in UsedOf(e, w),
                 Sector(e, v, k) = Sector(e, w, l)
          PROVE  v = w /\ k = l
      <3>1. /\ v \in V /\ w \in V /\ k \in UsedOf(d, v) /\ l \in UsedOf(d, w)
            /\ Sector(d, v, k) = Sector(d, w, l)
        BY <2>1, <2>2
      <3> QED
        BY <3>1, <1>1 DEF OwnBlocks
    <2>3. SectorsOf(e, W) \subseteq e.bmap
      BY DEF Lost
    <2> QED
      BY <2>2, <2>3 DEF OwnBlocks
  <1>12. Dotted(e, C)
    <2> SUFFICES ASSUME NEW m \in C PROVE DotsAt(e, m)
      BY DEF Dotted
    <2>1. DotsAt(d, m)
      BY <1>1 DEF Dotted
    <2>2. <<1, 1>> \in PlacesOf(e, m) /\ <<1, 2>> \in PlacesOf(e, m)
      BY <2>1, <1>2, <1>4 DEF DotsAt
    <2>3. 1 \in UsedOf(e, m)
      BY <2>2 DEF PlacesOf
    <2>4. NamedOf(e, m) = PlacesOf(e, m) \ {<<1, 1>>, <<1, 2>>}
      BY <2>1, <1>4 DEF DotsAt
    <2>5. EntryAt(e, m, <<1, 1>>) = EntryAt(d, m, <<1, 1>>) /\ EntryAt(e, m, <<1, 2>>) = EntryAt(d, m, <<1, 2>>)
      BY <2>2, <1>4
    <2> QED
      BY <2>1, <2>2, <2>3, <2>4, <2>5 DEF DotsAt
  <1>13. Parents(e, C)
    <2>1. EntryAt(e, Root, <<1, 2>>).i_no = Root
      BY <1>1, <1>4, <1>5 DEF Inside, Parents
    <2>2. ASSUME NEW m \in C, NEW y \in NamedOf(e, m), EntryAt(e, m, y).i_no \in C
          PROVE  EntryAt(e, EntryAt(e, m, y).i_no, <<1, 2>>).i_no = m
      <3>1. y \in NamedOf(d, m) /\ EntryAt(e, m, y) = EntryAt(d, m, y) /\ m \in D
        BY <1>6
      <3>2. EntryAt(d, EntryAt(d, m, y).i_no, <<1, 2>>).i_no = m
        BY <3>1, <2>2, <1>1 DEF Parents
      <3> QED
        BY <3>1, <3>2, <2>2, <1>4
    <2> QED
      BY <2>1, <2>2 DEF Parents
  <1>14. UniqueNames(e, C)
    <2> SUFFICES ASSUME NEW m \in C, NEW y \in NamedOf(e, m), NEW z \in NamedOf(e, m),
                        EntryAt(e, m, y).filename = EntryAt(e, m, z).filename
                 PROVE  y = z
      BY DEF UniqueNames
    <2>1. /\ y \in NamedOf(d, m) /\ EntryAt(e, m, y) = EntryAt(d, m, y) /\ m \in D
          /\ z \in NamedOf(d, m) /\ EntryAt(e, m, z) = EntryAt(d, m, z)
      BY <1>6
    <2> QED
      BY <2>1, <1>1 DEF UniqueNames
  <1>15. Sized(e, C)
    <2> SUFFICES ASSUME NEW m \in C PROVE Cardinality(PlacesOf(e, m)) <= e.inode[m].i_size
      BY DEF Sized
    <2>1. CASE m = p
      BY <2>1 DEF Lost
    <2>2. CASE m # p
      <3>1. m \in D /\ PlacesOf(e, m) = PlacesOf(d, m) /\ e.inode[m].i_size = d.inode[m].i_size
        BY <2>2 DEF Lost, LooksSame
      <3> QED
        BY <3>1, <1>1 DEF Sized
    <2> QED
      BY <2>1, <2>2
  <1>16. Needed(e, C)
    <2> SUFFICES ASSUME NEW m \in C, NEW k \in UsedOf(e, m), k # 1
                 PROVE  \E j \in 1..PerBlock : <<k, j>> \in PlacesOf(e, m)
      BY DEF Needed
    <2>1. CASE m = p
      BY <2>1 DEF Lost
    <2>2. CASE m # p
      <3>1. m \in D /\ PlacesOf(e, m) = PlacesOf(d, m) /\ UsedOf(e, m) = UsedOf(d, m)
        BY <2>2 DEF Lost, LooksSame
      <3> QED
        BY <3>1, <1>1 DEF Needed
    <2> QED
      BY <2>1, <2>2
  <1>17. Tree(e, C)
    <2> SUFFICES ASSUME NEW X, Closed(e, C, X) PROVE C \subseteq X
      BY DEF Tree
    <2> DEFINE Z == X \cup {n}
    <2>1. ASSUME NEW m \in Z \cap D, NEW y \in NamedOf(d, m), EntryAt(d, m, y).i_no \in D
          PROVE  EntryAt(d, m, y).i_no \in Z
      <3>1. CASE EntryAt(d, m, y).i_no = n
        BY <3>1
      <3>2. CASE EntryAt(d, m, y).i_no # n
        <4>1. m # n /\ m \in X /\ m \in C
          BY <2>1, <1>2
        <4>2. y \in NamedOf(e, m)
          BY <4>1, <3>2, <1>2, <1>4
        <4>3. EntryAt(e, m, y) = EntryAt(d, m, y) /\ EntryAt(e, m, y).i_no \in C
          BY <4>1, <4>2, <3>2, <2>1, <1>6
        <4> QED
          BY <4>1, <4>2, <4>3 DEF Closed
      <3> QED
        BY <3>1, <3>2
    <2>2. Closed(d, D, Z)
      BY <2>1 DEF Closed
    <2>3. D \subseteq Z
      BY <2>2, <1>1 DEF Tree
    <2> QED
      BY <2>3
  <1> QED
    BY <1>5, <1>7, <1>8, <1>9, <1>10, <1>11, <1>12, <1>13, <1>14, <1>15, <1>16, <1>17 DEF Img

\* The dots of a directory are two.
LEMMA TwoElements ==
  ASSUME NEW a, NEW b, a # b
  PROVE  IsFiniteSet({a, b}) /\ Cardinality({a, b}) = 2
  <1>1. IsFiniteSet({a}) /\ Cardinality({a}) = 1
    BY FS_Singleton
  <1>2. b \notin {a}
    OBVIOUS
  <1>3. IsFiniteSet({a} \cup {b}) /\ Cardinality({a} \cup {b}) = Cardinality({a}) + 1
    BY <1>1, <1>2, FS_AddElement
  <1>4. {a} \cup {b} = {a, b}
    OBVIOUS
  <1> QED
    BY <1>1, <1>3, <1>4

\* An empty directory, as sys_mkdir writes it.
NewDirectory(e, n, p) ==
  /\ UsedOf(e, n) = {1} /\ PlacesOf(e, n) = {<<1, 1>>, <<1, 2>>} /\ NamedOf(e, n) = {}
  /\ EntryAt(e, n, <<1, 1>>).filename = "." /\ EntryAt(e, n, <<1, 2>>).filename = ".."
  /\ EntryAt(e, n, <<1, 1>>).i_no = n /\ EntryAt(e, n, <<1, 2>>).i_no = p
  /\ e.inode[n].i_size = 2

\* Directory p has one more entry, x, for the new n, which is a directory if N has it.
Gained(d, e, V, D, p, x, n, N) ==
  /\ p \in D /\ n \in Inodes /\ n \in Synced /\ n \notin V /\ N \subseteq {n}
  /\ x \notin PlacesOf(d, p) /\ PlacesOf(e, p) = PlacesOf(d, p) \cup {x}
  /\ \A y \in PlacesOf(d, p) : EntryAt(e, p, y) = EntryAt(d, p, y)
  /\ EntryAt(e, p, x).i_no = n /\ EntryAt(e, p, x).filename \in Names
  /\ EntryAt(e, p, x).f_type = "directory" <=> n \in N
  /\ \A y \in NamedOf(d, p) : EntryAt(d, p, y).filename # EntryAt(e, p, x).filename
  /\ UsedOf(d, p) \subseteq UsedOf(e, p)
  /\ \A k \in UsedOf(e, p) : k # 1 => \E j \in 1..PerBlock : <<k, j>> \in PlacesOf(e, p)
  /\ Cardinality(PlacesOf(e, p)) <= e.inode[p].i_size
  /\ \A m \in D : m # p => LooksSame(d, e, m) /\ e.inode[m].i_size = d.inode[m].i_size
  /\ \A v \in V : e.inode[v].i_no = d.inode[v].i_no
  /\ e.inode[n].i_no = n
  /\ V \cup {n} \subseteq e.imap
  /\ n \in N => NewDirectory(e, n, p)

\* An image with one more entry, for a new inode, is an image.
LEMMA GainedImage ==
  ASSUME NEW d, NEW e, NEW V, NEW D, NEW p, NEW x, NEW n, NEW N,
         Img(d, V, D), Gained(d, e, V, D, p, x, n, N), OwnBlocks(e, V \cup {n})
  PROVE  Img(e, V \cup {n}, D \cup N)
  <1> DEFINE W == V \cup {n}
             C == D \cup N
  <1>1. /\ Inside(d, V, D) /\ Typing(d, V, D) /\ Entered(d, V, D) /\ OneEntry(d, D) /\ Recorded(d, V)
        /\ OwnBlocks(d, V) /\ Dotted(d, D) /\ Parents(d, D) /\ UniqueNames(d, D) /\ Sized(d, D) /\ Needed(d, D)
        /\ Tree(d, D)
    BY DEF Img
  <1>2. /\ p \in D /\ n \in Inodes /\ n \notin V /\ n \notin D /\ N \subseteq {n} /\ D \subseteq V
        /\ n \in N => NewDirectory(e, n, p)
    BY <1>1 DEF Gained, Inside
  <1>3. /\ NamedOf(e, p) = NamedOf(d, p) \cup {x} /\ x \notin NamedOf(d, p)
        /\ EntryAt(e, p, x).i_no = n /\ (EntryAt(e, p, x).f_type = "directory" <=> n \in N)
        /\ \A y \in NamedOf(d, p) : EntryAt(d, p, y).filename # EntryAt(e, p, x).filename
    <2>1. \A y \in PlacesOf(d, p) : EntryAt(e, p, y) = EntryAt(d, p, y)
      BY DEF Gained
    <2>2. NamedOf(e, p) = NamedOf(d, p) \cup {x}
      BY <2>1 DEF NamedOf, Gained
    <2> QED
      BY <2>2 DEF NamedOf, Gained
  <1>4. ASSUME NEW m \in D
        PROVE  /\ m \in C /\ m # n /\ NamedOf(d, m) \subseteq NamedOf(e, m) /\ PlacesOf(d, m) \subseteq PlacesOf(e, m)
               /\ \A y \in PlacesOf(d, m) : EntryAt(e, m, y) = EntryAt(d, m, y)
               /\ \A y \in NamedOf(d, m) : EntryAt(e, m, y) = EntryAt(d, m, y)
               /\ \A y \in NamedOf(e, m) : (m = p /\ y = x) \/ y \in NamedOf(d, m)
               /\ PlacesOf(e, m) = PlacesOf(d, m) \cup {y \in {x} : m = p}
               /\ NamedOf(e, m) = NamedOf(d, m) \cup {y \in {x} : m = p}
               /\ EntryAt(e, m, <<1, 2>>) = EntryAt(d, m, <<1, 2>>)
    <2>1. m \in C /\ m # n
      BY <1>2
    <2>2. <<1, 2>> \in PlacesOf(d, m)
      BY <1>1 DEF Dotted, DotsAt
    <2>3. CASE m = p
      <3>1. /\ PlacesOf(e, m) = PlacesOf(d, m) \cup {x} /\ NamedOf(e, m) = NamedOf(d, m) \cup {x}
            /\ \A y \in PlacesOf(d, m) : EntryAt(e, m, y) = EntryAt(d, m, y)
            /\ {y \in {x} : m = p} = {x}
        BY <2>3, <1>3 DEF Gained
      <3>2. NamedOf(d, m) \subseteq PlacesOf(d, m)
        BY DEF NamedOf
      <3> QED
        BY <2>1, <2>2, <2>3, <3>1, <3>2
    <2>4. CASE m # p
      <3>1. LooksSame(d, e, m) /\ {y \in {x} : m = p} = {}
        BY <2>4 DEF Gained
      <3>2. /\ PlacesOf(e, m) = PlacesOf(d, m) /\ NamedOf(e, m) = NamedOf(d, m)
            /\ \A y \in NamedOf(d, m) : EntryAt(e, m, y) = EntryAt(d, m, y)
            /\ \A y \in PlacesOf(d, m) : EntryAt(e, m, y) = EntryAt(d, m, y)
        BY <3>1, SameEntries
      <3> QED
        BY <2>1, <2>2, <3>1, <3>2
    <2> QED
      BY <2>3, <2>4
  <1>5. Inside(e, W, C)
    BY <1>1, <1>2 DEF Inside, Gained
  <1>6. ASSUME NEW m \in C, NEW y \in NamedOf(e, m)
        PROVE  /\ m \in D
               /\ \/ m = p /\ y = x
                  \/ y \in NamedOf(d, m) /\ EntryAt(e, m, y) = EntryAt(d, m, y) /\ EntryAt(d, m, y).i_no \in V
    <2>1. m \in D
      <3>1. CASE m \in N
        BY <3>1, <1>2, <1>6 DEF NewDirectory
      <3> QED
        BY <3>1
    <2>2. \A z \in NamedOf(d, m) : EntryAt(d, m, z).i_no \in V
      BY <2>1, <1>1 DEF Typing
    <2> QED
      BY <2>1, <2>2, <1>4
  <1>7. Typing(e, W, C)
    <2> SUFFICES ASSUME NEW m \in C, NEW y \in NamedOf(e, m)
                 PROVE  /\ EntryAt(e, m, y).i_no \in W
                        /\ EntryAt(e, m, y).f_type = "directory" <=> EntryAt(e, m, y).i_no \in C
      BY DEF Typing
    <2>1. CASE m = p /\ y = x
      BY <2>1, <1>2, <1>3
    <2>2. CASE y \in NamedOf(d, m) /\ EntryAt(e, m, y) = EntryAt(d, m, y) /\ EntryAt(d, m, y).i_no \in V
      <3>1. m \in D
        BY <1>6
      <3>2. EntryAt(d, m, y).f_type = "directory" <=> EntryAt(d, m, y).i_no \in D
        BY <2>2, <3>1, <1>1 DEF Typing
      <3> QED
        BY <2>2, <3>2, <1>2
    <2> QED
      BY <2>1, <2>2, <1>6
  <1>8. Entered(e, W, C)
    <2> SUFFICES ASSUME NEW v \in W, v # Root PROVE HasEntry(e, C, v)
      BY DEF Entered
    <2>1. CASE v = n
      <3>1. p \in C /\ x \in NamedOf(e, p) /\ EntryAt(e, p, x).i_no = v
        BY <2>1, <1>2, <1>3
      <3> QED
        BY <3>1 DEF HasEntry
    <2>2. CASE v \in V
      <3>1. PICK m \in D : \E y \in NamedOf(d, m) : EntryAt(d, m, y).i_no = v
        BY <2>2, <1>1 DEF Entered, HasEntry
      <3>2. PICK y \in NamedOf(d, m) : EntryAt(d, m, y).i_no = v
        BY <3>1
      <3>3. m \in C /\ y \in NamedOf(e, m) /\ EntryAt(e, m, y).i_no = v
        BY <3>2, <1>4
      <3> QED
        BY <3>3 DEF HasEntry
    <2> QED
      BY <2>1, <2>2
  <1>9. OneEntry(e, C)
    <2>1. ASSUME NEW m \in C, NEW y \in NamedOf(e, m)
          PROVE  EntryAt(e, m, y).i_no # Root
      <3>1. CASE m = p /\ y = x
        BY <3>1, <1>1, <1>2, <1>3 DEF Inside
      <3>2. CASE y \in NamedOf(d, m) /\ EntryAt(e, m, y) = EntryAt(d, m, y) /\ EntryAt(d, m, y).i_no \in V
        BY <3>2, <1>6, <1>1 DEF OneEntry
      <3> QED
        BY <3>1, <3>2, <1>6
    <2>2. ASSUME NEW m \in C, NEW k \in C, NEW y \in NamedOf(e, m), NEW z \in NamedOf(e, k),
                 EntryAt(e, m, y).i_no = EntryAt(e, k, z).i_no
          PROVE  m = k /\ y = z
      <3>1. CASE m = p /\ y = x
        <4>1. EntryAt(e, k, z).i_no = n
          BY <3>1, <2>2, <1>3
        <4> QED
          BY <3>1, <4>1, <1>2, <1>6
      <3>2. CASE k = p /\ z = x
        <4>1. EntryAt(e, m, y).i_no = n
          BY <3>2, <2>2, <1>3
        <4> QED
          BY <3>2, <4>1, <1>2, <1>6
      <3>3. CASE ~(m = p /\ y = x) /\ ~(k = p /\ z = x)
        <4>1. /\ EntryAt(e, m, y) = EntryAt(d, m, y) /\ EntryAt(e, k, z) = EntryAt(d, k, z)
              /\ y \in NamedOf(d, m) /\ z \in NamedOf(d, k) /\ m \in D /\ k \in D
          BY <3>3, <1>6
        <4> QED
          BY <4>1, <2>2, <1>1 DEF OneEntry
      <3> QED
        BY <3>1, <3>2, <3>3
    <2> QED
      BY <2>1, <2>2 DEF OneEntry
  <1>10. Recorded(e, W)
    BY <1>1 DEF Recorded, Gained
  <1>12. Dotted(e, C)
    <2> SUFFICES ASSUME NEW m \in C PROVE DotsAt(e, m)
      BY DEF Dotted
    <2>1. CASE m \in D
      <3>1. DotsAt(d, m)
        BY <2>1, <1>1 DEF Dotted
      <3>2. <<1, 1>> \in PlacesOf(e, m) /\ <<1, 2>> \in PlacesOf(e, m)
        BY <2>1, <3>1, <1>4 DEF DotsAt
      <3>3. 1 \in UsedOf(e, m)
        BY <3>2 DEF PlacesOf
      <3>4. NamedOf(e, m) = PlacesOf(e, m) \ {<<1, 1>>, <<1, 2>>}
        <4>1. (x # <<1, 1>> /\ x # <<1, 2>>) \/ m # p
          BY <3>1 DEF DotsAt, Gained
        <4> QED
          BY <2>1, <3>1, <4>1, <1>4 DEF DotsAt
      <3>5. EntryAt(e, m, <<1, 1>>) = EntryAt(d, m, <<1, 1>>) /\ EntryAt(e, m, <<1, 2>>) = EntryAt(d, m, <<1, 2>>)
        BY <2>1, <3>1, <1>4 DEF DotsAt
      <3> QED
        BY <3>1, <3>2, <3>3, <3>4, <3>5 DEF DotsAt
    <2>2. CASE m \in N
      BY <2>2, <1>2 DEF NewDirectory, DotsAt
    <2> QED
      BY <2>1, <2>2
  <1>13. Parents(e, C)
    <2>1. EntryAt(e, Root, <<1, 2>>).i_no = Root
      BY <1>1, <1>4 DEF Inside, Parents
    <2>2. ASSUME NEW m \in C, NEW y \in NamedOf(e, m), EntryAt(e, m, y).i_no \in C
          PROVE  EntryAt(e, EntryAt(e, m, y).i_no, <<1, 2>>).i_no = m
      <3>1. CASE m = p /\ y = x
        <4>1. EntryAt(e, m, y).i_no = n /\ n \in N
          BY <3>1, <2>2, <1>2, <1>3
        <4> QED
          BY <4>1, <3>1, <1>2 DEF NewDirectory
      <3>2. CASE y \in NamedOf(d, m) /\ EntryAt(e, m, y) = EntryAt(d, m, y) /\ EntryAt(d, m, y).i_no \in V
        <4>1. m \in D /\ EntryAt(d, m, y).i_no \in D
          BY <3>2, <2>2, <1>2, <1>6
        <4>2. EntryAt(d, EntryAt(d, m, y).i_no, <<1, 2>>).i_no = m
          BY <4>1, <3>2, <1>1 DEF Parents
        <4> QED
          BY <4>1, <4>2, <3>2, <1>4
      <3> QED
        BY <3>1, <3>2, <1>6
    <2> QED
      BY <2>1, <2>2 DEF Parents
  <1>14. UniqueNames(e, C)
    <2> SUFFICES ASSUME NEW m \in C, NEW y \in NamedOf(e, m), NEW z \in NamedOf(e, m),
                        EntryAt(e, m, y).filename = EntryAt(e, m, z).filename
                 PROVE  y = z
      BY DEF UniqueNames
    <2>1. m \in D
      BY <1>6
    <2>2. \A u \in NamedOf(d, m) : EntryAt(e, m, u) = EntryAt(d, m, u)
      BY <2>1, <1>4
    <2>3. CASE y \in NamedOf(d, m) /\ z \in NamedOf(d, m)
      BY <2>1, <2>2, <2>3, <1>1 DEF UniqueNames
    <2>4. CASE y \notin NamedOf(d, m)
      <3>1. m = p /\ y = x
        BY <2>4, <1>6
      <3>2. z \notin NamedOf(d, m)
        BY <3>1, <2>2, <1>3
      <3> QED
        BY <3>1, <3>2, <1>6
    <2>5. CASE z \notin NamedOf(d, m)
      <3>1. m = p /\ z = x
        BY <2>5, <1>6
      <3>2. y \notin NamedOf(d, m)
        BY <3>1, <2>2, <1>3
      <3> QED
        BY <3>1, <3>2, <1>6
    <2> QED
      BY <2>3, <2>4, <2>5
  <1>15. Sized(e, C)
    <2> SUFFICES ASSUME NEW m \in C PROVE Cardinality(PlacesOf(e, m)) <= e.inode[m].i_size
      BY DEF Sized
    <2>1. CASE m = p
      BY <2>1 DEF Gained
    <2>2. CASE m \in D /\ m # p
      <3>1. PlacesOf(e, m) = PlacesOf(d, m) /\ e.inode[m].i_size = d.inode[m].i_size
        BY <2>2 DEF Gained, LooksSame
      <3> QED
        BY <2>2, <3>1, <1>1 DEF Sized
    <2>3. CASE m \in N
      <3>1. PlacesOf(e, m) = {<<1, 1>>, <<1, 2>>} /\ e.inode[m].i_size = 2
        BY <2>3, <1>2 DEF NewDirectory
      <3>2. <<1, 1>> # <<1, 2>>
        OBVIOUS
      <3>3. Cardinality({<<1, 1>>, <<1, 2>>}) = 2
        BY <3>2, TwoElements
      <3> QED
        BY <3>1, <3>3
    <2> QED
      BY <2>1, <2>2, <2>3
  <1>16. Needed(e, C)
    <2> SUFFICES ASSUME NEW m \in C, NEW k \in UsedOf(e, m), k # 1
                 PROVE  \E j \in 1..PerBlock : <<k, j>> \in PlacesOf(e, m)
      BY DEF Needed
    <2>1. CASE m = p
      BY <2>1 DEF Gained
    <2>2. CASE m \in D /\ m # p
      <3>1. PlacesOf(e, m) = PlacesOf(d, m) /\ UsedOf(e, m) = UsedOf(d, m)
        BY <2>2 DEF Gained, LooksSame
      <3> QED
        BY <2>2, <3>1, <1>1 DEF Needed
    <2>3. CASE m \in N
      BY <2>3, <1>2 DEF NewDirectory
    <2> QED
      BY <2>1, <2>2, <2>3
  <1>17. Tree(e, C)
    <2> SUFFICES ASSUME NEW X, Closed(e, C, X) PROVE C \subseteq X
      BY DEF Tree
    <2>1. ASSUME NEW m \in X \cap D, NEW y \in NamedOf(d, m), EntryAt(d, m, y).i_no \in D
          PROVE  EntryAt(d, m, y).i_no \in X
      <3>1. y \in NamedOf(e, m) /\ EntryAt(e, m, y) = EntryAt(d, m, y) /\ m \in C
        BY <1>4
      <3> QED
        BY <3>1, <2>1 DEF Closed
    <2>2. Closed(d, D, X)
      BY <2>1 DEF Closed
    <2>3. D \subseteq X
      BY <2>2, <1>1 DEF Tree
    <2>4. n \in N => n \in X
      <3>1. p \in X \cap C /\ x \in NamedOf(e, p) /\ EntryAt(e, p, x).i_no = n
        BY <2>3, <1>2, <1>3
      <3> QED
        BY <3>1 DEF Closed
    <2> QED
      BY <2>3, <2>4, <1>2
  <1> QED
    BY <1>5, <1>7, <1>8, <1>9, <1>10, <1>12, <1>13, <1>14, <1>15, <1>16, <1>17 DEF Img

-----------------------------------------------------------------------------
\* An image and what the model reads of it: every path, every block once.

\* What an operation reads is what is on the disk.
LEMMA OfDisk ==
  ASSUME NEW n
  PROVE  /\ Used(Ino(n)) = UsedOf(disk, n)
         /\ \A k : Ino(n).i_sectors[k] = Sector(disk, n, k)
         /\ \A k, j : Of(Ino(n), k)[j] = EntryAt(disk, n, <<k, j>>)
         /\ \A x : Of(Ino(n), x[1])[x[2]] = EntryAt(disk, n, x)
         /\ Places(Ino(n)) = PlacesOf(disk, n)
         /\ Entries(Ino(n)) = {EntryAt(disk, n, x) : x \in PlacesOf(disk, n)}
         /\ Named(Ino(n)) = {EntryAt(disk, n, x) : x \in NamedOf(disk, n)}
  <1>1. Used(Ino(n)) = UsedOf(disk, n) /\ \A k : Ino(n).i_sectors[k] = Sector(disk, n, k)
    BY DEF Used, UsedOf, Ino, Sector
  <1>2. \A k, j : Of(Ino(n), k)[j] = EntryAt(disk, n, <<k, j>>)
    BY DEF Of, Ino, EntryAt, Sector
  <1>3. \A x : Of(Ino(n), x[1])[x[2]] = EntryAt(disk, n, x)
    BY DEF Of, Ino, EntryAt, Sector
  <1>4. Places(Ino(n)) = PlacesOf(disk, n)
    BY <1>1, <1>3 DEF Places, PlacesOf
  <1>5. Entries(Ino(n)) = {EntryAt(disk, n, x) : x \in PlacesOf(disk, n)}
    BY <1>3, <1>4 DEF Entries
  <1>6. Named(Ino(n)) = {EntryAt(disk, n, x) : x \in NamedOf(disk, n)}
    <2>1. ASSUME NEW f
          PROVE  f \in Named(Ino(n)) <=> \E x \in NamedOf(disk, n) : f = EntryAt(disk, n, x)
      BY <1>5 DEF Named, NamedOf
    <2> QED
      BY <2>1
  <1> QED
    BY <1>1, <1>2, <1>3, <1>4, <1>5, <1>6

\* The directories and inodes of an image are those a path can reach.
LEMMA Reach ==
  ASSUME NEW V, NEW D, disk \in Disk, Img(disk, V, D)
  PROVE  Dirs = D /\ Reached = V
  <1>1. Inside(disk, V, D) /\ Typing(disk, V, D) /\ Entered(disk, V, D) /\ Tree(disk, D)
    BY DEF Img
  <1>2. ASSUME NEW n
        PROVE  Subdirs(n) = {EntryAt(disk, n, x).i_no : x \in {y \in NamedOf(disk, n) : EntryAt(disk, n, y).f_type = "directory"}}
    <2>1. Named(Ino(n)) = {EntryAt(disk, n, x) : x \in NamedOf(disk, n)}
      BY OfDisk
    <2>2. ASSUME NEW c
          PROVE  c \in Subdirs(n) <=>
                   \E x \in NamedOf(disk, n) : EntryAt(disk, n, x).f_type = "directory" /\ c = EntryAt(disk, n, x).i_no
      BY <2>1 DEF Subdirs
    <2> QED
      BY <2>2
  <1> DEFINE below  == UNION {{d} \X Subdirs(d) : d \in Inodes}
             closed == {S \in SUBSET Inodes : Root \in S /\ \A x \in below : x[1] \in S => x[2] \in S}
  <1>3. Dirs = {d \in Inodes : \A S \in closed : d \in S}
    BY DEF Dirs
  <1>4. ASSUME NEW S \in SUBSET Inodes
        PROVE  S \in closed <=> Root \in S /\ \A d \in S : \A c \in Subdirs(d) : c \in S
    <2>1. ASSUME NEW d \in Inodes, NEW c \in Subdirs(d)
          PROVE  <<d, c>> \in below
      BY <2>1
    <2>2. ASSUME NEW x \in below
          PROVE  x[1] \in Inodes /\ x[2] \in Subdirs(x[1])
      BY <2>2
    <2> HIDE DEF below
    <2>3. ASSUME Root \in S, \A d \in S : \A c \in Subdirs(d) : c \in S PROVE S \in closed
      BY <2>2, <2>3
    <2>4. ASSUME S \in closed, NEW d \in S, NEW c \in Subdirs(d) PROVE c \in S
      <3>1. <<d, c>> \in below
        BY <2>1
      <3> QED
        BY <3>1, <2>4
    <2> QED
      BY <2>3, <2>4
  <1> HIDE DEF closed
  <1>5. D \in closed
    <2>1. ASSUME NEW d \in D, NEW c \in Subdirs(d) PROVE c \in D
      BY <2>1, <1>1, <1>2 DEF Typing
    <2> QED
      BY <2>1, <1>1, <1>4 DEF Inside
  <1>6. ASSUME NEW S \in closed, S \in SUBSET Inodes PROVE D \subseteq S
    <2>1. ASSUME NEW n \in S \cap D, NEW x \in NamedOf(disk, n), EntryAt(disk, n, x).i_no \in D
          PROVE  EntryAt(disk, n, x).i_no \in S
      <3>1. EntryAt(disk, n, x).f_type = "directory"
        BY <2>1, <1>1 DEF Typing
      <3>2. EntryAt(disk, n, x).i_no \in Subdirs(n)
        BY <3>1, <1>2
      <3> QED
        BY <3>2, <1>4, <1>6
    <2>2. Closed(disk, D, S)
      BY <2>1, <1>4, <1>6 DEF Closed
    <2> QED
      BY <2>2, <1>1 DEF Tree
  <1>7. \A S \in closed : S \in SUBSET Inodes
    BY DEF closed
  <1>8. Dirs = D
    BY <1>3, <1>5, <1>6, <1>7, <1>1 DEF Inside
  <1>9. Reached = V
    <2>1. \A d : Named(Ino(d)) = {EntryAt(disk, d, x) : x \in NamedOf(disk, d)}
      BY OfDisk
    <2>2. ASSUME NEW v
          PROVE  v \in Reached <=> v = Root \/ HasEntry(disk, D, v)
      <3>1. ASSUME NEW g PROVE g \in UNION {Named(Ino(d)) : d \in Dirs} <=> \E d \in D : g \in Named(Ino(d))
        BY <1>8
      <3>2. v \in Reached <=> v = Root \/ \E g \in UNION {Named(Ino(d)) : d \in Dirs} : v = g.i_no
        BY DEF Reached
      <3>3. v \in Reached <=> v = Root \/ \E d \in D : \E g \in Named(Ino(d)) : v = g.i_no
        BY <3>1, <3>2
      <3> QED
        BY <3>3, <2>1 DEF HasEntry
    <2>3. \A v : HasEntry(disk, D, v) => v \in V
      BY <1>1 DEF HasEntry, Typing
    <2>4. Root \in V /\ \A v \in V : v = Root \/ HasEntry(disk, D, v)
      BY <1>1 DEF Inside, Entered
    <2> QED
      BY <2>2, <2>3, <2>4
  <1> QED
    BY <1>8, <1>9

\* The entries and blocks of an image are each of one inode.
LEMMA LinksOnce ==
  ASSUME NEW V, NEW D, disk \in Disk, Img(disk, V, D)
  PROVE  IsInjective([l \in Links |-> Target(l)])
  <1>1. Inside(disk, V, D) /\ OneEntry(disk, D) /\ Dirs = D
    BY Reach DEF Img
  <1> DEFINE at(d) == {<<d, x[1], x[2]>> : x \in Places(Ino(d))}
  <1>2. ASSUME NEW l \in Links
        PROVE  /\ l[1] \in D /\ <<l[2], l[3]>> \in NamedOf(disk, l[1])
               /\ Target(l) = EntryAt(disk, l[1], <<l[2], l[3]>>).i_no
               /\ l = <<l[1], l[2], l[3]>>
    <2>1. l \in UNION {at(d) : d \in D} /\ Of(Ino(l[1]), l[2])[l[3]].filename \in Names
      BY <1>1 DEF Links
    <2>2. PICK d \in D : l \in at(d)
      BY <2>1
    <2>3. PICK x \in Places(Ino(d)) : l = <<d, x[1], x[2]>>
      BY <2>2
    <2>4. x \in PlacesOf(disk, d) /\ d \in Inodes
      BY <2>3, <1>1, OfDisk DEF Inside
    <2>5. x = <<x[1], x[2]>>
      BY <2>4, EntryTypes
    <2>6. Of(Ino(l[1]), l[2])[l[3]] = EntryAt(disk, l[1], <<l[2], l[3]>>)
      BY DEF Of, Ino, EntryAt, Sector
    <2> QED
      BY <2>1, <2>3, <2>4, <2>5, <2>6 DEF NamedOf, Target
  <1>3. ASSUME NEW l \in Links, NEW m \in Links, Target(l) = Target(m)
        PROVE  l = m
    <2> DEFINE a == <<l[2], l[3]>>
               b == <<m[2], m[3]>>
    <2>1. l[1] = m[1] /\ a = b
      <3>1. /\ l[1] \in D /\ m[1] \in D /\ a \in NamedOf(disk, l[1]) /\ b \in NamedOf(disk, m[1])
            /\ EntryAt(disk, l[1], a).i_no = EntryAt(disk, m[1], b).i_no
        BY <1>2, <1>3
      <3> HIDE DEF a, b
      <3> QED
        BY <3>1, <1>1 DEF OneEntry
    <2>2. l[2] = m[2] /\ l[3] = m[3]
      BY <2>1
    <2> QED
      BY <2>1, <2>2, <1>2
  <1> QED
    BY <1>3 DEF IsInjective

\* The blocks of an image are marked, and each is of one inode.
LEMMA BlocksOnce ==
  ASSUME NEW V, NEW D, disk \in Disk, Img(disk, V, D)
  PROVE  LET pointers  == UNION {{<<n, k>> : k \in Used(Ino(n))} : n \in V}
             sector(x) == Ino(x[1]).i_sectors[x[2]]
         IN  /\ {sector(x) : x \in pointers} \subseteq disk.bmap
             /\ IsInjective([x \in pointers |-> sector(x)])
  <1> DEFINE pointers  == UNION {{<<n, k>> : k \in Used(Ino(n))} : n \in V}
             sector(x) == Ino(x[1]).i_sectors[x[2]]
  <1>1. OwnBlocks(disk, V)
    BY DEF Img
  <1>2. ASSUME NEW x \in pointers
        PROVE  x[1] \in V /\ x[2] \in UsedOf(disk, x[1]) /\ x = <<x[1], x[2]>> /\ sector(x) = Sector(disk, x[1], x[2])
    <2>1. PICK n \in V : x \in {<<n, k>> : k \in Used(Ino(n))}
      BY <1>2
    <2>2. PICK k \in Used(Ino(n)) : x = <<n, k>>
      BY <2>1
    <2>3. k \in UsedOf(disk, n)
      BY <2>2, OfDisk
    <2> QED
      BY <2>2, <2>3, OfDisk
  <1>3. ASSUME NEW x \in pointers, NEW y \in pointers, sector(x) = sector(y)
        PROVE  x = y
    <2>1. x[1] = y[1] /\ x[2] = y[2]
      BY <1>1, <1>2, <1>3 DEF OwnBlocks
    <2> QED
      BY <2>1, <1>2
  <1>4. ASSUME NEW x \in pointers
        PROVE  sector(x) \in disk.bmap
    <2>1. Sector(disk, x[1], x[2]) \in SectorsOf(disk, V)
      BY <1>2 DEF SectorsOf
    <2> QED
      BY <2>1, <1>1, <1>2 DEF OwnBlocks
  <1>5. IsInjective([x \in pointers |-> sector(x)])
    BY <1>3 DEF IsInjective
  <1> QED
    BY <1>4, <1>5

-----------------------------------------------------------------------------
\* sys_readdir goes over the places of a directory in their order.
Precedes(y, x) == y[1] < x[1] \/ (y[1] = x[1] /\ y[2] < x[2])
Ahead(P, x) == {y \in P : Precedes(y, x)}
Rank(P) == [x \in P |-> Cardinality(Ahead(P, x))]

\* The ranks of the places of a directory are the positions up to their number.
LEMMA RankOnto ==
  ASSUME NEW P, IsFiniteSet(P), \A x \in P : x = <<x[1], x[2]>> /\ x[1] \in Nat /\ x[2] \in Nat
  PROVE  /\ Rank(P) \in Bijection(P, 0..Cardinality(P) - 1)
         /\ Cardinality(P) \in Nat
  <1> DEFINE N == Cardinality(P)
  <1>1. N \in Nat
    BY FS_CardinalityType
  <1>2. ASSUME NEW x \in P
        PROVE  IsFiniteSet(Ahead(P, x)) /\ Cardinality(Ahead(P, x)) \in 0..N - 1
    <2>1. x \notin Ahead(P, x) /\ Ahead(P, x) \subseteq P
      BY <1>2 DEF Ahead, Precedes
    <2>2. IsFiniteSet(Ahead(P, x)) /\ Cardinality(Ahead(P, x)) \in Nat
      BY <2>1, FS_Subset, FS_CardinalityType
    <2>3. Cardinality(Ahead(P, x)) <= N /\ (N = Cardinality(Ahead(P, x)) => P = Ahead(P, x))
      BY <2>1, FS_Subset
    <2>4. Cardinality(Ahead(P, x)) # N
      BY <2>1, <2>3
    <2> HIDE DEF N
    <2> QED
      BY <2>2, <2>3, <2>4, <1>1
  <1>3. ASSUME NEW x \in P, NEW y \in P, Precedes(x, y)
        PROVE  Cardinality(Ahead(P, x)) < Cardinality(Ahead(P, y))
    <2>1. Ahead(P, x) \cup {x} \subseteq Ahead(P, y)
      BY <1>3 DEF Ahead, Precedes
    <2>2. x \notin Ahead(P, x)
      BY <1>3 DEF Ahead, Precedes
    <2>3. IsFiniteSet(Ahead(P, x)) /\ IsFiniteSet(Ahead(P, y)) /\ Cardinality(Ahead(P, x)) \in Nat /\ Cardinality(Ahead(P, y)) \in Nat
      BY <1>2
    <2>4. Cardinality(Ahead(P, x) \cup {x}) = Cardinality(Ahead(P, x)) + 1
      BY <2>2, <2>3, FS_AddElement
    <2>5. Cardinality(Ahead(P, x) \cup {x}) <= Cardinality(Ahead(P, y))
      BY <2>1, <2>3, FS_Subset
    <2> QED
      BY <2>3, <2>4, <2>5
  <1>4. ASSUME NEW x \in P, NEW y \in P, Rank(P)[x] = Rank(P)[y]
        PROVE  x = y
    <2>1. ~Precedes(x, y) /\ ~Precedes(y, x)
      <3>1. Cardinality(Ahead(P, x)) = Cardinality(Ahead(P, y)) /\ Cardinality(Ahead(P, x)) \in Nat
        BY <1>4, <1>2 DEF Rank
      <3> QED
        BY <3>1, <1>3
    <2> QED
      BY <2>1, <1>4 DEF Precedes
  <1>5. Rank(P) \in Injection(P, 0..N - 1)
    <2>1. Rank(P) \in [P -> 0..N - 1]
      BY <1>2 DEF Rank
    <2> QED
      BY <2>1, <1>4 DEF Injection, IsInjective
  <1>6. IsFiniteSet(0..N - 1) /\ Cardinality(0..N - 1) = N
    <2>1. 0 \in Int /\ N - 1 \in Int
      BY <1>1
    <2>2. IsFiniteSet(0..N - 1) /\ Cardinality(0..N - 1) = IF 0 > N - 1 THEN 0 ELSE (N - 1) - 0 + 1
      BY <2>1, FS_Interval
    <2> HIDE DEF N
    <2> QED
      BY <2>2, <1>1
  <1>7. Rank(P) \in Surjection(P, 0..N - 1)
    BY <1>5, <1>6, FS_Injection
  <1> QED
    BY <1>1, <1>5, <1>7 DEF Bijection

-----------------------------------------------------------------------------
\* sys_readdir lists every entry.

\* Least is the least one.
LEMMA LeastOf ==
  ASSUME NEW S \in SUBSET Nat, S # {}
  PROVE  Least(S) \in S /\ \A k \in S : Least(S) <= k
  BY LeastNat DEF Least

\* A directory has no more places than its blocks hold.
LEMMA FewPlaces ==
  ASSUME NEW n \in Inodes, disk \in Disk
  PROVE  /\ Direct * PerBlock \in Nat /\ Cardinality(PlacesOf(disk, n)) \in 0..Direct * PerBlock
  <1>1. 1 \in Int /\ Direct \in Int /\ PerBlock \in Int /\ Direct \in Nat /\ PerBlock \in Nat
    BY DiskConstants
  <1>2. /\ IsFiniteSet(1..Direct) /\ Cardinality(1..Direct) = Direct
        /\ IsFiniteSet(1..PerBlock) /\ Cardinality(1..PerBlock) = PerBlock
    <2>1. /\ IsFiniteSet(1..Direct) /\ Cardinality(1..Direct) = IF 1 > Direct THEN 0 ELSE Direct - 1 + 1
          /\ IsFiniteSet(1..PerBlock) /\ Cardinality(1..PerBlock) = IF 1 > PerBlock THEN 0 ELSE PerBlock - 1 + 1
      BY <1>1, FS_Interval
    <2> QED
      BY <2>1, DiskConstants
  <1>3. IsFiniteSet((1..Direct) \X (1..PerBlock)) /\ Cardinality((1..Direct) \X (1..PerBlock)) = Direct * PerBlock
    <2> DEFINE A == 1..Direct
               B == 1..PerBlock
    <2>1. IsFiniteSet(A) /\ IsFiniteSet(B) /\ Cardinality(A) = Direct /\ Cardinality(B) = PerBlock
      BY <1>2
    <2> HIDE DEF A, B
    <2>2. IsFiniteSet(A \X B) /\ Cardinality(A \X B) = Cardinality(A) * Cardinality(B)
      BY <2>1, FS_Product
    <2>3. IsFiniteSet(A \X B) /\ Cardinality(A \X B) = Direct * PerBlock
      BY <2>1, <2>2
    <2> QED
      BY <2>3 DEF A, B
  <1>4. PlacesOf(disk, n) \subseteq (1..Direct) \X (1..PerBlock)
    BY DEF PlacesOf, UsedOf
  <1>5. Cardinality(PlacesOf(disk, n)) <= Direct * PerBlock
    BY <1>3, <1>4, FS_Subset
  <1>6. Direct * PerBlock \in Nat
    BY <1>3, FS_CardinalityType
  <1>7. Cardinality(PlacesOf(disk, n)) \in Nat
    BY PlacesFinite
  <1> QED
    BY <1>5, <1>6, <1>7

\* What dir_read returns at the position of a place.
LEMMA ReadsAt ==
  ASSUME NEW dir, NEW pos, NEW x, x = CHOOSE y \in Places(dir) : Cardinality(Before(dir, y)) = pos
  PROVE  dir_read(dir, pos) = IF pos < dir.i_size /\ pos < Cardinality(Places(dir)) THEN Of(dir, x[1])[x[2]] ELSE NULL
  <1> DEFINE z == CHOOSE y \in Places(dir) : Cardinality(Before(dir, y)) = pos
  <1>1. dir_read(dir, pos) = IF pos < dir.i_size /\ pos < Cardinality(Places(dir)) THEN Of(dir, z[1])[z[2]] ELSE NULL
    BY DEF dir_read
  <1>2. x = z
    OBVIOUS
  <1> HIDE DEF z
  <1> QED
    BY <1>1, <1>2

\* Reading a directory that is at least as large as its entries returns all of them.
LEMMA ListsAll ==
  ASSUME NEW n \in Inodes, disk \in Disk, Cardinality(PlacesOf(disk, n)) <= disk.inode[n].i_size
  PROVE  Listed(Ino(n)) = Entries(Ino(n))
  <1> DEFINE P == PlacesOf(disk, n)
             N == Cardinality(P)
             size == disk.inode[n].i_size
             M == Direct * PerBlock
             at(pos) == CHOOSE y \in P : Cardinality(Ahead(P, y)) = pos
             read(pos) == dir_read(Ino(n), pos)
  <1>1. Places(Ino(n)) = P /\ Entries(Ino(n)) = {EntryAt(disk, n, x) : x \in P} /\ \A x : Of(Ino(n), x[1])[x[2]] = EntryAt(disk, n, x)
    BY OfDisk
  <1>2. \A y : Before(Ino(n), y) = Ahead(P, y)
    BY <1>1 DEF Before, Ahead, Precedes
  <1>3. N \in Nat /\ M \in Nat /\ N <= M /\ size \in Nat /\ N <= size
    <2>1. N \in 0..M /\ M \in Nat
      BY FewPlaces
    <2>2. size \in Nat
      BY DEF Disk, Inode
    <2> HIDE DEF M, N, size
    <2>3. N \in Nat /\ N <= M
      BY <2>1
    <2> QED
      BY <2>1, <2>2, <2>3 DEF N, size
  <1>4. ASSUME NEW pos
        PROVE  read(pos) = IF pos < size /\ pos < N THEN EntryAt(disk, n, at(pos)) ELSE NULL
    <2>1. (CHOOSE y \in Places(Ino(n)) : Cardinality(Before(Ino(n), y)) = pos) = at(pos)
      BY <1>1, <1>2
    <2>2. Ino(n).i_size = size /\ Cardinality(Places(Ino(n))) = N
      BY <1>1 DEF Ino
    <2> HIDE DEF at, size, N, P
    <2>3. read(pos) = IF pos < size /\ pos < N THEN Of(Ino(n), at(pos)[1])[at(pos)[2]] ELSE NULL
      BY <2>1, <2>2, ReadsAt
    <2> QED
      BY <2>3, <1>1
  <1>5. Rank(P) \in Bijection(P, 0..N - 1)
    <2>1. \A x \in P : x = <<x[1], x[2]>> /\ x[1] \in Nat /\ x[2] \in Nat
      <3>1. \A x \in P : x = <<x[1], x[2]>> /\ x[1] \in UsedOf(disk, n) /\ x[2] \in 1..PerBlock
        BY EntryTypes
      <3> QED
        BY <3>1, SectorTypes
    <2>2. IsFiniteSet(P)
      BY PlacesFinite
    <2> QED
      BY <2>1, <2>2, RankOnto
  <1>6. ASSUME NEW pos \in 0..N - 1
        PROVE  at(pos) \in P /\ read(pos) = EntryAt(disk, n, at(pos))
    <2>1. \E y \in P : Rank(P)[y] = pos
      BY <1>5 DEF Bijection, Surjection
    <2>2. \E y \in P : Cardinality(Ahead(P, y)) = pos
      BY <2>1 DEF Rank
    <2>3. at(pos) \in P
      BY <2>2
    <2>4. pos < size /\ pos < N
      <3> HIDE DEF N, size
      <3> QED
        BY <1>3
    <2> QED
      BY <2>3, <2>4, <1>4
  <1>7. ASSUME NEW y \in P
        PROVE  \E pos \in 0..N - 1 : at(pos) = y
    <2>1. Rank(P)[y] \in 0..N - 1 /\ Rank(P)[y] = Cardinality(Ahead(P, y))
      BY <1>5 DEF Bijection, Injection, Rank
    <2>2. at(Rank(P)[y]) \in P /\ Cardinality(Ahead(P, at(Rank(P)[y]))) = Rank(P)[y]
      BY <2>1
    <2>3. Rank(P)[at(Rank(P)[y])] = Rank(P)[y]
      BY <2>2 DEF Rank
    <2>4. at(Rank(P)[y]) = y
      BY <2>2, <2>3, <1>5 DEF Bijection, Injection, IsInjective
    <2> QED
      BY <2>1, <2>4
  <1>8. \A x \in P : EntryAt(disk, n, x) # NULL
    BY DEF PlacesOf
  <1> DEFINE Z == {pos \in 0..M : read(pos) = NULL}
  <1>9. N \in Z /\ \A pos \in Z : N <= pos
    <2>1. \A pos \in 0..N - 1 : read(pos) # NULL
      BY <1>6, <1>8
    <2>2. read(N) = NULL
      <3>1. ~(N < N)
        <4> HIDE DEF N
        <4> QED
          BY <1>3
      <3> QED
        BY <3>1, <1>4
    <2> HIDE DEF N, M, read
    <2> QED
      BY <2>1, <2>2, <1>3
  <1>10. Least(Z) = N
    <2>1. Z \in SUBSET Nat /\ Z # {}
      BY <1>9
    <2>2. Least(Z) \in Z /\ Least(Z) <= N
      BY <2>1, <1>9, LeastOf
    <2>3. N <= Least(Z) /\ Least(Z) \in Nat
      BY <2>1, <2>2, <1>9
    <2> HIDE DEF Z, N
    <2> QED
      BY <2>2, <2>3, <1>3
  <1>11. Listed(Ino(n)) = {read(pos) : pos \in 0..N - 1}
    BY <1>10 DEF Listed
  <1> HIDE DEF read, at, P, N
  <1>12. ASSUME NEW g
         PROVE  g \in Listed(Ino(n)) <=> g \in Entries(Ino(n))
    <2>1. g \in Listed(Ino(n)) <=> \E pos \in 0..N - 1 : g = read(pos)
      BY <1>11
    <2>2. g \in Entries(Ino(n)) <=> \E y \in P : g = EntryAt(disk, n, y)
      BY <1>1
    <2>3. ASSUME NEW pos \in 0..N - 1, g = read(pos)
          PROVE  \E y \in P : g = EntryAt(disk, n, y)
      BY <2>3, <1>6
    <2>4. ASSUME NEW y \in P, g = EntryAt(disk, n, y)
          PROVE  \E pos \in 0..N - 1 : g = read(pos)
      BY <2>4, <1>6, <1>7
    <2> QED
      BY <2>1, <2>2, <2>3, <2>4
  <1>13. Listed(Ino(n)) \subseteq Entries(Ino(n)) /\ Entries(Ino(n)) \subseteq Listed(Ino(n))
    BY <1>12
  <1> QED
    BY <1>13

-----------------------------------------------------------------------------
\* sys_getcwd and search_file: ways down the tree.

\* What holds at the start, and one further wherever it holds, holds up to the end.
LEMMA Climb ==
  ASSUME NEW n \in Nat, NEW S \in SUBSET Nat, 0 \in S, \A i \in 0..n - 1 : i \in S => i + 1 \in S
  PROVE  \A i \in 0..n : i \in S
  <1> SUFFICES ASSUME (0..n) \ S # {} PROVE FALSE
    OBVIOUS
  <1>1. (0..n) \ S \in SUBSET Nat
    OBVIOUS
  <1>2. PICK k \in (0..n) \ S : \A i \in (0..n) \ S : k <= i
    BY <1>1, LeastNat
  <1>3. k # 0 /\ k \in 0..n
    BY <1>2
  <1>4. k - 1 \in 0..n - 1 /\ k - 1 \in 0..n /\ ~(k <= k - 1) /\ (k - 1) + 1 = k
    BY <1>3
  <1>5. k - 1 \in S
    BY <1>4, <1>2
  <1>6. k \in S
    BY <1>5, <1>4
  <1> QED
    BY <1>6, <1>2

\* The directories from the root to d.
Chain(up, D, d, k, c) ==
  /\ c \in [0..k -> D] /\ c[0] = Root /\ c[k] = d
  /\ \A i \in 1..k : c[i] # Root /\ up[c[i]] = c[i - 1]

\* Two ways down to a directory are one, the shorter taken first.
LEMMA ChainsMeet ==
  ASSUME NEW D, NEW up, NEW d, NEW k \in Nat, NEW c, NEW l \in Nat, NEW b,
         Chain(up, D, d, k, c), Chain(up, D, d, l, b), k <= l
  PROVE  k = l /\ \A i \in 0..k : c[i] = b[i]
  <1> DEFINE S == {j \in 0..k : c[k - j] = b[l - j]}
  <1>1. 0 \in S /\ S \in SUBSET Nat
    BY DEF Chain
  <1>2. ASSUME NEW j \in 0..k - 1, j \in S
        PROVE  j + 1 \in S
    <2>1. k - j \in 1..k /\ l - j \in 1..l /\ k - (j + 1) = (k - j) - 1 /\ l - (j + 1) = (l - j) - 1 /\ j + 1 \in 0..k
      OBVIOUS
    <2>2. c[k - j] = b[l - j]
      BY <1>2
    <2>3. up[c[k - j]] = c[(k - j) - 1] /\ up[b[l - j]] = b[(l - j) - 1]
      BY <2>1 DEF Chain
    <2>4. c[k - (j + 1)] = b[l - (j + 1)]
      BY <2>1, <2>2, <2>3
    <2> QED
      BY <2>1, <2>4
  <1> HIDE DEF S
  <1>3. \A j \in 0..k : j \in S
    BY <1>1, <1>2, Climb
  <1>4. \A j \in 0..k : c[k - j] = b[l - j]
    BY <1>3 DEF S
  <1>5. k = l
    <2> SUFFICES ASSUME k # l PROVE FALSE
      OBVIOUS
    <2>1. l - k \in 1..l /\ k \in 0..k /\ k - k = 0
      OBVIOUS
    <2>2. b[l - k] = Root
      BY <1>4, <2>1 DEF Chain
    <2> QED
      BY <2>1, <2>2 DEF Chain
  <1>6. ASSUME NEW i \in 0..k PROVE c[i] = b[i]
    <2>1. k - i \in 0..k /\ k - (k - i) = i /\ l - (k - i) = i
      BY <1>5
    <2> QED
      BY <2>1, <1>4
  <1> QED
    BY <1>5, <1>6

\* There is one way down to a directory.
LEMMA OneChain ==
  ASSUME NEW D, NEW up, NEW d, NEW k \in Nat, NEW c, NEW l \in Nat, NEW b,
         Chain(up, D, d, k, c), Chain(up, D, d, l, b)
  PROVE  k = l /\ c = b
  <1>1. k = l /\ \A i \in 0..k : c[i] = b[i]
    <2>1. CASE k <= l
      BY <2>1, ChainsMeet
    <2>2. CASE l <= k
      <3>1. l = k /\ \A i \in 0..l : b[i] = c[i]
        BY <2>2, ChainsMeet
      <3> QED
        BY <3>1
    <2> QED
      BY <2>1, <2>2
  <1>2. c \in [0..k -> D] /\ b \in [0..k -> D]
    BY <1>1 DEF Chain
  <1> QED
    BY <1>1, <1>2

\* f is the path of every directory.
Climbing(f, D, up, nm) ==
  f[Root] = <<>> /\ \A d \in D \ {Root} : f[d] = Append(f[up[d]], nm[d])

Steps(nm, k, c) == [i \in 1..k |-> nm[c[i]]]

Shorter(k, c) == [i \in 0..k - 1 |-> c[i]]

\* The way to the directory above is the way to the directory, less its end.
LEMMA ChainShorter ==
  ASSUME NEW D, NEW up, NEW d, NEW k \in Nat, NEW c, Chain(up, D, d, k, c), k # 0
  PROVE  Chain(up, D, up[d], k - 1, Shorter(k, c)) /\ d # Root
  <1> DEFINE b == Shorter(k, c)
  <1>1. k - 1 \in Nat /\ 0 \in 0..k - 1 /\ k - 1 \in 0..k - 1 /\ k \in 1..k /\ \A i \in 0..k - 1 : i \in 0..k
    OBVIOUS
  <1>2. b[0] = Root /\ b \in [0..k - 1 -> D] /\ b[k - 1] = up[d] /\ d # Root
    BY <1>1 DEF Chain, Shorter
  <1>3. ASSUME NEW i \in 1..k - 1
        PROVE  b[i] # Root /\ up[b[i]] = b[i - 1]
    <2>1. i \in 1..k /\ i - 1 \in 0..k - 1 /\ i \in 0..k - 1
      OBVIOUS
    <2> QED
      BY <2>1 DEF Chain, Shorter
  <1> HIDE DEF b
  <1>4. Chain(up, D, up[d], k - 1, b)
    BY <1>2, <1>3 DEF Chain
  <1> QED
    BY <1>2, <1>4 DEF b

GrownBy(t, s, x) == t = Append(s, x)
Named1(nm, D, N, k, c) == nm \in [D -> N] /\ c \in [0..k -> D]
\* The names on the way to a directory are those on the way to the one above it, and its own.
LEMMA StepsGrow ==
  ASSUME NEW N, NEW D, NEW nm, NEW k \in Nat, NEW c, Named1(nm, D, N, k, c), k # 0
  PROVE  GrownBy(Steps(nm, k, c), Steps(nm, k - 1, Shorter(k, c)), nm[c[k]])
  <1> DEFINE s == Steps(nm, k - 1, Shorter(k, c))
             t == Steps(nm, k, c)
  <1>0. nm \in [D -> N] /\ c \in [0..k -> D]
    BY DEF Named1
  <1>1. k - 1 \in Nat /\ \A i \in 1..k - 1 : i \in 0..k - 1 /\ i \in 0..k
    OBVIOUS
  <1>2. s \in [1..k - 1 -> N] /\ \A i \in 1..k - 1 : s[i] = nm[c[i]]
    BY <1>0, <1>1 DEF Steps, Shorter
  <1>3. t \in [1..k -> N] /\ \A i \in 1..k : t[i] = nm[c[i]]
    BY <1>0 DEF Steps
  <1>4. nm[c[k]] \in N
    BY <1>0
  <1> HIDE DEF s, t
  <1>5. s \in Seq(N) /\ Len(s) = k - 1
    BY <1>1, <1>2
  <1>6. /\ Append(s, nm[c[k]]) \in [1..k -> N]
        /\ \A i \in 1..k : Append(s, nm[c[k]])[i] = nm[c[i]]
    <2> DEFINE x == nm[c[k]]
    <2>1. s \in Seq(N) /\ Len(s) = k - 1 /\ x \in N /\ x = nm[c[k]]
      BY <1>4, <1>5
    <2> HIDE DEF x
    <2>2. /\ Append(s, x) \in Seq(N) /\ Len(Append(s, x)) = Len(s) + 1
          /\ \A i \in 1..Len(s) : Append(s, x)[i] = s[i]
          /\ Append(s, x)[Len(s) + 1] = x
      BY <2>1, AppendProperties
    <2>3. Len(s) + 1 = k /\ DOMAIN Append(s, x) = 1..k
      BY <2>1, <2>2
    <2>4. \A i \in 1..k : i \in 1..k - 1 \/ i = k
      OBVIOUS
    <2>5. \A i \in 1..k : Append(s, x)[i] = nm[c[i]]
      BY <2>1, <2>2, <2>3, <2>4, <1>2
    <2>6. Append(s, x) \in [1..k -> N]
      <3> DEFINE a == Append(s, x)
      <3>1. a \in Seq(N) /\ Len(a) = k
        BY <2>2, <2>3
      <3> HIDE DEF a
      <3>2. a \in [1..k -> N]
        BY <3>1
      <3> QED
        BY <3>2 DEF a
    <2> QED
      BY <2>1, <2>5, <2>6
  <1>7. t = Append(s, nm[c[k]])
    BY <1>3, <1>6
  <1> QED
    BY <1>7 DEF s, t, GrownBy

\* Where there is a way down to every directory, the recursive path is defined.
LEMMA PathsExist ==
  ASSUME NEW N, NEW D, NEW up \in [D -> D], NEW nm \in [D -> N], Root \in D,
         \A d \in D : \E k \in Nat : \E c : Chain(up, D, d, k, c)
  PROVE  \E f \in [D -> Seq(N)] : Climbing(f, D, up, nm)
  <1> DEFINE K(d) == CHOOSE k \in Nat : \E c : Chain(up, D, d, k, c)
             C(d) == CHOOSE c : Chain(up, D, d, K(d), c)
             f    == [d \in D |-> Steps(nm, K(d), C(d))]
  <1>1. ASSUME NEW d \in D
        PROVE  K(d) \in Nat /\ Chain(up, D, d, K(d), C(d))
    <2>1. K(d) \in Nat /\ \E c : Chain(up, D, d, K(d), c)
      BY <1>1
    <2> HIDE DEF K
    <2> QED
      BY <2>1
  <1>2. \A d \in D : f[d] = Steps(nm, K(d), C(d))
    OBVIOUS
  <1> HIDE DEF K, C
  <1>3. ASSUME NEW d \in D
        PROVE  C(d) \in [0..K(d) -> D] /\ f[d] \in Seq(N)
    <2>1. C(d) \in [0..K(d) -> D] /\ K(d) \in Nat
      BY <1>1 DEF Chain
    <2> DEFINE k == K(d)
               c == C(d)
    <2>2. f[d] = Steps(nm, k, c)
      BY <1>2
    <2> HIDE DEF k, c
    <2>3. c \in [0..k -> D] /\ k \in Nat
      BY <2>1 DEF c, k
    <2>4. [i \in 1..k |-> nm[c[i]]] \in [1..k -> N]
      BY <2>3
    <2>5. [i \in 1..k |-> nm[c[i]]] \in Seq(N)
      BY <2>3, <2>4
    <2> QED
      BY <2>1, <2>2, <2>5 DEF Steps
  <1>4. f[Root] = <<>>
    <2> DEFINE a == [i \in 0..0 |-> Root]
    <2>1. Chain(up, D, Root, 0, a)
      BY DEF Chain
    <2>2. K(Root) = 0
      BY <2>1, <1>1, OneChain
    <2>3. f[Root] = Steps(nm, 0, C(Root))
      BY <1>2, <2>2
    <2> QED
      BY <2>3 DEF Steps
  <1>5. ASSUME NEW d \in D \ {Root}
        PROVE  f[d] = Append(f[up[d]], nm[d])
    <2> DEFINE k == K(d)
               c == C(d)
               b == Shorter(k, c)
               u == up[d]
    <2>1. k \in Nat /\ Chain(up, D, d, k, c) /\ u \in D
      BY <1>1
    <2>2. k # 0
      BY <2>1 DEF Chain
    <2>3. k - 1 \in Nat
      BY <2>1, <2>2
    <2>4. Chain(up, D, u, k - 1, b)
      BY <2>1, <2>2, ChainShorter
    <2>5. K(u) = k - 1 /\ C(u) = b
      <3>1. K(u) \in Nat /\ Chain(up, D, u, K(u), C(u))
        BY <2>1, <1>1
      <3> HIDE DEF k, c, b, u
      <3> QED
        BY <2>3, <2>4, <3>1, OneChain
    <2>6. f[u] = Steps(nm, k - 1, b) /\ f[d] = Steps(nm, k, c) /\ c \in [0..k -> D] /\ c[k] = d
      <3>1. f[u] = Steps(nm, K(u), C(u))
        BY <2>1, <1>2
      <3>2. f[d] = Steps(nm, k, c)
        BY <1>2
      <3>3. f[u] = Steps(nm, k - 1, b)
        BY <3>1, <2>5
      <3> QED
        BY <3>2, <3>3, <2>1 DEF Chain
    <2> HIDE DEF k, c, u, f
    <2>7. GrownBy(Steps(nm, k, c), Steps(nm, k - 1, Shorter(k, c)), nm[c[k]])
      <3>1. Named1(nm, D, N, k, c)
        BY <2>6 DEF Named1
      <3> QED
        BY <2>1, <2>2, <3>1, StepsGrow
    <2>8. f[d] = Append(f[u], nm[d])
      BY <2>6, <2>7 DEF b, GrownBy
    <2> QED
      BY <2>8 DEF u
  <1>6. f \in [D -> Seq(N)]
    BY <1>3
  <1> HIDE DEF f
  <1> QED
    BY <1>4, <1>5, <1>6 DEF Climbing

Naming(nm, D, N) == nm \in [D -> N]

\* The recursive path of a directory consists of the names on the way to it.
LEMMA PathIs ==
  ASSUME NEW N, NEW D, NEW up, NEW nm, Naming(nm, D, N), NEW f, Climbing(f, D, up, nm),
         NEW d, NEW k \in Nat, NEW c, Chain(up, D, d, k, c)
  PROVE  f[d] = Steps(nm, k, c)
  <1> DEFINE b(j) == [i \in 0..j |-> c[i]]
             S == {j \in 0..k : f[c[j]] = Steps(nm, j, b(j))}
  <1>0. nm \in [D -> N]
    BY DEF Naming
  <1>1. c \in [0..k -> D] /\ c[0] = Root /\ c[k] = d /\ \A i \in 1..k : c[i] # Root /\ up[c[i]] = c[i - 1]
    BY DEF Chain
  <1>2. 0 \in S /\ S \in SUBSET Nat
    <2>1. Steps(nm, 0, b(0)) = <<>>
      BY DEF Steps
    <2> QED
      BY <2>1, <1>1 DEF Climbing
  <1>3. ASSUME NEW j \in 0..k - 1, j \in S
        PROVE  j + 1 \in S
    <2>1. j \in Nat /\ j + 1 \in 1..k /\ j + 1 \in 0..k /\ j + 1 # 0 /\ (j + 1) - 1 = j /\ j + 1 \in 0..j + 1 /\ \A i \in 0..j : i \in 0..j + 1
      OBVIOUS
    <2>2. b(j + 1) \in [0..j + 1 -> D] /\ b(j + 1)[j + 1] = c[j + 1]
      BY <2>1, <1>1
    <2>3. Shorter(j + 1, b(j + 1)) = b(j)
      BY <2>1 DEF Shorter
    <2>4. f[c[j]] = Steps(nm, j, b(j))
      BY <1>3
    <2>5. c[j + 1] \in D \ {Root} /\ up[c[j + 1]] = c[j]
      BY <2>1, <1>1
    <2> HIDE DEF b
    <2>6. GrownBy(Steps(nm, j + 1, b(j + 1)), Steps(nm, (j + 1) - 1, Shorter(j + 1, b(j + 1))), nm[b(j + 1)[j + 1]])
      <3>1. Named1(nm, D, N, j + 1, b(j + 1)) /\ j + 1 \in Nat
        BY <2>1, <2>2, <1>0 DEF Named1
      <3> QED
        BY <2>1, <3>1, StepsGrow
    <2>7. Steps(nm, j + 1, b(j + 1)) = Append(Steps(nm, j, b(j)), nm[c[j + 1]])
      BY <2>6, <2>1, <2>2, <2>3 DEF GrownBy
    <2>8. f[c[j + 1]] = Append(f[c[j]], nm[c[j + 1]])
      BY <2>5 DEF Climbing
    <2> QED
      BY <2>1, <2>4, <2>7, <2>8
  <1> HIDE DEF S
  <1>4. \A j \in 0..k : j \in S
    BY <1>2, <1>3, Climb
  <1>5. k \in S
    BY <1>4
  <1>6. b(k) = c
    BY <1>1
  <1> QED
    BY <1>1, <1>5, <1>6 DEF S

\* The second entry of a directory other than the root is the directory above it, which has
\* one entry for it and is not below it.
Homed(D, d, n, x) ==
  /\ n = EntryAt(disk, d, <<1, 2>>).i_no /\ n \in D /\ x \in NamedOf(disk, n) /\ EntryAt(disk, n, x).i_no = d
  /\ n # d /\ EntryAt(disk, n, <<1, 2>>).i_no # d

\* Every directory but the root has one above it.
LEMMA Above ==
  ASSUME NEW V, NEW D, Img(disk, V, D), NEW d \in D, d # Root
  PROVE  \E n, x : Homed(D, d, n, x)
  <1>1. Inside(disk, V, D) /\ Entered(disk, V, D) /\ Parents(disk, D) /\ OneEntry(disk, D) /\ Tree(disk, D)
    BY DEF Img
  <1>2. PICK n \in D : \E x \in NamedOf(disk, n) : EntryAt(disk, n, x).i_no = d
    BY <1>1 DEF Inside, Entered, HasEntry
  <1>3. PICK x \in NamedOf(disk, n) : EntryAt(disk, n, x).i_no = d
    BY <1>2
  <1>4. n = EntryAt(disk, d, <<1, 2>>).i_no
    BY <1>3, <1>1 DEF Parents
  <1>5. ASSUME NEW m \in D, NEW y \in NamedOf(disk, m), EntryAt(disk, m, y).i_no = d
        PROVE  m = n
    BY <1>3, <1>5, <1>1 DEF OneEntry
  <1>6. n # d
    <2> SUFFICES ASSUME n = d PROVE FALSE
      OBVIOUS
    <2> DEFINE X == D \ {d}
    <2>1. Closed(disk, D, X)
      BY <1>1, <1>5 DEF Closed, Inside
    <2> QED
      BY <2>1, <1>1 DEF Tree
  <1>7. EntryAt(disk, n, <<1, 2>>).i_no # d
    <2> SUFFICES ASSUME EntryAt(disk, n, <<1, 2>>).i_no = d PROVE FALSE
      OBVIOUS
    <2>1. n # Root
      BY <1>1 DEF Parents
    <2> DEFINE X == D \ {d, n}
    <2>2. ASSUME NEW m \in X, NEW y \in NamedOf(disk, m), EntryAt(disk, m, y).i_no \in D
          PROVE  EntryAt(disk, m, y).i_no \in X
      <3>1. EntryAt(disk, m, y).i_no # d
        BY <2>2, <1>5
      <3>2. EntryAt(disk, m, y).i_no # n
        <4> SUFFICES ASSUME EntryAt(disk, m, y).i_no = n PROVE FALSE
          OBVIOUS
        <4>1. EntryAt(disk, n, <<1, 2>>).i_no = m
          BY <1>1, <2>2 DEF Parents
        <4> QED
          BY <4>1
      <3> QED
        BY <3>1, <3>2, <2>2
    <2>3. Closed(disk, D, X)
      BY <2>1, <2>2, <1>1 DEF Closed, Inside
    <2> QED
      BY <2>3, <1>1 DEF Tree
  <1> QED
    BY <1>3, <1>4, <1>6, <1>7 DEF Homed

Step(d, name) == (CHOOSE e \in Named(Ino(d)) : e.filename = name).i_no

\* search_file takes the name sys_getcwd finds back to the same directory.
LEMMA NamesBack ==
  ASSUME NEW V, NEW D, Img(disk, V, D), NEW d, NEW n, NEW x, Homed(D, d, n, x)
  PROVE  Step(n, get_child_dir_name(n, d)) = d
  <1>1. OneEntry(disk, D) /\ UniqueNames(disk, D) /\ DotsAt(disk, n) /\ Parents(disk, D)
    BY DEF Img, Homed, Dotted
  <1>2. n \in D /\ x \in NamedOf(disk, n) /\ EntryAt(disk, n, x).i_no = d /\ n # d /\ EntryAt(disk, n, <<1, 2>>).i_no # d
    BY DEF Homed
  <1>3. /\ Entries(Ino(n)) = {EntryAt(disk, n, y) : y \in PlacesOf(disk, n)}
        /\ Named(Ino(n)) = {EntryAt(disk, n, y) : y \in NamedOf(disk, n)}
    BY OfDisk
  <1> DEFINE g == EntryAt(disk, n, x)
             child == CHOOSE e \in Entries(Ino(n)) : e.i_no = d
             found == CHOOSE e \in Named(Ino(n)) : e.filename = g.filename
  <1>4. g \in Entries(Ino(n)) /\ g \in Named(Ino(n))
    BY <1>2, <1>3 DEF NamedOf
  <1>5. ASSUME NEW y \in PlacesOf(disk, n), EntryAt(disk, n, y).i_no = d
        PROVE  EntryAt(disk, n, y) = g
    <2>1. y # <<1, 1>> /\ y # <<1, 2>>
      BY <1>5, <1>1, <1>2 DEF DotsAt
    <2>2. y \in NamedOf(disk, n)
      BY <2>1, <1>1 DEF DotsAt
    <2>3. y = x
      BY <2>2, <1>5, <1>1, <1>2 DEF OneEntry
    <2> QED
      BY <2>3
  <1>6. child = g
    <2>1. child \in Entries(Ino(n)) /\ child.i_no = d
      BY <1>2, <1>4
    <2> HIDE DEF child, g
    <2> QED
      BY <2>1, <1>3, <1>5
  <1>7. found = g
    <2>1. found \in Named(Ino(n)) /\ found.filename = g.filename
      BY <1>4
    <2> HIDE DEF found
    <2>2. PICK y \in NamedOf(disk, n) : found = EntryAt(disk, n, y)
      BY <2>1, <1>3
    <2>3. y = x
      BY <2>1, <2>2, <1>1, <1>2 DEF UniqueNames
    <2> QED
      BY <2>2, <2>3
  <1>8. get_child_dir_name(n, d) = g.filename
    <2>1. get_child_dir_name(n, d) = child.filename
      BY DEF get_child_dir_name
    <2> HIDE DEF child, g
    <2> QED
      BY <2>1, <1>6
  <1>9. Step(n, g.filename) = found.i_no
    BY DEF Step
  <1> QED
    BY <1>2, <1>7, <1>8, <1>9

Follows(D, c, k, path) ==
  Len(path) = k /\ c \in [0..k -> D] /\ c[0] = Root /\ \A i \in 1..k : c[i] = Step(c[i - 1], path[i])

\* search_file goes down a path directory by directory.
LEMMA SearchFollows ==
  ASSUME NEW path, NEW k \in Nat, NEW c, NEW D, Follows(D, c, k, path)
  PROVE  search_file(path) = c[k]
  <1> DEFINE at == CHOOSE f : f = [i \in 0..Len(path) |->
                                     IF i = 0 THEN Root ELSE (CHOOSE e \in Named(Ino(f[i - 1])) : e.filename = path[i]).i_no]
  <1>0. Len(path) = k /\ c \in [0..k -> D] /\ c[0] = Root /\ \A i \in 1..k : c[i] = Step(c[i - 1], path[i])
    BY DEF Follows
  <1>1. search_file(path) = at[Len(path)]
    BY DEF search_file
  <1>2. \A i \in 0..k : i = 0 \/ i \in 1..k
    OBVIOUS
  <1>3. c = [i \in 0..Len(path) |-> IF i = 0 THEN Root ELSE (CHOOSE e \in Named(Ino(c[i - 1])) : e.filename = path[i]).i_no]
    <2> DEFINE g(i) == IF i = 0 THEN Root ELSE (CHOOSE e \in Named(Ino(c[i - 1])) : e.filename = path[i]).i_no
    <2>1. \A i \in 0..k : c[i] = g(i)
      BY <1>0, <1>2 DEF Step
    <2> HIDE DEF g
    <2>2. c = [i \in 0..k |-> g(i)]
      BY <1>0, <2>1
    <2>3. c = [i \in 0..Len(path) |-> g(i)]
      BY <1>0, <2>2
    <2> QED
      BY <2>3 DEF g
  <1>4. at = [i \in 0..Len(path) |-> IF i = 0 THEN Root ELSE (CHOOSE e \in Named(Ino(at[i - 1])) : e.filename = path[i]).i_no]
    <2> DEFINE P(f) == f = [i \in 0..Len(path) |->
                              IF i = 0 THEN Root ELSE (CHOOSE e \in Named(Ino(f[i - 1])) : e.filename = path[i]).i_no]
    <2>1. P(c)
      BY <1>3
    <2>2. at = CHOOSE f : P(f)
      OBVIOUS
    <2> HIDE DEF P, at
    <2>3. P(CHOOSE f : P(f))
      BY <2>1
    <2>4. P(at)
      BY <2>2, <2>3
    <2> QED
      BY <2>4 DEF P
  <1> HIDE DEF at
  <1>5. at[0] = Root /\ \A i \in 1..k : at[i] = Step(at[i - 1], path[i])
    <2>1. at[0] = Root
      BY <1>0, <1>4
    <2>2. ASSUME NEW i \in 1..k
          PROVE  at[i] = Step(at[i - 1], path[i])
      <3> DEFINE a == at[i - 1]
                 z == (CHOOSE e \in Named(Ino(a)) : e.filename = path[i]).i_no
      <3>1. i \in 0..Len(path) /\ i # 0
        BY <1>0
      <3>2. at[i] = z
        BY <3>1, <1>0, <1>4
      <3>3. Step(a, path[i]) = z
        BY DEF Step
      <3> HIDE DEF z
      <3> QED
        BY <3>2, <3>3
    <2> QED
      BY <2>1, <2>2
  <1> DEFINE S == {i \in 0..k : at[i] = c[i]}
  <1>6. 0 \in S /\ S \in SUBSET Nat
    BY <1>0, <1>5
  <1>7. ASSUME NEW i \in 0..k - 1, i \in S PROVE i + 1 \in S
    <2>1. i + 1 \in 1..k /\ (i + 1) - 1 = i /\ i + 1 \in 0..k
      OBVIOUS
    <2>2. at[i] = c[i]
      BY <1>7
    <2>3. at[i + 1] = Step(at[i], path[i + 1]) /\ c[i + 1] = Step(c[i], path[i + 1])
      BY <2>1, <1>0, <1>5
    <2> QED
      BY <2>1, <2>2, <2>3
  <1> HIDE DEF S
  <1>8. k \in S
    <2>1. \A i \in 0..k : i \in S
      BY <1>6, <1>7, Climb
    <2> QED
      BY <2>1
  <1> QED
    BY <1>0, <1>1, <1>8 DEF S

\* There is a way down to every directory of an image.
LEMMA ChainsReach ==
  ASSUME NEW V, NEW D, Img(disk, V, D), NEW up, \A d \in D : up[d] = EntryAt(disk, d, <<1, 2>>).i_no
  PROVE  \A d \in D : \E k \in Nat : \E c : Chain(up, D, d, k, c)
  <1>1. Inside(disk, V, D) /\ Tree(disk, D) /\ Parents(disk, D) /\ OneEntry(disk, D)
    BY DEF Img
  <1> DEFINE X == {d \in D : \E k \in Nat : \E c : Chain(up, D, d, k, c)}
  <1>2. Root \in X
    <2> DEFINE a == [i \in 0..0 |-> Root]
    <2>1. Chain(up, D, Root, 0, a)
      BY <1>1 DEF Chain, Inside
    <2> QED
      BY <2>1, <1>1 DEF Inside
  <1>3. ASSUME NEW n \in X, NEW x \in NamedOf(disk, n), EntryAt(disk, n, x).i_no \in D
        PROVE  EntryAt(disk, n, x).i_no \in X
    <2> DEFINE d == EntryAt(disk, n, x).i_no
    <2>1. PICK k \in Nat : \E c : Chain(up, D, n, k, c)
      BY <1>3
    <2>2. PICK c : Chain(up, D, n, k, c)
      BY <2>1
    <2>3. d \in D /\ d # Root /\ up[d] = n
      BY <1>1, <1>3 DEF OneEntry, Parents
    <2> HIDE DEF d
    <2> DEFINE b == [i \in 0..k + 1 |-> IF i = k + 1 THEN d ELSE c[i]]
    <2>4. c \in [0..k -> D] /\ c[0] = Root /\ c[k] = n /\ \A i \in 1..k : c[i] # Root /\ up[c[i]] = c[i - 1]
      BY <2>2 DEF Chain
    <2>5. \A i \in 0..k + 1 : i = k + 1 \/ i \in 0..k
      OBVIOUS
    <2>6. b \in [0..k + 1 -> D] /\ b[0] = Root /\ b[k + 1] = d /\ \A i \in 0..k : b[i] = c[i]
      BY <2>3, <2>4, <2>5
    <2> HIDE DEF b
    <2>7. ASSUME NEW i \in 1..k + 1
          PROVE  b[i] # Root /\ up[b[i]] = b[i - 1]
      <3>1. i - 1 \in 0..k /\ (i = k + 1 => i - 1 = k) /\ (i # k + 1 => i \in 1..k /\ i \in 0..k)
        OBVIOUS
      <3>2. CASE i = k + 1
        BY <3>1, <3>2, <2>3, <2>4, <2>6
      <3>3. CASE i # k + 1
        BY <3>1, <3>3, <2>4, <2>6
      <3> QED
        BY <3>2, <3>3
    <2>8. Chain(up, D, d, k + 1, b) /\ k + 1 \in Nat
      BY <2>6, <2>7 DEF Chain
    <2>9. d \in X
      BY <2>3, <2>8
    <2> QED
      BY <2>9 DEF d
  <1>4. Closed(disk, D, X)
    BY <1>2, <1>3 DEF Closed
  <1>5. D \subseteq X
    BY <1>4, <1>1 DEF Tree
  <1> QED
    BY <1>5

\* sys_getcwd finds a path that search_file follows back.
LEMMA PathsLeadHome ==
  ASSUME NEW V, NEW D, disk \in Disk, Img(disk, V, D)
  PROVE  \A d \in D : search_file(Getcwd[d]) = d
  <1> DEFINE up == [d \in D |-> IF d = Root THEN Root ELSE EntryAt(disk, d, <<1, 2>>).i_no]
             nm == [d \in D |-> get_child_dir_name(up[d], d)]
             N  == {nm[d] : d \in D}
             path == CHOOSE f : f = [d \in Dirs |->
                        IF d = Root THEN <<>>
                        ELSE LET parent == get_parent_dir_inode_nr(d)
                             IN Append(f[parent], get_child_dir_name(parent, d))]
  <1>1. Dirs = D /\ Root \in D /\ EntryAt(disk, Root, <<1, 2>>).i_no = Root
    BY Reach DEF Img, Inside, Parents
  <1>2. \A d : get_parent_dir_inode_nr(d) = EntryAt(disk, d, <<1, 2>>).i_no
    <2>1. \A d : Of(Ino(d), 1)[2] = EntryAt(disk, d, <<1, 2>>)
      BY OfDisk
    <2> QED
      BY <2>1 DEF get_parent_dir_inode_nr
  <1>3. \A d \in D : up[d] = EntryAt(disk, d, <<1, 2>>).i_no
    BY <1>1
  <1>4. ASSUME NEW d \in D, d # Root
        PROVE  up[d] \in D /\ up[d] = get_parent_dir_inode_nr(d) /\ nm[d] = get_child_dir_name(up[d], d) /\ Step(up[d], nm[d]) = d
    <2>1. PICK n, x : Homed(D, d, n, x)
      BY <1>4, Above
    <2>2. n = up[d] /\ n \in D
      BY <2>1, <1>3 DEF Homed
    <2>3. Step(n, get_child_dir_name(n, d)) = d
      BY <2>1, NamesBack
    <2> QED
      BY <2>2, <2>3, <1>2, <1>3
  <1>5. up \in [D -> D] /\ nm \in [D -> N]
    BY <1>1, <1>4
  <1> HIDE DEF up, nm, N
  <1>6. \A d \in D : \E k \in Nat : \E c : Chain(up, D, d, k, c)
    BY <1>3, ChainsReach
  <1>7. PICK f \in [D -> Seq(N)] : Climbing(f, D, up, nm)
    BY <1>1, <1>5, <1>6, PathsExist
  <1>8. f = [d \in Dirs |->
               IF d = Root THEN <<>>
               ELSE LET parent == get_parent_dir_inode_nr(d)
                    IN Append(f[parent], get_child_dir_name(parent, d))]
    <2>1. ASSUME NEW d \in D
          PROVE  f[d] = IF d = Root THEN <<>> ELSE LET parent == get_parent_dir_inode_nr(d)
                                                   IN Append(f[parent], get_child_dir_name(parent, d))
      <3>1. CASE d = Root
        BY <3>1, <1>7 DEF Climbing
      <3>2. CASE d # Root
        <4>1. f[d] = Append(f[up[d]], nm[d])
          BY SMTT(40), <3>2, <1>7 DEF Climbing
        <4>2. f[d] = Append(f[get_parent_dir_inode_nr(d)], get_child_dir_name(get_parent_dir_inode_nr(d), d))
          BY SMTT(40), <4>1, <3>2, <1>4
        <4> QED
          BY <3>2, <4>2
      <3> QED
        BY <3>1, <3>2
    <2> QED
      BY <2>1, <1>1
  <1>9. path = [d \in Dirs |->
                  IF d = Root THEN <<>>
                  ELSE LET parent == get_parent_dir_inode_nr(d)
                       IN Append(path[parent], get_child_dir_name(parent, d))]
    BY <1>8
  <1>10. Getcwd = path
    BY DEF Getcwd
  <1> HIDE DEF path
  <1>11. Climbing(path, D, up, nm)
    <2>1. path[Root] = <<>>
      BY <1>1, <1>9
    <2>2. ASSUME NEW d \in D \ {Root}
          PROVE  path[d] = Append(path[up[d]], nm[d])
      <3>1. path[d] = Append(path[get_parent_dir_inode_nr(d)], get_child_dir_name(get_parent_dir_inode_nr(d), d))
        BY <1>1, <1>9
      <3> QED
        BY <3>1, <1>4
    <2> QED
      BY <2>1, <2>2 DEF Climbing
  <1>12. ASSUME NEW d \in D
         PROVE  search_file(path[d]) = d
    <2>1. PICK k \in Nat : \E c : Chain(up, D, d, k, c)
      BY <1>6
    <2>2. PICK c : Chain(up, D, d, k, c)
      BY <2>1
    <2>3. path[d] = Steps(nm, k, c)
      <3>1. Naming(nm, D, N)
        BY <1>5 DEF Naming
      <3> QED
        BY <3>1, <1>11, <2>2, PathIs
    <2>4. c \in [0..k -> D] /\ c[0] = Root /\ c[k] = d /\ \A i \in 1..k : c[i] # Root /\ up[c[i]] = c[i - 1]
      BY <2>2 DEF Chain
    <2> DEFINE p == Steps(nm, k, c)
    <2>5. Len(p) = k /\ \A i \in 1..k : p[i] = nm[c[i]]
      <3>1. p \in [1..k -> N] /\ \A i \in 1..k : p[i] = nm[c[i]]
        <4>1. \A i \in 1..k : nm[c[i]] \in N
          BY <2>4, <1>5
        <4> QED
          BY <4>1 DEF Steps
      <3> HIDE DEF p
      <3>2. p \in Seq(N)
        BY <3>1
      <3> QED
        BY <3>1, <3>2
    <2> HIDE DEF p
    <2>6. \A i \in 1..k : c[i] = Step(c[i - 1], p[i])
      <3> SUFFICES ASSUME NEW i \in 1..k PROVE c[i] = Step(c[i - 1], p[i])
        OBVIOUS
      <3>1. c[i] \in D /\ c[i] # Root /\ up[c[i]] = c[i - 1] /\ p[i] = nm[c[i]]
        BY <2>4, <2>5
      <3>2. Step(up[c[i]], nm[c[i]]) = c[i]
        BY <3>1, <1>4
      <3> QED
        BY <3>1, <3>2
    <2>7. search_file(p) = c[k]
      <3>1. Follows(D, c, k, p)
        BY <2>4, <2>5, <2>6 DEF Follows
      <3> QED
        BY <3>1, SearchFollows
    <2> QED
      BY <2>3, <2>4, <2>7 DEF p
  <1> QED
    BY <1>10, <1>12

\* What an image promises.
LEMMA ImageSound ==
  ASSUME NEW V, NEW D, disk \in Disk, Img(disk, V, D)
  PROVE  Sound
  <1>1. Inside(disk, V, D) /\ Recorded(disk, V) /\ Sized(disk, D) /\ Dirs = D /\ Reached = V
    BY Reach DEF Img
  <1>2. Reached \subseteq disk.imap
    BY <1>1 DEF Inside
  <1>3. \A n \in Reached : Ino(n).i_no = n
    BY <1>1 DEF Recorded, Ino
  <1>4. IsInjective([l \in Links |-> Target(l)])
    BY LinksOnce
  <1>5. LET pointers  == UNION {{<<n, k>> : k \in Used(Ino(n))} : n \in Reached}
            sector(x) == Ino(x[1]).i_sectors[x[2]]
        IN  /\ {sector(x) : x \in pointers} \subseteq disk.bmap
            /\ IsInjective([x \in pointers |-> sector(x)])
    BY <1>1, BlocksOnce
  <1>6. \A d \in Dirs : Listed(Ino(d)) = Entries(Ino(d))
    BY <1>1, ListsAll DEF Sized, Inside
  <1>7. \A d \in Dirs : search_file(Getcwd[d]) = d
    BY <1>1, PathsLeadHome
  <1> QED
    BY <1>2, <1>3, <1>4, <1>5, <1>6, <1>7 DEF Sound

-----------------------------------------------------------------------------
\* What is written, and where it leads.

\* The writes there are.
InodeAt(n, i) == [kind |-> "inode", no |-> n, val |-> i]
Magic == [kind |-> "magic"]
Table == [kind |-> "table"]
Writes ==
  {Magic, Table, Halt} \cup {Imap(S) : S \in SUBSET Inodes} \cup {Bmap(S) : S \in SUBSET Blocks}
  \cup {InodeAt(n, i) : n \in Inodes, i \in Inode} \cup {Block(b, c) : b \in Blocks, c \in Content}

\* The writes of the operations are writes.
LEMMA WriteKinds ==
  /\ Magic \in Writes /\ Table \in Writes /\ Halt \in Writes
  /\ \A S \in SUBSET Inodes : Imap(S) \in Writes
  /\ \A S \in SUBSET Blocks : Bmap(S) \in Writes
  /\ \A n \in Inodes, i \in Inode : InodeAt(n, i) \in Writes
  /\ \A b \in Blocks, c \in Content : Block(b, c) \in Writes
  BY DEF Writes

\* Writes are told apart by their kind.
LEMMA KindsOf ==
  /\ Magic.kind = "magic" /\ Table.kind = "table" /\ Halt.kind = "halt"
  /\ \A S : Imap(S).kind = "imap" /\ Imap(S).val = S /\ Imap(S) # Halt
  /\ \A S : Bmap(S).kind = "bmap" /\ Bmap(S).val = S /\ Bmap(S) # Halt
  /\ \A n, i : InodeAt(n, i).kind = "inode" /\ InodeAt(n, i).no = n /\ InodeAt(n, i).val = i /\ InodeAt(n, i) # Halt
  /\ \A b, c : Block(b, c).kind = "block" /\ Block(b, c).no = b /\ Block(b, c).val = c /\ Block(b, c) # Halt
  /\ Magic # Halt /\ Table # Halt
  <1>1. /\ Magic.kind = "magic" /\ Table.kind = "table" /\ Halt.kind = "halt"
        /\ \A S : Imap(S).kind = "imap" /\ Imap(S).val = S
        /\ \A S : Bmap(S).kind = "bmap" /\ Bmap(S).val = S
        /\ \A n, i : InodeAt(n, i).kind = "inode" /\ InodeAt(n, i).no = n /\ InodeAt(n, i).val = i
        /\ \A b, c : Block(b, c).kind = "block" /\ Block(b, c).no = b /\ Block(b, c).val = c
    BY DEF Magic, Table, Halt, Imap, Bmap, InodeAt, Block
  <1> QED
    BY <1>1

\* The inodes and blocks the operations write are inodes and contents.
LEMMA SomeValues ==
  /\ NoEntries \in Content /\ NoBlocks \in [1..Direct -> Blocks \cup {NULL}] /\ NoInode \in Inode
  /\ \A n \in Inodes, b \in Blocks : DirInode(n, b) \in Inode
  /\ \A n \in Inodes, p \in Inodes : Dots(n, p) \in Content
  <1>1. NoEntries \in Content
    BY DEF NoEntries, Content
  <1>2. NoBlocks \in [1..Direct -> Blocks \cup {NULL}]
    BY DEF NoBlocks
  <1>3. NoInode \in Inode
    BY <1>2, DiskConstants DEF NoInode, Inode, Root
  <1>4. ASSUME NEW n \in Inodes, NEW b \in Blocks PROVE DirInode(n, b) \in Inode
    <2>1. [NoBlocks EXCEPT ![1] = b] \in [1..Direct -> Blocks \cup {NULL}]
      BY <1>2
    <2> QED
      BY <2>1 DEF DirInode, Inode
  <1>5. ASSUME NEW n \in Inodes, NEW p \in Inodes PROVE Dots(n, p) \in Content
    <2>1. /\ [filename |-> ".", i_no |-> n, f_type |-> "directory"] \in Entry
          /\ [filename |-> "..", i_no |-> p, f_type |-> "directory"] \in Entry
      BY DEF Entry
    <2> QED
      BY <2>1, <1>1 DEF Dots, Content
  <1> QED
    BY <1>1, <1>2, <1>3, <1>4, <1>5

\* What each kind of write does to the disk.
LEMMA StoredMagic ==
  ASSUME NEW d \in Disk
  PROVE  /\ Stored(d, Magic) \in Disk
         /\ Stored(d, Magic).imap = d.imap /\ Stored(d, Magic).bmap = d.bmap /\ Stored(d, Magic).inode = d.inode /\ Stored(d, Magic).block = d.block
         /\ Stored(d, Magic).magic = TRUE
  <1>1. Stored(d, Magic) = [d EXCEPT !.magic = TRUE]
    BY KindsOf DEF Stored
  <1>2. TRUE \in BOOLEAN
    BY DEF Disk
  <1> QED
    BY <1>1, <1>2 DEF Disk

LEMMA StoredTable ==
  ASSUME NEW d \in Disk
  PROVE  /\ Stored(d, Table) \in Disk
         /\ Stored(d, Table).magic = d.magic /\ Stored(d, Table).imap = d.imap /\ Stored(d, Table).bmap = d.bmap /\ Stored(d, Table).block = d.block
         /\ Stored(d, Table).inode = [n \in Inodes |-> IF n = Root THEN DirInode(Root, 0) ELSE NoInode]
  <1>1. Stored(d, Table) = [d EXCEPT !.inode = [n \in Inodes |-> IF n = Root THEN DirInode(Root, 0) ELSE NoInode]]
    BY KindsOf DEF Stored
  <1>2. [n \in Inodes |-> IF n = Root THEN DirInode(Root, 0) ELSE NoInode] \in [Inodes -> Inode]
    BY SomeValues, DiskConstants DEF Disk
  <1> QED
    BY <1>1, <1>2 DEF Disk

LEMMA StoredImap ==
  ASSUME NEW d \in Disk, NEW S \in SUBSET Inodes
  PROVE  /\ Stored(d, Imap(S)) \in Disk
         /\ Stored(d, Imap(S)).magic = d.magic /\ Stored(d, Imap(S)).bmap = d.bmap /\ Stored(d, Imap(S)).inode = d.inode /\ Stored(d, Imap(S)).block = d.block
         /\ Stored(d, Imap(S)).imap = S
  <1>1. Stored(d, Imap(S)) = [d EXCEPT !.imap = S]
    BY KindsOf DEF Stored
  <1>2. S \in SUBSET Inodes
    BY DEF Disk
  <1> QED
    BY <1>1, <1>2 DEF Disk

LEMMA StoredBmap ==
  ASSUME NEW d \in Disk, NEW S \in SUBSET Blocks
  PROVE  /\ Stored(d, Bmap(S)) \in Disk
         /\ Stored(d, Bmap(S)).magic = d.magic /\ Stored(d, Bmap(S)).imap = d.imap /\ Stored(d, Bmap(S)).inode = d.inode /\ Stored(d, Bmap(S)).block = d.block
         /\ Stored(d, Bmap(S)).bmap = S
  <1>1. Stored(d, Bmap(S)) = [d EXCEPT !.bmap = S]
    BY KindsOf DEF Stored
  <1>2. S \in SUBSET Blocks
    BY DEF Disk
  <1> QED
    BY <1>1, <1>2 DEF Disk

LEMMA StoredInode ==
  ASSUME NEW d \in Disk, NEW n \in Inodes, NEW i \in Inode
  PROVE  /\ Stored(d, InodeAt(n, i)) \in Disk
         /\ Stored(d, InodeAt(n, i)).magic = d.magic /\ Stored(d, InodeAt(n, i)).imap = d.imap /\ Stored(d, InodeAt(n, i)).bmap = d.bmap /\ Stored(d, InodeAt(n, i)).block = d.block
         /\ Stored(d, InodeAt(n, i)).inode[n] = i /\ \A x \in Inodes : x # n => Stored(d, InodeAt(n, i)).inode[x] = d.inode[x]
  <1>1. Stored(d, InodeAt(n, i)) = [d EXCEPT !.inode[n] = i]
    BY KindsOf DEF Stored
  <1>2. [d.inode EXCEPT ![n] = i] \in [Inodes -> Inode]
    BY DEF Disk
  <1> QED
    BY <1>1, <1>2 DEF Disk

LEMMA StoredBlock ==
  ASSUME NEW d \in Disk, NEW b \in Blocks, NEW c \in Content
  PROVE  /\ Stored(d, Block(b, c)) \in Disk
         /\ Stored(d, Block(b, c)).magic = d.magic /\ Stored(d, Block(b, c)).imap = d.imap /\ Stored(d, Block(b, c)).bmap = d.bmap /\ Stored(d, Block(b, c)).inode = d.inode
         /\ Stored(d, Block(b, c)).block[b] = c /\ \A x \in Blocks : x # b => Stored(d, Block(b, c)).block[x] = d.block[x]
  <1>1. Stored(d, Block(b, c)) = [d EXCEPT !.block[b] = c]
    BY KindsOf DEF Stored
  <1>2. [d.block EXCEPT ![b] = c] \in [Blocks -> Content]
    BY DEF Disk
  <1> QED
    BY <1>1, <1>2 DEF Disk

\* Whatever is written, the disk is of its type.
LEMMA StoredTypes ==
  ASSUME NEW d \in Disk, NEW w \in Writes, w # Halt
  PROVE  Stored(d, w) \in Disk
  <1>1. CASE w = Magic
    BY <1>1, StoredMagic
  <1>2. CASE w = Table
    BY <1>2, StoredTable
  <1>3. CASE \E S \in SUBSET Inodes : w = Imap(S)
    BY <1>3, StoredImap
  <1>4. CASE \E S \in SUBSET Blocks : w = Bmap(S)
    BY <1>4, StoredBmap
  <1>5. CASE \E n \in Inodes, i \in Inode : w = InodeAt(n, i)
    BY <1>5, StoredInode
  <1>6. CASE \E b \in Blocks, c \in Content : w = Block(b, c)
    BY <1>6, StoredBlock
  <1> QED
    BY <1>1, <1>2, <1>3, <1>4, <1>5, <1>6 DEF Writes

-----------------------------------------------------------------------------
\* What is left to write leads from one image to the next, through the windows.
Image(d)    == \E V, D : Img(d, V, D)
Exact(d, h) == \E V, D : Img(d, V, D) /\ d.imap = V /\ (h \/ d.bmap = SectorsOf(d, V))
BitmapsOf(d) == [imap |-> d.imap, bmap |-> d.bmap]

Window(o, d, w) ==
  \/ o = "format" /\ d.magic
  \/ o \in {"create", "mkdir"} /\ {w[k].kind : k \in DOMAIN w} \in {{"inode", "imap"}, {"imap"}}
  \/ /\ o \in {"unlink", "rmdir"}
     /\ Head(w).kind = "inode"
     /\ Used(d.inode[Head(w).no]) # Used(Head(w).val)
     /\ Head(w).val # NoInode

Whole(d, c, h) == d.magic /\ Image(d) /\ (c = 0 => Exact(d, h))

Goes(R, o, m, c, h, d, w) ==
  /\ d.magic => Image(d) \/ Window(o, d, w)
  /\ w = <<>> => Whole(d, c, h) /\ m = BitmapsOf(d)
  /\ w # <<>> /\ Head(w) = Halt => Tail(w) = <<>> /\ Whole(d, c, h)
  /\ w # <<>> /\ Head(w) # Halt => <<Stored(d, Head(w)), Tail(w)>> \in R

States == Disk \X Seq(Writes)
Course(R, o, m, c, h) == R \in SUBSET States /\ \A r \in R : Goes(R, o, m, c, h, r[1], r[2])
Ready(o, m, c, h, d, w) == \E R : Course(R, o, m, c, h) /\ <<d, w>> \in R

\* What is known of a disk from which the writes lead on.
LEMMA ReadyGoes ==
  ASSUME NEW o, NEW m, NEW c, NEW h, NEW d, NEW w, Ready(o, m, c, h, d, w)
  PROVE  /\ d \in Disk /\ w \in Seq(Writes)
         /\ d.magic => Image(d) \/ Window(o, d, w)
         /\ w = <<>> => Whole(d, c, h) /\ m = BitmapsOf(d)
         /\ w # <<>> /\ Head(w) = Halt => Tail(w) = <<>> /\ Whole(d, c, h)
         /\ w # <<>> /\ Head(w) # Halt => Ready(o, m, c, h, Stored(d, Head(w)), Tail(w))
  <1>1. PICK R : Course(R, o, m, c, h) /\ <<d, w>> \in R
    BY DEF Ready
  <1>2. R \in SUBSET States /\ Goes(R, o, m, c, h, d, w)
    BY <1>1 DEF Course
  <1>3. d \in Disk /\ w \in Seq(Writes)
    BY <1>1, <1>2 DEF States
  <1>4. w # <<>> /\ Head(w) # Halt => Ready(o, m, c, h, Stored(d, Head(w)), Tail(w))
    BY <1>1, <1>2 DEF Goes, Ready
  <1> QED
    BY <1>2, <1>3, <1>4 DEF Goes

\* A file system at rest has nothing left to write.
LEMMA ReadyEnd ==
  ASSUME NEW o, NEW m, NEW c, NEW h, NEW d \in Disk, Whole(d, c, h), m = BitmapsOf(d)
  PROVE  Ready(o, m, c, h, d, <<>>)
  <1> DEFINE R == {<<d, <<>>>>}
  <1>1. <<>> \in Seq(Writes)
    OBVIOUS
  <1>2. Goes(R, o, m, c, h, d, <<>>)
    BY DEF Goes, Whole
  <1>3. Course(R, o, m, c, h)
    <2>1. R \in SUBSET States
      <3> DEFINE z == <<>>
      <3>1. z \in Seq(Writes) /\ R = {<<d, z>>}
        BY <1>1
      <3> HIDE DEF z, R
      <3> QED
        BY <3>1 DEF States
    <2>2. \A r \in R : r[1] = d /\ r[2] = <<>>
      OBVIOUS
    <2> HIDE DEF R
    <2> QED
      BY <1>2, <2>1, <2>2 DEF Course
  <1> QED
    BY <1>3 DEF Ready

\* The kernel may stop where the file system is at rest.
LEMMA ReadyHalt ==
  ASSUME NEW o, NEW m, NEW c, NEW h, NEW d \in Disk, Whole(d, c, h)
  PROVE  Ready(o, m, c, h, d, <<Halt>>)
  <1> DEFINE R == {<<d, <<Halt>>>>}
  <1>1. <<Halt>> \in Seq(Writes) /\ Head(<<Halt>>) = Halt /\ Tail(<<Halt>>) = <<>> /\ <<Halt>> # <<>>
    BY WriteKinds
  <1>2. Goes(R, o, m, c, h, d, <<Halt>>)
    BY <1>1 DEF Goes, Whole
  <1>3. Course(R, o, m, c, h)
    BY <1>1, <1>2 DEF Course, States
  <1> QED
    BY <1>3 DEF Ready

\* One write more in front of writes that lead on.
LEMMA ReadyNext ==
  ASSUME NEW o, NEW m, NEW c, NEW h, NEW d \in Disk, NEW w \in Seq(Writes), w # <<>>, Head(w) # Halt,
         d.magic => Image(d) \/ Window(o, d, w),
         Ready(o, m, c, h, Stored(d, Head(w)), Tail(w))
  PROVE  Ready(o, m, c, h, d, w)
  <1>1. PICK Q : Course(Q, o, m, c, h) /\ <<Stored(d, Head(w)), Tail(w)>> \in Q
    BY DEF Ready
  <1> DEFINE R == Q \cup {<<d, w>>}
  <1>2. R \in SUBSET States
    BY <1>1 DEF Course, States
  <1>3. Goes(R, o, m, c, h, d, w)
    BY <1>1 DEF Goes
  <1>4. ASSUME NEW r \in Q PROVE Goes(R, o, m, c, h, r[1], r[2])
    BY <1>1 DEF Course, Goes
  <1>5. Course(R, o, m, c, h)
    <2>1. ASSUME NEW r \in R PROVE Goes(R, o, m, c, h, r[1], r[2])
      <3>1. CASE r \in Q
        BY <3>1, <1>4
      <3>2. CASE r = <<d, w>>
        <4>1. r[1] = d /\ r[2] = w
          BY <3>2
        <4> QED
          BY <4>1, <1>3
      <3> QED
        BY <3>1, <3>2
    <2> QED
      BY <1>2, <2>1 DEF Course
  <1> QED
    BY <1>5 DEF Ready

-----------------------------------------------------------------------------
\* The inductive invariant: types, and the writes that lead on wherever nothing is damaged.

DTypes ==
  /\ disk \in Disk /\ mem \in Bitmaps /\ todo \in Seq(Writes)
  /\ op \in {"off", "idle", "format", "create", "mkdir", "unlink", "rmdir", "write"}
  /\ op \in {"off", "idle"} <=> todo = <<>>
  /\ cuts \in 0..MaxCuts /\ halted \in BOOLEAN /\ damaged \in BOOLEAN

DSafe ==
  ~damaged => /\ op = "off" => (disk.magic => Whole(disk, cuts, halted))
              /\ op # "off" => Ready(op, mem, cuts, halted, disk, todo)

DInv == DTypes /\ DSafe

-----------------------------------------------------------------------------
\* The invariants it implies.

\* The type invariant.
LEMMA TypesFollow == DTypes => TypeOK
  <1> SUFFICES ASSUME DTypes PROVE TypeOK
    OBVIOUS
  <1>1. ASSUME NEW k \in DOMAIN todo
        PROVE  /\ todo[k].kind \in {"magic", "imap", "bmap", "table", "inode", "block", "halt"}
               /\ todo[k].kind = "inode" => todo[k].val \in Inode
               /\ todo[k].kind = "block" => todo[k].val \in Content
    <2>1. todo[k] \in Writes
      BY <1>1 DEF DTypes
    <2> DEFINE w == todo[k]
    <2> HIDE DEF w
    <2>2. w \in Writes
      BY <2>1 DEF w
    <2>3. CASE w \in {Magic, Table, Halt} \cup {Imap(S) : S \in SUBSET Inodes} \cup {Bmap(S) : S \in SUBSET Blocks}
      <3>1. w.kind \in {"magic", "table", "halt", "imap", "bmap"}
        BY <2>3, KindsOf
      <3> QED
        BY <3>1 DEF w
    <2>4. CASE w \in {InodeAt(n, i) : n \in Inodes, i \in Inode}
      <3>1. w.kind = "inode" /\ w.val \in Inode
        BY <2>4, KindsOf
      <3> QED
        BY <3>1 DEF w
    <2>5. CASE w \in {Block(b, c) : b \in Blocks, c \in Content}
      <3>1. w.kind = "block" /\ w.val \in Content
        BY <2>5, KindsOf
      <3> QED
        BY <3>1 DEF w
    <2> QED
      BY <2>2, <2>3, <2>4, <2>5 DEF Writes
  <1> QED
    BY <1>1 DEF TypeOK, DTypes, Disk

\* The windows are those of the disk and of what is left to write.
LEMMA WindowNow == InWindow <=> Window(op, disk, todo)
  BY DEF InWindow, MidFormat, MidCreate, MidRecycle, Window, Ino

\* An image is a file system that can be used.
LEMMA CrashSafeFollows == DInv => CrashSafe
  <1> SUFFICES ASSUME DInv, disk.magic, ~damaged, ~InWindow PROVE Sound
    BY DEF CrashSafe
  <1>1. Image(disk)
    <2>1. CASE op = "off"
      BY <2>1 DEF DInv, DSafe, Whole
    <2>2. CASE op # "off"
      <3>1. Ready(op, mem, cuts, halted, disk, todo)
        BY <2>2 DEF DInv, DSafe
      <3>2. Image(disk) \/ Window(op, disk, todo)
        BY <3>1, ReadyGoes
      <3> QED
        BY <3>2, WindowNow
    <2> QED
      BY <2>1, <2>2
  <1>2. PICK V, D : Img(disk, V, D)
    BY <1>1 DEF Image
  <1>3. disk \in Disk
    BY DEF DInv, DTypes
  <1> QED
    BY <1>2, <1>3, ImageSound

\* No operation is going on: the disk is an image, and memory has its bitmaps.
LEMMA IdleWhole ==
  ASSUME DInv, op = "idle", ~damaged
  PROVE  disk \in Disk /\ Whole(disk, cuts, halted) /\ mem = BitmapsOf(disk) /\ todo = <<>>
  <1>1. Ready(op, mem, cuts, halted, disk, todo) /\ todo = <<>>
    BY DEF DInv, DSafe, DTypes
  <1> QED
    BY <1>1, ReadyGoes DEF DInv, DTypes

\* In an image whose blocks are all needed, an empty directory has its first block only.
LEMMA EmptyFollows == DInv => EmptyIsOneBlock
  <1> SUFFICES ASSUME DInv, op = "idle", ~damaged, NEW d \in Dirs \ {Root}, Ino(d).i_size = 2
               PROVE  Used(Ino(d)) = {1}
    BY DEF EmptyIsOneBlock
  <1>1. disk \in Disk /\ Image(disk)
    BY IdleWhole DEF Whole
  <1>2. PICK V, D : Img(disk, V, D)
    BY <1>1 DEF Image
  <1>3. Dirs = D
    BY <1>1, <1>2, Reach
  <1>4. d \in D /\ d \in Inodes /\ DotsAt(disk, d) /\ Cardinality(PlacesOf(disk, d)) <= 2
    BY <1>2, <1>3 DEF Img, Inside, Dotted, Sized, Ino
  <1> DEFINE P == PlacesOf(disk, d)
             a == <<1, 1>>
             b == <<1, 2>>
  <1>5. P = {a, b}
    <2>1. a # b /\ a \in P /\ b \in P
      BY <1>4 DEF DotsAt
    <2>2. IsFiniteSet(P) /\ Cardinality(P) \in Nat
      BY <1>1, <1>4, PlacesFinite
    <2>3. Cardinality(P) <= 2
      BY <1>4
    <2> HIDE DEF P, a, b
    <2>4. IsFiniteSet({a, b}) /\ Cardinality({a, b}) = 2
      BY <2>1, TwoElements
    <2>5. {a, b} \in SUBSET P
      BY <2>1
    <2>6. Cardinality({a, b}) <= Cardinality(P) /\ (Cardinality(P) = Cardinality({a, b}) => P = {a, b})
      BY <2>2, <2>5, FS_Subset
    <2> QED
      BY <2>2, <2>3, <2>4, <2>6
  <1>6. ASSUME NEW k \in UsedOf(disk, d), k # 1 PROVE FALSE
    <2>1. PICK j \in 1..PerBlock : <<k, j>> \in PlacesOf(disk, d)
      BY <1>2, <1>4, <1>6 DEF Img, Needed
    <2> QED
      BY <2>1, <1>5, <1>6
  <1>7. 1 \in UsedOf(disk, d)
    BY <1>4 DEF DotsAt
  <1> QED
    BY <1>6, <1>7, OfDisk

\* An image that is exact has lost nothing.
LEMMA NothingLostFollows == DInv => NothingLost
  <1> SUFFICES ASSUME DInv, op = "idle", cuts = 0, ~damaged
               PROVE  LET held == {Ino(n).i_sectors[k] : n \in Reached, k \in 1..Direct} \ {NULL}
                      IN /\ disk.imap = mem.imap /\ disk.bmap = mem.bmap
                         /\ mem.imap = Reached
                         /\ held \subseteq mem.bmap /\ (held = mem.bmap \/ halted)
    BY DEF NothingLost
  <1> DEFINE held == {Ino(n).i_sectors[k] : n \in Reached, k \in 1..Direct} \ {NULL}
  <1>1. disk \in Disk /\ Exact(disk, halted) /\ mem = BitmapsOf(disk)
    BY IdleWhole DEF Whole
  <1>2. PICK V, D : Img(disk, V, D) /\ disk.imap = V /\ (halted \/ disk.bmap = SectorsOf(disk, V))
    BY <1>1 DEF Exact
  <1>3. Reached = V /\ SectorsOf(disk, V) \subseteq disk.bmap
    BY <1>1, <1>2, Reach DEF Img, OwnBlocks
  <1>4. ASSUME NEW s
        PROVE  s \in held <=> s \in SectorsOf(disk, V)
    <2>1. s \in held <=> s # NULL /\ \E n \in V, k \in 1..Direct : s = Ino(n).i_sectors[k]
      BY <1>3
    <2>2. s \in SectorsOf(disk, V) <=> \E n \in V : \E k \in UsedOf(disk, n) : s = Sector(disk, n, k)
      BY DEF SectorsOf
    <2>3. s \in SectorsOf(disk, V) <=> \E n \in V : \E k \in 1..Direct : s = Sector(disk, n, k) /\ s # NULL
      BY <2>2 DEF UsedOf
    <2>4. \A n, k : Ino(n).i_sectors[k] = Sector(disk, n, k)
      BY DEF Ino, Sector
    <2> QED
      BY <2>1, <2>3, <2>4
  <1> HIDE DEF held
  <1>5. held \subseteq SectorsOf(disk, V) /\ SectorsOf(disk, V) \subseteq held
    BY <1>4
  <1>6. held = SectorsOf(disk, V)
    BY <1>5
  <1>7. mem.imap = disk.imap /\ mem.bmap = disk.bmap
    BY <1>1 DEF BitmapsOf
  <1> QED
    BY <1>2, <1>3, <1>6, <1>7 DEF held

-----------------------------------------------------------------------------
\* The start, and the steps that are not the beginning of an operation.

\* A directory as sys_mkdir writes it has its two dots and no other entry.
LEMMA DotsLook ==
  ASSUME NEW d, NEW n \in Inodes, NEW p \in Inodes, NEW b \in Blocks,
         d.inode[n] = DirInode(n, b), d.block[b] = Dots(n, p)
  PROVE  NewDirectory(d, n, p) /\ Sector(d, n, 1) = b /\ d.inode[n].i_no = n
  <1>1. 1 \in 1..Direct /\ 1 \in 1..PerBlock /\ 2 \in 1..PerBlock /\ NULL \notin Blocks /\ "." \notin Names /\ ".." \notin Names
    BY DiskConstants
  <1>2. d.inode[n].i_sectors = [NoBlocks EXCEPT ![1] = b] /\ d.inode[n].i_no = n /\ d.inode[n].i_size = 2
    BY DEF DirInode
  <1>3. Sector(d, n, 1) = b /\ \A k \in 1..Direct : k # 1 => Sector(d, n, k) = NULL
    BY <1>1, <1>2 DEF Sector, NoBlocks
  <1>4. UsedOf(d, n) = {1}
    BY <1>1, <1>3 DEF UsedOf
  <1> DEFINE one == [filename |-> ".", i_no |-> n, f_type |-> "directory"]
             two == [filename |-> "..", i_no |-> p, f_type |-> "directory"]
  <1>5. one \in Entry /\ two \in Entry
    BY DEF Entry
  <1>6. one # NULL /\ two # NULL
    BY <1>5, DiskConstants
  <1>7. Dots(n, p) = [NoEntries EXCEPT ![1] = one, ![2] = two]
    BY DEF Dots
  <1>8. one.filename = "." /\ two.filename = ".." /\ one.i_no = n /\ two.i_no = p
    OBVIOUS
  <1> HIDE DEF one, two
  <1>9. Dots(n, p)[1] = one /\ Dots(n, p)[2] = two /\ \A j \in 1..PerBlock : j # 1 /\ j # 2 => Dots(n, p)[j] = NULL
    BY <1>1, <1>7 DEF NoEntries
  <1>10. \A j : EntryAt(d, n, <<1, j>>) = Dots(n, p)[j]
    BY <1>3 DEF EntryAt
  <1>11. EntryAt(d, n, <<1, 1>>) = one /\ EntryAt(d, n, <<1, 2>>) = two
    BY <1>9, <1>10
  <1>12. ASSUME NEW x
         PROVE  x \in PlacesOf(d, n) <=> x \in {<<1, 1>>, <<1, 2>>}
    <2>1. ASSUME x \in PlacesOf(d, n) PROVE x \in {<<1, 1>>, <<1, 2>>}
      <3>1. x \in UsedOf(d, n) \X (1..PerBlock) /\ EntryAt(d, n, x) # NULL
        BY <2>1 DEF PlacesOf
      <3>2. x = <<x[1], x[2]>> /\ x[1] = 1 /\ x[2] \in 1..PerBlock
        BY <3>1, <1>4
      <3>3. x = <<1, x[2]>>
        BY <3>2
      <3>4. Dots(n, p)[x[2]] # NULL
        BY <3>1, <3>3, <1>10
      <3>5. x[2] = 1 \/ x[2] = 2
        BY <3>2, <3>4, <1>9
      <3> QED
        BY <3>3, <3>5
    <2>2. <<1, 1>> \in PlacesOf(d, n) /\ <<1, 2>> \in PlacesOf(d, n)
      <3>1. <<1, 1>> \in UsedOf(d, n) \X (1..PerBlock) /\ <<1, 2>> \in UsedOf(d, n) \X (1..PerBlock)
        BY <1>1, <1>4
      <3> QED
        BY <3>1, <1>6, <1>11 DEF PlacesOf
    <2> QED
      BY <2>1, <2>2
  <1>13. PlacesOf(d, n) = {<<1, 1>>, <<1, 2>>}
    BY <1>12
  <1>14. NamedOf(d, n) = {}
    BY <1>1, <1>8, <1>11, <1>13 DEF NamedOf
  <1> QED
    BY <1>2, <1>3, <1>4, <1>8, <1>11, <1>13, <1>14 DEF NewDirectory

\* What partition_format leaves.
LEMMA FormattedImage ==
  ASSUME NEW d \in Disk, d.imap = {Root}, d.bmap = {0}, d.inode[Root] = DirInode(Root, 0), d.block[0] = Dots(Root, Root)
  PROVE  Img(d, {Root}, {Root}) /\ SectorsOf(d, {Root}) = {0}
  <1>1. NewDirectory(d, Root, Root) /\ Sector(d, Root, 1) = 0 /\ d.inode[Root].i_no = Root
    BY DotsLook, DiskConstants
  <1>2. /\ UsedOf(d, Root) = {1} /\ PlacesOf(d, Root) = {<<1, 1>>, <<1, 2>>} /\ NamedOf(d, Root) = {}
        /\ EntryAt(d, Root, <<1, 1>>).filename = "." /\ EntryAt(d, Root, <<1, 2>>).filename = ".."
        /\ EntryAt(d, Root, <<1, 1>>).i_no = Root /\ EntryAt(d, Root, <<1, 2>>).i_no = Root
        /\ d.inode[Root].i_size = 2
    BY <1>1 DEF NewDirectory
  <1>3. SectorsOf(d, {Root}) = {0}
    BY <1>1, <1>2 DEF SectorsOf
  <1> DEFINE V == {Root}
             D == {Root}
  <1>4. Inside(d, V, D) /\ Typing(d, V, D) /\ Entered(d, V, D) /\ OneEntry(d, D) /\ Recorded(d, V)
    BY <1>1, <1>2, DiskConstants, SyncedNumbers DEF Inside, Typing, Entered, OneEntry, Recorded
  <1>5. OwnBlocks(d, V)
    <2>1. \A v \in V : v = Root
      OBVIOUS
    <2>2. SectorsOf(d, V) \subseteq d.bmap
      BY <1>3
    <2>3. \A v \in V : UsedOf(d, v) = {1}
      BY <1>2, <2>1
    <2> HIDE DEF V
    <2> QED
      BY <2>1, <2>2, <2>3 DEF OwnBlocks
  <1>6. Dotted(d, D) /\ Parents(d, D) /\ UniqueNames(d, D) /\ Needed(d, D)
    BY <1>2 DEF Dotted, DotsAt, Parents, UniqueNames, Needed
  <1>7. Sized(d, D)
    <2>1. <<1, 1>> # <<1, 2>>
      OBVIOUS
    <2>2. Cardinality({<<1, 1>>, <<1, 2>>}) = 2
      BY <2>1, TwoElements
    <2> QED
      BY <1>2, <2>2 DEF Sized
  <1>8. Tree(d, D)
    BY DEF Tree, Closed
  <1> QED
    BY <1>3, <1>4, <1>5, <1>6, <1>7, <1>8 DEF Img

-----------------------------------------------------------------------------
\* The writes that are left after the first.
LEMMA TailOf ==
  ASSUME NEW S, NEW s \in Seq(S), s # <<>>
  PROVE  /\ Head(s) \in S /\ Tail(s) \in Seq(S) /\ Len(s) \in Nat /\ Len(Tail(s)) = Len(s) - 1
         /\ Len(s) = 1 <=> Tail(s) = <<>>
  <1>1. Head(s) \in S /\ Tail(s) \in Seq(S) /\ Len(s) \in Nat /\ Len(Tail(s)) = Len(s) - 1
    BY HeadTailProperties, LenProperties
  <1>2. Len(Tail(s)) = 0 <=> Tail(s) = <<>>
    BY <1>1, EmptySeq
  <1> QED
    BY <1>1, <1>2

\* A disk that has no file system yet.
LEMMA InitDisk == Init => DInv
  <1> SUFFICES ASSUME Init PROVE DInv
    OBVIOUS
  <1>1. disk \in Disk
    <2>1. [n \in Inodes |-> NoInode] \in [Inodes -> Inode] /\ [b \in Blocks |-> NoEntries] \in [Blocks -> Content]
      BY SomeValues
    <2> QED
      BY <2>1 DEF Init, Disk
  <1>2. mem \in Bitmaps /\ cuts \in 0..MaxCuts /\ todo \in Seq(Writes)
    BY DiskConstants DEF Init, Bitmaps
  <1>3. DTypes
    BY <1>1, <1>2 DEF Init, DTypes
  <1>4. DSafe
    BY DEF Init, DSafe
  <1> QED
    BY <1>3, <1>4 DEF DInv

\* A sector is written.
LEMMA StepWriteSector ==
  ASSUME DInv, WriteSector
  PROVE  DInv'
  <1>1. /\ todo # <<>> /\ Head(todo) # Halt /\ disk' = Stored(disk, Head(todo)) /\ todo' = Tail(todo)
        /\ op' = (IF Len(todo) = 1 THEN "idle" ELSE op)
        /\ mem' = mem /\ cuts' = cuts /\ halted' = halted /\ damaged' = damaged
    BY DEF WriteSector
  <1>2. /\ disk \in Disk /\ mem \in Bitmaps /\ todo \in Seq(Writes) /\ op \notin {"off", "idle"}
        /\ op \in {"format", "create", "mkdir", "unlink", "rmdir", "write"}
        /\ cuts \in 0..MaxCuts /\ halted \in BOOLEAN /\ damaged \in BOOLEAN
    BY <1>1 DEF DInv, DTypes
  <1>3. /\ Head(todo) \in Writes /\ todo' \in Seq(Writes) /\ Len(todo') = Len(todo) - 1 /\ Len(todo) \in Nat
        /\ Len(todo) = 1 <=> todo' = <<>>
    BY <1>1, <1>2, TailOf
  <1>4. disk' \in Disk
    BY <1>1, <1>2, <1>3, StoredTypes
  <1>5. DTypes'
    BY <1>1, <1>2, <1>3, <1>4 DEF DTypes
  <1>6. DSafe'
    <2> SUFFICES ASSUME ~damaged PROVE op' # "off" /\ Ready(op', mem, cuts, halted, disk', todo')
      BY <1>1 DEF DSafe
    <2>1. Ready(op, mem, cuts, halted, disk, todo)
      BY <1>2 DEF DInv, DSafe
    <2>2. Ready(op, mem, cuts, halted, disk', todo')
      BY <2>1, <1>1, ReadyGoes
    <2>3. CASE Len(todo) = 1
      <3>1. todo' = <<>> /\ op' = "idle"
        BY <2>3, <1>1, <1>3
      <3>2. Whole(disk', cuts, halted) /\ mem = BitmapsOf(disk')
        BY <2>2, <3>1, ReadyGoes
      <3> QED
        BY <3>1, <3>2, <1>4, ReadyEnd
    <2>4. CASE Len(todo) # 1
      BY <2>2, <2>4, <1>1, <1>2
    <2> QED
      BY <2>3, <2>4
  <1> QED
    BY <1>5, <1>6 DEF DInv

\* The kernel stops.
LEMMA StepStop ==
  ASSUME DInv, Stop
  PROVE  DInv'
  <1>1. /\ todo = <<Halt>> /\ op' = "off" /\ todo' = <<>> /\ disk' = disk /\ mem' = mem /\ cuts' = cuts
        /\ halted' = halted /\ damaged' = damaged
    BY DEF Stop
  <1>2. DTypes'
    BY <1>1 DEF DInv, DTypes
  <1>3. DSafe'
    <2> SUFFICES ASSUME ~damaged, disk.magic PROVE Whole(disk, cuts, halted)
      BY <1>1 DEF DSafe
    <2>1. todo # <<>> /\ Head(todo) = Halt /\ op # "off"
      BY <1>1 DEF DInv, DTypes
    <2>2. Ready(op, mem, cuts, halted, disk, todo)
      BY <2>1 DEF DInv, DSafe
    <2> QED
      BY <2>1, <2>2, ReadyGoes
  <1> QED
    BY <1>2, <1>3 DEF DInv

\* The power fails.
LEMMA StepPowerCut ==
  ASSUME DInv, PowerCut
  PROVE  DInv'
  <1>1. /\ op # "off" /\ cuts < MaxCuts /\ cuts' = cuts + 1 /\ damaged' = (damaged \/ InWindow) /\ op' = "off" /\ todo' = <<>>
        /\ disk' = disk /\ mem' = mem /\ halted' = halted
    BY DEF PowerCut
  <1>2. DTypes'
    <2>1. damaged' \in BOOLEAN
      BY <1>1, Zenon DEF DInv, DTypes
    <2>2. cuts' \in 0..MaxCuts
      BY <1>1, DiskConstants DEF DInv, DTypes
    <2> QED
      BY <1>1, <2>1, <2>2 DEF DInv, DTypes
  <1>3. DSafe'
    <2> SUFFICES ASSUME ~damaged, ~InWindow, disk.magic PROVE Whole(disk, cuts', halted)
      BY <1>1 DEF DSafe
    <2>1. Ready(op, mem, cuts, halted, disk, todo)
      BY <1>1 DEF DInv, DSafe
    <2>2. Image(disk)
      BY <2>1, WindowNow, ReadyGoes
    <2>3. cuts' # 0
      BY <1>1, DiskConstants DEF DInv, DTypes
    <2> QED
      BY <2>2, <2>3 DEF Whole
  <1> QED
    BY <1>2, <1>3 DEF DInv

\* The writes of partition_format lead to the image of the root.
LEMMA FormatReady ==
  ASSUME NEW d \in Disk, NEW c, NEW h, ~d.magic
  PROVE  /\ Ready("format", [imap |-> {Root}, bmap |-> {0}], c, h, d, FormatWrites)
         /\ FormatWrites \in Seq(Writes) /\ FormatWrites # <<>>
  <1> DEFINE m  == [imap |-> {Root}, bmap |-> {0}]
             w1 == Magic
             w2 == Bmap({0})
             w3 == Imap({Root})
             w4 == Table
             w5 == Block(0, Dots(Root, Root))
             d1 == Stored(d, w1)
             d2 == Stored(d1, w2)
             d3 == Stored(d2, w3)
             d4 == Stored(d3, w4)
             d5 == Stored(d4, w5)
  <1>1. FormatWrites = <<w1, w2, w3, w4, w5>>
    BY DEF FormatWrites, Magic, Table
  <1>2. {0} \in SUBSET Blocks /\ {Root} \in SUBSET Inodes /\ 0 \in Blocks /\ Dots(Root, Root) \in Content
    BY DiskConstants, SomeValues
  <1>3. /\ w1 \in Writes /\ w2 \in Writes /\ w3 \in Writes /\ w4 \in Writes /\ w5 \in Writes
        /\ w1 # Halt /\ w2 # Halt /\ w3 # Halt /\ w4 # Halt /\ w5 # Halt
    BY <1>2, WriteKinds, KindsOf
  <1>4. d1 \in Disk /\ d1.magic = TRUE
    BY StoredMagic
  <1> HIDE DEF d1
  <1>5. d2 \in Disk /\ d2.magic = TRUE /\ d2.bmap = {0}
    BY <1>2, <1>4, StoredBmap
  <1> HIDE DEF d2
  <1>6. d3 \in Disk /\ d3.magic = TRUE /\ d3.bmap = {0} /\ d3.imap = {Root}
    BY <1>2, <1>5, StoredImap
  <1> HIDE DEF d3
  <1>7. d4 \in Disk /\ d4.magic = TRUE /\ d4.bmap = {0} /\ d4.imap = {Root} /\ d4.inode[Root] = DirInode(Root, 0)
    BY <1>6, StoredTable, DiskConstants
  <1> HIDE DEF d4
  <1>8. d5 \in Disk /\ d5.magic = TRUE /\ d5.bmap = {0} /\ d5.imap = {Root} /\ d5.inode[Root] = DirInode(Root, 0) /\ d5.block[0] = Dots(Root, Root)
    BY <1>2, <1>7, StoredBlock
  <1> HIDE DEF d5
  <1>9. Whole(d5, c, h) /\ m = BitmapsOf(d5)
    BY <1>8, FormattedImage DEF Whole, Image, Exact, BitmapsOf
  <1> DEFINE f == "format"
  <1> HIDE DEF m, w1, w2, w3, w4, w5
  <1>10. Ready(f, m, c, h, d5, <<>>)
    BY <1>8, <1>9, ReadyEnd
  <1>11. Ready(f, m, c, h, d4, <<w5>>)
    <2>1. <<w5>> \in Seq(Writes) /\ <<w5>> # <<>> /\ Head(<<w5>>) = w5 /\ Tail(<<w5>>) = <<>>
      BY <1>3
    <2>2. Window(f, d4, <<w5>>)
      BY <1>7 DEF Window
    <2> QED
      BY <1>3, <1>7, <1>10, <2>1, <2>2, ReadyNext DEF d5
  <1>12. Ready(f, m, c, h, d3, <<w4, w5>>)
    <2>1. <<w4, w5>> \in Seq(Writes) /\ <<w4, w5>> # <<>> /\ Head(<<w4, w5>>) = w4 /\ Tail(<<w4, w5>>) = <<w5>>
      BY <1>3
    <2>2. Window(f, d3, <<w4, w5>>)
      BY <1>6 DEF Window
    <2> QED
      BY <1>3, <1>6, <1>11, <2>1, <2>2, ReadyNext DEF d4
  <1>13. Ready(f, m, c, h, d2, <<w3, w4, w5>>)
    <2>1. <<w3, w4, w5>> \in Seq(Writes) /\ <<w3, w4, w5>> # <<>> /\ Head(<<w3, w4, w5>>) = w3 /\ Tail(<<w3, w4, w5>>) = <<w4, w5>>
      BY <1>3
    <2>2. Window(f, d2, <<w3, w4, w5>>)
      BY <1>5 DEF Window
    <2> QED
      BY <1>3, <1>5, <1>12, <2>1, <2>2, ReadyNext DEF d3
  <1>14. Ready(f, m, c, h, d1, <<w2, w3, w4, w5>>)
    <2>1. <<w2, w3, w4, w5>> \in Seq(Writes) /\ <<w2, w3, w4, w5>> # <<>> /\ Head(<<w2, w3, w4, w5>>) = w2 /\ Tail(<<w2, w3, w4, w5>>) = <<w3, w4, w5>>
      BY <1>3
    <2>2. Window(f, d1, <<w2, w3, w4, w5>>)
      BY <1>4 DEF Window
    <2> QED
      BY <1>3, <1>4, <1>13, <2>1, <2>2, ReadyNext DEF d2
  <1>15. <<w1, w2, w3, w4, w5>> \in Seq(Writes) /\ <<w1, w2, w3, w4, w5>> # <<>>
         /\ Head(<<w1, w2, w3, w4, w5>>) = w1 /\ Tail(<<w1, w2, w3, w4, w5>>) = <<w2, w3, w4, w5>>
    BY <1>3
  <1>16. Ready(f, m, c, h, d, <<w1, w2, w3, w4, w5>>)
    BY <1>3, <1>14, <1>15, ReadyNext DEF d1
  <1> QED
    BY <1>1, <1>15, <1>16 DEF m

\* filesys_init mounts the partition or formats it.
LEMMA StepBoot ==
  ASSUME DInv, Boot
  PROVE  DInv'
  <1>1. op = "off" /\ disk' = disk /\ cuts' = cuts /\ halted' = halted /\ damaged' = damaged /\ todo = <<>>
    BY DEF Boot, DInv, DTypes
  <1>2. /\ disk \in Disk /\ cuts \in 0..MaxCuts /\ halted \in BOOLEAN /\ damaged \in BOOLEAN /\ <<>> \in Seq(Writes)
        /\ ~damaged => (disk.magic => Whole(disk, cuts, halted))
    BY <1>1 DEF DInv, DTypes, DSafe
  <1>3. CASE disk.magic /\ op' = "idle" /\ mem' = Mounted /\ todo' = todo
    <2>1. mem' = BitmapsOf(disk) /\ mem' \in Bitmaps
      BY <1>2, <1>3 DEF Mounted, BitmapsOf, Bitmaps, Disk
    <2>2. DTypes'
      BY <1>1, <1>2, <1>3, <2>1 DEF DTypes
    <2>3. DSafe'
      BY <1>1, <1>2, <1>3, <2>1, ReadyEnd DEF DSafe
    <2> QED
      BY <2>2, <2>3 DEF DInv
  <1>4. CASE ~disk.magic /\ op' = "format" /\ todo' = FormatWrites /\ mem' = [imap |-> {Root}, bmap |-> {0}]
    <2>1. mem' \in Bitmaps
      BY <1>4, DiskConstants DEF Bitmaps
    <2>2. Ready("format", mem', cuts, halted, disk, todo') /\ todo' \in Seq(Writes) /\ todo' # <<>>
      BY <1>2, <1>4, FormatReady
    <2>3. DTypes'
      BY <1>1, <1>2, <1>4, <2>1, <2>2 DEF DTypes
    <2>4. DSafe'
      BY <1>1, <1>4, <2>2 DEF DSafe
    <2> QED
      BY <2>3, <2>4 DEF DInv
  <1> QED
    BY <1>3, <1>4 DEF Boot

-----------------------------------------------------------------------------
\* Operations at their beginning: an image, of which they read.

\* More blocks are marked as used, and blocks of no inode are written.
Spare(d, e, V) ==
  /\ e.imap = d.imap /\ e.inode = d.inode /\ d.bmap \subseteq e.bmap
  /\ \A b \in SectorsOf(d, V) : e.block[b] = d.block[b]

\* A block of an inode is among the blocks of them all.
LEMMA SectorsUnder ==
  ASSUME NEW d, NEW V, NEW v \in V, NEW k \in UsedOf(d, v)
  PROVE  Sector(d, v, k) \in SectorsOf(d, V)
  BY DEF SectorsOf

\* An image stays what it is when only blocks of no inode change.
LEMMA SpareImage ==
  ASSUME NEW d, NEW e, NEW V, NEW D, Img(d, V, D), Spare(d, e, V)
  PROVE  Img(e, V, D) /\ SectorsOf(e, V) = SectorsOf(d, V)
  <1>1. Inside(d, V, D) /\ OwnBlocks(d, V) /\ Sized(d, D)
    BY DEF Img
  <1>2. \A v, k : Sector(e, v, k) = Sector(d, v, k)
    BY DEF Spare, Sector
  <1>3. \A v : UsedOf(e, v) = UsedOf(d, v)
    BY <1>2 DEF UsedOf
  <1>4. SectorsOf(e, V) = SectorsOf(d, V)
    BY <1>2, <1>3 DEF SectorsOf
  <1>5. OwnBlocks(e, V)
    <2>1. \A v \in V : SameSectors(d, e, v)
      BY <1>2, <1>3 DEF SameSectors
    <2>2. SectorsOf(d, V) \subseteq e.bmap
      BY <1>1 DEF OwnBlocks, Spare
    <2> QED
      BY <1>1, <2>1, <2>2, SameSectorsOwn
  <1>6. ASSUME NEW n \in D PROVE LooksSame(d, e, n)
    <2>1. e.inode[n].i_sectors = d.inode[n].i_sectors
      BY DEF Spare
    <2>2. \A k \in UsedOf(d, n) : e.block[Sector(d, n, k)] = d.block[Sector(d, n, k)]
      BY <1>1, <1>6, SectorsUnder DEF Spare, Inside
    <2> QED
      BY <2>1, <2>2, LooksSameFrom
  <1>7. Alike(d, e, V, D)
    BY <1>1, <1>6 DEF Alike, Spare, Inside, Sized
  <1> QED
    BY <1>4, <1>5, <1>7, AlikeImage

\* An inode has one more block.
Longer(d, e, V, v0, k, b) ==
  /\ v0 \in V /\ b \notin SectorsOf(d, V) /\ b \in e.bmap /\ SectorsOf(d, V) \subseteq e.bmap
  /\ \A v \in V : v # v0 => SameSectors(d, e, v)
  /\ k \notin UsedOf(d, v0) /\ UsedOf(e, v0) = UsedOf(d, v0) \cup {k} /\ Sector(e, v0, k) = b
  /\ \A l \in UsedOf(d, v0) : Sector(e, v0, l) = Sector(d, v0, l)

\* An inode that takes a block nobody has owns its blocks still.
LEMMA LongerOwn ==
  ASSUME NEW d, NEW e, NEW V, NEW v0, NEW k, NEW b, OwnBlocks(d, V), Longer(d, e, V, v0, k, b)
  PROVE  OwnBlocks(e, V) /\ SectorsOf(e, V) = SectorsOf(d, V) \cup {b}
  <1>1. ASSUME NEW v \in V, NEW l \in UsedOf(e, v)
        PROVE  \/ v = v0 /\ l = k /\ Sector(e, v, l) = b
               \/ l \in UsedOf(d, v) /\ Sector(e, v, l) = Sector(d, v, l) /\ Sector(d, v, l) \in SectorsOf(d, V) /\ Sector(d, v, l) # b
                  /\ ~(v = v0 /\ l = k)
    <2>1. CASE v = v0 /\ l = k
      BY <2>1 DEF Longer
    <2>2. CASE ~(v = v0 /\ l = k)
      <3>1. l \in UsedOf(d, v) /\ Sector(e, v, l) = Sector(d, v, l)
        BY <2>2, <1>1 DEF Longer, SameSectors
      <3>2. Sector(d, v, l) \in SectorsOf(d, V)
        BY <3>1, SectorsUnder
      <3> QED
        BY <2>2, <3>1, <3>2 DEF Longer
    <2> QED
      BY <2>1, <2>2
  <1>2. ASSUME NEW v \in V, NEW l \in UsedOf(d, v)
        PROVE  l \in UsedOf(e, v) /\ Sector(e, v, l) = Sector(d, v, l)
    BY <1>2 DEF Longer, SameSectors
  <1>3. v0 \in V /\ k \in UsedOf(e, v0) /\ Sector(e, v0, k) = b /\ b \in e.bmap /\ SectorsOf(d, V) \subseteq e.bmap
    BY DEF Longer
  <1>4. ASSUME NEW s
        PROVE  s \in SectorsOf(e, V) <=> s \in SectorsOf(d, V) \cup {b}
    <2>1. s \in SectorsOf(e, V) <=> \E v \in V : \E l \in UsedOf(e, v) : s = Sector(e, v, l)
      BY DEF SectorsOf
    <2>2. s \in SectorsOf(d, V) <=> \E v \in V : \E l \in UsedOf(d, v) : s = Sector(d, v, l)
      BY DEF SectorsOf
    <2>3. ASSUME NEW v \in V, NEW l \in UsedOf(e, v), s = Sector(e, v, l) PROVE s \in SectorsOf(d, V) \cup {b}
      BY <1>1, <2>3
    <2>4. ASSUME NEW v \in V, NEW l \in UsedOf(d, v), s = Sector(d, v, l) PROVE \E u \in V : \E j \in UsedOf(e, u) : s = Sector(e, u, j)
      BY <1>2, <2>4
    <2> QED
      BY <2>1, <2>2, <2>3, <2>4, <1>3
  <1>5. SectorsOf(e, V) = SectorsOf(d, V) \cup {b}
    BY <1>4
  <1>6. ASSUME NEW v \in V, NEW w \in V, NEW l \in UsedOf(e, v), NEW j \in UsedOf(e, w), Sector(e, v, l) = Sector(e, w, j)
        PROVE  v = w /\ l = j
    <2>1. CASE v = v0 /\ l = k
      BY <2>1, <1>1, <1>6
    <2>2. CASE w = v0 /\ j = k
      BY <2>2, <1>1, <1>6
    <2>3. CASE ~(v = v0 /\ l = k) /\ ~(w = v0 /\ j = k)
      <3>1. l \in UsedOf(d, v) /\ j \in UsedOf(d, w) /\ Sector(d, v, l) = Sector(d, w, j)
        BY <2>3, <1>1, <1>6
      <3> QED
        BY <3>1 DEF OwnBlocks
    <2> QED
      BY <2>1, <2>2, <2>3
  <1> QED
    BY <1>3, <1>5, <1>6 DEF OwnBlocks

-----------------------------------------------------------------------------
\* The system at rest.
Rests(V, D) ==
  /\ disk \in Disk /\ disk.magic /\ Img(disk, V, D) /\ mem.imap = disk.imap /\ mem.bmap = disk.bmap
  /\ halted \in BOOLEAN
  /\ cuts = 0 => disk.imap = V /\ (halted \/ disk.bmap = SectorsOf(disk, V))

\* Between operations there is an image on the disk, and it is known what is in it.
LEMMA Resting ==
  ASSUME DInv, op = "idle", ~damaged
  PROVE  \E V, D : Rests(V, D)
  <1>1. disk \in Disk /\ Whole(disk, cuts, halted) /\ mem = BitmapsOf(disk) /\ halted \in BOOLEAN
    BY IdleWhole DEF DInv, DTypes
  <1>2. mem.imap = disk.imap /\ mem.bmap = disk.bmap
    BY <1>1 DEF BitmapsOf
  <1>3. CASE cuts = 0
    <2>1. PICK V, D : Img(disk, V, D) /\ disk.imap = V /\ (halted \/ disk.bmap = SectorsOf(disk, V))
      BY <1>1, <1>3 DEF Whole, Exact
    <2>2. Rests(V, D)
      BY <2>1, <1>1, <1>2 DEF Rests, Whole
    <2> QED
      BY <2>2
  <1>4. CASE cuts # 0
    <2>1. PICK V, D : Img(disk, V, D)
      BY <1>1 DEF Whole, Image
    <2>2. Rests(V, D)
      BY <2>1, <1>1, <1>2, <1>4 DEF Rests, Whole
    <2> QED
      BY <2>2
  <1> QED
    BY <1>3, <1>4

\* An operation that has begun. What is to be written leads on, unless an inode is going to
\* be written over the record of another one.
Begins(kind) ==
  /\ op' = kind /\ kind \in {"create", "mkdir", "unlink", "rmdir", "write"}
  /\ disk' = disk /\ cuts' = cuts
  /\ todo' # <<>> /\ mem' \in Bitmaps /\ halted' \in BOOLEAN
  /\ \/ damaged' = damaged /\ Ready(kind, mem', cuts, halted', disk, todo')
     \/ damaged' = TRUE /\ todo' \in Seq(Writes)

\* An operation that has begun keeps the invariant.
LEMMA BeginsInv ==
  ASSUME DInv, NEW kind, Begins(kind)
  PROVE  DInv'
  <1>1. todo' \in Seq(Writes)
    BY ReadyGoes DEF Begins
  <1>2. DTypes'
    <2>1. damaged' \in BOOLEAN
      BY DEF DInv, DTypes, Begins
    <2> QED
      BY <1>1, <2>1 DEF DInv, DTypes, Begins
  <1>3. DSafe'
    BY DEF DSafe, Begins
  <1> QED
    BY <1>2, <1>3 DEF DInv

\* What a path reaches is what is in the image.
LEMMA RestImage ==
  ASSUME NEW V, NEW D, Rests(V, D)
  PROVE  /\ Dirs = D /\ Reached = V /\ Whole(disk, cuts, halted)
         /\ Inside(disk, V, D) /\ D \subseteq Inodes /\ V \subseteq Inodes
  BY Reach DEF Rests, Whole, Image, Exact, Img, Inside

\* An entry an operation finds is one of the image.
LEMMA EntryOf ==
  ASSUME NEW V, NEW D, Rests(V, D), NEW d \in D, NEW e \in Named(Ino(d))
  PROVE  \E x \in NamedOf(disk, d) :
           /\ e = EntryAt(disk, d, x) /\ e.i_no \in V /\ e.i_no \in Inodes /\ e.i_no # Root
           /\ e.f_type = "directory" <=> e.i_no \in D
           /\ e.f_type \in {"regular", "directory"}
  <1>1. Inside(disk, V, D) /\ Typing(disk, V, D) /\ OneEntry(disk, D) /\ disk \in Disk /\ d \in Inodes
    BY DEF Rests, Img, Inside
  <1>2. PICK x \in NamedOf(disk, d) : e = EntryAt(disk, d, x)
    BY OfDisk
  <1>3. e \in Entry
    BY <1>1, <1>2, EntryTypes
  <1>4. e.f_type \in {"regular", "directory"}
    BY <1>3 DEF Entry
  <1> QED
    BY <1>1, <1>2, <1>4 DEF Typing, Inside, OneEntry

\* inode_sync writes the record of an inode whose number it keeps whole.
LEMMA SyncIs ==
  ASSUME NEW i, NEW n \in Synced, i.i_no = n
  PROVE  InodeSync(i) = InodeAt(n, i)
  BY DEF Synced, InodeSync, InodeAt

\* What it writes of another one is of its type all the same, and of the wrong inode.
LEMMA SyncWrites ==
  ASSUME NEW i \in Inode, NEW n \in Inodes, i.i_no = n
  PROVE  InodeSync(i) \in Writes /\ (Truncated(i) <=> n \notin Synced)
  <1>1. InodeSync(i) = InodeAt(n % InodeNoSize, i) /\ InodeSync(i).no = n % InodeNoSize
    BY DEF InodeSync, InodeAt
  <1>2. InodeSync(i) \in Writes
    BY <1>1, SyncedNumbers, WriteKinds
  <1> QED
    BY <1>1, <1>2 DEF Truncated, Synced

\* The record of an inode has its number.
LEMMA InodeNumber ==
  ASSUME NEW V, NEW D, Rests(V, D), NEW n \in V
  PROVE  Ino(n).i_no = n /\ Ino(n) \in Inode /\ n \in Inodes /\ n \in Synced
  BY DEF Rests, Img, Recorded, Inside, Ino, Disk

\* Nothing is free: the kernel stops.
LEMMA StarvedBegins ==
  ASSUME NEW V, NEW D, Rests(V, D), mem \in Bitmaps, NEW kind \in {"create", "mkdir", "unlink", "rmdir", "write"}, Starved(kind)
  PROVE  Begins(kind)
  <1>1. op' = kind /\ todo' = <<Halt>> /\ mem' = mem /\ disk' = disk /\ cuts' = cuts /\ damaged' = damaged /\ halted' = halted
    BY DEF Starved, Run
  <1>2. Ready(kind, mem, cuts, halted, disk, <<Halt>>)
    BY RestImage, ReadyHalt DEF Rests
  <1> QED
    BY <1>1, <1>2 DEF Begins, Rests

\* The least free block is of no inode.
LEMMA FreeOne ==
  ASSUME NEW V, NEW D, Rests(V, D), NEW T \in SUBSET Blocks, NEW S, disk.bmap \subseteq S, T = Blocks \ S, T # {}
  PROVE  Least(T) \in Blocks /\ Least(T) \notin S /\ Least(T) \notin SectorsOf(disk, V)
  <1>1. T \in SUBSET Nat
    BY DiskConstants
  <1>2. Least(T) \in T
    BY <1>1, LeastOf
  <1> QED
    BY <1>2 DEF Rests, Img, OwnBlocks

-----------------------------------------------------------------------------
\* file_write.

\* An inode of one entry, or one block of data, more, in a new block.
Grown(i, k, b) == [i EXCEPT !.i_sectors[k] = b, !.i_size = @ + 1]

\* An inode with one more block is an inode.
LEMMA GrownInode ==
  ASSUME NEW i \in Inode, NEW k \in 1..Direct, NEW b \in Blocks
  PROVE  /\ Grown(i, k, b) \in Inode /\ Grown(i, k, b).i_no = i.i_no /\ Grown(i, k, b).i_size = i.i_size + 1
         /\ \A l \in 1..Direct : Grown(i, k, b).i_sectors[l] = IF l = k THEN b ELSE i.i_sectors[l]
  <1> DEFINE s == [i.i_sectors EXCEPT ![k] = b]
             j == [i_no |-> i.i_no, i_size |-> i.i_size + 1, i_sectors |-> s]
  <1>1. i.i_no \in Inodes /\ i.i_size \in Nat /\ i.i_sectors \in [1..Direct -> Blocks \cup {NULL}]
        /\ i = [i_no |-> i.i_no, i_size |-> i.i_size, i_sectors |-> i.i_sectors]
    BY DEF Inode
  <1>2. Grown(i, k, b) = j
    <2>1. Grown(i, k, b) = [i EXCEPT !.i_sectors[k] = b, !.i_size = i.i_size + 1]
      BY Zenon DEF Grown
    <2>2. Grown(i, k, b) = [i EXCEPT !.i_sectors = s, !.i_size = i.i_size + 1]
      BY <2>1, Zenon
    <2> HIDE DEF s
    <2> QED
      BY <1>1, <2>2
  <1>3. s \in [1..Direct -> Blocks \cup {NULL}] /\ \A l \in 1..Direct : s[l] = IF l = k THEN b ELSE i.i_sectors[l]
    BY <1>1
  <1> HIDE DEF s
  <1>4. j \in Inode /\ j.i_no = i.i_no /\ j.i_size = i.i_size + 1 /\ j.i_sectors = s
    BY <1>1, <1>3 DEF Inode
  <1> HIDE DEF j
  <1> QED
    BY <1>2, <1>3, <1>4

\* file_write with one more block: inode n, which is a file, has a new block b at place k.
LEMMA WrittenImage ==
  ASSUME NEW d, NEW e, NEW V, NEW D, NEW n, NEW k, NEW b,
         Img(d, V, D), n \in V, n \notin D, Longer(d, e, V, n, k, b), e.imap = d.imap,
         e.inode[n].i_no = d.inode[n].i_no, \A v \in V : v # n => e.inode[v] = d.inode[v],
         \A s \in SectorsOf(d, V) : e.block[s] = d.block[s]
  PROVE  Img(e, V, D) /\ SectorsOf(e, V) = SectorsOf(d, V) \cup {b}
  <1>1. Inside(d, V, D) /\ OwnBlocks(d, V) /\ Sized(d, D)
    BY DEF Img
  <1>2. OwnBlocks(e, V) /\ SectorsOf(e, V) = SectorsOf(d, V) \cup {b}
    BY <1>1, LongerOwn
  <1>3. ASSUME NEW m \in D PROVE LooksSame(d, e, m) /\ e.inode[m].i_size = d.inode[m].i_size
    <2>1. m \in V /\ m # n
      BY <1>1, <1>3 DEF Inside
    <2>2. e.inode[m] = d.inode[m]
      BY <2>1
    <2>3. \A l \in UsedOf(d, m) : e.block[Sector(d, m, l)] = d.block[Sector(d, m, l)]
      BY <2>1, SectorsUnder
    <2> QED
      BY <2>2, <2>3, LooksSameFrom
  <1>4. Alike(d, e, V, D)
    BY <1>1, <1>3 DEF Alike, Inside, Sized
  <1> QED
    BY <1>2, <1>4, AlikeImage

\* file_write: the bitmap, the data, the inode.
LEMMA WriteBegins ==
  ASSUME NEW V, NEW D, Rests(V, D), mem \in Bitmaps, NEW p \in D, Write(p)
  PROVE  Begins("write")
  <1>1. PICK f \in Named(Ino(p)) :
          LET i == Ino(f.i_no)
              k == Least((1..Direct) \ Used(i))
              b == Least(FreeBlocks)
          IN /\ f.f_type = "regular"
             /\ Used(i) # 1..Direct
             /\ \/ FreeBlocks = {} /\ Starved("write")
                \/ /\ FreeBlocks # {}
                   /\ Run("write", <<Bmap(mem.bmap \cup {b}), Block(b, NoEntries),
                                    InodeSync([i EXCEPT !.i_sectors[k] = b, !.i_size = @ + 1])>>,
                          [mem EXCEPT !.bmap = @ \cup {b}])
                   /\ UNCHANGED <<halted, damaged>>
    BY DEF Write
  <1> DEFINE n == f.i_no
             i == Ino(n)
             k == Least((1..Direct) \ Used(i))
             b == Least(FreeBlocks)
             j == Grown(i, k, b)
             B == mem.bmap \cup {b}
             w == <<Bmap(B), Block(b, NoEntries), InodeSync(j)>>
             m == [mem EXCEPT !.bmap = @ \cup {b}]
  <1>2. n \in V /\ n \in Inodes /\ n \notin D
    <2>1. f.f_type # "directory"
      BY <1>1
    <2> QED
      BY <2>1, EntryOf
  <1>3. CASE Starved("write")
    BY <1>3, StarvedBegins
  <1>4. CASE FreeBlocks # {} /\ Run("write", w, m) /\ UNCHANGED <<halted, damaged>>
    <2>1. Used(i) # 1..Direct /\ Used(i) = UsedOf(disk, n) /\ i = disk.inode[n] /\ i \in Inode /\ i.i_no = n /\ n \in Synced
      BY <1>1, <1>2, OfDisk, InodeNumber DEF Ino
    <2>2. k \in 1..Direct /\ k \notin UsedOf(disk, n)
      <3>1. (1..Direct) \ Used(i) \in SUBSET Nat /\ (1..Direct) \ Used(i) # {}
        BY <2>1 DEF Used
      <3>2. k \in (1..Direct) \ Used(i)
        BY <3>1, LeastOf
      <3> QED
        BY <3>2, <2>1
    <2>3. b \in Blocks /\ b \notin mem.bmap /\ b \notin SectorsOf(disk, V)
      BY <1>4, FreeOne DEF FreeBlocks, Rests
    <2>4. /\ disk \in Disk /\ disk.magic /\ Img(disk, V, D) /\ mem.imap = disk.imap /\ mem.bmap = disk.bmap /\ halted \in BOOLEAN
          /\ cuts = 0 => disk.imap = V /\ (halted \/ disk.bmap = SectorsOf(disk, V))
          /\ SectorsOf(disk, V) \subseteq disk.bmap
      BY DEF Rests, Img, OwnBlocks
    <2>5. j \in Inode /\ j.i_no = n /\ \A l \in 1..Direct : j.i_sectors[l] = IF l = k THEN b ELSE i.i_sectors[l]
      <3>1. i \in Inode /\ k \in 1..Direct /\ b \in Blocks /\ i.i_no = n
        BY <2>1, <2>2, <2>3
      <3> HIDE DEF i, k, b, n
      <3> QED
        BY <3>1, GrownInode
    <2>6. m.imap = mem.imap /\ m.bmap = B /\ m \in Bitmaps /\ m = [imap |-> mem.imap, bmap |-> B]
      BY <2>3 DEF Bitmaps
    <2>7. B \in SUBSET Blocks
      BY <2>3 DEF Bitmaps
    <2>8. InodeSync(j) = InodeAt(n, j)
      BY <2>1, <2>5, SyncIs
    <2>9. /\ op' = "write" /\ todo' = w /\ mem' = m /\ disk' = disk /\ cuts' = cuts /\ damaged' = damaged /\ halted' = halted
      BY <1>4 DEF Run
    <2>10. \A l \in 1..Direct : j.i_sectors[l] = IF l = k THEN b ELSE Sector(disk, n, l)
      BY <2>1, <2>5 DEF Sector
    <2>11. k \notin UsedOf(disk, n) /\ NULL # b
      BY <2>2, <2>3, DiskConstants
    <2> DEFINE w1 == Bmap(B)
               w2 == Block(b, NoEntries)
               w3 == InodeAt(n, j)
               d1 == Stored(disk, w1)
               d2 == Stored(d1, w2)
               d3 == Stored(d2, w3)
    <2> HIDE DEF n, i, k, b, j, B, m
    <2>12. w1 \in Writes /\ w2 \in Writes /\ w3 \in Writes /\ w1 # Halt /\ w2 # Halt /\ w3 # Halt /\ NoEntries \in Content
      BY <1>2, <2>3, <2>5, <2>7, WriteKinds, KindsOf, SomeValues
    <2>13. d1 \in Disk /\ d1.magic /\ d1.imap = disk.imap /\ d1.bmap = B /\ d1.inode = disk.inode /\ d1.block = disk.block
      BY <2>4, <2>7, StoredBmap
    <2> HIDE DEF d1
    <2>14. /\ d2 \in Disk /\ d2.magic /\ d2.imap = disk.imap /\ d2.bmap = B /\ d2.inode = disk.inode
           /\ \A x \in Blocks : x # b => d2.block[x] = disk.block[x]
      BY <2>3, <2>12, <2>13, StoredBlock
    <2> HIDE DEF d2
    <2>15. /\ d3 \in Disk /\ d3.magic /\ d3.imap = disk.imap /\ d3.bmap = B /\ d3.block = d2.block
           /\ d3.inode[n] = j /\ \A x \in Inodes : x # n => d3.inode[x] = disk.inode[x]
      BY <1>2, <2>5, <2>14, StoredInode
    <2> HIDE DEF d3
    <2>16. /\ mem.bmap \subseteq B /\ b \in B /\ SectorsOf(disk, V) \subseteq B
           /\ \A s \in SectorsOf(disk, V) : d2.block[s] = disk.block[s] /\ d1.block[s] = disk.block[s]
      <3>1. mem.bmap \subseteq B /\ b \in B
        BY DEF B
      <3>2. \A s \in SectorsOf(disk, V) : s \in Blocks /\ s # b
        BY <2>3, <2>4 DEF Disk
      <3> QED
        BY <3>1, <3>2, <2>4, <2>13, <2>14
    <2>17. Image(d1) /\ Image(d2)
      <3>1. Spare(disk, d1, V) /\ Spare(disk, d2, V)
        BY <2>4, <2>13, <2>14, <2>16 DEF Spare
      <3> QED
        BY <3>1, <2>4, SpareImage DEF Image
    <2>18. Longer(disk, d3, V, n, k, b)
      <3>1. \A l \in 1..Direct : Sector(d3, n, l) = IF l = k THEN b ELSE Sector(disk, n, l)
        BY <2>10, <2>15 DEF Sector
      <3>2. UsedOf(d3, n) = UsedOf(disk, n) \cup {k}
        BY <3>1, <2>2, <2>11 DEF UsedOf
      <3>3. \A l \in UsedOf(disk, n) : Sector(d3, n, l) = Sector(disk, n, l)
        BY <3>1, <2>11 DEF UsedOf
      <3>4. \A v \in V : v # n => SameSectors(disk, d3, v)
        <4>1. \A v \in V : v # n => d3.inode[v] = disk.inode[v]
          BY <2>15, RestImage
        <4> QED
          BY <4>1 DEF SameSectors, UsedOf, Sector
      <3>5. Sector(d3, n, k) = b
        BY <3>1, <2>2
      <3> QED
        BY <1>2, <2>3, <2>11, <2>15, <2>16, <3>2, <3>3, <3>4, <3>5 DEF Longer
    <2>19. Img(d3, V, D) /\ SectorsOf(d3, V) = SectorsOf(disk, V) \cup {b}
      <3>1. \A v \in V : v # n => d3.inode[v] = disk.inode[v]
        BY <2>15, RestImage
      <3>2. d3.inode[n].i_no = disk.inode[n].i_no
        BY <2>1, <2>5, <2>15
      <3>3. d3.imap = disk.imap /\ \A s \in SectorsOf(disk, V) : d3.block[s] = disk.block[s]
        BY <2>15, <2>16
      <3> QED
        BY <1>2, <2>4, <2>18, <3>1, <3>2, <3>3, WrittenImage
    <2>20. Whole(d3, cuts, halted) /\ m = BitmapsOf(d3)
      <3>1. cuts = 0 => d3.imap = V /\ (halted \/ d3.bmap = SectorsOf(d3, V))
        BY <2>4, <2>15, <2>19 DEF B
      <3>2. m = BitmapsOf(d3)
        BY <2>4, <2>6, <2>15 DEF BitmapsOf
      <3> QED
        BY <2>15, <2>19, <3>1, <3>2 DEF Whole, Image, Exact
    <2> DEFINE o == "write"
    <2> HIDE DEF w1, w2, w3, o
    <2>21. Ready(o, m, cuts, halted, d3, <<>>)
      BY <2>15, <2>20, ReadyEnd
    <2>22. Ready(o, m, cuts, halted, d2, <<w3>>)
      <3>1. <<w3>> \in Seq(Writes) /\ <<w3>> # <<>> /\ Head(<<w3>>) = w3 /\ Tail(<<w3>>) = <<>>
        BY <2>12
      <3> QED
        BY <3>1, <2>12, <2>14, <2>17, <2>21, ReadyNext DEF d3
    <2>23. Ready(o, m, cuts, halted, d1, <<w2, w3>>)
      <3>1. <<w2, w3>> \in Seq(Writes) /\ <<w2, w3>> # <<>> /\ Head(<<w2, w3>>) = w2 /\ Tail(<<w2, w3>>) = <<w3>>
        BY <2>12
      <3> QED
        BY <3>1, <2>12, <2>13, <2>17, <2>22, ReadyNext DEF d2
    <2>24. <<w1, w2, w3>> \in Seq(Writes) /\ <<w1, w2, w3>> # <<>> /\ Head(<<w1, w2, w3>>) = w1 /\ Tail(<<w1, w2, w3>>) = <<w2, w3>>
      BY <2>12
    <2>25. Ready(o, m, cuts, halted, disk, <<w1, w2, w3>>)
      <3>1. Image(disk)
        BY <2>4 DEF Image
      <3> QED
        BY <2>24, <3>1, <2>4, <2>12, <2>23, ReadyNext DEF d1
    <2>26. todo' = <<w1, w2, w3>>
      BY <2>8, <2>9 DEF w1, w2, w3
    <2> QED
      BY <2>4, <2>6, <2>9, <2>24, <2>25, <2>26 DEF Begins, o
  <1> QED
    BY <1>1, <1>3, <1>4 DEF Grown

-----------------------------------------------------------------------------
\* file_create and sys_mkdir: entering a new inode.

\* The blocks of an inode.
HasJust(e, n, B) ==
  /\ \A k \in UsedOf(e, n) : Sector(e, n, k) \in B
  /\ \A s \in B : \E k \in UsedOf(e, n) : s = Sector(e, n, k)
  /\ \A k, l \in UsedOf(e, n) : Sector(e, n, k) = Sector(e, n, l) => k = l

\* One more inode, with blocks of its own.
Separate(e, V, n, B) ==
  OwnBlocks(e, V) /\ n \notin V /\ HasJust(e, n, B) /\ \A s \in B : s \in e.bmap /\ s \notin SectorsOf(e, V)

\* One more inode with blocks nobody has: every inode owns its blocks still.
LEMMA MoreOwn ==
  ASSUME NEW e, NEW V, NEW n, NEW B, Separate(e, V, n, B)
  PROVE  OwnBlocks(e, V \cup {n}) /\ SectorsOf(e, V \cup {n}) = SectorsOf(e, V) \cup B
  <1> DEFINE W == V \cup {n}
  <1>1. ASSUME NEW s
        PROVE  s \in SectorsOf(e, W) <=> s \in SectorsOf(e, V) \cup B
    <2>1. s \in SectorsOf(e, W) <=> \E v \in W : \E l \in UsedOf(e, v) : s = Sector(e, v, l)
      BY DEF SectorsOf
    <2>2. s \in SectorsOf(e, V) <=> \E v \in V : \E l \in UsedOf(e, v) : s = Sector(e, v, l)
      BY DEF SectorsOf
    <2>3. s \in B <=> \E l \in UsedOf(e, n) : s = Sector(e, n, l)
      BY DEF HasJust, Separate
    <2> QED
      BY <2>1, <2>2, <2>3
  <1>2. SectorsOf(e, W) = SectorsOf(e, V) \cup B
    BY <1>1
  <1>3. ASSUME NEW v \in W, NEW w \in W, NEW k \in UsedOf(e, v), NEW l \in UsedOf(e, w), Sector(e, v, k) = Sector(e, w, l)
        PROVE  v = w /\ k = l
    <2>1. v \in V => Sector(e, v, k) \in SectorsOf(e, V)
      BY SectorsUnder
    <2>2. w \in V => Sector(e, w, l) \in SectorsOf(e, V)
      BY SectorsUnder
    <2>3. CASE v \in V /\ w \in V
      BY <2>3, <1>3 DEF OwnBlocks, Separate
    <2>4. CASE v = n /\ w = n
      BY <2>4, <1>3 DEF HasJust, Separate
    <2>5. CASE v \in V /\ w = n
      BY <2>5, <2>1, <1>3 DEF HasJust, Separate
    <2>6. CASE v = n /\ w \in V
      BY <2>6, <2>2, <1>3 DEF HasJust, Separate
    <2> QED
      BY <2>3, <2>4, <2>5, <2>6
  <1>4. SectorsOf(e, W) \subseteq e.bmap
    BY <1>2 DEF OwnBlocks, Separate
  <1> QED
    BY <1>2, <1>3, <1>4 DEF OwnBlocks, Separate

\* Directory p has entry f at the new place x.
NewPlace(d, e, p, x, f) ==
  /\ x \notin PlacesOf(d, p) /\ PlacesOf(e, p) = PlacesOf(d, p) \cup {x}
  /\ \A y \in PlacesOf(d, p) : EntryAt(e, p, y) = EntryAt(d, p, y)
  /\ EntryAt(e, p, x) = f /\ UsedOf(e, p) = UsedOf(d, p) \cup {x[1]}
  /\ x[2] \in 1..PerBlock /\ x = <<x[1], x[2]>>

\* The new inode n, which is a directory with block b if N has it.
NewInode(e, n, N, p, b) ==
  /\ n \in N => e.inode[n] = DirInode(n, b) /\ e.block[b] = Dots(n, p)
  /\ n \notin N => e.inode[n].i_no = n /\ UsedOf(e, n) = {}

\* The rest is as it was.
Beside(d, e, V, D, p) ==
  /\ \A v \in V : v # p => e.inode[v] = d.inode[v]
  /\ \A m \in D : m # p => \A k \in UsedOf(d, m) : e.block[Sector(d, m, k)] = d.block[Sector(d, m, k)]
  /\ e.inode[p].i_no = d.inode[p].i_no /\ e.inode[p].i_size = d.inode[p].i_size + 1

\* An image with a new place for a new inode, whatever block the place is in.
LEMMA EnteredImage ==
  ASSUME NEW d \in Disk, NEW e \in Disk, NEW V, NEW D, NEW p \in D, NEW x, NEW f, NEW n \in Inodes, NEW N, NEW b \in Blocks,
         Img(d, V, D), n \in Synced, n \notin V, N \subseteq {n}, f.i_no = n, f.filename \in Names, f.f_type = "directory" <=> n \in N,
         \A y \in NamedOf(d, p) : EntryAt(d, p, y).filename # f.filename,
         NewPlace(d, e, p, x, f), NewInode(e, n, N, p, b), Beside(d, e, V, D, p),
         V \cup {n} \subseteq e.imap, OwnBlocks(e, V), n \in N => b \in e.bmap /\ b \notin SectorsOf(e, V)
  PROVE  Img(e, V \cup {n}, D \cup N) /\ SectorsOf(e, V \cup {n}) = SectorsOf(e, V) \cup {s \in {b} : n \in N}
  <1>1. Inside(d, V, D) /\ Sized(d, D) /\ Needed(d, D) /\ D \subseteq V /\ p \in Inodes /\ p \in V
    BY DEF Img, Inside
  <1> DEFINE B == {s \in {b} : n \in N}
  <1>2. n \in N => NewDirectory(e, n, p) /\ Sector(e, n, 1) = b /\ e.inode[n].i_no = n
    BY <1>1, DotsLook DEF NewInode
  <1>3. OwnBlocks(e, V \cup {n}) /\ SectorsOf(e, V \cup {n}) = SectorsOf(e, V) \cup B
    <2>1. CASE n \in N
      <3>1. B = {b} /\ UsedOf(e, n) = {1} /\ Sector(e, n, 1) = b /\ b \in e.bmap /\ b \notin SectorsOf(e, V)
        BY <2>1, <1>2 DEF NewDirectory
      <3> HIDE DEF B
      <3>2. B \cap SectorsOf(e, V) = {} /\ B \subseteq e.bmap
        BY <3>1
      <3>3. \A k \in UsedOf(e, n) : Sector(e, n, k) \in B
        BY <3>1
      <3>4. \A s \in B : \E k \in UsedOf(e, n) : s = Sector(e, n, k)
        BY <3>1
      <3>5. \A k, l \in UsedOf(e, n) : Sector(e, n, k) = Sector(e, n, l) => k = l
        BY <3>1
      <3>6. HasJust(e, n, B)
        BY <3>3, <3>4, <3>5 DEF HasJust
      <3>7. Separate(e, V, n, B)
        BY <3>2, <3>6 DEF Separate
      <3> QED
        BY <3>7, MoreOwn
    <2>2. CASE n \notin N
      <3>1. B = {} /\ UsedOf(e, n) = {}
        BY <2>2 DEF NewInode
      <3> HIDE DEF B
      <3>2. HasJust(e, n, B) /\ B \subseteq e.bmap /\ B \cap SectorsOf(e, V) = {}
        BY <3>1 DEF HasJust
      <3>7. Separate(e, V, n, B)
        BY <3>2 DEF Separate
      <3> QED
        BY <3>7, MoreOwn
    <2> QED
      BY <2>1, <2>2
  <1>4. ASSUME NEW m \in D, m # p PROVE LooksSame(d, e, m) /\ e.inode[m].i_size = d.inode[m].i_size
    <2>1. e.inode[m] = d.inode[m] /\ \A k \in UsedOf(d, m) : e.block[Sector(d, m, k)] = d.block[Sector(d, m, k)]
      BY <1>1, <1>4 DEF Beside
    <2> QED
      BY <2>1, LooksSameFrom
  <1>5. Cardinality(PlacesOf(e, p)) <= e.inode[p].i_size
    <2>1. IsFiniteSet(PlacesOf(d, p)) /\ Cardinality(PlacesOf(d, p)) \in Nat
      BY <1>1, PlacesFinite
    <2>2. x \notin PlacesOf(d, p) /\ PlacesOf(e, p) = PlacesOf(d, p) \cup {x}
      BY DEF NewPlace
    <2>3. Cardinality(PlacesOf(e, p)) = Cardinality(PlacesOf(d, p)) + 1
      BY <2>1, <2>2, FS_AddElement
    <2>4. Cardinality(PlacesOf(d, p)) <= d.inode[p].i_size /\ d.inode[p].i_size \in Nat /\ e.inode[p].i_size = d.inode[p].i_size + 1
      BY <1>1 DEF Sized, Beside, Disk, Inode
    <2> QED
      BY <2>1, <2>3, <2>4
  <1>6. ASSUME NEW k \in UsedOf(e, p), k # 1 PROVE \E j \in 1..PerBlock : <<k, j>> \in PlacesOf(e, p)
    <2>1. CASE k \in UsedOf(d, p)
      BY <2>1, <1>1, <1>6 DEF Needed, NewPlace
    <2>2. CASE k = x[1]
      BY <2>2 DEF NewPlace
    <2> QED
      BY <2>1, <2>2, <1>6 DEF NewPlace
  <1>7. e.inode[n].i_no = n /\ \A v \in V : e.inode[v].i_no = d.inode[v].i_no
    BY <1>2 DEF NewInode, Beside
  <1>8. Gained(d, e, V, D, p, x, n, N)
    BY <1>2, <1>4, <1>5, <1>6, <1>7 DEF Gained, NewPlace
  <1> QED
    BY <1>3, <1>8, GainedImage

\* sync_dir_entry in a block that is there.
InPlace(d, e, V, p, k, j, f) ==
  /\ \A l \in 1..Direct : Sector(e, p, l) = Sector(d, p, l)
  /\ e.block[Sector(d, p, k)][j] = f
  /\ \A i \in 1..PerBlock : i # j => e.block[Sector(d, p, k)][i] = d.block[Sector(d, p, k)][i]
  /\ \A s \in SectorsOf(d, V) : s # Sector(d, p, k) => e.block[s] = d.block[s]
  /\ \A v \in V : v # p => e.inode[v] = d.inode[v]

\* sync_dir_entry in a new block.
InNewBlock(d, e, V, p, k, b, f) ==
  /\ \A l \in 1..Direct : Sector(e, p, l) = IF l = k THEN b ELSE Sector(d, p, l)
  /\ e.block[b][1] = f /\ \A i \in 1..PerBlock : i # 1 => e.block[b][i] = NULL
  /\ \A s \in SectorsOf(d, V) : e.block[s] = d.block[s]
  /\ \A v \in V : v # p => e.inode[v] = d.inode[v]

\* sync_dir_entry in a block that is there makes a new place.
LEMMA FillsPlace ==
  ASSUME NEW d \in Disk, NEW e, NEW V, NEW D, NEW p \in D, NEW k \in UsedOf(d, p), NEW j \in 1..PerBlock, NEW f \in Entry,
         Img(d, V, D), EntryAt(d, p, <<k, j>>) = NULL, InPlace(d, e, V, p, k, j, f)
  PROVE  /\ NewPlace(d, e, p, <<k, j>>, f)
         /\ \A v \in V : SameSectors(d, e, v)
         /\ \A m \in D : m # p => \A l \in UsedOf(d, m) : e.block[Sector(d, m, l)] = d.block[Sector(d, m, l)]
  <1>1. OwnBlocks(d, V) /\ D \subseteq V /\ p \in Inodes /\ p \in V
    BY DEF Img, Inside
  <1>2. f # NULL
    BY DiskConstants
  <1>3. UsedOf(e, p) = UsedOf(d, p) /\ \A l \in UsedOf(d, p) : Sector(e, p, l) = Sector(d, p, l)
    BY DEF UsedOf, InPlace
  <1>4. ASSUME NEW v \in V, NEW l \in UsedOf(d, v), ~(v = p /\ l = k)
        PROVE  e.block[Sector(d, v, l)] = d.block[Sector(d, v, l)]
    <2>1. Sector(d, v, l) \in SectorsOf(d, V)
      BY SectorsUnder
    <2>2. Sector(d, v, l) # Sector(d, p, k)
      BY <1>1, <1>4 DEF OwnBlocks
    <2> QED
      BY <2>1, <2>2 DEF InPlace
  <1> DEFINE x == <<k, j>>
  <1>5. EntryAt(e, p, x) = f /\ x[1] = k /\ x[2] = j
    BY <1>3 DEF EntryAt, InPlace
  <1>6. ASSUME NEW y \in UsedOf(d, p) \X (1..PerBlock), y # x
        PROVE  EntryAt(e, p, y) = EntryAt(d, p, y)
    <2>1. y[1] \in UsedOf(d, p) /\ y[2] \in 1..PerBlock /\ y = <<y[1], y[2]>>
      BY <1>6
    <2>2. CASE y[1] = k
      <3>1. y[2] # j
        BY <2>1, <2>2, <1>6
      <3> QED
        BY <2>1, <2>2, <3>1, <1>3 DEF EntryAt, InPlace
    <2>3. CASE y[1] # k
      BY <2>1, <2>3, <1>1, <1>3, <1>4 DEF EntryAt
    <2> QED
      BY <2>2, <2>3
  <1>7. x \notin PlacesOf(d, p) /\ x \in UsedOf(d, p) \X (1..PerBlock)
    BY DEF PlacesOf
  <1> HIDE DEF x
  <1>8. \A y \in PlacesOf(d, p) : EntryAt(e, p, y) = EntryAt(d, p, y)
    BY <1>6, <1>7 DEF PlacesOf
  <1>9. PlacesOf(e, p) = PlacesOf(d, p) \cup {x}
    <2>1. ASSUME NEW y
          PROVE  y \in PlacesOf(e, p) <=> y \in PlacesOf(d, p) \cup {x}
      BY <1>2, <1>3, <1>5, <1>6, <1>7 DEF PlacesOf
    <2> QED
      BY <2>1
  <1>10. NewPlace(d, e, p, x, f)
    BY <1>3, <1>5, <1>7, <1>8, <1>9 DEF NewPlace, x
  <1>11. \A v \in V : SameSectors(d, e, v)
    BY <1>3 DEF SameSectors, InPlace, UsedOf, Sector
  <1>12. \A m \in D : m # p => \A l \in UsedOf(d, m) : e.block[Sector(d, m, l)] = d.block[Sector(d, m, l)]
    BY <1>1, <1>4
  <1> QED
    BY <1>10, <1>11, <1>12 DEF x

Fresh(d, e, V, p, k, b) ==
  k \notin UsedOf(d, p) /\ b \notin SectorsOf(d, V) /\ b \in e.bmap /\ SectorsOf(d, V) \subseteq e.bmap

\* sync_dir_entry in a new block makes a new place.
LEMMA FillsBlock ==
  ASSUME NEW d \in Disk, NEW e, NEW V, NEW D, NEW p \in D, NEW k \in 1..Direct, NEW b \in Blocks, NEW f \in Entry,
         Img(d, V, D), InNewBlock(d, e, V, p, k, b, f), Fresh(d, e, V, p, k, b)
  PROVE  /\ NewPlace(d, e, p, <<k, 1>>, f)
         /\ Longer(d, e, V, p, k, b)
         /\ \A m \in D : m # p => \A l \in UsedOf(d, m) : e.block[Sector(d, m, l)] = d.block[Sector(d, m, l)]
  <1>1. OwnBlocks(d, V) /\ D \subseteq V /\ p \in Inodes /\ p \in V
    BY DEF Img, Inside
  <1> USE DEF Fresh
  <1>2. f # NULL /\ b # NULL /\ 1 \in 1..PerBlock
    BY DiskConstants
  <1>3. UsedOf(e, p) = UsedOf(d, p) \cup {k} /\ (\A l \in UsedOf(d, p) : Sector(e, p, l) = Sector(d, p, l)) /\ Sector(e, p, k) = b
    <2>1. \A l \in 1..Direct : l \in UsedOf(e, p) <=> l \in UsedOf(d, p) \cup {k}
      BY <1>2 DEF UsedOf, InNewBlock
    <2>2. UsedOf(e, p) \subseteq 1..Direct /\ UsedOf(d, p) \cup {k} \subseteq 1..Direct
      BY DEF UsedOf
    <2>3. UsedOf(e, p) = UsedOf(d, p) \cup {k}
      BY <2>1, <2>2
    <2> QED
      BY <2>3 DEF InNewBlock, UsedOf
  <1>4. ASSUME NEW v \in V, NEW l \in UsedOf(d, v)
        PROVE  e.block[Sector(d, v, l)] = d.block[Sector(d, v, l)]
    BY SectorsUnder DEF InNewBlock
  <1> DEFINE x == <<k, 1>>
  <1>5. EntryAt(e, p, x) = f /\ x[1] = k /\ x[2] = 1
    BY <1>3 DEF EntryAt, InNewBlock
  <1>6. ASSUME NEW y \in UsedOf(d, p) \X (1..PerBlock)
        PROVE  EntryAt(e, p, y) = EntryAt(d, p, y)
    <2>1. y[1] \in UsedOf(d, p)
      BY <1>6
    <2> QED
      BY <2>1, <1>1, <1>3, <1>4 DEF EntryAt
  <1>7. x \notin PlacesOf(d, p) /\ x \in UsedOf(e, p) \X (1..PerBlock)
    BY <1>2, <1>3 DEF PlacesOf
  <1>8. ASSUME NEW y \in UsedOf(e, p) \X (1..PerBlock), y # x
        PROVE  y \in UsedOf(d, p) \X (1..PerBlock) \/ EntryAt(e, p, y) = NULL
    <2>1. y[1] \in UsedOf(e, p) /\ y[2] \in 1..PerBlock /\ y = <<y[1], y[2]>>
      BY <1>8
    <2>2. CASE y[1] = k
      <3>1. y[2] # 1
        BY <2>1, <2>2, <1>8
      <3> QED
        BY <2>1, <2>2, <3>1, <1>3 DEF EntryAt, InNewBlock
    <2>3. CASE y[1] # k
      BY <2>1, <2>3, <1>3
    <2> QED
      BY <2>2, <2>3
  <1> HIDE DEF x
  <1>9. \A y \in PlacesOf(d, p) : EntryAt(e, p, y) = EntryAt(d, p, y)
    BY <1>6 DEF PlacesOf
  <1>10. PlacesOf(e, p) = PlacesOf(d, p) \cup {x}
    <2>0. UsedOf(d, p) \X (1..PerBlock) \subseteq UsedOf(e, p) \X (1..PerBlock)
      BY <1>3
    <2>1. ASSUME NEW y
          PROVE  y \in PlacesOf(e, p) <=> y \in PlacesOf(d, p) \cup {x}
      BY <2>0, <1>2, <1>5, <1>6, <1>7, <1>8 DEF PlacesOf
    <2> QED
      BY <2>1
  <1>11. NewPlace(d, e, p, x, f)
    <2>1. UsedOf(e, p) = UsedOf(d, p) \cup {x[1]} /\ x[2] \in 1..PerBlock /\ x = <<x[1], x[2]>>
      BY <1>2, <1>3, <1>5 DEF x
    <2> QED
      BY <2>1, <1>5, <1>7, <1>9, <1>10 DEF NewPlace
  <1>12. \A v \in V : v # p => SameSectors(d, e, v)
    BY DEF SameSectors, InNewBlock, UsedOf, Sector
  <1>13. Longer(d, e, V, p, k, b)
    BY <1>1, <1>3, <1>12 DEF Longer
  <1>14. \A m \in D : m # p => \A l \in UsedOf(d, m) : e.block[Sector(d, m, l)] = d.block[Sector(d, m, l)]
    BY <1>1, <1>4
  <1> QED
    BY <1>11, <1>13, <1>14 DEF x

\* Entry f of directory p is to be made for the new inode n, with record i; what is written
\* first has led to disk d, where a new directory has block b.
Entering(V, D, d, p, f, n, i, N, b) ==
  /\ Rests(V, D) /\ d \in Disk /\ d.magic /\ Spare(disk, d, V)
  /\ p \in D /\ n \in Inodes /\ n \notin disk.imap /\ N \subseteq {n}
  /\ f \in Entry /\ f.filename \in Names /\ f.i_no = n /\ (f.f_type = "directory" <=> n \in N)
  /\ \A y \in NamedOf(disk, p) : EntryAt(disk, p, y).filename # f.filename
  /\ i \in Inode /\ i.i_no = n /\ b \in Blocks
  /\ n \in N => i = DirInode(n, b) /\ d.block[b] = Dots(n, p) /\ b \notin SectorsOf(disk, V)
  /\ n \notin N => i.i_sectors = NoBlocks
  /\ d.bmap = disk.bmap \cup {s \in {b} : n \in N}

\* What is known when an entry is to be made.
LEMMA EnteringFacts ==
  ASSUME NEW V, NEW D, NEW d, NEW p, NEW f, NEW n, NEW i, NEW N, NEW b, Entering(V, D, d, p, f, n, i, N, b)
  PROVE  /\ Img(disk, V, D) /\ OwnBlocks(disk, V) /\ p \in V /\ p \in Inodes /\ n \notin V /\ n # p /\ Image(d)
         /\ SectorsOf(disk, V) \subseteq disk.bmap /\ SectorsOf(disk, V) \subseteq Blocks /\ disk.bmap \subseteq d.bmap
         /\ d.imap = disk.imap /\ d.inode = disk.inode /\ \A s \in SectorsOf(disk, V) : d.block[s] = disk.block[s]
         /\ n \in N => b \in d.bmap
         /\ disk \in Disk
  <1>1. Rests(V, D) /\ Img(disk, V, D) /\ OwnBlocks(disk, V) /\ Inside(disk, V, D) /\ disk \in Disk
    BY DEF Entering, Rests, Img
  <1>2. p \in V /\ p \in Inodes /\ n \notin V /\ n # p
    BY <1>1 DEF Inside, Entering
  <1>3. SectorsOf(disk, V) \subseteq disk.bmap /\ SectorsOf(disk, V) \subseteq Blocks
    BY <1>1 DEF OwnBlocks, Disk
  <1>4. Spare(disk, d, V)
    BY DEF Entering
  <1>5. Image(d)
    BY <1>1, <1>4, SpareImage DEF Image
  <1>6. n \in N => b \in d.bmap
    BY DEF Entering
  <1> QED
    BY <1>1, <1>2, <1>3, <1>4, <1>5, <1>6 DEF Spare

\* After the last write of file_create or sys_mkdir the file system is at rest.
LEMMA LastWhole ==
  ASSUME NEW V, NEW D, NEW d, NEW p, NEW f, NEW n, NEW i, NEW N, NEW b, Entering(V, D, d, p, f, n, i, N, b), n \in Synced,
         NEW e \in Disk, NEW X, NEW x, e.magic, e.imap = disk.imap \cup {n}, e.bmap = d.bmap \cup X,
         OwnBlocks(e, V), SectorsOf(e, V) = SectorsOf(disk, V) \cup X, n \in N => b \notin X,
         NewPlace(disk, e, p, x, f), Beside(disk, e, V, D, p), NewInode(e, n, N, p, b)
  PROVE  Whole(e, cuts, halted)
  <1> DEFINE B == {s \in {b} : n \in N}
  <1>0. Rests(V, D) /\ d.bmap = disk.bmap \cup B /\ (n \in N => b \notin SectorsOf(disk, V))
    BY DEF Entering
  <1>1. /\ disk \in Disk /\ p \in D /\ n \in Inodes /\ b \in Blocks /\ Img(disk, V, D) /\ n \notin V /\ N \subseteq {n} /\ f.i_no = n
        /\ f.filename \in Names /\ (f.f_type = "directory" <=> n \in N)
        /\ \A y \in NamedOf(disk, p) : EntryAt(disk, p, y).filename # f.filename
    <2>1. Img(disk, V, D) /\ disk \in Disk /\ n \notin V
      BY EnteringFacts
    <2> QED
      BY <2>1 DEF Entering
  <1>2. V \cup {n} \subseteq e.imap
    BY <1>1 DEF Img, Inside
  <1>3. n \in N => b \in e.bmap /\ b \notin SectorsOf(e, V)
    BY <1>0
  <1>4. Img(e, V \cup {n}, D \cup N) /\ SectorsOf(e, V \cup {n}) = SectorsOf(e, V) \cup B
    BY <1>1, <1>2, <1>3, EnteredImage, SMTT(60)
  <1>5. cuts = 0 => disk.imap = V /\ (halted \/ disk.bmap = SectorsOf(disk, V))
    BY <1>0 DEF Rests
  <1> HIDE DEF B
  <1>7. cuts = 0 => e.imap = V \cup {n} /\ (halted \/ e.bmap = SectorsOf(e, V \cup {n}))
    BY <1>0, <1>4, <1>5
  <1> QED
    BY <1>4, <1>7 DEF Whole, Image, Exact

\* One write more before the others.
LEMMA ReadyThen ==
  ASSUME NEW o, NEW m, NEW c, NEW h, NEW d \in Disk, NEW a \in Writes, a # Halt, NEW s \in Seq(Writes), Image(d),
         Ready(o, m, c, h, Stored(d, a), s)
  PROVE  <<a>> \o s \in Seq(Writes) /\ <<a>> \o s # <<>> /\ Ready(o, m, c, h, d, <<a>> \o s)
  <1> DEFINE w == <<a>> \o s
  <1>1. w \in Seq(Writes) /\ w # <<>> /\ Head(w) = a /\ Tail(w) = s
    OBVIOUS
  <1> HIDE DEF w
  <1>2. Ready(o, m, c, h, d, w)
    BY <1>1, ReadyNext
  <1> QED
    BY <1>1, <1>2 DEF w

\* The last writes of file_create and sys_mkdir, all in the window.
LEMMA LastThree ==
  ASSUME NEW o \in {"create", "mkdir"}, NEW m, NEW c, NEW h, NEW d \in Disk, NEW w1 \in Writes, NEW w2 \in Writes, NEW w3 \in Writes,
         w1 # Halt, w2 # Halt, w3 # Halt, w1.kind = "inode", w2.kind = "inode", w3.kind = "imap",
         NEW e, e = Stored(Stored(Stored(d, w1), w2), w3), Whole(e, c, h), m = BitmapsOf(e)
  PROVE  Ready(o, m, c, h, d, <<w1, w2, w3>>) /\ <<w1, w2, w3>> \in Seq(Writes)
  <1> DEFINE d1 == Stored(d, w1)
             d2 == Stored(d1, w2)
             d3 == Stored(d2, w3)
  <1>1. d1 \in Disk
    BY StoredTypes
  <1>2. d2 \in Disk
    BY <1>1, StoredTypes
  <1>3. d3 \in Disk
    BY <1>2, StoredTypes
  <1>4. e = d3
    OBVIOUS
  <1> HIDE DEF d1, d2, d3
  <1>5. Ready(o, m, c, h, d3, <<>>)
    BY <1>3, <1>4, ReadyEnd
  <1>6. Ready(o, m, c, h, d2, <<w3>>)
    <2>1. <<w3>> \in Seq(Writes) /\ <<w3>> # <<>> /\ Head(<<w3>>) = w3 /\ Tail(<<w3>>) = <<>>
      OBVIOUS
    <2>2. {<<w3>>[l].kind : l \in DOMAIN <<w3>>} = {"imap"}
      OBVIOUS
    <2>3. Window(o, d2, <<w3>>)
      BY <2>2 DEF Window
    <2> QED
      BY <1>2, <1>5, <2>1, <2>3, ReadyNext DEF d3
  <1>7. Ready(o, m, c, h, d1, <<w2, w3>>)
    <2>1. <<w2, w3>> \in Seq(Writes) /\ <<w2, w3>> # <<>> /\ Head(<<w2, w3>>) = w2 /\ Tail(<<w2, w3>>) = <<w3>>
      OBVIOUS
    <2>2. {<<w2, w3>>[l].kind : l \in DOMAIN <<w2, w3>>} = {"inode", "imap"}
      OBVIOUS
    <2>3. Window(o, d1, <<w2, w3>>)
      BY <2>2 DEF Window
    <2> QED
      BY <1>1, <1>6, <2>1, <2>3, ReadyNext DEF d2
  <1>8. Ready(o, m, c, h, d, <<w1, w2, w3>>) /\ <<w1, w2, w3>> \in Seq(Writes)
    <2>1. <<w1, w2, w3>> \in Seq(Writes) /\ <<w1, w2, w3>> # <<>> /\ Head(<<w1, w2, w3>>) = w1 /\ Tail(<<w1, w2, w3>>) = <<w2, w3>>
      OBVIOUS
    <2>2. {<<w1, w2, w3>>[l].kind : l \in DOMAIN <<w1, w2, w3>>} = {"inode", "imap"}
      OBVIOUS
    <2>3. Window(o, d, <<w1, w2, w3>>)
      BY <2>2 DEF Window
    <2> QED
      BY <1>7, <2>1, <2>3, ReadyNext DEF d1
  <1> QED
    BY <1>8

\* The inodes that are marked then.
Marked(n) == disk.imap \cup {n}

\* c is block k of directory p with f at place j, which was free; i1 the larger directory.
Filled(p, k, j, f, c) ==
  /\ k \in UsedOf(disk, p) /\ j \in 1..PerBlock /\ EntryAt(disk, p, <<k, j>>) = NULL
  /\ c \in Content /\ c[j] = f /\ \A l \in 1..PerBlock : l # j => c[l] = EntryAt(disk, p, <<k, l>>)
LargerDir(p, i1) ==
  /\ i1 \in Inode /\ i1.i_no = p /\ i1.i_size = disk.inode[p].i_size + 1
  /\ \A l \in 1..Direct : i1.i_sectors[l] = Sector(disk, p, l)

FillingWrites(s, c, p, i1, n, i) == <<Block(s, c)>> \o <<InodeAt(p, i1), InodeAt(n, i), Imap(Marked(n))>>
LeadsOn(o, n, d, w) ==
  w \in Seq(Writes) /\ w # <<>> /\ Ready(o, [imap |-> Marked(n), bmap |-> d.bmap], cuts, halted, d, w)

\* The writes of sync_dir_entry and what follows them.
LEMMA EnterInPlace ==
  ASSUME NEW V, NEW D, NEW d, NEW p, NEW f, NEW n, NEW i, NEW N, NEW b, Entering(V, D, d, p, f, n, i, N, b), n \in Synced,
         NEW k, NEW j, NEW c, Filled(p, k, j, f, c), NEW i1, LargerDir(p, i1), NEW o \in {"create", "mkdir"}
  PROVE  LeadsOn(o, n, d, FillingWrites(Sector(disk, p, k), c, p, i1, n, i))
  <1> SUFFICES
         /\ <<Block(Sector(disk, p, k), c)>> \o <<InodeAt(p, i1), InodeAt(n, i), Imap(Marked(n))>> \in Seq(Writes)
         /\ <<Block(Sector(disk, p, k), c)>> \o <<InodeAt(p, i1), InodeAt(n, i), Imap(Marked(n))>> # <<>>
         /\ Ready(o, [imap |-> Marked(n), bmap |-> d.bmap], cuts, halted, d,
                  <<Block(Sector(disk, p, k), c)>> \o <<InodeAt(p, i1), InodeAt(n, i), Imap(Marked(n))>>)
    BY DEF LeadsOn, FillingWrites
  <1> /\ k \in UsedOf(disk, p) /\ j \in 1..PerBlock /\ EntryAt(disk, p, <<k, j>>) = NULL
      /\ c \in Content /\ c[j] = f /\ \A l \in 1..PerBlock : l # j => c[l] = EntryAt(disk, p, <<k, l>>)
    BY DEF Filled
  <1> /\ i1 \in Inode /\ i1.i_no = p /\ i1.i_size = disk.inode[p].i_size + 1
      /\ \A l \in 1..Direct : i1.i_sectors[l] = Sector(disk, p, l)
    BY DEF LargerDir
  <1> DEFINE S == Sector(disk, p, k)
  <1>0. /\ Img(disk, V, D) /\ OwnBlocks(disk, V) /\ p \in V /\ p \in Inodes /\ n \notin V /\ n # p /\ Image(d)
        /\ SectorsOf(disk, V) \subseteq disk.bmap /\ SectorsOf(disk, V) \subseteq Blocks /\ disk.bmap \subseteq d.bmap
        /\ d.imap = disk.imap /\ d.inode = disk.inode /\ (\A s \in SectorsOf(disk, V) : d.block[s] = disk.block[s])
        /\ disk \in Disk
    BY EnteringFacts
  <1>1. d \in Disk /\ d.magic /\ p \in D /\ n \in Inodes /\ i \in Inode /\ i.i_no = n /\ b \in Blocks /\ N \subseteq {n} /\ f \in Entry
    BY DEF Entering
  <1>2. S \in SectorsOf(disk, V) /\ S \in Blocks /\ Marked(n) \in SUBSET Inodes
    <2>1. S \in SectorsOf(disk, V)
      BY <1>0, SectorsUnder
    <2>2. disk.imap \in SUBSET Inodes
      BY <1>0 DEF Disk
    <2> QED
      BY <2>1, <2>2, <1>0, <1>1 DEF Marked
  <1> DEFINE w1 == Block(S, c)
             w2 == InodeAt(p, i1)
             w3 == InodeAt(n, i)
             w4 == Imap(Marked(n))
             m  == [imap |-> Marked(n), bmap |-> d.bmap]
             d1 == Stored(d, w1)
             d2 == Stored(d1, w2)
             d3 == Stored(d2, w3)
             d4 == Stored(d3, w4)
  <1>3. w1 \in Writes /\ w2 \in Writes /\ w3 \in Writes /\ w4 \in Writes /\ w1 # Halt /\ w2 # Halt /\ w3 # Halt /\ w4 # Halt
    BY <1>0, <1>1, <1>2, WriteKinds, KindsOf
  <1>4. w2.kind = "inode" /\ w3.kind = "inode" /\ w4.kind = "imap"
    BY KindsOf
  <1>5. /\ d1 \in Disk /\ d1.magic /\ d1.imap = d.imap /\ d1.bmap = d.bmap /\ d1.inode = disk.inode
        /\ d1.block[S] = c /\ \A x \in Blocks : x # S => d1.block[x] = d.block[x]
    BY SMTT(40), <1>0, <1>1, <1>2, StoredBlock
  <1> HIDE DEF d1
  <1>6. /\ d2 \in Disk /\ d2.magic /\ d2.imap = d.imap /\ d2.bmap = d.bmap /\ d2.block = d1.block
        /\ d2.inode[p] = i1 /\ \A x \in Inodes : x # p => d2.inode[x] = disk.inode[x]
    BY SMTT(40), <1>0, <1>5, StoredInode
  <1> HIDE DEF d2
  <1>7. /\ d3 \in Disk /\ d3.magic /\ d3.imap = d.imap /\ d3.bmap = d.bmap /\ d3.block = d1.block
        /\ d3.inode[p] = i1 /\ d3.inode[n] = i /\ \A x \in Inodes : x # p /\ x # n => d3.inode[x] = disk.inode[x]
    BY SMTT(40), <1>0, <1>1, <1>6, StoredInode
  <1> HIDE DEF d3
  <1>8. /\ d4 \in Disk /\ d4.magic /\ d4.imap = Marked(n) /\ d4.bmap = d.bmap /\ d4.block = d1.block
        /\ d4.inode[p] = i1 /\ d4.inode[n] = i /\ \A x \in Inodes : x # p /\ x # n => d4.inode[x] = disk.inode[x]
    BY <1>2, <1>7, StoredImap
  <1> HIDE DEF d4
  <1>9. /\ \A l \in 1..PerBlock : EntryAt(disk, p, <<k, l>>) = disk.block[S][l]
        /\ \A l \in 1..Direct : Sector(d4, p, l) = Sector(disk, p, l)
        /\ V \subseteq Inodes
    BY <1>0, <1>8 DEF EntryAt, Sector, Img, Inside
  <1>10. InPlace(disk, d4, V, p, k, j, f)
    <2>1. \A s \in SectorsOf(disk, V) : s # S => d4.block[s] = disk.block[s]
      BY <1>0, <1>5, <1>8
    <2>2. \A v \in V : v # p => d4.inode[v] = disk.inode[v]
      BY <1>0, <1>8, <1>9
    <2>3. d4.block[S] = c
      BY <1>5, <1>8
    <2>4. \A l \in 1..PerBlock : l # j => c[l] = disk.block[S][l]
      BY <1>9
    <2> QED
      BY <1>9, <2>1, <2>2, <2>3, <2>4 DEF InPlace
  <1>11. /\ NewPlace(disk, d4, p, <<k, j>>, f)
         /\ \A v \in V : SameSectors(disk, d4, v)
         /\ \A m0 \in D : m0 # p => \A l \in UsedOf(disk, m0) : d4.block[Sector(disk, m0, l)] = disk.block[Sector(disk, m0, l)]
    BY <1>0, <1>1, <1>10, FillsPlace
  <1>12. Whole(d4, cuts, halted)
    <2> DEFINE X == {}
    <2>1. OwnBlocks(d4, V) /\ SectorsOf(d4, V) = SectorsOf(disk, V) \cup X
      <3>1. SectorsOf(disk, V) \subseteq d4.bmap
        BY <1>0, <1>8
      <3>2. SectorsOf(d4, V) = SectorsOf(disk, V)
        BY <1>11 DEF SameSectors, SectorsOf
      <3> QED
        BY <3>1, <3>2, <1>0, <1>11, SameSectorsOwn
    <2>2. Beside(disk, d4, V, D, p)
      <3>1. disk.inode[p].i_no = p
        BY <1>0 DEF Img, Recorded
      <3> QED
        BY <1>8, <1>10, <1>11, <3>1 DEF Beside, InPlace
    <2>3. NewInode(d4, n, N, p, b)
      <3>1. CASE n \in N
        <4>1. b # S /\ i = DirInode(n, b) /\ d.block[b] = Dots(n, p)
          BY <1>2, <3>1 DEF Entering
        <4>2. d4.block[b] = Dots(n, p)
          BY <4>1, <1>1, <1>5, <1>8
        <4> QED
          BY <3>1, <4>1, <4>2, <1>8 DEF NewInode
      <3>2. CASE n \notin N
        <4>1. d4.inode[n].i_sectors = NoBlocks /\ d4.inode[n].i_no = n
          BY <3>2, <1>1, <1>8 DEF Entering
        <4>2. UsedOf(d4, n) = {}
          BY <4>1 DEF UsedOf, Sector, NoBlocks
        <4> QED
          BY <3>2, <4>1, <4>2 DEF NewInode
      <3> QED
        BY <3>1, <3>2
    <2>4. d4.bmap = d.bmap \cup X /\ b \notin X
      BY <1>8
    <2>5. d4.imap = disk.imap \cup {n}
      BY <1>8 DEF Marked
    <2> HIDE DEF X
    <2> QED
      BY <1>8, <1>11, <2>1, <2>2, <2>3, <2>4, <2>5, LastWhole
  <1>13. m = BitmapsOf(d4)
    BY <1>8 DEF BitmapsOf
  <1>14. d4 = Stored(Stored(Stored(d1, w2), w3), w4)
    BY DEF d4, d3, d2
  <1> HIDE DEF w1, w2, w3, w4, m
  <1>15. Ready(o, m, cuts, halted, d1, <<w2, w3, w4>>) /\ <<w2, w3, w4>> \in Seq(Writes)
    BY <1>3, <1>4, <1>5, <1>12, <1>13, <1>14, LastThree
  <1> DEFINE t == <<w2, w3, w4>>
  <1> HIDE DEF t
  <1>16. Ready(o, m, cuts, halted, Stored(d, w1), t) /\ t \in Seq(Writes)
    BY <1>15 DEF t, d1
  <1>17. <<w1>> \o t \in Seq(Writes) /\ <<w1>> \o t # <<>> /\ Ready(o, m, cuts, halted, d, <<w1>> \o t)
    BY <1>0, <1>1, <1>3, <1>16, ReadyThen
  <1> QED
    BY <1>17 DEF w1, w2, w3, w4, m, t

\* The blocks that are marked with a new one.
Taken(d, q) == d.bmap \cup {q}

\* The writes of sync_dir_entry in a new block, and what follows them.
LEMMA EnterInNewBlock ==
  ASSUME NEW V, NEW D, NEW d, NEW p, NEW f, NEW n, NEW i, NEW N, NEW b, Entering(V, D, d, p, f, n, i, N, b), n \in Synced,
         NEW k \in 1..Direct, k \notin UsedOf(disk, p), NEW q \in Blocks, q \notin d.bmap,
         NEW c \in Content, c[1] = f, \A l \in 1..PerBlock : l # 1 => c[l] = NULL,
         NEW i1 \in Inode, i1.i_no = p, i1.i_size = disk.inode[p].i_size + 1,
         \A l \in 1..Direct : i1.i_sectors[l] = IF l = k THEN q ELSE Sector(disk, p, l),
         NEW o \in {"create", "mkdir"}
  PROVE  /\ <<Bmap(Taken(d, q))>> \o (<<Block(q, c)>> \o <<InodeAt(p, i1), InodeAt(n, i), Imap(Marked(n))>>) \in Seq(Writes)
         /\ <<Bmap(Taken(d, q))>> \o (<<Block(q, c)>> \o <<InodeAt(p, i1), InodeAt(n, i), Imap(Marked(n))>>) # <<>>
         /\ Ready(o, [imap |-> Marked(n), bmap |-> Taken(d, q)], cuts, halted, d,
                  <<Bmap(Taken(d, q))>> \o (<<Block(q, c)>> \o <<InodeAt(p, i1), InodeAt(n, i), Imap(Marked(n))>>))
  <1>0. /\ Img(disk, V, D) /\ OwnBlocks(disk, V) /\ p \in V /\ p \in Inodes /\ n \notin V /\ n # p /\ Image(d)
        /\ SectorsOf(disk, V) \subseteq disk.bmap /\ SectorsOf(disk, V) \subseteq Blocks /\ disk.bmap \subseteq d.bmap
        /\ d.imap = disk.imap /\ d.inode = disk.inode /\ (\A s \in SectorsOf(disk, V) : d.block[s] = disk.block[s])
        /\ disk \in Disk
    BY EnteringFacts
  <1>1. d \in Disk /\ d.magic /\ p \in D /\ n \in Inodes /\ i \in Inode /\ i.i_no = n /\ b \in Blocks /\ N \subseteq {n} /\ f \in Entry
    BY DEF Entering
  <1>2. q \notin SectorsOf(disk, V) /\ Taken(d, q) \in SUBSET Blocks /\ Marked(n) \in SUBSET Inodes
    <2>1. d.bmap \in SUBSET Blocks /\ disk.imap \in SUBSET Inodes
      BY <1>0, <1>1 DEF Disk
    <2> QED
      BY <2>1, <1>0, <1>1 DEF Taken, Marked
  <1> DEFINE w0 == Bmap(Taken(d, q))
             w1 == Block(q, c)
             w2 == InodeAt(p, i1)
             w3 == InodeAt(n, i)
             w4 == Imap(Marked(n))
             m  == [imap |-> Marked(n), bmap |-> Taken(d, q)]
             d0 == Stored(d, w0)
             d1 == Stored(d0, w1)
             d2 == Stored(d1, w2)
             d3 == Stored(d2, w3)
             d4 == Stored(d3, w4)
  <1>3. w0 \in Writes /\ w0 # Halt /\ w1 \in Writes /\ w2 \in Writes /\ w3 \in Writes /\ w4 \in Writes /\ w1 # Halt /\ w2 # Halt /\ w3 # Halt /\ w4 # Halt
    BY <1>0, <1>1, <1>2, WriteKinds, KindsOf
  <1>4. w2.kind = "inode" /\ w3.kind = "inode" /\ w4.kind = "imap"
    BY KindsOf
  <1>40. d0 \in Disk /\ d0.magic /\ d0.imap = d.imap /\ d0.bmap = Taken(d, q) /\ d0.inode = disk.inode /\ d0.block = d.block
    BY <1>0, <1>1, <1>2, StoredBmap
  <1> HIDE DEF d0
  <1>5. /\ d1 \in Disk /\ d1.magic /\ d1.imap = d.imap /\ d1.bmap = Taken(d, q) /\ d1.inode = disk.inode
        /\ d1.block[q] = c /\ \A x \in Blocks : x # q => d1.block[x] = d.block[x]
    BY SMTT(40), <1>40, StoredBlock
  <1> HIDE DEF d1
  <1>6. /\ d2 \in Disk /\ d2.magic /\ d2.imap = d.imap /\ d2.bmap = Taken(d, q) /\ d2.block = d1.block
        /\ d2.inode[p] = i1 /\ \A x \in Inodes : x # p => d2.inode[x] = disk.inode[x]
    BY SMTT(40), <1>0, <1>5, StoredInode
  <1> HIDE DEF d2
  <1>7. /\ d3 \in Disk /\ d3.magic /\ d3.imap = d.imap /\ d3.bmap = Taken(d, q) /\ d3.block = d1.block
        /\ d3.inode[p] = i1 /\ d3.inode[n] = i /\ \A x \in Inodes : x # p /\ x # n => d3.inode[x] = disk.inode[x]
    BY SMTT(40), <1>0, <1>1, <1>6, StoredInode
  <1> HIDE DEF d3
  <1>8. /\ d4 \in Disk /\ d4.magic /\ d4.imap = Marked(n) /\ d4.bmap = Taken(d, q) /\ d4.block = d1.block
        /\ d4.inode[p] = i1 /\ d4.inode[n] = i /\ \A x \in Inodes : x # p /\ x # n => d4.inode[x] = disk.inode[x]
    BY <1>2, <1>7, StoredImap
  <1> HIDE DEF d4
  <1>9. V \subseteq Inodes /\ \A l \in 1..Direct : Sector(d4, p, l) = IF l = k THEN q ELSE Sector(disk, p, l)
    BY <1>0, <1>8 DEF Sector, Img, Inside
  <1>10. InNewBlock(disk, d4, V, p, k, q, f)
    <2>1. \A s \in SectorsOf(disk, V) : d4.block[s] = disk.block[s]
      BY <1>0, <1>2, <1>5, <1>8
    <2>2. \A v \in V : v # p => d4.inode[v] = disk.inode[v]
      BY <1>0, <1>8, <1>9
    <2>3. d4.block[q] = c
      BY <1>5, <1>8
    <2> QED
      BY <1>9, <2>1, <2>2, <2>3 DEF InNewBlock
  <1>11. /\ NewPlace(disk, d4, p, <<k, 1>>, f)
         /\ Longer(disk, d4, V, p, k, q)
         /\ \A m0 \in D : m0 # p => \A l \in UsedOf(disk, m0) : d4.block[Sector(disk, m0, l)] = disk.block[Sector(disk, m0, l)]
    <2>1. Fresh(disk, d4, V, p, k, q)
      BY <1>0, <1>2, <1>8 DEF Taken, Fresh
    <2> QED
      BY <2>1, <1>0, <1>1, <1>10, FillsBlock
  <1>20. n \in N => b # q
    BY EnteringFacts
  <1>12. Whole(d4, cuts, halted)
    <2> DEFINE X == {q}
    <2>1. OwnBlocks(d4, V) /\ SectorsOf(d4, V) = SectorsOf(disk, V) \cup X
      BY <1>0, <1>11, LongerOwn
    <2>2. Beside(disk, d4, V, D, p)
      <3>1. disk.inode[p].i_no = p
        BY <1>0 DEF Img, Recorded
      <3> QED
        BY <1>8, <1>10, <1>11, <3>1 DEF Beside, InNewBlock
    <2>3. NewInode(d4, n, N, p, b)
      <3>1. CASE n \in N
        <4>1. b # q /\ i = DirInode(n, b) /\ d.block[b] = Dots(n, p)
          BY <1>1, <3>1, <1>20 DEF Entering
        <4>2. d4.block[b] = Dots(n, p)
          BY <4>1, <1>1, <1>5, <1>8
        <4> QED
          BY <3>1, <4>1, <4>2, <1>8 DEF NewInode
      <3>2. CASE n \notin N
        <4>1. d4.inode[n].i_sectors = NoBlocks /\ d4.inode[n].i_no = n
          BY <3>2, <1>1, <1>8 DEF Entering
        <4>2. UsedOf(d4, n) = {}
          BY <4>1 DEF UsedOf, Sector, NoBlocks
        <4> QED
          BY <3>2, <4>1, <4>2 DEF NewInode
      <3> QED
        BY <3>1, <3>2
    <2>4. d4.bmap = d.bmap \cup X /\ (n \in N => b \notin X)
      BY <1>8, <1>20 DEF Taken
    <2>5. d4.imap = disk.imap \cup {n}
      BY <1>8 DEF Marked
    <2> HIDE DEF X
    <2> QED
      BY <1>8, <1>11, <2>1, <2>2, <2>3, <2>4, <2>5, LastWhole
  <1>13. m = BitmapsOf(d4)
    BY <1>8 DEF BitmapsOf
  <1>14. d4 = Stored(Stored(Stored(d1, w2), w3), w4)
    BY DEF d4, d3, d2
  <1>21. Image(d0)
    <2>1. Spare(disk, d0, V)
      BY <1>0, <1>40 DEF Spare, Taken
    <2> QED
      BY <2>1, <1>0, SpareImage DEF Image
  <1> HIDE DEF w0, w1, w2, w3, w4, m
  <1>15. Ready(o, m, cuts, halted, d1, <<w2, w3, w4>>) /\ <<w2, w3, w4>> \in Seq(Writes)
    BY <1>3, <1>4, <1>5, <1>12, <1>13, <1>14, LastThree
  <1> DEFINE t == <<w2, w3, w4>>
             u == <<w1>> \o t
  <1> HIDE DEF t
  <1>16. Ready(o, m, cuts, halted, Stored(d0, w1), t) /\ t \in Seq(Writes)
    BY <1>15 DEF t, d1
  <1>17. u \in Seq(Writes) /\ Ready(o, m, cuts, halted, d0, u)
    BY <1>21, <1>40, <1>3, <1>16, ReadyThen
  <1> HIDE DEF u
  <1>18. <<w0>> \o u \in Seq(Writes) /\ <<w0>> \o u # <<>> /\ Ready(o, m, cuts, halted, d, <<w0>> \o u)
    <2>1. Ready(o, m, cuts, halted, Stored(d, w0), u)
      BY <1>17 DEF d0
    <2> QED
      BY <2>1, <1>0, <1>1, <1>3, <1>17, ReadyThen
  <1> QED
    BY <1>18 DEF w0, w1, w2, w3, w4, m, t, u

\* A block with one of its entries replaced.
LEMMA PutContent ==
  ASSUME NEW c \in Content, NEW j \in 1..PerBlock, NEW f \in Entry
  PROVE  /\ [c EXCEPT ![j] = f] \in Content /\ [c EXCEPT ![j] = f][j] = f
         /\ \A l \in 1..PerBlock : l # j => [c EXCEPT ![j] = f][l] = c[l]
  BY DEF Content

Larger(i) == [i EXCEPT !.i_size = @ + 1]

\* An inode of one entry more is an inode.
LEMMA LargerInode ==
  ASSUME NEW i \in Inode
  PROVE  Larger(i) \in Inode /\ Larger(i).i_no = i.i_no /\ Larger(i).i_size = i.i_size + 1 /\ Larger(i).i_sectors = i.i_sectors
  BY DEF Larger, Inode

\* What is written before leads from the disk to d.
Leads(before, o, d) ==
  /\ before \in Seq(Writes)
  /\ \A m, h, s : s \in Seq(Writes) /\ s # <<>> /\ Ready(o, m, cuts, h, d, s) =>
       before \o s \in Seq(Writes) /\ before \o s # <<>> /\ Ready(o, m, cuts, h, disk, before \o s)

\* Sequences of writes, grouped in different ways.
Four(b, c, d, e)             == <<b, c, d, e>>
OneThree(b, c, d, e)         == <<b>> \o <<c, d, e>>
TwoTwo(s, a, b, c, d)        == s \o <<a, b>> \o <<c, d>>
ThenThree(s, a, b, c, d)     == s \o (<<a>> \o <<b, c, d>>)
ThreeTwo(s, a, b, c, d, e)   == s \o <<a, b, c>> \o <<d, e>>
ThenFour(s, a, b, c, d, e)   == s \o (<<a>> \o (<<b>> \o <<c, d, e>>))

\* One write in front of three is four writes.
LEMMA Prefixed ==
  ASSUME NEW S, NEW b \in S, NEW c \in S, NEW d \in S, NEW e \in S
  PROVE  Four(b, c, d, e) = OneThree(b, c, d, e)
  <1> DEFINE s == <<b>>
             t == <<c, d, e>>
             u == <<b, c, d, e>>
  <1>1. s \in Seq(S) /\ t \in Seq(S) /\ u \in Seq(S) /\ Len(s) = 1 /\ Len(t) = 3 /\ Len(u) = 4
    OBVIOUS
  <1>2. s[1] = b /\ t[1] = c /\ t[2] = d /\ t[3] = e /\ u[1] = b /\ u[2] = c /\ u[3] = d /\ u[4] = e
    OBVIOUS
  <1> HIDE DEF s, t, u
  <1> DEFINE v == s \o t
  <1>3. v \in Seq(S) /\ Len(v) = Len(s) + Len(t) /\ \A i \in 1..Len(s) + Len(t) : v[i] = IF i <= Len(s) THEN s[i] ELSE t[i - Len(s)]
    BY <1>1, ConcatProperties
  <1> HIDE DEF v
  <1>4. \A i \in 1..4 : v[i] = IF i <= 1 THEN s[i] ELSE t[i - 1]
    BY <1>1, <1>3
  <1>5. v[1] = b /\ v[2] = c /\ v[3] = d /\ v[4] = e
    <2>1. v[1] = s[1] /\ v[2] = t[2 - 1] /\ v[3] = t[3 - 1] /\ v[4] = t[4 - 1]
      BY <1>4
    <2>2. 2 - 1 = 1 /\ 3 - 1 = 2 /\ 4 - 1 = 3
      OBVIOUS
    <2> QED
      BY <2>1, <2>2, <1>2
  <1>6. \A i \in 1..Len(u) : u[i] = v[i]
    <2>1. \A i \in 1..4 : i = 1 \/ i = 2 \/ i = 3 \/ i = 4
      OBVIOUS
    <2> QED
      BY <2>1, <1>1, <1>2, <1>5
  <1>7. u = v
    <2>1. Len(u) = Len(v)
      BY <1>1, <1>3
    <2> QED
      BY <2>1, <1>1, <1>3, <1>6, SeqEqual
  <1> QED
    BY <1>7 DEF v, s, t, u, Four, OneThree

\* Sequences of writes can be joined in any order.
LEMMA Assoc == ASSUME NEW S, NEW r \in Seq(S), NEW s \in Seq(S), NEW t \in Seq(S) PROVE (r \o s) \o t = r \o (s \o t)
  OBVIOUS

\* Four writes, grouped as sync_dir_entry makes them and one by one.
LEMMA Regroup ==
  ASSUME NEW before \in Seq(Writes), NEW a \in Writes, NEW b \in Writes, NEW c \in Writes, NEW d \in Writes
  PROVE  TwoTwo(before, a, b, c, d) = ThenThree(before, a, b, c, d)
  <1> DEFINE s == <<a, b>>
             t == <<c, d>>
  <1>1. s \in Seq(Writes) /\ t \in Seq(Writes)
    OBVIOUS
  <1>3. s \o t = <<a>> \o <<b, c, d>>
    OBVIOUS
  <1> HIDE DEF s, t
  <1>2. (before \o s) \o t = before \o (s \o t)
    BY <1>1, Assoc
  <1> QED
    BY <1>3, <1>2 DEF s, t, TwoTwo, ThenThree

\* Five writes, likewise.
LEMMA RegroupFive ==
  ASSUME NEW before \in Seq(Writes), NEW a \in Writes, NEW b \in Writes, NEW c \in Writes, NEW d \in Writes, NEW e \in Writes
  PROVE  ThreeTwo(before, a, b, c, d, e) = ThenFour(before, a, b, c, d, e)
  <1> DEFINE s == <<a, b, c>>
             t == <<d, e>>
             r == <<b, c, d, e>>
             q == <<b>> \o <<c, d, e>>
  <1>1. s \in Seq(Writes) /\ t \in Seq(Writes)
    OBVIOUS
  <1>2. s \o t = <<a>> \o r
    OBVIOUS
  <1>3. r = q
    <2>1. Four(b, c, d, e) = OneThree(b, c, d, e)
      BY Prefixed
    <2> QED
      BY <2>1 DEF Four, OneThree
  <1> HIDE DEF s, t, r, q
  <1>4. (before \o s) \o t = before \o (s \o t)
    BY <1>1, Assoc
  <1>5. (before \o s) \o t = before \o (<<a>> \o q)
    BY <1>2, <1>3, <1>4
  <1> QED
    BY <1>5 DEF s, t, q, ThreeTwo, ThenFour

\* Writes with some more in front are writes.
LEMMA LongerStill ==
  ASSUME NEW before \in Seq(Writes), NEW s \in Seq(Writes), s # <<>>
  PROVE  before \o s \in Seq(Writes) /\ before \o s # <<>>
  OBVIOUS

\* The common part of file_create and sys_mkdir.
LEMMA EnterBegins ==
  ASSUME NEW V, NEW D, NEW d, NEW p, NEW f, NEW n, NEW i, NEW N, NEW b, Entering(V, D, d, p, f, n, i, N, b),
         NEW kind \in {"create", "mkdir"}, NEW before, Leads(before, kind, d), kind = "create" => d = disk,
         NEW bm \in Bitmaps, bm.imap = Marked(n), bm.bmap = d.bmap, damaged \in BOOLEAN,
         Enter(kind, Ino(p), f, i, before, bm)
  PROVE  Begins(kind)
  <1> DEFINE dir  == Ino(p)
             C    == Candidates(dir)
             k    == Least(C)
             free == Blocks \ bm.bmap
             q    == Least(free)
             J    == {l \in 1..PerBlock : Of(dir, k)[l] = NULL}
             j    == Least(J)
  <1>0. /\ Img(disk, V, D) /\ p \in V /\ p \in Inodes /\ n \notin V /\ Image(d) /\ p \in D /\ n \in Inodes /\ i \in Inode /\ i.i_no = n /\ f \in Entry
        /\ disk \in Disk /\ d \in Disk /\ Rests(V, D) /\ p \in Synced
    <2>1. Img(disk, V, D) /\ p \in V /\ p \in Inodes /\ n \notin V /\ Image(d) /\ disk \in Disk
      BY EnteringFacts
    <2>2. Rests(V, D)
      BY DEF Entering
    <2>3. p \in Synced
      BY <2>1, <2>2, InodeNumber
    <2> QED
      BY <2>1, <2>2, <2>3 DEF Entering
  <1>1. dir = disk.inode[p] /\ dir \in Inode /\ dir.i_no = p /\ Used(dir) = UsedOf(disk, p) /\ UsedOf(disk, p) \subseteq 1..Direct
    BY <1>0, InodeNumber, OfDisk DEF Ino, UsedOf
  <1>2. /\ \A l : dir.i_sectors[l] = Sector(disk, p, l)
        /\ \A x, y : Of(dir, x)[y] = EntryAt(disk, p, <<x, y>>)
    BY OfDisk
  <1>3. InodeSync(i) \in Writes /\ (n \in Synced => InodeSync(i) = InodeAt(n, i)) /\ (n \notin Synced => Truncated(i))
        /\ (n \in Synced => ~Truncated(i))
    BY <1>0, SyncIs, SyncWrites
  <1>4. bm = [imap |-> Marked(n), bmap |-> d.bmap] /\ Marked(n) \in SUBSET Inodes
    BY DEF Bitmaps
  <1>5. k \in C /\ C \subseteq 1..Direct
    <2>1. C \in SUBSET (1..Direct) /\ C # {}
      BY DEF Enter, Candidates
    <2> HIDE DEF C
    <2>2. C \in SUBSET Nat
      BY <2>1
    <2> QED
      BY <2>1, <2>2, LeastOf
  <1>6. \/ k \in Used(dir) /\ Run(kind, before \o EntryIn(dir, k, f) \o <<InodeSync(i), Imap(bm.imap)>>, bm) /\ UNCHANGED halted
           /\ damaged' = (damaged \/ Truncated(i))
        \/ /\ k \notin Used(dir) /\ free # {}
           /\ Run(kind, before \o EntryInNew(dir, k, f, q, bm.bmap) \o <<InodeSync(i), Imap(bm.imap)>>, [bm EXCEPT !.bmap = @ \cup {q}])
           /\ UNCHANGED halted /\ damaged' = (damaged \/ Truncated(i))
        \/ /\ k \notin Used(dir) /\ free = {} /\ Run(kind, Append(before, Halt), bm) /\ halted' = (halted \/ kind = "mkdir")
           /\ UNCHANGED damaged
    BY DEF Enter
  <1>7. before \in Seq(Writes) /\ halted \in BOOLEAN
    BY <1>0 DEF Leads, Rests
  <1>8. CASE k \in Used(dir) /\ Run(kind, before \o EntryIn(dir, k, f) \o <<InodeSync(i), Imap(bm.imap)>>, bm) /\ UNCHANGED halted
             /\ damaged' = (damaged \/ Truncated(i))
    <2>1. J # {} /\ J \in SUBSET Nat /\ J \subseteq 1..PerBlock
      <3>1. NULL \in {Of(dir, k)[l] : l \in 1..PerBlock}
        BY <1>5, <1>8 DEF Candidates
      <3> QED
        BY <3>1
    <2>2. j \in J
      BY <2>1, LeastOf
    <2>3. j \in 1..PerBlock /\ EntryAt(disk, p, <<k, j>>) = NULL /\ k \in UsedOf(disk, p)
      BY <2>2, <1>1, <1>2, <1>8
    <2> DEFINE S  == Sector(disk, p, k)
               c  == [disk.block[S] EXCEPT ![j] = f]
               i1 == Larger(dir)
               w1 == Block(S, c)
               w2 == InodeAt(p, i1)
               w3 == InodeSync(i)
               w4 == Imap(Marked(n))
    <2>4. S \in Blocks /\ disk.block[S] \in Content
      BY <2>3, <1>0, SectorTypes DEF Disk
    <2>5. /\ c \in Content /\ c[j] = f /\ \A l \in 1..PerBlock : l # j => c[l] = EntryAt(disk, p, <<k, l>>)
      <3>1. \A l : EntryAt(disk, p, <<k, l>>) = disk.block[S][l]
        BY DEF EntryAt
      <3> DEFINE g == disk.block[S]
      <3> HIDE DEF g, j
      <3>2. c \in Content /\ c[j] = f /\ \A l \in 1..PerBlock : l # j => c[l] = g[l]
        BY <2>3, <2>4, <1>0, PutContent DEF g
      <3> QED
        BY <3>1, <3>2 DEF g
    <2>6. i1 \in Inode /\ i1.i_no = p /\ i1.i_size = disk.inode[p].i_size + 1 /\ \A l \in 1..Direct : i1.i_sectors[l] = Sector(disk, p, l)
      BY <1>1, <1>2, LargerInode
    <2>7. EntryIn(dir, k, f) = <<w1, w2>>
      <3>1. Of(dir, k) = disk.block[S] /\ dir.i_sectors[k] = S
        BY <1>2 DEF Of
      <3>2. InodeSync(i1) = w2
        BY <1>0, <2>6, SyncIs
      <3>3. EntryIn(dir, k, f) = <<Block(dir.i_sectors[k], [Of(dir, k) EXCEPT ![j] = f]), InodeSync(i1)>>
        BY DEF EntryIn, Larger
      <3> QED
        BY <3>1, <3>2, <3>3
    <2>8. w1 \in Writes /\ w2 \in Writes /\ w3 \in Writes /\ w4 \in Writes
      BY <2>4, <2>5, <2>6, <1>0, <1>3, <1>4, WriteKinds
    <2>9. todo' = before \o <<w1, w2>> \o <<w3, w4>> /\ op' = kind /\ mem' = bm /\ disk' = disk /\ cuts' = cuts /\ halted' = halted
      BY <1>8, <2>7 DEF Run
    <2>14. IF n \in Synced THEN damaged' = damaged ELSE damaged' = TRUE
      BY <1>3, <1>8
    <2> HIDE DEF j, k, i1
    <2>10. ASSUME n \in Synced
           PROVE  /\ <<w1>> \o <<w2, w3, w4>> \in Seq(Writes)
                  /\ <<w1>> \o <<w2, w3, w4>> # <<>>
                  /\ Ready(kind, [imap |-> Marked(n), bmap |-> d.bmap], cuts, halted, d, <<w1>> \o <<w2, w3, w4>>)
      <3>1. Filled(p, k, j, f, c)
        BY <2>3, <2>5 DEF Filled
      <3>2. LargerDir(p, i1)
        BY <2>6 DEF LargerDir
      <3> HIDE DEF c, dir, C, free, q, J, w1, w2, w3, w4, S
      <3>3. LeadsOn(kind, n, d, FillingWrites(Sector(disk, p, k), c, p, i1, n, i))
        BY <2>10, <3>1, <3>2, EnterInPlace
      <3>4. FillingWrites(Sector(disk, p, k), c, p, i1, n, i) = <<w1>> \o <<w2, w3, w4>>
        BY <1>3, <2>10 DEF FillingWrites, w1, w2, w3, w4, S
      <3> QED
        BY <3>3, <3>4 DEF LeadsOn
    <2> DEFINE s == <<w1>> \o <<w2, w3, w4>>
    <2> HIDE DEF w1, w2, w3, w4
    <2>11. todo' = before \o s
      <3>1. before \o <<w1, w2>> \o <<w3, w4>> = before \o (<<w1>> \o <<w2, w3, w4>>)
        <4>1. TwoTwo(before, w1, w2, w3, w4) = ThenThree(before, w1, w2, w3, w4)
          BY <1>7, <2>8, Regroup
        <4> QED
          BY <4>1 DEF TwoTwo, ThenThree
      <3> QED
        BY <3>1, <2>9
    <2>12. s \in Seq(Writes) /\ s # <<>> /\ (n \in Synced => Ready(kind, bm, cuts, halted, d, s))
      <3>1. s \in Seq(Writes) /\ s # <<>>
        BY <2>8
      <3> QED
        BY <3>1, <2>10, <1>4
    <2> HIDE DEF s
    <2>13. n \in Synced => before \o s \in Seq(Writes) /\ before \o s # <<>> /\ Ready(kind, bm, cuts, halted, disk, before \o s)
      BY <2>12 DEF Leads
    <2>15. before \o s \in Seq(Writes) /\ before \o s # <<>>
      BY <1>7, <2>12, LongerStill
    <2> QED
      BY <1>7, <2>9, <2>11, <2>13, <2>14, <2>15 DEF Begins
  <1>9. CASE /\ k \notin Used(dir) /\ free # {}
             /\ Run(kind, before \o EntryInNew(dir, k, f, q, bm.bmap) \o <<InodeSync(i), Imap(bm.imap)>>, [bm EXCEPT !.bmap = @ \cup {q}])
             /\ UNCHANGED halted /\ damaged' = (damaged \/ Truncated(i))
    <2>1. q \in Blocks /\ q \notin d.bmap
      <3>1. free \in SUBSET Nat
        BY DiskConstants
      <3>2. q \in free
        BY <3>1, <1>9, LeastOf
      <3> QED
        BY <3>2
    <2> DEFINE c  == [NoEntries EXCEPT ![1] = f]
               i1 == Grown(dir, k, q)
               w0 == Bmap(Taken(d, q))
               w1 == Block(q, c)
               w2 == InodeAt(p, i1)
               w3 == InodeSync(i)
               w4 == Imap(Marked(n))
               m  == [imap |-> Marked(n), bmap |-> Taken(d, q)]
    <2>2. k \in 1..Direct /\ k \notin UsedOf(disk, p)
      BY <1>1, <1>5, <1>9
    <2>3. c \in Content /\ c[1] = f /\ \A l \in 1..PerBlock : l # 1 => c[l] = NULL
      <3>1. NoEntries \in Content /\ 1 \in 1..PerBlock /\ \A l \in 1..PerBlock : NoEntries[l] = NULL
        BY SomeValues, DiskConstants DEF NoEntries
      <3>2. c \in Content /\ c[1] = f /\ \A l \in 1..PerBlock : l # 1 => c[l] = NoEntries[l]
        BY <3>1, <1>0, PutContent
      <3> QED
        BY <3>1, <3>2
    <2>4. EntryInNew(dir, k, f, q, bm.bmap) = <<w0, w1, InodeSync(i1)>>
      BY DEF EntryInNew, Grown, Taken
    <2>5. mem' = m /\ m \in Bitmaps
      <3>1. [bm EXCEPT !.bmap = @ \cup {q}] = m
        BY <1>4 DEF Taken
      <3>2. Taken(d, q) \in SUBSET Blocks
        BY <1>0, <2>1 DEF Disk, Taken
      <3> QED
        BY <1>4, <1>9, <3>1, <3>2 DEF Run, Bitmaps
    <2>6. /\ todo' = before \o <<w0, w1, InodeSync(i1)>> \o <<w3, w4>> /\ op' = kind /\ disk' = disk /\ cuts' = cuts
          /\ halted' = halted
      BY <1>4, <1>9, <2>4 DEF Run
    <2>14. IF n \in Synced THEN damaged' = damaged ELSE damaged' = TRUE
      BY <1>3, <1>9
    <2> HIDE DEF k, q, c
    <2>7. i1 \in Inode /\ i1.i_no = p /\ i1.i_size = disk.inode[p].i_size + 1 /\ \A l \in 1..Direct : i1.i_sectors[l] = IF l = k THEN q ELSE Sector(disk, p, l)
      <3>1. dir \in Inode /\ k \in 1..Direct /\ q \in Blocks
        BY <1>1, <2>1, <2>2
      <3> HIDE DEF dir
      <3>2. i1 \in Inode /\ i1.i_no = dir.i_no /\ i1.i_size = dir.i_size + 1 /\ \A l \in 1..Direct : i1.i_sectors[l] = IF l = k THEN q ELSE dir.i_sectors[l]
        BY <3>1, GrownInode
      <3> QED
        BY <3>2, <1>1, <1>2
    <2>8. InodeSync(i1) = w2
      BY <1>0, <2>7, SyncIs
    <2>9. w0 \in Writes /\ w1 \in Writes /\ w2 \in Writes /\ w3 \in Writes /\ w4 \in Writes
      BY <2>1, <2>3, <2>5, <2>7, <1>0, <1>3, <1>4, WriteKinds DEF Bitmaps
    <2> HIDE DEF i1
    <2>10. ASSUME n \in Synced
           PROVE  /\ <<w0>> \o (<<w1>> \o <<w2, w3, w4>>) \in Seq(Writes)
                  /\ <<w0>> \o (<<w1>> \o <<w2, w3, w4>>) # <<>>
                  /\ Ready(kind, m, cuts, halted, d, <<w0>> \o (<<w1>> \o <<w2, w3, w4>>))
      BY <2>1, <2>2, <2>3, <2>7, <2>10, <1>3, EnterInNewBlock
    <2> DEFINE s == <<w0>> \o (<<w1>> \o <<w2, w3, w4>>)
    <2> HIDE DEF w0, w1, w2, w3, w4, m
    <2>11. todo' = before \o s
      <3>1. before \o <<w0, w1, w2>> \o <<w3, w4>> = before \o (<<w0>> \o (<<w1>> \o <<w2, w3, w4>>))
        <4>1. ThreeTwo(before, w0, w1, w2, w3, w4) = ThenFour(before, w0, w1, w2, w3, w4)
          BY <1>7, <2>9, RegroupFive
        <4> QED
          BY <4>1 DEF ThreeTwo, ThenFour
      <3>2. todo' = before \o <<w0, w1, w2>> \o <<w3, w4>>
        BY <2>6, <2>8
      <3> QED
        BY <3>1, <3>2
    <2>12. s \in Seq(Writes) /\ s # <<>> /\ (n \in Synced => Ready(kind, m, cuts, halted, d, s))
      <3>1. s \in Seq(Writes) /\ s # <<>>
        BY <2>9
      <3> QED
        BY <3>1, <2>10
    <2> HIDE DEF s
    <2>13. n \in Synced => before \o s \in Seq(Writes) /\ before \o s # <<>> /\ Ready(kind, m, cuts, halted, disk, before \o s)
      BY <2>12 DEF Leads
    <2>15. before \o s \in Seq(Writes) /\ before \o s # <<>>
      BY <1>7, <2>12, LongerStill
    <2> QED
      BY <1>7, <2>5, <2>6, <2>11, <2>13, <2>14, <2>15 DEF Begins
  <1>10. CASE k \notin Used(dir) /\ free = {} /\ Run(kind, Append(before, Halt), bm) /\ halted' = (halted \/ kind = "mkdir")
              /\ UNCHANGED damaged
    <2>1. halted' \in BOOLEAN /\ (kind = "mkdir" => halted' = TRUE) /\ (kind = "create" => halted' = halted)
      BY <1>7, <1>10
    <2>2. Whole(d, cuts, halted')
      <3>1. Whole(disk, cuts, halted)
        BY <1>0, RestImage
      <3>2. CASE kind = "create"
        BY <2>1, <3>1, <3>2
      <3>3. CASE kind = "mkdir"
        <4>1. Spare(disk, d, V) /\ d.magic
          BY DEF Entering
        <4>2. Img(d, V, D) /\ d.imap = disk.imap
          BY <1>0, <4>1, SpareImage DEF Spare
        <4>3. cuts = 0 => d.imap = V
          BY <1>0, <4>2 DEF Rests
        <4> QED
          BY <2>1, <3>3, <4>1, <4>2, <4>3 DEF Whole, Image, Exact
      <3> QED
        BY <3>2, <3>3
    <2> DEFINE s == <<Halt>>
    <2>3. s \in Seq(Writes) /\ s # <<>> /\ Append(before, Halt) = before \o s
      BY <1>7, WriteKinds, AppendIsConcat
    <2> DEFINE h == halted'
    <2> HIDE DEF h
    <2>4. Ready(kind, bm, cuts, h, d, s)
      BY <1>0, <2>2, ReadyHalt DEF h
    <2> HIDE DEF s
    <2>5. before \o s \in Seq(Writes) /\ before \o s # <<>> /\ Ready(kind, bm, cuts, h, disk, before \o s)
      BY <2>3, <2>4 DEF Leads
    <2>6. todo' = before \o s /\ op' = kind /\ mem' = bm /\ disk' = disk /\ cuts' = cuts /\ damaged' = damaged
      BY <1>10, <2>3 DEF Run
    <2> QED
      BY <2>1, <2>5, <2>6 DEF Begins, h
  <1> QED
    BY <1>6, <1>8, <1>9, <1>10

\* A name that is not in the directory is at none of its places.
LEMMA NewName ==
  ASSUME NEW p, NEW name, name \notin {e.filename : e \in Entries(Ino(p))}
  PROVE  \A y \in NamedOf(disk, p) : EntryAt(disk, p, y).filename # name
  <1>1. Entries(Ino(p)) = {EntryAt(disk, p, x) : x \in PlacesOf(disk, p)}
    BY OfDisk
  <1>2. NamedOf(disk, p) \subseteq PlacesOf(disk, p)
    BY DEF NamedOf
  <1> QED
    BY <1>1, <1>2

\* The least free inode is not marked.
LEMMA FreeNumber ==
  ASSUME NEW V, NEW D, Rests(V, D), FreeInodes # {}
  PROVE  Least(FreeInodes) \in Inodes /\ Least(FreeInodes) \notin disk.imap
  <1>1. FreeInodes \in SUBSET Nat
    BY DiskConstants DEF FreeInodes
  <1>2. Least(FreeInodes) \in FreeInodes
    BY <1>1, LeastOf
  <1> QED
    BY <1>2 DEF FreeInodes, Rests

\* file_create.
LEMMA CreateBegins ==
  ASSUME NEW V, NEW D, Rests(V, D), mem \in Bitmaps, NEW p \in D, NEW name \in Names, damaged \in BOOLEAN, Create(p, name)
  PROVE  Begins("create")
  <1> DEFINE n  == Least(FreeInodes)
             f  == [filename |-> name, i_no |-> n, f_type |-> "regular"]
             i  == [NoInode EXCEPT !.i_no = n]
             bm == [mem EXCEPT !.imap = @ \cup {n}]
             N  == {}
             o  == "create"
  <1>1. name \notin {e.filename : e \in Entries(Ino(p))}
        /\ ((FreeInodes = {} /\ Starved(o)) \/ (FreeInodes # {} /\ Enter(o, Ino(p), f, i, <<>>, bm)))
    BY DEF Create
  <1>2. CASE Starved(o)
    BY <1>2, StarvedBegins
  <1>3. CASE FreeInodes # {} /\ Enter(o, Ino(p), f, i, <<>>, bm)
    <2>1. n \in Inodes /\ n \notin disk.imap
      BY <1>3, FreeNumber
    <2>2. f \in Entry /\ f.filename = name /\ f.i_no = n /\ f.f_type # "directory"
      BY <2>1 DEF Entry
    <2>3. i \in Inode /\ i.i_no = n /\ i.i_sectors = NoBlocks
      BY <2>1, SomeValues DEF NoInode, Inode
    <2>4. bm \in Bitmaps /\ bm.imap = Marked(n) /\ bm.bmap = disk.bmap
      BY <2>1 DEF Bitmaps, Marked, Rests
    <2>5. \A y \in NamedOf(disk, p) : EntryAt(disk, p, y).filename # name
      BY <1>1, NewName
    <2> HIDE DEF n, f, i, bm
    <2>6. Spare(disk, disk, V)
      BY DEF Spare
    <2>7. Entering(V, D, disk, p, f, n, i, N, 0)
      <3>1. disk.bmap = disk.bmap \cup {s \in {0} : n \in N}
        OBVIOUS
      <3> QED
        BY <2>1, <2>2, <2>3, <2>5, <2>6, <3>1, DiskConstants DEF Entering, Rests
    <2> DEFINE z == <<>>
    <2>8. z \in Seq(Writes) /\ \A s \in Seq(Writes) : z \o s = s
      BY ConcatEmptySeq
    <2>9. Enter(o, Ino(p), f, i, z, bm)
      BY <1>3
    <2> HIDE DEF z, N, o
    <2>10. Leads(z, o, disk)
      BY <2>8 DEF Leads
    <2>11. o \in {"create", "mkdir"} /\ (o = "create" => disk = disk)
      BY DEF o
    <2>12. Begins(o)
      BY <2>4, <2>7, <2>9, <2>10, <2>11, EnterBegins
    <2> QED
      BY <2>12 DEF o
  <1> QED
    BY <1>1, <1>2, <1>3

Pair(a, b)   == <<a, b>>
OneOne(a, b) == <<a>> \o <<b>>

\* Two writes, one in front of the other.
LEMMA PairIs ==
  ASSUME NEW S, NEW a \in S, NEW b \in S
  PROVE  Pair(a, b) = OneOne(a, b)
  <1> DEFINE s == <<a>>
             t == <<b>>
             u == <<a, b>>
  <1>1. s \in Seq(S) /\ t \in Seq(S) /\ u \in Seq(S) /\ Len(s) = 1 /\ Len(t) = 1 /\ Len(u) = 2
    OBVIOUS
  <1>2. s[1] = a /\ t[1] = b /\ u[1] = a /\ u[2] = b
    OBVIOUS
  <1> HIDE DEF s, t, u
  <1> DEFINE v == s \o t
  <1>3. v \in Seq(S) /\ Len(v) = Len(s) + Len(t) /\ \A i \in 1..Len(s) + Len(t) : v[i] = IF i <= Len(s) THEN s[i] ELSE t[i - Len(s)]
    BY <1>1, ConcatProperties
  <1> HIDE DEF v
  <1>4. \A i \in 1..2 : v[i] = IF i <= 1 THEN s[i] ELSE t[i - 1]
    BY <1>1, <1>3
  <1>5. v[1] = a /\ v[2] = b
    <2>1. v[1] = s[1] /\ v[2] = t[2 - 1]
      BY <1>4
    <2>2. 2 - 1 = 1
      OBVIOUS
    <2> QED
      BY <2>1, <2>2, <1>2
  <1>6. \A i \in 1..Len(u) : u[i] = v[i]
    <2>1. \A i \in 1..2 : i = 1 \/ i = 2
      OBVIOUS
    <2> QED
      BY <2>1, <1>1, <1>2, <1>5
  <1>7. u = v
    <2>1. Len(u) = Len(v)
      BY <1>1, <1>3
    <2> QED
      BY <2>1, <1>1, <1>3, <1>6, SeqEqual
  <1> QED
    BY <1>7 DEF v, s, t, u, Pair, OneOne

\* sys_mkdir.
LEMMA MkdirBegins ==
  ASSUME NEW V, NEW D, Rests(V, D), mem \in Bitmaps, NEW p \in D, NEW name \in Names, damaged \in BOOLEAN, Mkdir(p, name)
  PROVE  Begins("mkdir")
  <1> DEFINE n  == Least(FreeInodes)
             b  == Least(FreeBlocks)
             f  == [filename |-> name, i_no |-> n, f_type |-> "directory"]
             i  == DirInode(n, b)
             B  == mem.bmap \cup {b}
             c  == Dots(n, p)
             bm == [imap |-> mem.imap \cup {n}, bmap |-> B]
             N  == {n}
             o  == "mkdir"
  <1>1. name \notin {e.filename : e \in Entries(Ino(p))}
        /\ (Starved(o) \/ (FreeInodes # {} /\ FreeBlocks # {} /\ Enter(o, Ino(p), f, i, <<Bmap(B), Block(b, c)>>, bm)))
    BY DEF Mkdir
  <1>2. CASE Starved(o)
    BY <1>2, StarvedBegins
  <1>3. CASE FreeInodes # {} /\ FreeBlocks # {} /\ Enter(o, Ino(p), f, i, <<Bmap(B), Block(b, c)>>, bm)
    <2>0. /\ Img(disk, V, D) /\ disk \in Disk /\ disk.magic /\ mem.imap = disk.imap /\ mem.bmap = disk.bmap /\ p \in Inodes
          /\ SectorsOf(disk, V) \subseteq disk.bmap /\ SectorsOf(disk, V) \subseteq Blocks
      BY DEF Rests, Img, Inside, OwnBlocks, Disk
    <2>1. n \in Inodes /\ n \notin disk.imap
      BY <1>3, FreeNumber
    <2>2. b \in Blocks /\ b \notin mem.bmap /\ b \notin SectorsOf(disk, V)
      BY <1>3, FreeOne DEF FreeBlocks, Rests
    <2>3. f \in Entry /\ f.filename = name /\ f.i_no = n /\ f.f_type = "directory"
      BY <2>1 DEF Entry
    <2>4. i \in Inode /\ i.i_no = n /\ c \in Content
      BY <2>0, <2>1, <2>2, SomeValues DEF DirInode
    <2>5. bm \in Bitmaps /\ bm.imap = Marked(n) /\ bm.bmap = B /\ B \in SUBSET Blocks
      BY <2>0, <2>1, <2>2 DEF Bitmaps, Marked
    <2>6. \A y \in NamedOf(disk, p) : EntryAt(disk, p, y).filename # name
      BY <1>1, NewName
    <2>7. i = DirInode(n, b) /\ c = Dots(n, p) /\ b \in B /\ disk.bmap \subseteq B /\ B = disk.bmap \cup {s \in {b} : n \in N}
      BY <2>0
    <2> DEFINE w1 == Bmap(B)
               w2 == Block(b, c)
               d1 == Stored(disk, w1)
               d2 == Stored(d1, w2)
    <2> HIDE DEF n, b, f, i, bm, B, c, N
    <2>8. n \in N /\ N \subseteq {n}
      BY DEF N
    <2>9. w1 \in Writes /\ w2 \in Writes /\ w1 # Halt /\ w2 # Halt
      BY <2>2, <2>4, <2>5, WriteKinds, KindsOf
    <2>10. d1 \in Disk /\ d1.magic /\ d1.imap = disk.imap /\ d1.bmap = B /\ d1.inode = disk.inode /\ d1.block = disk.block
      BY <2>0, <2>5, StoredBmap
    <2> HIDE DEF d1
    <2>11. /\ d2 \in Disk /\ d2.magic /\ d2.imap = disk.imap /\ d2.bmap = B /\ d2.inode = disk.inode
           /\ d2.block[b] = c /\ \A x \in Blocks : x # b => d2.block[x] = disk.block[x]
      BY <2>2, <2>4, <2>10, StoredBlock
    <2> HIDE DEF d2
    <2>12. Spare(disk, d1, V) /\ Spare(disk, d2, V)
      <3>1. \A s \in SectorsOf(disk, V) : d2.block[s] = disk.block[s]
        BY <2>0, <2>2, <2>11
      <3> QED
        BY <3>1, <2>7, <2>10, <2>11 DEF Spare
    <2>13. Image(disk) /\ Image(d1)
      BY <2>0, <2>12, SpareImage DEF Image
    <2>14. Entering(V, D, d2, p, f, n, i, N, b)
      BY <2>0, <2>1, <2>2, <2>3, <2>4, <2>6, <2>7, <2>8, <2>11, <2>12 DEF Entering
    <2> DEFINE z == <<w1, w2>>
    <2>15. Enter(o, Ino(p), f, i, z, bm)
      BY <1>3 DEF B, b, f, i, n, c, bm
    <2> HIDE DEF w1, w2, o
    <2>16. Leads(z, o, d2)
      <3>1. z \in Seq(Writes)
        BY <2>9
      <3>2. ASSUME NEW m, NEW h, NEW s \in Seq(Writes), s # <<>>, Ready(o, m, cuts, h, d2, s)
            PROVE  z \o s \in Seq(Writes) /\ z \o s # <<>> /\ Ready(o, m, cuts, h, disk, z \o s)
        <4> DEFINE t == <<w2>> \o s
        <4>1. t \in Seq(Writes) /\ Ready(o, m, cuts, h, d1, t)
          BY <2>9, <2>10, <2>13, <3>2, ReadyThen DEF d2
        <4>2. z \o s = <<w1>> \o t
          <5> DEFINE r1 == <<w1>>
                     r2 == <<w2>>
          <5>1. r1 \in Seq(Writes) /\ r2 \in Seq(Writes)
            BY <2>9
          <5>2. z = r1 \o r2
            <6>1. Pair(w1, w2) = OneOne(w1, w2)
              BY <2>9, PairIs
            <6> QED
              BY <6>1 DEF Pair, OneOne
          <5> HIDE DEF r1, r2, z
          <5>3. (r1 \o r2) \o s = r1 \o (r2 \o s)
            BY <5>1, <3>2, Assoc
          <5> QED
            BY <5>1, <5>2, <5>3 DEF r1, r2
        <4> HIDE DEF t, z
        <4>3. <<w1>> \o t \in Seq(Writes) /\ <<w1>> \o t # <<>> /\ Ready(o, m, cuts, h, disk, <<w1>> \o t)
          BY <2>0, <2>9, <2>13, <4>1, ReadyThen DEF d1
        <4> QED
          BY <4>2, <4>3
      <3> HIDE DEF z
      <3> QED
        BY <3>1, <3>2 DEF Leads
    <2> HIDE DEF z
    <2>17. o \in {"create", "mkdir"} /\ (o = "create" => d2 = disk)
      BY DEF o
    <2>18. bm.bmap = d2.bmap
      BY <2>5, <2>11
    <2>19. Begins(o)
      BY <2>5, <2>14, <2>15, <2>16, <2>17, <2>18, EnterBegins
    <2> QED
      BY <2>19 DEF o
  <1> QED
    BY <1>1, <1>2, <1>3

-----------------------------------------------------------------------------
\* inode_release.

\* Nothing that belongs to an inode of V is written.
Kept(d, e, V) ==
  /\ \A v \in V : e.inode[v] = d.inode[v]
  /\ \A s \in SectorsOf(d, V) : e.block[s] = d.block[s]
  /\ V \subseteq e.imap /\ SectorsOf(d, V) \subseteq e.bmap

\* Writes to nothing that belongs to an image leave it an image.
LEMMA KeptImage ==
  ASSUME NEW d, NEW e, NEW V, NEW D, Img(d, V, D), Kept(d, e, V)
  PROVE  Img(e, V, D) /\ SectorsOf(e, V) = SectorsOf(d, V)
  <1>1. Inside(d, V, D) /\ OwnBlocks(d, V) /\ Sized(d, D) /\ D \subseteq V
    BY DEF Img, Inside
  <1>2. ASSUME NEW v \in V
        PROVE  UsedOf(e, v) = UsedOf(d, v) /\ SameSectors(d, e, v)
    BY DEF Kept, SameSectors, UsedOf, Sector
  <1>3. SectorsOf(e, V) = SectorsOf(d, V)
    BY <1>2 DEF SectorsOf, SameSectors
  <1>4. OwnBlocks(e, V)
    BY <1>1, <1>2, SameSectorsOwn DEF Kept
  <1>5. ASSUME NEW n \in D PROVE LooksSame(d, e, n)
    <2>1. n \in V /\ e.inode[n] = d.inode[n]
      BY <1>1, <1>5 DEF Kept
    <2>2. \A k \in UsedOf(d, n) : e.block[Sector(d, n, k)] = d.block[Sector(d, n, k)]
      BY <2>1, SectorsUnder DEF Kept
    <2> QED
      BY <2>1, <2>2, LooksSameFrom
  <1>6. Alike(d, e, V, D)
    BY <1>1, <1>5 DEF Alike, Kept, Inside, Sized
  <1> QED
    BY <1>3, <1>4, <1>6, AlikeImage

\* The value of a bitmap after writes v, where it is now at value cur.
Lastly(v, kind, val, cur) ==
  \/ (\A l \in DOMAIN v : v[l].kind # kind) /\ cur = val
  \/ \E l \in DOMAIN v : v[l].kind = kind /\ v[l].val = val /\ \A j \in DOMAIN v : j > l => v[j].kind # kind

\* What is written last is written last of what is left as well.
LEMMA LastStep ==
  ASSUME NEW v \in Seq(Writes), v # <<>>, NEW kind, NEW val, NEW cur, NEW new, Lastly(v, kind, val, cur),
         new = IF Head(v).kind = kind THEN Head(v).val ELSE cur
  PROVE  Lastly(Tail(v), kind, val, new)
  <1> DEFINE t == Tail(v)
  <1>1. /\ Len(v) \in Nat /\ Len(v) >= 1 /\ DOMAIN v = 1..Len(v) /\ Head(v) = v[1] /\ t \in Seq(Writes)
        /\ DOMAIN t = 1..Len(v) - 1 /\ \A l \in 1..Len(v) - 1 : t[l] = v[l + 1] /\ l + 1 \in DOMAIN v
    OBVIOUS
  <1> HIDE DEF t
  <1>2. CASE (\A l \in DOMAIN v : v[l].kind # kind) /\ cur = val
    <2>1. 1 \in DOMAIN v
      BY <1>1
    <2>2. new = val
      BY <1>1, <1>2, <2>1
    <2>3. \A l \in DOMAIN t : t[l].kind # kind
      BY <1>1, <1>2
    <2> QED
      BY <2>2, <2>3 DEF Lastly, t
  <1>3. ASSUME NEW l \in DOMAIN v, v[l].kind = kind, v[l].val = val, \A j \in DOMAIN v : j > l => v[j].kind # kind
        PROVE  Lastly(t, kind, val, new)
    <2>1. CASE l = 1
      <3>1. new = val
        BY <2>1, <1>1, <1>3
      <3>2. \A j \in DOMAIN t : t[j].kind # kind
        BY <2>1, <1>1, <1>3
      <3> QED
        BY <3>1, <3>2 DEF Lastly
    <2>2. CASE l # 1
      <3>1. l - 1 \in DOMAIN t /\ t[l - 1] = v[l]
        BY <2>2, <1>1
      <3>2. \A j \in DOMAIN t : j > l - 1 => t[j].kind # kind
        BY SMTT(20), <1>1, <1>3
      <3> QED
        BY <3>1, <3>2, <1>3 DEF Lastly
    <2> QED
      BY <2>1, <2>2
  <1> QED
    BY <1>2, <1>3 DEF Lastly, t

\* The writes of inode_release of inode n, with nothing that belongs to V or the blocks B.
Harmless(w, n, V, B) ==
  \/ \E S \in SUBSET Blocks : B \subseteq S /\ w = Bmap(S)
  \/ \E S \in SUBSET Inodes : V \subseteq S /\ w = Imap(S)
  \/ w = InodeAt(n, NoInode)

Releasing(d, w, n, V, D, m) ==
  /\ d \in Disk /\ d.magic /\ Img(d, V, D) /\ w \in Seq(Writes)
  /\ \A l \in DOMAIN w : Harmless(w[l], n, V, SectorsOf(d, V))
  /\ Lastly(w, "bmap", m.bmap, d.bmap) /\ Lastly(w, "imap", m.imap, d.imap)

\* One write of inode_release leaves an image, and the rest of them to do.
LEMMA ReleaseStep ==
  ASSUME NEW d, NEW w, NEW n \in Inodes, NEW V, NEW D, NEW m, n \notin V, Releasing(d, w, n, V, D, m), w # <<>>
  PROVE  /\ Head(w) # Halt /\ Releasing(Stored(d, Head(w)), Tail(w), n, V, D, m)
         /\ SectorsOf(Stored(d, Head(w)), V) = SectorsOf(d, V)
  <1> DEFINE a == Head(w)
             t == Tail(w)
             e == Stored(d, a)
             B == SectorsOf(d, V)
  <1>1. /\ d \in Disk /\ d.magic /\ Img(d, V, D) /\ w \in Seq(Writes)
        /\ V \subseteq d.imap /\ B \subseteq d.bmap /\ V \subseteq Inodes
    BY DEF Releasing, Img, Inside, OwnBlocks
  <1>2. /\ 1 \in DOMAIN w /\ a = w[1] /\ t \in Seq(Writes) /\ a \in Writes
        /\ \A l \in DOMAIN t : l + 1 \in DOMAIN w /\ t[l] = w[l + 1]
    BY <1>1
  <1>3. Harmless(a, n, V, B)
    BY <1>2 DEF Releasing
  <1> DEFINE Proper == /\ a # Halt /\ e \in Disk /\ e.magic /\ Kept(d, e, V)
                        /\ e.bmap = (IF a.kind = "bmap" THEN a.val ELSE d.bmap)
                        /\ e.imap = (IF a.kind = "imap" THEN a.val ELSE d.imap)
  <1>4. Proper
    <2>1. ASSUME NEW S \in SUBSET Blocks, B \subseteq S, a = Bmap(S)
          PROVE  Proper
      <3>0. e = Stored(d, Bmap(S))
        BY <2>1
      <3> HIDE DEF e, a
      <3>1. a.kind = "bmap" /\ a.val = S /\ a # Halt
        BY <2>1, KindsOf
      <3>2. e \in Disk /\ e.magic = d.magic /\ e.imap = d.imap /\ e.inode = d.inode /\ e.block = d.block /\ e.bmap = S
        BY <1>1, <2>1, <3>0, StoredBmap
      <3> QED
        BY <1>1, <2>1, <3>1, <3>2 DEF Kept
    <2>2. ASSUME NEW S \in SUBSET Inodes, V \subseteq S, a = Imap(S)
          PROVE  Proper
      <3>0. e = Stored(d, Imap(S))
        BY <2>2
      <3> HIDE DEF e, a
      <3>1. a.kind = "imap" /\ a.val = S /\ a # Halt
        BY <2>2, KindsOf
      <3>2. e \in Disk /\ e.magic = d.magic /\ e.bmap = d.bmap /\ e.inode = d.inode /\ e.block = d.block /\ e.imap = S
        BY <1>1, <2>2, <3>0, StoredImap
      <3> QED
        BY <1>1, <2>2, <3>1, <3>2 DEF Kept
    <2>3. ASSUME a = InodeAt(n, NoInode)
          PROVE  Proper
      <3>0. e = Stored(d, InodeAt(n, NoInode))
        BY <2>3
      <3> HIDE DEF e, a
      <3>1. a.kind = "inode" /\ a # Halt
        BY <2>3, KindsOf
      <3>2. /\ e \in Disk /\ e.magic = d.magic /\ e.bmap = d.bmap /\ e.imap = d.imap /\ e.block = d.block
            /\ \A x \in Inodes : x # n => e.inode[x] = d.inode[x]
        <4>1. NoInode \in Inode
          BY SomeValues
        <4>2. d \in Disk
          BY <1>1
        <4> DEFINE z == NoInode
        <4> HIDE DEF z
        <4>3. z \in Inode /\ e = Stored(d, InodeAt(n, z))
          BY <4>1, <3>0 DEF z
        <4> QED
          BY SMTT(40), <4>2, <4>3, StoredInode
      <3>3. Kept(d, e, V)
        BY <1>1, <3>2 DEF Kept
      <3> QED
        BY <1>1, <3>1, <3>2, <3>3
    <2> QED
      BY <1>3, <2>1, <2>2, <2>3 DEF Harmless
  <1> HIDE DEF a, t, e
  <1>5. Img(e, V, D) /\ SectorsOf(e, V) = B
    BY <1>1, <1>4, KeptImage
  <1>6. \A l \in DOMAIN t : Harmless(t[l], n, V, SectorsOf(e, V))
    BY <1>2, <1>5 DEF Releasing
  <1>7. Lastly(t, "bmap", m.bmap, e.bmap) /\ Lastly(t, "imap", m.imap, e.imap)
    BY <1>1, <1>4, LastStep DEF Releasing, t, a
  <1>8. Releasing(e, t, n, V, D, m)
    BY <1>2, <1>4, <1>5, <1>6, <1>7 DEF Releasing
  <1> QED
    BY <1>4, <1>5, <1>8 DEF a, t, e

\* The writes of inode_release lead to a file system at rest.
LEMMA ReleaseReady ==
  ASSUME NEW d, NEW w, NEW n \in Inodes, NEW V, NEW D, NEW m \in Bitmaps, n \notin V, Releasing(d, w, n, V, D, m),
         NEW o, NEW c, NEW h, c = 0 => m.imap = V /\ (h \/ m.bmap = SectorsOf(d, V))
  PROVE  Ready(o, m, c, h, d, w)
  <1> DEFINE B == SectorsOf(d, V)
             R == {r \in States : Releasing(r[1], r[2], n, V, D, m) /\ SectorsOf(r[1], V) = B}
  <1>1. ASSUME NEW e, NEW v, <<e, v>> \in States, Releasing(e, v, n, V, D, m), SectorsOf(e, V) = B
        PROVE  Goes(R, o, m, c, h, e, v)
    <2>1. e.magic /\ Image(e)
      BY <1>1 DEF Releasing, Image
    <2>2. v = <<>> => Whole(e, c, h) /\ m = BitmapsOf(e)
      <3> SUFFICES ASSUME v = <<>> PROVE Whole(e, c, h) /\ m = BitmapsOf(e)
        OBVIOUS
      <3>1. DOMAIN v = {}
        OBVIOUS
      <3>2. e.bmap = m.bmap /\ e.imap = m.imap
        BY <1>1, <3>1 DEF Releasing, Lastly
      <3>3. m = [imap |-> m.imap, bmap |-> m.bmap]
        BY DEF Bitmaps
      <3>4. Img(e, V, D) /\ m = BitmapsOf(e)
        BY <1>1, <3>2, <3>3 DEF Releasing, BitmapsOf
      <3> QED
        BY <1>1, <2>1, <3>2, <3>4 DEF Whole, Exact
    <2>3. v # <<>> => Head(v) # Halt /\ <<Stored(e, Head(v)), Tail(v)>> \in R
      <3> SUFFICES ASSUME v # <<>> PROVE Head(v) # Halt /\ <<Stored(e, Head(v)), Tail(v)>> \in R
        OBVIOUS
      <3> DEFINE f == Stored(e, Head(v))
                 t == Tail(v)
      <3>1. Head(v) # Halt /\ Releasing(f, t, n, V, D, m) /\ SectorsOf(f, V) = B
        BY <1>1, ReleaseStep
      <3> HIDE DEF f, t
      <3>2. <<f, t>> \in States
        BY <3>1 DEF States, Releasing
      <3>3. <<f, t>> \in R
        BY <3>1, <3>2
      <3> QED
        BY <3>1, <3>3 DEF f, t
    <2> HIDE DEF R
    <2> QED
      BY <2>1, <2>2, <2>3 DEF Goes
  <1>2. Course(R, o, m, c, h)
    <2>1. ASSUME NEW r \in R PROVE Goes(R, o, m, c, h, r[1], r[2])
      <3>1. r = <<r[1], r[2]>> /\ r \in States /\ Releasing(r[1], r[2], n, V, D, m) /\ SectorsOf(r[1], V) = B
        BY DEF States
      <3> HIDE DEF R, B
      <3>2. <<r[1], r[2]>> \in States
        BY <3>1
      <3> QED
        BY <3>1, <3>2, <1>1
    <2>2. R \in SUBSET States
      OBVIOUS
    <2> HIDE DEF R
    <2> QED
      BY <2>1, <2>2 DEF Course
  <1>3. <<d, w>> \in R
    <2>1. <<d, w>> \in States
      BY DEF Releasing, States
    <2> QED
      BY <2>1
  <1> HIDE DEF R
  <1> QED
    BY <1>2, <1>3 DEF Ready

-----------------------------------------------------------------------------
\* Removing an entry.

\* Entry x of directory p, the one of inode n, which has no entries itself, can be removed.
Removal(d, V, D, p, x, n) ==
  /\ d \in Disk /\ Img(d, V, D) /\ p \in D /\ p \in V /\ p \in Inodes
  /\ x \in NamedOf(d, p) /\ EntryAt(d, p, x).i_no = n
  /\ n \in V /\ n \in Inodes /\ n # Root /\ n # p /\ (n \in D => NamedOf(d, n) = {})

\* What is known of the place then.
PlaceFacts(d, V, p, x) ==
  /\ x = <<x[1], x[2]>> /\ x[1] \in UsedOf(d, p) /\ x[2] \in 1..PerBlock /\ x \in PlacesOf(d, p)
  /\ EntryAt(d, p, x).filename \in Names /\ EntryAt(d, p, x) # NULL
  /\ Cardinality(PlacesOf(d, p) \ {x}) = Cardinality(PlacesOf(d, p)) - 1
  /\ Cardinality(PlacesOf(d, p)) \in Nat /\ Cardinality(PlacesOf(d, p)) >= 1
  /\ d.inode[p].i_size \in Nat /\ Cardinality(PlacesOf(d, p)) <= d.inode[p].i_size
  /\ Sector(d, p, x[1]) \in SectorsOf(d, V) /\ Sector(d, p, x[1]) \in Blocks
  /\ d.inode[p] \in Inode

\* The place of the entry is not one of the dots.
LEMMA RemovalFacts ==
  ASSUME NEW d, NEW V, NEW D, NEW p, NEW x, NEW n, Removal(d, V, D, p, x, n)
  PROVE  PlaceFacts(d, V, p, x)
  <1>1. d \in Disk /\ p \in Inodes /\ p \in V /\ x \in NamedOf(d, p) /\ Sized(d, D) /\ p \in D
    BY DEF Removal, Img
  <1>2. x \in PlacesOf(d, p) /\ EntryAt(d, p, x).filename \in Names
    BY <1>1 DEF NamedOf
  <1>3. x = <<x[1], x[2]>> /\ x[1] \in UsedOf(d, p) /\ x[2] \in 1..PerBlock /\ EntryAt(d, p, x) # NULL
    BY <1>1, <1>2, EntryTypes DEF PlacesOf
  <1>4. IsFiniteSet(PlacesOf(d, p)) /\ Cardinality(PlacesOf(d, p)) \in Nat
    BY <1>1, PlacesFinite
  <1>5. Cardinality(PlacesOf(d, p) \ {x}) = Cardinality(PlacesOf(d, p)) - 1 /\ Cardinality(PlacesOf(d, p) \ {x}) \in Nat
    <2> DEFINE P == PlacesOf(d, p)
    <2> HIDE DEF P
    <2>1. IsFiniteSet(P) /\ x \in P
      BY <1>2, <1>4 DEF P
    <2>2. IsFiniteSet(P \ {x}) /\ Cardinality(P \ {x}) = Cardinality(P) - 1
      BY <2>1, FS_RemoveElement
    <2>3. Cardinality(P \ {x}) \in Nat
      BY <2>2, FS_CardinalityType
    <2> QED
      BY <2>2, <2>3 DEF P
  <1>6. d.inode[p] \in Inode /\ d.inode[p].i_size \in Nat
    BY <1>1 DEF Disk, Inode
  <1>7. Sector(d, p, x[1]) \in SectorsOf(d, V) /\ Sector(d, p, x[1]) \in Blocks
    BY <1>1, <1>3, SectorsUnder, SectorTypes
  <1> QED
    BY <1>1, <1>2, <1>3, <1>4, <1>5, <1>6, <1>7 DEF Sized, PlaceFacts

\* Other inodes are not touched: what their entries look like.
Beyond(d, e, V, p, x) ==
  /\ \A v \in V : v # p => e.inode[v] = d.inode[v]
  /\ \A s \in SectorsOf(d, V) : s # Sector(d, p, x[1]) => e.block[s] = d.block[s]
OthersSame(d, e, V, D, p) ==
  /\ \A m \in D : m # p => LooksSame(d, e, m)
  /\ \A v \in V : v # p => SameSectors(d, e, v)

\* The other directories look the same.
LEMMA OthersLookSame ==
  ASSUME NEW d, NEW e, NEW V, NEW D, NEW p, NEW x, NEW n, Removal(d, V, D, p, x, n), Beyond(d, e, V, p, x)
  PROVE  OthersSame(d, e, V, D, p)
  <1>1. OwnBlocks(d, V) /\ D \subseteq V /\ p \in V /\ x[1] \in UsedOf(d, p)
    <2>1. PlaceFacts(d, V, p, x)
      BY RemovalFacts
    <2> QED
      BY <2>1 DEF Removal, Img, Inside, PlaceFacts
  <1>2. ASSUME NEW m \in D, m # p PROVE LooksSame(d, e, m)
    <2>1. m \in V /\ e.inode[m] = d.inode[m]
      BY <1>1, <1>2 DEF Beyond
    <2>2. \A k \in UsedOf(d, m) : e.block[Sector(d, m, k)] = d.block[Sector(d, m, k)]
      <3> SUFFICES ASSUME NEW k \in UsedOf(d, m) PROVE e.block[Sector(d, m, k)] = d.block[Sector(d, m, k)]
        OBVIOUS
      <3>1. Sector(d, m, k) \in SectorsOf(d, V)
        BY <2>1, SectorsUnder
      <3>2. Sector(d, m, k) # Sector(d, p, x[1])
        BY <1>1, <1>2, <2>1 DEF OwnBlocks
      <3> QED
        BY <3>1, <3>2 DEF Beyond
    <2> QED
      BY <2>1, <2>2, LooksSameFrom
  <1>3. ASSUME NEW v \in V, v # p PROVE SameSectors(d, e, v)
    BY <1>3 DEF SameSectors, UsedOf, Sector, Beyond
  <1> QED
    BY <1>2, <1>3 DEF OthersSame

\* Its blocks R are no longer those of p, and n is gone: what is left.
Shrinks(d, e, V, p, R) ==
  /\ \A v \in V : v # p => SameSectors(d, e, v)
  /\ UsedOf(e, p) = UsedOf(d, p) \ R /\ \A k \in UsedOf(e, p) : Sector(e, p, k) = Sector(d, p, k)
Remain(d, e, V, p, n, R) ==
  \A s : s \in SectorsOf(e, V \ {n}) <=>
            /\ s \in SectorsOf(d, V)
            /\ \A k \in UsedOf(d, n) : s # Sector(d, n, k)
            /\ \A k \in UsedOf(d, p) : k \in R => s # Sector(d, p, k)

\* The blocks that are left are those of the inodes that are left.
LEMMA SectorsLeft ==
  ASSUME NEW d, NEW e, NEW V, NEW D, NEW p, NEW x, NEW n, Removal(d, V, D, p, x, n), NEW R, Shrinks(d, e, V, p, R)
  PROVE  Remain(d, e, V, p, n, R)
  <1>1. OwnBlocks(d, V) /\ p \in V /\ n \in V /\ n # p
    BY DEF Removal, Img
  <1> SUFFICES ASSUME NEW s
               PROVE  s \in SectorsOf(e, V \ {n}) <=>
                        /\ s \in SectorsOf(d, V)
                        /\ \A k \in UsedOf(d, n) : s # Sector(d, n, k)
                        /\ \A k \in UsedOf(d, p) : k \in R => s # Sector(d, p, k)
    BY DEF Remain
  <1>2. s \in SectorsOf(e, V \ {n}) <=> \E v \in V \ {n} : \E k \in UsedOf(e, v) : s = Sector(e, v, k)
    BY DEF SectorsOf
  <1>3. s \in SectorsOf(d, V) <=> \E v \in V : \E k \in UsedOf(d, v) : s = Sector(d, v, k)
    BY DEF SectorsOf
  <1>4. ASSUME NEW v \in V \ {n}, NEW k \in UsedOf(e, v), s = Sector(e, v, k)
        PROVE  /\ s \in SectorsOf(d, V)
               /\ \A l \in UsedOf(d, n) : s # Sector(d, n, l)
               /\ \A l \in UsedOf(d, p) : l \in R => s # Sector(d, p, l)
    <2>1. k \in UsedOf(d, v) /\ s = Sector(d, v, k) /\ (v = p => k \notin R) /\ v \in V /\ v # n
      BY <1>4 DEF SameSectors, Shrinks
    <2>2. s \in SectorsOf(d, V)
      BY <2>1, SectorsUnder
    <2>3. \A l \in UsedOf(d, n) : s # Sector(d, n, l)
      BY <1>1, <2>1 DEF OwnBlocks
    <2>4. \A l \in UsedOf(d, p) : l \in R => s # Sector(d, p, l)
      BY <1>1, <2>1 DEF OwnBlocks
    <2> QED
      BY <2>2, <2>3, <2>4
  <1>5. ASSUME NEW v \in V, NEW k \in UsedOf(d, v), s = Sector(d, v, k),
               \A l \in UsedOf(d, n) : s # Sector(d, n, l),
               \A l \in UsedOf(d, p) : l \in R => s # Sector(d, p, l)
        PROVE  \E u \in V \ {n} : \E l \in UsedOf(e, u) : s = Sector(e, u, l)
    <2>1. v # n /\ (v = p => k \notin R)
      BY <1>5
    <2>2. k \in UsedOf(e, v) /\ s = Sector(e, v, k)
      BY <1>5, <2>1 DEF SameSectors, Shrinks
    <2> QED
      BY <2>1, <2>2
  <1> QED
    BY <1>2, <1>3, <1>4, <1>5

\* delete_dir_entry in a block that stays.
ClearedAt(d, e, V, p, x) ==
  /\ \A l \in 1..Direct : Sector(e, p, l) = Sector(d, p, l)
  /\ e.inode[p].i_no = d.inode[p].i_no
  /\ e.inode[p].i_size = d.inode[p].i_size \/ e.inode[p].i_size = d.inode[p].i_size - 1
  /\ \A j \in 1..PerBlock : e.block[Sector(d, p, x[1])][j] = IF j = x[2] THEN NULL ELSE d.block[Sector(d, p, x[1])][j]
  /\ \A s \in SectorsOf(d, V) : s # Sector(d, p, x[1]) => e.block[s] = d.block[s]
  /\ \A v \in V : v # p => e.inode[v] = d.inode[v]
  /\ e.imap = d.imap /\ e.bmap = d.bmap

\* delete_dir_entry that gives the block back.
RecycledAt(d, e, V, p, x) ==
  /\ \A l \in 1..Direct : Sector(e, p, l) = IF l = x[1] THEN NULL ELSE Sector(d, p, l)
  /\ e.inode[p].i_no = d.inode[p].i_no
  /\ e.inode[p].i_size = d.inode[p].i_size - 1
  /\ \A s \in SectorsOf(d, V) : e.block[s] = d.block[s]
  /\ \A v \in V : v # p => e.inode[v] = d.inode[v]
  /\ e.imap = d.imap /\ e.bmap = d.bmap \ {Sector(d, p, x[1])}

Alone(d, p, x)   == \A j \in 1..PerBlock : <<x[1], j>> \in PlacesOf(d, p) => j = x[2]

\* An entry cut out of a block that stays is lost, and its block needed still.
LEMMA ClearedIsLost ==
  ASSUME NEW d, NEW e, NEW V, NEW D, NEW p, NEW x, NEW n, Removal(d, V, D, p, x, n), ClearedAt(d, e, V, p, x),
         x[1] = 1 \/ ~Alone(d, p, x)
  PROVE  /\ Lost(d, e, V, D, p, x, n)
         /\ \A s : s \in SectorsOf(e, V \ {n}) <=> s \in SectorsOf(d, V) /\ \A k \in UsedOf(d, n) : s # Sector(d, n, k)
  <1> DEFINE S == Sector(d, p, x[1])
  <1>1. /\ x = <<x[1], x[2]>> /\ x[1] \in UsedOf(d, p) /\ x[2] \in 1..PerBlock /\ x \in PlacesOf(d, p)
        /\ Cardinality(PlacesOf(d, p) \ {x}) = Cardinality(PlacesOf(d, p)) - 1
        /\ Cardinality(PlacesOf(d, p)) \in Nat /\ d.inode[p].i_size \in Nat /\ Cardinality(PlacesOf(d, p)) <= d.inode[p].i_size
    <2>1. PlaceFacts(d, V, p, x)
      BY RemovalFacts
    <2> QED
      BY <2>1 DEF PlaceFacts
  <1>2. /\ p \in D /\ p \in V /\ n \in V /\ n # p /\ OwnBlocks(d, V) /\ Inside(d, V, D) /\ Needed(d, D)
        /\ x \in NamedOf(d, p) /\ EntryAt(d, p, x).i_no = n /\ (n \in D => NamedOf(d, n) = {}) /\ Recorded(d, V)
    BY DEF Removal, Img
  <1>3. (\A m \in D : m # p => LooksSame(d, e, m)) /\ (\A v \in V : v # p => SameSectors(d, e, v))
    <2>1. Beyond(d, e, V, p, x)
      BY DEF Beyond, ClearedAt
    <2>2. OthersSame(d, e, V, D, p)
      BY <2>1, OthersLookSame
    <2> QED
      BY <2>2 DEF OthersSame
  <1>4. UsedOf(e, p) = UsedOf(d, p) /\ \A k \in UsedOf(d, p) : Sector(e, p, k) = Sector(d, p, k)
    BY DEF ClearedAt, UsedOf
  <1>5. ASSUME NEW y \in UsedOf(d, p) \X (1..PerBlock)
        PROVE  /\ y = x => EntryAt(e, p, y) = NULL
               /\ y # x => EntryAt(e, p, y) = EntryAt(d, p, y)
    <2>1. y = <<y[1], y[2]>> /\ y[1] \in UsedOf(d, p) /\ y[2] \in 1..PerBlock /\ Sector(d, p, y[1]) \in SectorsOf(d, V)
      BY <1>2, <1>5, SectorsUnder
    <2>2. EntryAt(e, p, y) = e.block[Sector(d, p, y[1])][y[2]] /\ EntryAt(d, p, y) = d.block[Sector(d, p, y[1])][y[2]]
      BY <2>1, <1>4 DEF EntryAt
    <2>3. CASE y = x
      BY <2>1, <2>2, <2>3 DEF ClearedAt
    <2>4. CASE y # x /\ y[1] = x[1]
      <3>1. y[2] # x[2]
        BY <1>1, <2>1, <2>4
      <3> QED
        BY <2>1, <2>2, <2>4, <3>1 DEF ClearedAt
    <2>5. CASE y # x /\ y[1] # x[1]
      <3>1. Sector(d, p, y[1]) # S
        BY <1>1, <1>2, <2>1, <2>5 DEF OwnBlocks
      <3> QED
        BY <2>1, <2>2, <2>5, <3>1 DEF ClearedAt
    <2> QED
      BY <2>3, <2>4, <2>5
  <1>6. ASSUME NEW y
        PROVE  y \in PlacesOf(e, p) <=> y \in PlacesOf(d, p) /\ y # x
    BY <1>4, <1>5 DEF PlacesOf
  <1>7. PlacesOf(e, p) = PlacesOf(d, p) \ {x}
    BY <1>6
  <1>8. \A y \in PlacesOf(e, p) : EntryAt(e, p, y) = EntryAt(d, p, y)
    BY <1>5, <1>6 DEF PlacesOf
  <1>9. \A k \in UsedOf(e, p) : k # 1 => \E j \in 1..PerBlock : <<k, j>> \in PlacesOf(e, p)
    <2> SUFFICES ASSUME NEW k \in UsedOf(d, p), k # 1 PROVE \E j \in 1..PerBlock : <<k, j>> \in PlacesOf(e, p)
      BY <1>4
    <2>1. CASE k = x[1]
      <3>1. PICK j \in 1..PerBlock : <<x[1], j>> \in PlacesOf(d, p) /\ j # x[2]
        BY <2>1 DEF Alone
      <3>2. <<x[1], j>> # x
        BY <3>1, <1>1
      <3> QED
        BY <2>1, <3>1, <3>2, <1>6
    <2>2. CASE k # x[1]
      <3>1. PICK j \in 1..PerBlock : <<k, j>> \in PlacesOf(d, p)
        BY <1>2 DEF Needed
      <3>2. <<k, j>> # x
        BY <2>2, <1>1
      <3> QED
        BY <3>1, <3>2, <1>6
    <2> QED
      BY <2>1, <2>2
  <1>10. Cardinality(PlacesOf(e, p)) <= e.inode[p].i_size
    BY <1>1, <1>7 DEF ClearedAt
  <1>11. ASSUME NEW s
         PROVE  s \in SectorsOf(e, V \ {n}) <=> s \in SectorsOf(d, V) /\ \A k \in UsedOf(d, n) : s # Sector(d, n, k)
    <2> DEFINE R == {}
    <2>1. UsedOf(e, p) = UsedOf(d, p) \ R /\ \A k : k \notin R
      BY <1>4
    <2> HIDE DEF R
    <2>2. \A k \in UsedOf(e, p) : Sector(e, p, k) = Sector(d, p, k)
      BY <1>4
    <2>3. Shrinks(d, e, V, p, R)
      BY <1>3, <2>1, <2>2 DEF Shrinks
    <2>4. Remain(d, e, V, p, n, R)
      BY <2>3, SectorsLeft
    <2> QED
      BY <2>1, <2>4 DEF Remain
  <1>12. V \ {n} \subseteq e.imap /\ SectorsOf(e, V \ {n}) \subseteq e.bmap
    BY <1>2, <1>11 DEF ClearedAt, Inside, OwnBlocks
  <1>13. (\A m \in D : m # n /\ m # p => LooksSame(d, e, m) /\ e.inode[m].i_size = d.inode[m].i_size)
         /\ (\A v \in V : v # n => e.inode[v].i_no = d.inode[v].i_no)
         /\ (\A v \in V : v # n /\ v # p => SameSectors(d, e, v))
    BY <1>2, <1>3 DEF ClearedAt, Inside
  <1>14. UsedOf(e, p) \subseteq UsedOf(d, p) /\ \A k \in UsedOf(e, p) : Sector(e, p, k) = Sector(d, p, k)
    BY <1>4
  <1>15. Lost(d, e, V, D, p, x, n)
    BY <1>2, <1>7, <1>8, <1>9, <1>10, <1>12, <1>13, <1>14 DEF Lost
  <1> QED
    BY <1>11, <1>15

RemainBut(d, e, V, p, x, n) ==
  \A s : s \in SectorsOf(e, V \ {n}) <=>
            s \in SectorsOf(d, V) /\ s # Sector(d, p, x[1]) /\ \A k \in UsedOf(d, n) : s # Sector(d, n, k)

\* An entry whose block is given back is lost.
LEMMA RecycledIsLost ==
  ASSUME NEW d, NEW e, NEW V, NEW D, NEW p, NEW x, NEW n, Removal(d, V, D, p, x, n), RecycledAt(d, e, V, p, x),
         x[1] # 1, Alone(d, p, x)
  PROVE  Lost(d, e, V, D, p, x, n) /\ RemainBut(d, e, V, p, x, n)
  <1> DEFINE S == Sector(d, p, x[1])
  <1>1. /\ x = <<x[1], x[2]>> /\ x[1] \in UsedOf(d, p) /\ x[2] \in 1..PerBlock /\ x \in PlacesOf(d, p)
        /\ Cardinality(PlacesOf(d, p) \ {x}) = Cardinality(PlacesOf(d, p)) - 1
        /\ Cardinality(PlacesOf(d, p)) \in Nat /\ d.inode[p].i_size \in Nat /\ Cardinality(PlacesOf(d, p)) <= d.inode[p].i_size
    <2>1. PlaceFacts(d, V, p, x)
      BY RemovalFacts
    <2> QED
      BY <2>1 DEF PlaceFacts
  <1>2. /\ p \in D /\ p \in V /\ n \in V /\ n # p /\ OwnBlocks(d, V) /\ Inside(d, V, D) /\ Needed(d, D)
        /\ x \in NamedOf(d, p) /\ EntryAt(d, p, x).i_no = n /\ (n \in D => NamedOf(d, n) = {}) /\ Recorded(d, V)
    BY DEF Removal, Img
  <1>3. (\A m \in D : m # p => LooksSame(d, e, m)) /\ (\A v \in V : v # p => SameSectors(d, e, v))
    <2>1. Beyond(d, e, V, p, x)
      BY DEF Beyond, RecycledAt
    <2>2. OthersSame(d, e, V, D, p)
      BY <2>1, OthersLookSame
    <2> QED
      BY <2>2 DEF OthersSame
  <1>4. UsedOf(e, p) = UsedOf(d, p) \ {x[1]} /\ \A k \in UsedOf(e, p) : Sector(e, p, k) = Sector(d, p, k)
    BY DEF RecycledAt, UsedOf
  <1>5. ASSUME NEW y \in UsedOf(e, p) \X (1..PerBlock)
        PROVE  y \in UsedOf(d, p) \X (1..PerBlock) /\ y[1] # x[1] /\ EntryAt(e, p, y) = EntryAt(d, p, y)
    <2>1. y = <<y[1], y[2]>> /\ y[1] \in UsedOf(e, p) /\ y[1] \in UsedOf(d, p) /\ y[1] # x[1] /\ y[2] \in 1..PerBlock
      BY <1>4, <1>5
    <2>2. Sector(d, p, y[1]) \in SectorsOf(d, V)
      BY <1>2, <2>1, SectorsUnder
    <2>3. EntryAt(e, p, y) = EntryAt(d, p, y)
      BY <2>1, <2>2, <1>4 DEF EntryAt, RecycledAt
    <2> QED
      BY <2>1, <2>3
  <1>6. ASSUME NEW y
        PROVE  y \in PlacesOf(e, p) <=> y \in PlacesOf(d, p) /\ y # x
    <2>1. ASSUME y \in PlacesOf(e, p) PROVE y \in PlacesOf(d, p) /\ y # x
      BY <2>1, <1>5 DEF PlacesOf
    <2>2. ASSUME y \in PlacesOf(d, p), y # x PROVE y \in PlacesOf(e, p)
      <3>1. y = <<y[1], y[2]>> /\ y[1] \in UsedOf(d, p) /\ y[2] \in 1..PerBlock /\ EntryAt(d, p, y) # NULL
        BY <2>2 DEF PlacesOf
      <3>2. y[1] # x[1]
        <4>1. y[1] = x[1] => y[2] = x[2]
          BY <2>2, <3>1 DEF Alone
        <4> QED
          BY <4>1, <3>1, <2>2, <1>1
      <3>3. y[1] \in UsedOf(e, p)
        BY <3>1, <3>2, <1>4
      <3>4. y \in UsedOf(e, p) \X (1..PerBlock)
        BY <3>1, <3>3
      <3> QED
        BY <3>1, <3>4, <1>5 DEF PlacesOf
    <2> QED
      BY <2>1, <2>2
  <1>7. PlacesOf(e, p) = PlacesOf(d, p) \ {x}
    BY <1>6
  <1>8. \A y \in PlacesOf(e, p) : EntryAt(e, p, y) = EntryAt(d, p, y)
    BY <1>5 DEF PlacesOf
  <1>9. \A k \in UsedOf(e, p) : k # 1 => \E j \in 1..PerBlock : <<k, j>> \in PlacesOf(e, p)
    <2> SUFFICES ASSUME NEW k \in UsedOf(d, p), k # x[1], k # 1 PROVE \E j \in 1..PerBlock : <<k, j>> \in PlacesOf(e, p)
      BY <1>4
    <2>1. PICK j \in 1..PerBlock : <<k, j>> \in PlacesOf(d, p)
      BY <1>2 DEF Needed
    <2>2. <<k, j>> # x
      BY <1>1
    <2> QED
      BY <2>1, <2>2, <1>6
  <1>10. Cardinality(PlacesOf(e, p)) <= e.inode[p].i_size
    BY <1>1, <1>7 DEF RecycledAt
  <1>11. ASSUME NEW s
         PROVE  s \in SectorsOf(e, V \ {n}) <=>
                  s \in SectorsOf(d, V) /\ s # S /\ \A k \in UsedOf(d, n) : s # Sector(d, n, k)
    <2> DEFINE R == {x[1]}
    <2>1. UsedOf(e, p) = UsedOf(d, p) \ R /\ \A k : k \in R <=> k = x[1]
      BY <1>4
    <2> HIDE DEF R
    <2>2. \A k \in UsedOf(e, p) : Sector(e, p, k) = Sector(d, p, k)
      BY <1>4
    <2>3. Shrinks(d, e, V, p, R)
      BY <1>3, <2>1, <2>2 DEF Shrinks
    <2>4. Remain(d, e, V, p, n, R)
      BY <2>3, SectorsLeft
    <2>5. (\A k \in UsedOf(d, p) : k \in R => s # Sector(d, p, k)) <=> s # S
      <3>1. x[1] \in UsedOf(d, p) /\ \A k : k \in R <=> k = x[1]
        BY <1>1, <2>1
      <3> QED
        BY <3>1
    <2>6. s \in SectorsOf(e, V \ {n}) <=>
            /\ s \in SectorsOf(d, V)
            /\ \A k \in UsedOf(d, n) : s # Sector(d, n, k)
            /\ \A k \in UsedOf(d, p) : k \in R => s # Sector(d, p, k)
      BY <2>4 DEF Remain
    <2> HIDE DEF S
    <2> QED
      BY <2>5, <2>6
  <1>12. V \ {n} \subseteq e.imap /\ SectorsOf(e, V \ {n}) \subseteq e.bmap
    BY <1>2, <1>11 DEF RecycledAt, Inside, OwnBlocks
  <1>13. (\A m \in D : m # n /\ m # p => LooksSame(d, e, m) /\ e.inode[m].i_size = d.inode[m].i_size)
         /\ (\A v \in V : v # n => e.inode[v].i_no = d.inode[v].i_no)
         /\ (\A v \in V : v # n /\ v # p => SameSectors(d, e, v))
    BY <1>2, <1>3 DEF RecycledAt, Inside
  <1>14. UsedOf(e, p) \subseteq UsedOf(d, p)
    BY <1>4
  <1>15. Lost(d, e, V, D, p, x, n)
    BY <1>2, <1>4, <1>7, <1>8, <1>9, <1>10, <1>12, <1>13, <1>14 DEF Lost
  <1> QED
    BY <1>11, <1>15 DEF RemainBut

\* The blocks of inode i, and the bitmaps once it has been released.
BlocksOf(i) == {i.i_sectors[k] : k \in Used(i)}
After(bm, i) == [imap |-> bm.imap \ {i.i_no}, bmap |-> bm.bmap \ BlocksOf(i)]

FreesAll(v, F, bmap, N) ==
  /\ v \in Seq(Writes) /\ Len(v) = N
  /\ \A m \in 1..N : \E T \in SUBSET Blocks : bmap \ F \subseteq T /\ v[m] = Bmap(T)
  /\ N # 0 => v[N] = Bmap(bmap \ F)
  /\ N = 0 => F = {}

\* inode_release gives the blocks of an inode back one by one, and in the end all of them.
LEMMA FreeingIs ==
  ASSUME NEW i \in Inode, NEW bmap \in SUBSET Blocks
  PROVE  \E N \in Nat : FreesAll(Freeing(i, bmap), BlocksOf(i), bmap, N)
  <1> DEFINE U == Used(i)
             N == Cardinality(U)
             F == BlocksOf(i)
             G(m) == {i.i_sectors[k] : k \in {l \in U : Cardinality(U \cap 1..l) <= m}}
             v == Freeing(i, bmap)
  <1>1. v = [m \in 1..N |-> Bmap(bmap \ G(m))] /\ U \in SUBSET (1..Direct) /\ F = {i.i_sectors[k] : k \in U}
    BY DEF Freeing, Used, BlocksOf
  <1>2. IsFiniteSet(U) /\ N \in Nat
    <2>1. 1 \in Int /\ Direct \in Int
      BY DiskConstants
    <2>2. IsFiniteSet(1..Direct)
      BY <2>1, FS_Interval
    <2>3. IsFiniteSet(U)
      BY <1>1, <2>2, FS_Subset
    <2> QED
      BY <2>3, FS_CardinalityType
  <1> HIDE DEF U, v, F
  <1>3. \A m \in 1..N : bmap \ G(m) \in SUBSET Blocks /\ bmap \ F \subseteq bmap \ G(m)
    BY <1>1
  <1>4. G(N) = F
    <2>1. ASSUME NEW l \in U PROVE Cardinality(U \cap 1..l) <= N
      <3> DEFINE W == U \cap 1..l
      <3>1. W \in SUBSET U
        OBVIOUS
      <3> HIDE DEF W
      <3>2. Cardinality(W) <= Cardinality(U)
        BY <3>1, <1>2, FS_Subset
      <3> QED
        BY <3>2 DEF W
    <2>2. {l \in U : Cardinality(U \cap 1..l) <= N} = U
      BY <2>1
    <2> QED
      BY <1>1, <2>2
  <1>5. N = 0 => F = {}
    <2>1. N = 0 => U = {}
      BY <1>2, FS_EmptySet
    <2> QED
      BY <1>1, <2>1
  <1> HIDE DEF N, G
  <1>6. v \in Seq(Writes) /\ Len(v) = N
    <2> DEFINE f(m) == Bmap(bmap \ G(m))
    <2>1. \A m \in 1..N : f(m) \in Writes
      BY <1>3, WriteKinds
    <2>2. v = [m \in 1..N |-> f(m)]
      BY <1>1
    <2> HIDE DEF f
    <2>3. v \in [1..N -> Writes]
      BY <2>1, <2>2
    <2> QED
      BY <2>3, <1>2
  <1>7. \A m \in 1..N : v[m] = Bmap(bmap \ G(m))
    BY <1>1
  <1>8. \A m \in 1..N : \E T \in SUBSET Blocks : bmap \ F \subseteq T /\ v[m] = Bmap(T)
    BY <1>3, <1>7
  <1>9. N # 0 => v[N] = Bmap(bmap \ F)
    <2>1. N # 0 => N \in 1..N
      BY <1>2
    <2> QED
      BY <2>1, <1>4, <1>7
  <1>10. FreesAll(v, F, bmap, N)
    BY <1>5, <1>6, <1>8, <1>9 DEF FreesAll
  <1> QED
    BY <1>2, <1>10 DEF v, F

\* The writes of inode_release.
Releases(w, i, bm, N) ==
  /\ N \in Nat /\ w \in Seq(Writes) /\ DOMAIN w = 1..N + 2
  /\ \A m \in 1..N : \E T \in SUBSET Blocks : bm.bmap \ BlocksOf(i) \subseteq T /\ w[m] = Bmap(T)
  /\ N # 0 => w[N] = Bmap(bm.bmap \ BlocksOf(i))
  /\ N = 0 => BlocksOf(i) = {}
  /\ w[N + 1] = Imap(bm.imap \ {i.i_no}) /\ w[N + 2] = InodeAt(i.i_no, NoInode)

\* What inode_release writes, and last of each bitmap.
LEMMA ReleaseIs ==
  ASSUME NEW i \in Inode, NEW bm \in Bitmaps
  PROVE  \E N : Releases(ReleaseWrites(i, bm), i, bm, N)
  <1> DEFINE v == Freeing(i, bm.bmap)
             a == Imap(bm.imap \ {i.i_no})
             b == InodeZero(i.i_no)
             t == <<a, b>>
             w == v \o t
             F == BlocksOf(i)
  <1>1. bm.bmap \in SUBSET Blocks /\ bm.imap \in SUBSET Inodes /\ i.i_no \in Inodes /\ bm.imap \ {i.i_no} \in SUBSET Inodes
    BY DEF Bitmaps, Inode
  <1>2. PICK N \in Nat : FreesAll(v, F, bm.bmap, N)
    BY <1>1, FreeingIs
  <1>3. b = InodeAt(i.i_no, NoInode)
    BY DEF InodeZero, InodeAt
  <1>4. a \in Writes /\ b \in Writes
    BY <1>1, <1>3, WriteKinds, SomeValues
  <1>5. ReleaseWrites(i, bm) = w
    BY DEF ReleaseWrites
  <1>6. v \in Seq(Writes) /\ Len(v) = N
    BY <1>2 DEF FreesAll
  <1> HIDE DEF v, a, b, F
  <1>7. t \in Seq(Writes) /\ Len(t) = 2 /\ t[1] = a /\ t[2] = b
    BY <1>4
  <1> HIDE DEF t
  <1>8. w \in Seq(Writes) /\ Len(w) = Len(v) + Len(t) /\ \A l \in 1..Len(v) + Len(t) : w[l] = IF l <= Len(v) THEN v[l] ELSE t[l - Len(v)]
    BY <1>6, <1>7, ConcatProperties
  <1> HIDE DEF w
  <1>9. DOMAIN w = 1..N + 2 /\ \A l \in 1..N + 2 : w[l] = IF l <= N THEN v[l] ELSE t[l - N]
    BY <1>6, <1>7, <1>8
  <1>10. w[N + 1] = a /\ w[N + 2] = b
    <2>1. N + 1 \in 1..N + 2 /\ N + 2 \in 1..N + 2 /\ ~(N + 1 <= N) /\ ~(N + 2 <= N) /\ N + 1 - N = 1 /\ N + 2 - N = 2
      OBVIOUS
    <2> QED
      BY <2>1, <1>7, <1>9
  <1>11. \A m \in 1..N : w[m] = v[m]
    BY <1>9
  <1>12. N # 0 => w[N] = Bmap(bm.bmap \ F)
    <2>1. N # 0 => N \in 1..N
      OBVIOUS
    <2> QED
      BY <2>1, <1>2, <1>11 DEF FreesAll
  <1>13. Releases(w, i, bm, N)
    BY <1>2, <1>3, <1>8, <1>9, <1>10, <1>11, <1>12 DEF Releases, FreesAll, a, F
  <1> QED
    BY <1>5, <1>13

\* Inode i, of number n, is to be released on disk d.
Releasable(d, i, n, V, D, bm) ==
  /\ d \in Disk /\ d.magic /\ Img(d, V, D) /\ bm \in Bitmaps /\ i \in Inode /\ i.i_no = n /\ n \in Inodes /\ n \notin V
  /\ V \subseteq bm.imap /\ d.imap = bm.imap /\ d.bmap = bm.bmap
  /\ \A s \in SectorsOf(d, V) : s \in bm.bmap /\ s \notin BlocksOf(i)

\* An inode that is in no directory can be released.
LEMMA ReleaseFollows ==
  ASSUME NEW d, NEW i, NEW n, NEW V, NEW D, NEW bm, Releasable(d, i, n, V, D, bm)
  PROVE  Releasing(d, ReleaseWrites(i, bm), n, V, D, After(bm, i)) /\ After(bm, i) \in Bitmaps
  <1> DEFINE w == ReleaseWrites(i, bm)
             F == BlocksOf(i)
             m == After(bm, i)
  <1>1. /\ d \in Disk /\ d.magic /\ Img(d, V, D) /\ bm \in Bitmaps /\ i \in Inode /\ i.i_no = n /\ n \in Inodes /\ n \notin V
        /\ V \subseteq bm.imap /\ d.imap = bm.imap /\ d.bmap = bm.bmap
        /\ \A s \in SectorsOf(d, V) : s \in bm.bmap /\ s \notin F
    BY DEF Releasable
  <1>2. PICK N : Releases(w, i, bm, N)
    BY <1>1, ReleaseIs
  <1>3. m.imap = bm.imap \ {n} /\ m.bmap = bm.bmap \ F /\ m \in Bitmaps
    BY <1>1 DEF After, Bitmaps
  <1>4. bm.imap \ {n} \in SUBSET Inodes /\ bm.bmap \ F \in SUBSET Blocks
    BY <1>1 DEF Bitmaps
  <1> HIDE DEF w, F, m
  <1>5. /\ N \in Nat /\ w \in Seq(Writes) /\ DOMAIN w = 1..N + 2
        /\ \A l \in 1..N : \E T \in SUBSET Blocks : bm.bmap \ F \subseteq T /\ w[l] = Bmap(T)
        /\ N # 0 => w[N] = Bmap(bm.bmap \ F)
        /\ N = 0 => F = {}
        /\ w[N + 1] = Imap(bm.imap \ {n}) /\ w[N + 2] = InodeAt(n, NoInode)
    BY <1>1, <1>2 DEF Releases, F
  <1>6. \A l \in DOMAIN w : l \in 1..N \/ l = N + 1 \/ l = N + 2
    BY <1>5
  <1>7. ASSUME NEW l \in DOMAIN w PROVE Harmless(w[l], n, V, SectorsOf(d, V))
    <2>1. CASE l \in 1..N
      <3>1. PICK T \in SUBSET Blocks : bm.bmap \ F \subseteq T /\ w[l] = Bmap(T)
        BY <2>1, <1>5
      <3>2. SectorsOf(d, V) \subseteq T
        BY <3>1, <1>1
      <3> QED
        BY <3>1, <3>2 DEF Harmless
    <2>2. CASE l = N + 1
      <3>1. V \subseteq bm.imap \ {n}
        BY <1>1
      <3> QED
        BY <2>2, <3>1, <1>4, <1>5 DEF Harmless
    <2>3. CASE l = N + 2
      BY <2>3, <1>5 DEF Harmless
    <2> QED
      BY <2>1, <2>2, <2>3, <1>6
  <1>8. w[N + 1].kind = "imap" /\ w[N + 1].val = bm.imap \ {n} /\ w[N + 2].kind = "inode"
    BY <1>5, KindsOf
  <1>9. Lastly(w, "bmap", m.bmap, d.bmap)
    <2>1. CASE N = 0
      <3>1. \A l \in DOMAIN w : w[l].kind # "bmap"
        <4>1. \A l \in DOMAIN w : l = N + 1 \/ l = N + 2
          BY <2>1, <1>5, <1>6
        <4> QED
          BY <4>1, <1>8
      <3>2. d.bmap = m.bmap
        BY <2>1, <1>1, <1>3, <1>5
      <3> QED
        BY <3>1, <3>2 DEF Lastly
    <2>2. CASE N # 0
      <3>1. N \in DOMAIN w
        BY <2>2, <1>5
      <3>2. w[N].kind = "bmap" /\ w[N].val = m.bmap
        BY <2>2, <1>3, <1>5, KindsOf
      <3>3. \A j \in DOMAIN w : j > N => w[j].kind # "bmap"
        <4>1. \A j \in DOMAIN w : j > N => j = N + 1 \/ j = N + 2
          BY <1>5
        <4> QED
          BY <4>1, <1>8
      <3> QED
        BY <3>1, <3>2, <3>3 DEF Lastly
    <2> QED
      BY <2>1, <2>2
  <1>10. Lastly(w, "imap", m.imap, d.imap)
    <2>1. N + 1 \in DOMAIN w
      BY <1>5
    <2>2. \A j \in DOMAIN w : j > N + 1 => w[j].kind # "imap"
      <3>1. \A j \in DOMAIN w : j > N + 1 => j = N + 2
        BY <1>5
      <3> QED
        BY <3>1, <1>8
    <2> QED
      BY <2>1, <2>2, <1>3, <1>8 DEF Lastly
  <1>11. Releasing(d, w, n, V, D, m)
    BY <1>1, <1>5, <1>7, <1>9, <1>10 DEF Releasing
  <1> QED
    BY <1>3, <1>11 DEF w, m

\* What RmdirSelf leaves, whatever it does to the disk, is of the types.
LEMMA ReleaseTypes ==
  ASSUME NEW i \in Inode, NEW bm \in Bitmaps
  PROVE  ReleaseWrites(i, bm) \in Seq(Writes) /\ ReleaseWrites(i, bm) # <<>> /\ After(bm, i) \in Bitmaps
  <1> DEFINE w == ReleaseWrites(i, bm)
  <1>1. PICK N : Releases(w, i, bm, N)
    BY ReleaseIs
  <1> HIDE DEF w
  <1>2. w \in Seq(Writes) /\ N + 1 \in DOMAIN w
    BY <1>1 DEF Releases
  <1>3. w # <<>>
    BY <1>2
  <1>4. After(bm, i) \in Bitmaps
    BY DEF After, Bitmaps
  <1> QED
    BY <1>2, <1>3, <1>4 DEF w

\* delete_dir_entry finds the block of the entry.
LEMMA HeldBy ==
  ASSUME NEW V, NEW D, NEW p, NEW x, NEW n, Removal(disk, V, D, p, x, n)
  PROVE  Least(Holding(Ino(p), n)) = x[1]
  <1> DEFINE H == Holding(Ino(p), n)
  <1>1. PlaceFacts(disk, V, p, x)
    BY RemovalFacts
  <1>2. x = <<x[1], x[2]>> /\ x[1] \in UsedOf(disk, p) /\ x[2] \in 1..PerBlock
    BY <1>1 DEF PlaceFacts
  <1>3. /\ disk \in Disk /\ p \in D /\ p \in Inodes /\ OneEntry(disk, D) /\ x \in NamedOf(disk, p)
        /\ EntryAt(disk, p, x).i_no = n
    BY DEF Removal, Img
  <1>4. ASSUME NEW k
        PROVE  k \in H <=> k = x[1]
    <2>1. k \in H <=> /\ k \in UsedOf(disk, p)
                      /\ \E y \in NamedOf(disk, p) : /\ EntryAt(disk, p, y).i_no = n
                                                     /\ \E j \in 1..PerBlock : EntryAt(disk, p, y) = EntryAt(disk, p, <<k, j>>)
      <3>1. /\ Used(Ino(p)) = UsedOf(disk, p)
            /\ \A j : Of(Ino(p), k)[j] = EntryAt(disk, p, <<k, j>>)
            /\ Named(Ino(p)) = {EntryAt(disk, p, y) : y \in NamedOf(disk, p)}
        BY OfDisk
      <3> QED
        BY <3>1 DEF Holding
    <2>2. ASSUME k \in H PROVE k = x[1]
      <3>1. PICK y \in NamedOf(disk, p) : /\ EntryAt(disk, p, y).i_no = n
                                          /\ \E j \in 1..PerBlock : EntryAt(disk, p, y) = EntryAt(disk, p, <<k, j>>)
        BY <2>1, <2>2
      <3>2. PICK j \in 1..PerBlock : EntryAt(disk, p, y) = EntryAt(disk, p, <<k, j>>)
        BY <3>1
      <3>3. EntryAt(disk, p, y) # NULL /\ EntryAt(disk, p, y).filename \in Names
        BY DEF NamedOf, PlacesOf
      <3>4. <<k, j>> \in NamedOf(disk, p)
        <4>1. <<k, j>> \in UsedOf(disk, p) \X (1..PerBlock)
          BY <2>1, <2>2
        <4> QED
          BY <4>1, <3>2, <3>3 DEF NamedOf, PlacesOf
      <3>5. <<k, j>> = x
        <4> DEFINE z == <<k, j>>
        <4>1. z \in NamedOf(disk, p) /\ EntryAt(disk, p, z).i_no = n
          BY <3>1, <3>2, <3>4
        <4> HIDE DEF z
        <4>2. z = x
          BY <4>1, <1>3 DEF OneEntry
        <4> QED
          BY <4>2 DEF z
      <3> QED
        BY <3>5
    <2>3. ASSUME k = x[1] PROVE k \in H
      <3>1. EntryAt(disk, p, x) = EntryAt(disk, p, <<k, x[2]>>)
        BY <2>3, <1>2
      <3> QED
        BY <3>1, <2>1, <2>3, <1>2, <1>3
    <2> QED
      BY <2>2, <2>3
  <1> HIDE DEF H
  <1>5. x[1] \in Nat
    BY <1>2, <1>3, SectorTypes
  <1>6. H \in SUBSET Nat /\ H # {}
    BY <1>4, <1>5
  <1>7. Least(H) \in H
    BY <1>6, LeastOf
  <1> QED
    BY <1>4, <1>7 DEF H

\* It gives the block back if it is not the first and has no other entry.
LEMMA RecyclesMeans ==
  ASSUME NEW V, NEW D, NEW p, NEW x, NEW n, Removal(disk, V, D, p, x, n)
  PROVE  Recycles(Ino(p), x[1]) <=> x[1] # 1 /\ Alone(disk, p, x)
  <1> DEFINE k == x[1]
             C == {j \in 1..PerBlock : Of(Ino(p), k)[j] # NULL /\ Of(Ino(p), k)[j].filename \in Names}
  <1>1. PlaceFacts(disk, V, p, x)
    BY RemovalFacts
  <1>2. x = <<k, x[2]>> /\ k \in UsedOf(disk, p) /\ x[2] \in 1..PerBlock
    BY <1>1 DEF PlaceFacts
  <1>3. /\ disk \in Disk /\ p \in D /\ p \in Inodes /\ x \in NamedOf(disk, p) /\ DotsAt(disk, p)
    BY DEF Removal, Img, Dotted
  <1>4. \A j : Of(Ino(p), k)[j] = EntryAt(disk, p, <<k, j>>)
    BY OfDisk
  <1>5. \A j \in 1..PerBlock : j \in C <=> <<k, j>> \in NamedOf(disk, p)
    BY <1>2, <1>4 DEF NamedOf, PlacesOf
  <1>6. x[2] \in C
    BY <1>2, <1>3, <1>5
  <1>7. First(Ino(p), k) <=> \E j \in 1..PerBlock : EntryAt(disk, p, <<k, j>>) # NULL /\ EntryAt(disk, p, <<k, j>>).filename = "."
    <2> DEFINE g(j) == Of(Ino(p), k)[j]
               h(j) == EntryAt(disk, p, <<k, j>>)
    <2>1. First(Ino(p), k) <=> \E j \in 1..PerBlock : g(j) # NULL /\ g(j).filename = "."
      BY DEF First
    <2>2. \A j : g(j) = h(j)
      BY <1>4
    <2> HIDE DEF g, h
    <2>3. First(Ino(p), k) <=> \E j \in 1..PerBlock : h(j) # NULL /\ h(j).filename = "."
      BY <2>1, <2>2
    <2> QED
      BY <2>3 DEF h
  <1>8. First(Ino(p), k) <=> k = 1
    <2>1. ASSUME k = 1 PROVE First(Ino(p), k)
      <3>1. <<1, 1>> \in PlacesOf(disk, p) /\ EntryAt(disk, p, <<1, 1>>).filename = "." /\ 1 \in 1..PerBlock
        BY <1>3, DiskConstants DEF DotsAt
      <3>2. EntryAt(disk, p, <<1, 1>>) # NULL
        BY <3>1 DEF PlacesOf
      <3> QED
        BY <3>1, <3>2, <2>1, <1>7
    <2>2. ASSUME First(Ino(p), k), k # 1 PROVE FALSE
      <3>1. PICK j \in 1..PerBlock : EntryAt(disk, p, <<k, j>>) # NULL /\ EntryAt(disk, p, <<k, j>>).filename = "."
        BY <2>2, <1>7
      <3>2. <<k, j>> \in PlacesOf(disk, p)
        BY <3>1, <1>2 DEF PlacesOf
      <3>3. <<k, j>> # <<1, 1>> /\ <<k, j>> # <<1, 2>>
        BY <2>2
      <3>4. <<k, j>> \in NamedOf(disk, p)
        BY <3>2, <3>3, <1>3 DEF DotsAt
      <3>5. EntryAt(disk, p, <<k, j>>).filename \in Names
        BY <3>4 DEF NamedOf
      <3> QED
        BY <3>1, <3>5, DiskConstants
    <2> QED
      BY <2>1, <2>2
  <1>9. CountIn(Ino(p), k) = Cardinality(C)
    BY DEF CountIn
  <1>10. IsFiniteSet(C)
    <2>1. 1 \in Int /\ PerBlock \in Int
      BY DiskConstants
    <2>2. IsFiniteSet(1..PerBlock)
      BY <2>1, FS_Interval
    <2>3. C \in SUBSET (1..PerBlock)
      OBVIOUS
    <2> HIDE DEF C
    <2> QED
      BY <2>2, <2>3, FS_Subset
  <1>11. \A j \in C : j \in 1..PerBlock
    OBVIOUS
  <1> HIDE DEF C
  <1>12. Cardinality(C) = 1 <=> C = {x[2]}
    <2>1. Cardinality(C) = 1 => \E z : C = {z}
      BY <1>10, FS_Singleton
    <2>2. Cardinality({x[2]}) = 1
      BY FS_Singleton
    <2> QED
      BY <2>1, <2>2, <1>6
  <1>13. k # 1 => (C = {x[2]} <=> Alone(disk, p, x))
    <2> SUFFICES ASSUME k # 1 PROVE C = {x[2]} <=> Alone(disk, p, x)
      OBVIOUS
    <2>1. \A j \in 1..PerBlock : <<k, j>> \in NamedOf(disk, p) <=> <<k, j>> \in PlacesOf(disk, p)
      <3> SUFFICES ASSUME NEW j \in 1..PerBlock PROVE <<k, j>> \in NamedOf(disk, p) <=> <<k, j>> \in PlacesOf(disk, p)
        OBVIOUS
      <3>1. <<k, j>> # <<1, 1>> /\ <<k, j>> # <<1, 2>>
        OBVIOUS
      <3> QED
        BY <3>1, <1>3 DEF DotsAt
    <2>2. Alone(disk, p, x) <=> \A j \in 1..PerBlock : <<k, j>> \in PlacesOf(disk, p) => j = x[2]
      BY DEF Alone
    <2>3. Alone(disk, p, x) <=> \A j \in C : j = x[2]
      BY <2>1, <2>2, <1>5, <1>11
    <2> QED
      BY <2>3, <1>6
  <1> QED
    BY <1>8, <1>9, <1>12, <1>13 DEF Recycles

\* What it leaves of the block.
CutOut(dir, n, k) ==
  [j \in 1..PerBlock |->
     IF Of(dir, k)[j] # NULL /\ Of(dir, k)[j].i_no = n /\ Of(dir, k)[j].filename \in Names
     THEN NULL ELSE Of(dir, k)[j]]

CutFacts(c, p, x) ==
  c \in Content /\ \A j \in 1..PerBlock : c[j] = IF j = x[2] THEN NULL ELSE disk.block[Sector(disk, p, x[1])][j]

\* It has the entries it had but the one.
LEMMA CutOutIs ==
  ASSUME NEW V, NEW D, NEW p, NEW x, NEW n, Removal(disk, V, D, p, x, n)
  PROVE  CutFacts(CutOut(Ino(p), n, x[1]), p, x)
  <1> DEFINE k == x[1]
             c == CutOut(Ino(p), n, k)
             S == Sector(disk, p, k)
  <1>1. PlaceFacts(disk, V, p, x)
    BY RemovalFacts
  <1>2. x = <<k, x[2]>> /\ k \in UsedOf(disk, p) /\ x[2] \in 1..PerBlock /\ S \in Blocks
    BY <1>1 DEF PlaceFacts
  <1>3. /\ disk \in Disk /\ p \in D /\ OneEntry(disk, D) /\ x \in NamedOf(disk, p) /\ EntryAt(disk, p, x).i_no = n
    BY DEF Removal, Img
  <1>4. \A j : Of(Ino(p), k)[j] = EntryAt(disk, p, <<k, j>>) /\ EntryAt(disk, p, <<k, j>>) = disk.block[S][j]
    <2>1. \A j : EntryAt(disk, p, <<k, j>>) = disk.block[S][j]
      BY DEF EntryAt
    <2>2. \A j : Of(Ino(p), k)[j] = EntryAt(disk, p, <<k, j>>)
      BY OfDisk
    <2> QED
      BY <2>1, <2>2
  <1>5. \A j \in 1..PerBlock : disk.block[S][j] \in Entry \cup {NULL}
    <2> DEFINE g == disk.block[S]
    <2>1. g \in Content
      BY <1>2, <1>3 DEF Disk
    <2> HIDE DEF g
    <2>2. \A j \in 1..PerBlock : g[j] \in Entry \cup {NULL}
      BY <2>1 DEF Content
    <2> QED
      BY <2>2 DEF g
  <1>6. ASSUME NEW j \in 1..PerBlock
        PROVE  c[j] = IF j = x[2] THEN NULL ELSE disk.block[S][j]
    <2> DEFINE z == <<k, j>>
               f == EntryAt(disk, p, z)
    <2>1. c[j] = IF f # NULL /\ f.i_no = n /\ f.filename \in Names THEN NULL ELSE f
      BY <1>4 DEF CutOut
    <2>2. f = disk.block[S][j]
      BY <1>4
    <2>3. z \in UsedOf(disk, p) \X (1..PerBlock) /\ (z = x <=> j = x[2])
      BY <1>2
    <2> HIDE DEF z
    <2>4. (f # NULL /\ f.i_no = n /\ f.filename \in Names) <=> z = x
      <3>1. ASSUME f # NULL, f.i_no = n, f.filename \in Names PROVE z = x
        <4>1. z \in NamedOf(disk, p)
          BY <2>3, <3>1 DEF NamedOf, PlacesOf
        <4> QED
          BY <4>1, <3>1, <1>3 DEF OneEntry
      <3>2. ASSUME z = x PROVE f # NULL /\ f.i_no = n /\ f.filename \in Names
        BY <3>2, <1>3 DEF NamedOf, PlacesOf
      <3> QED
        BY <3>1, <3>2
    <2> HIDE DEF f
    <2> QED
      BY <2>1, <2>2, <2>3, <2>4
  <1>7. c \in Content
    <2>1. \A j \in 1..PerBlock : c[j] \in Entry \cup {NULL}
      BY <1>5, <1>6
    <2>2. c = [j \in 1..PerBlock |-> c[j]]
      BY DEF CutOut
    <2> HIDE DEF c
    <2> QED
      BY <2>1, <2>2 DEF Content
  <1> QED
    BY <1>6, <1>7 DEF CutFacts

\* One write more before the others, after which the system may be in a window.
LEMMA ReadyAfter ==
  ASSUME NEW o, NEW m, NEW c, NEW h, NEW d \in Disk, NEW a \in Writes, a # Halt, NEW s \in Seq(Writes),
         Image(d) \/ Window(o, d, <<a>> \o s), Ready(o, m, c, h, Stored(d, a), s)
  PROVE  Ready(o, m, c, h, d, <<a>> \o s)
  <1> DEFINE w == <<a>> \o s
  <1>1. w \in Seq(Writes) /\ w # <<>> /\ Head(w) = a /\ Tail(w) = s
    OBVIOUS
  <1> HIDE DEF w
  <1>2. Image(d) \/ Window(o, d, w)
    BY DEF w
  <1>3. Ready(o, m, c, h, d, w)
    BY <1>1, <1>2, ReadyNext
  <1> QED
    BY <1>3 DEF w

\* The two writes of delete_dir_entry, after which the inode can be released.
MidDelete(kind, d, w) ==
  /\ kind \in {"unlink", "rmdir"} /\ w.kind = "inode"
  /\ Used(d.inode[w.no]) # Used(w.val) /\ w.val # NoInode

Deletes(kind, V, D, a, b, i, n, bm) ==
  /\ disk \in Disk /\ Image(disk) /\ a \in Writes /\ b \in Writes /\ a # Halt /\ b # Halt
  /\ Image(Stored(disk, a)) \/ MidDelete(kind, Stored(disk, a), b)
  /\ Releasable(Stored(Stored(disk, a), b), i, n, V, D, bm)
  /\ cuts = 0 => /\ bm.imap \ {n} = V
                 /\ halted \/ bm.bmap \ BlocksOf(i) = SectorsOf(Stored(Stored(disk, a), b), V)

\* Deleting an entry leads on to the release of the inode.
LEMMA DeletesReady ==
  ASSUME NEW kind, NEW V, NEW D, NEW a, NEW b, NEW i, NEW n, NEW bm, Deletes(kind, V, D, a, b, i, n, bm)
  PROVE  /\ Ready(kind, After(bm, i), cuts, halted, disk, <<a, b>> \o ReleaseWrites(i, bm))
         /\ <<a, b>> \o ReleaseWrites(i, bm) # <<>> /\ After(bm, i) \in Bitmaps
  <1> DEFINE d1 == Stored(disk, a)
             d2 == Stored(d1, b)
             r  == ReleaseWrites(i, bm)
             m  == After(bm, i)
  <1>1. /\ disk \in Disk /\ Image(disk) /\ a \in Writes /\ b \in Writes /\ a # Halt /\ b # Halt
        /\ Image(d1) \/ MidDelete(kind, d1, b)
        /\ Releasable(d2, i, n, V, D, bm)
        /\ cuts = 0 => bm.imap \ {n} = V /\ (halted \/ bm.bmap \ BlocksOf(i) = SectorsOf(d2, V))
    BY DEF Deletes
  <1>2. d1 \in Disk
    BY <1>1, StoredTypes
  <1> HIDE DEF d1
  <1>3. d2 \in Disk
    BY <1>1, <1>2, StoredTypes
  <1> HIDE DEF d2
  <1>4. n \in Inodes /\ n \notin V /\ i \in Inode /\ i.i_no = n /\ bm \in Bitmaps
    BY <1>1 DEF Releasable
  <1>5. Releasing(d2, r, n, V, D, m) /\ m \in Bitmaps
    BY <1>1, ReleaseFollows
  <1>6. r \in Seq(Writes) /\ r # <<>>
    BY <1>4, ReleaseTypes
  <1>7. cuts = 0 => m.imap = V /\ (halted \/ m.bmap = SectorsOf(d2, V))
    BY <1>1, <1>4 DEF After
  <1> HIDE DEF r, m
  <1>8. Ready(kind, m, cuts, halted, d2, r)
    BY <1>4, <1>5, <1>7, ReleaseReady
  <1> DEFINE t == <<b>> \o r
  <1>9. t \in Seq(Writes) /\ t # <<>> /\ Head(t) = b
    BY <1>1, <1>6
  <1>10. Image(d1) \/ Window(kind, d1, t)
    <2>1. MidDelete(kind, d1, b) => Window(kind, d1, t)
      BY <1>9 DEF MidDelete, Window
    <2> QED
      BY <1>1, <2>1
  <1>11. Ready(kind, m, cuts, halted, d1, t)
    <2>1. Ready(kind, m, cuts, halted, Stored(d1, b), r)
      BY <1>8 DEF d2
    <2> QED
      BY <1>1, <1>2, <1>6, <1>10, <2>1, ReadyAfter
  <1> HIDE DEF t
  <1>12. Ready(kind, m, cuts, halted, disk, <<a>> \o t) /\ <<a>> \o t # <<>>
    <2>1. Ready(kind, m, cuts, halted, Stored(disk, a), t)
      BY <1>11 DEF d1
    <2> QED
      BY <1>1, <1>9, <2>1, ReadyThen
  <1>13. <<a, b>> \o r = <<a>> \o t
    <2> DEFINE u == <<a>>
               v == <<b>>
               w == <<a, b>>
    <2>1. u \in Seq(Writes) /\ v \in Seq(Writes)
      BY <1>1
    <2>2. w = u \o v
      BY <1>1, PairIs DEF Pair, OneOne
    <2> HIDE DEF u, v, w
    <2>3. (u \o v) \o r = u \o (v \o r)
      BY <1>6, <2>1, Assoc
    <2>4. w \o r = u \o (v \o r)
      BY <2>2, <2>3
    <2> QED
      BY <2>4 DEF u, v, w, t
  <1> QED
    BY <1>5, <1>12, <1>13 DEF r, m

\* The entry is cut out of its block.
LEMMA CutDeletes ==
  ASSUME NEW V, NEW D, NEW p, NEW x, NEW n, Rests(V, D), mem \in Bitmaps, Removal(disk, V, D, p, x, n),
         x[1] = 1 \/ ~Alone(disk, p, x), NEW c, CutFacts(c, p, x),
         NEW j \in Inode, j.i_no = p, j.i_size = disk.inode[p].i_size - 1, j.i_sectors = disk.inode[p].i_sectors,
         NEW kind
  PROVE  Deletes(kind, V \ {n}, D \ {n}, Block(Sector(disk, p, x[1]), c), InodeAt(p, j), Ino(n), n, mem)
  <1> DEFINE S == Sector(disk, p, x[1])
             a == Block(S, c)
             b == InodeAt(p, j)
             d1 == Stored(disk, a)
             d2 == Stored(d1, b)
             i == Ino(n)
             W == V \ {n}
             C == D \ {n}
  <1>1. /\ disk \in Disk /\ disk.magic /\ Img(disk, V, D) /\ mem.imap = disk.imap /\ mem.bmap = disk.bmap
        /\ (cuts = 0 => disk.imap = V /\ (halted \/ disk.bmap = SectorsOf(disk, V)))
    BY DEF Rests
  <1>2. S \in Blocks /\ S \in SectorsOf(disk, V) /\ x[1] \in UsedOf(disk, p)
    <2>1. PlaceFacts(disk, V, p, x)
      BY RemovalFacts
    <2> QED
      BY <2>1 DEF PlaceFacts
  <1>3. p \in Inodes /\ p \in V /\ n \in V /\ n \in Inodes /\ n # p /\ V \subseteq Inodes /\ V \subseteq disk.imap
        /\ disk.inode[p].i_no = p /\ OwnBlocks(disk, V)
    BY DEF Removal, Img, Inside, Recorded
  <1>4. c \in Content /\ \A l \in 1..PerBlock : c[l] = IF l = x[2] THEN NULL ELSE disk.block[S][l]
    BY DEF CutFacts
  <1>5. a \in Writes /\ b \in Writes /\ a # Halt /\ b # Halt
    BY <1>2, <1>3, <1>4, WriteKinds, KindsOf
  <1>6. /\ d1 \in Disk /\ d1.magic /\ d1.imap = disk.imap /\ d1.bmap = disk.bmap /\ d1.inode = disk.inode
        /\ d1.block[S] = c /\ \A s \in Blocks : s # S => d1.block[s] = disk.block[s]
    BY SMTT(40), <1>1, <1>2, <1>4, StoredBlock
  <1> HIDE DEF d1
  <1>7. /\ d2 \in Disk /\ d2.magic /\ d2.imap = disk.imap /\ d2.bmap = disk.bmap /\ d2.block = d1.block
        /\ d2.inode[p] = j /\ \A v \in Inodes : v # p => d2.inode[v] = disk.inode[v]
    BY SMTT(40), <1>3, <1>6, StoredInode
  <1> HIDE DEF d2
  <1>8. \A s \in SectorsOf(disk, V) : s \in Blocks
    BY <1>1, <1>3 DEF OwnBlocks, Disk
  <1>9. ClearedAt(disk, d1, V, p, x)
    BY SMTT(40), <1>4, <1>6, <1>8 DEF ClearedAt, Sector
  <1>10. ClearedAt(disk, d2, V, p, x)
    <2>1. \A l \in 1..Direct : Sector(d2, p, l) = Sector(disk, p, l)
      BY <1>7 DEF Sector
    <2>2. \A v \in V : v # p => d2.inode[v] = disk.inode[v]
      BY <1>3, <1>7
    <2>3. d2.inode[p].i_no = disk.inode[p].i_no /\ d2.inode[p].i_size = disk.inode[p].i_size - 1
      BY <1>3, <1>7
    <2>4. /\ \A l \in 1..PerBlock : d2.block[S][l] = IF l = x[2] THEN NULL ELSE disk.block[S][l]
          /\ \A s \in SectorsOf(disk, V) : s # S => d2.block[s] = disk.block[s]
      BY <1>4, <1>6, <1>7, <1>8
    <2> QED
      BY Zenon, <1>7, <2>1, <2>2, <2>3, <2>4 DEF ClearedAt
  <1>11. Img(d1, W, C)
    <2>1. Lost(disk, d1, V, D, p, x, n)
      BY <1>9, ClearedIsLost
    <2> QED
      BY <1>1, <2>1, LostImage
  <1>12. Lost(disk, d2, V, D, p, x, n) /\ \A s : s \in SectorsOf(d2, W) <=> s \in SectorsOf(disk, V) /\ \A k \in UsedOf(disk, n) : s # Sector(disk, n, k)
    BY <1>10, ClearedIsLost
  <1>13. Img(d2, W, C)
    BY <1>1, <1>12, LostImage
  <1>14. \A s : s \in BlocksOf(i) <=> \E k \in UsedOf(disk, n) : s = Sector(disk, n, k)
    <2>1. Used(i) = UsedOf(disk, n) /\ \A k : i.i_sectors[k] = Sector(disk, n, k)
      BY OfDisk
    <2> QED
      BY <2>1 DEF BlocksOf
  <1>15. i \in Inode /\ i.i_no = n
    BY <1>3, InodeNumber
  <1>16. Releasable(d2, i, n, W, C, mem)
    <2>1. W \subseteq mem.imap /\ n \notin W
      BY <1>1, <1>3
    <2>2. \A s \in SectorsOf(d2, W) : s \in mem.bmap /\ s \notin BlocksOf(i)
      BY <1>1, <1>3, <1>12, <1>14 DEF OwnBlocks
    <2> QED
      BY <1>1, <1>3, <1>7, <1>13, <1>15, <2>1, <2>2 DEF Releasable
  <1>17. cuts = 0 => mem.imap \ {n} = W /\ (halted \/ mem.bmap \ BlocksOf(i) = SectorsOf(d2, W))
    <2> SUFFICES ASSUME cuts = 0 PROVE mem.imap \ {n} = W /\ (halted \/ mem.bmap \ BlocksOf(i) = SectorsOf(d2, W))
      OBVIOUS
    <2>1. mem.imap = V /\ (halted \/ mem.bmap = SectorsOf(disk, V))
      BY <1>1
    <2>2. mem.bmap = SectorsOf(disk, V) => \A s : s \in mem.bmap \ BlocksOf(i) <=> s \in SectorsOf(d2, W)
      BY <1>12, <1>14
    <2>3. mem.bmap = SectorsOf(disk, V) => mem.bmap \ BlocksOf(i) = SectorsOf(d2, W)
      BY <2>2
    <2> QED
      BY <2>1, <2>3
  <1>18. Image(disk) /\ Image(d1)
    BY <1>1, <1>11 DEF Image
  <1> HIDE DEF W, C, i, a, b
  <1>19. Deletes(kind, W, C, a, b, i, n, mem)
    BY <1>1, <1>5, <1>16, <1>17, <1>18 DEF Deletes, d1, d2
  <1> QED
    BY <1>19 DEF W, C, i, a, b

\* The block is given back with the entry.
Unhooked(j, p, x) ==
  /\ j \in Inode /\ j.i_no = p /\ j.i_size = disk.inode[p].i_size - 1
  /\ \A l \in 1..Direct : j.i_sectors[l] = IF l = x[1] THEN NULL ELSE Sector(disk, p, l)

\* The bitmaps once it has been given back.
Returned(bm, p, x) == bm \in Bitmaps /\ bm.imap = mem.imap /\ bm.bmap = mem.bmap \ {Sector(disk, p, x[1])}

Lonely(p, x) == x[1] # 1 /\ Alone(disk, p, x)
Deleting(kind) == kind \in {"unlink", "rmdir"}

\* The writes of delete_dir_entry that gives a block back.
LEMMA RecycleDeletes ==
  ASSUME NEW V, NEW D, NEW p, NEW x, NEW n, Rests(V, D), Removal(disk, V, D, p, x, n),
         Lonely(p, x), NEW bm, Returned(bm, p, x),
         NEW j, Unhooked(j, p, x), NEW kind, Deleting(kind)
  PROVE  Deletes(kind, V \ {n}, D \ {n}, Bmap(bm.bmap), InodeAt(p, j), Ino(n), n, bm)
  <1> DEFINE S == Sector(disk, p, x[1])
             a == Bmap(bm.bmap)
             b == InodeAt(p, j)
             d1 == Stored(disk, a)
             d2 == Stored(d1, b)
             i == Ino(n)
             W == V \ {n}
             C == D \ {n}
  <1>1. /\ disk \in Disk /\ disk.magic /\ Img(disk, V, D) /\ mem.imap = disk.imap /\ mem.bmap = disk.bmap
        /\ (cuts = 0 => disk.imap = V /\ (halted \/ disk.bmap = SectorsOf(disk, V)))
    BY DEF Rests
  <1>2. S \in Blocks /\ S \in SectorsOf(disk, V) /\ x[1] \in UsedOf(disk, p)
    <2>1. PlaceFacts(disk, V, p, x)
      BY RemovalFacts
    <2> QED
      BY <2>1 DEF PlaceFacts
  <1>3. p \in Inodes /\ p \in V /\ n \in V /\ n \in Inodes /\ n # p /\ V \subseteq Inodes /\ V \subseteq disk.imap
        /\ disk.inode[p].i_no = p /\ OwnBlocks(disk, V) /\ 1 \in UsedOf(disk, p)
    BY DEF Removal, Img, Inside, Recorded, Dotted, DotsAt
  <1>4. /\ j \in Inode /\ j.i_no = p /\ j.i_size = disk.inode[p].i_size - 1
        /\ \A l \in 1..Direct : j.i_sectors[l] = IF l = x[1] THEN NULL ELSE Sector(disk, p, l)
    BY DEF Unhooked
  <1>0. bm \in Bitmaps /\ bm.imap = mem.imap /\ bm.bmap = mem.bmap \ {S}
    BY DEF Returned
  <1>5. a \in Writes /\ b \in Writes /\ a # Halt /\ b # Halt /\ bm.bmap \in SUBSET Blocks
    <2>1. bm.bmap \in SUBSET Blocks
      BY <1>0 DEF Bitmaps
    <2> QED
      BY <2>1, <1>3, <1>4, WriteKinds, KindsOf
  <1>6. /\ d1 \in Disk /\ d1.magic /\ d1.imap = disk.imap /\ d1.bmap = bm.bmap /\ d1.inode = disk.inode /\ d1.block = disk.block
    BY <1>1, <1>5, StoredBmap
  <1> HIDE DEF d1
  <1>7. /\ d2 \in Disk /\ d2.magic /\ d2.imap = disk.imap /\ d2.bmap = bm.bmap /\ d2.block = disk.block
        /\ d2.inode[p] = j /\ \A v \in Inodes : v # p => d2.inode[v] = disk.inode[v]
    BY SMTT(40), <1>3, <1>4, <1>6, StoredInode
  <1> HIDE DEF d2
  <1>8. RecycledAt(disk, d2, V, p, x)
    <2>1. \A l \in 1..Direct : Sector(d2, p, l) = IF l = x[1] THEN NULL ELSE Sector(disk, p, l)
      BY <1>4, <1>7 DEF Sector
    <2>2. \A v \in V : v # p => d2.inode[v] = disk.inode[v]
      BY <1>3, <1>7
    <2>3. d2.inode[p].i_no = disk.inode[p].i_no /\ d2.inode[p].i_size = disk.inode[p].i_size - 1
      BY <1>3, <1>4, <1>7
    <2>4. d2.bmap = disk.bmap \ {S}
      BY <1>0, <1>1, <1>7
    <2> QED
      BY <1>7, <2>1, <2>2, <2>3, <2>4 DEF RecycledAt
  <1>9. Lost(disk, d2, V, D, p, x, n)
        /\ \A s : s \in SectorsOf(d2, W) <=> s \in SectorsOf(disk, V) /\ s # S /\ \A k \in UsedOf(disk, n) : s # Sector(disk, n, k)
    <2>1. Lost(disk, d2, V, D, p, x, n) /\ RemainBut(disk, d2, V, p, x, n)
      BY <1>8, RecycledIsLost DEF Lonely
    <2> QED
      BY <2>1 DEF RemainBut
  <1>10. Img(d2, W, C)
    BY <1>1, <1>9, LostImage
  <1>11. MidDelete(kind, d1, b)
    <2>1. b.kind = "inode" /\ b.no = p /\ b.val = j
      BY KindsOf
    <2>2. x[1] \in Used(d1.inode[p])
      BY <1>2, <1>6 DEF Used, UsedOf, Sector
    <2>3. x[1] \notin Used(j)
      BY <1>4 DEF Used
    <2>4. 1 \in Used(j)
      BY <1>3, <1>4 DEF Used, UsedOf, Lonely
    <2>5. Used(NoInode) = {}
      BY DEF Used, NoInode, NoBlocks
    <2>6. Used(d1.inode[p]) # Used(j) /\ j # NoInode
      BY <2>2, <2>3, <2>4, <2>5
    <2> QED
      BY <2>1, <2>6 DEF MidDelete, Deleting
  <1>12. \A s : s \in BlocksOf(i) <=> \E k \in UsedOf(disk, n) : s = Sector(disk, n, k)
    <2>1. Used(i) = UsedOf(disk, n) /\ \A k : i.i_sectors[k] = Sector(disk, n, k)
      BY OfDisk
    <2> QED
      BY <2>1 DEF BlocksOf
  <1>13. i \in Inode /\ i.i_no = n
    BY <1>3, InodeNumber
  <1>14. Releasable(d2, i, n, W, C, bm)
    <2>1. W \subseteq bm.imap /\ n \notin W
      BY <1>0, <1>1, <1>3
    <2>2. \A s \in SectorsOf(d2, W) : s \in bm.bmap /\ s \notin BlocksOf(i)
      BY <1>0, <1>1, <1>3, <1>9, <1>12 DEF OwnBlocks
    <2> QED
      BY <1>0, <1>1, <1>3, <1>7, <1>10, <1>13, <2>1, <2>2 DEF Releasable
  <1>15. cuts = 0 => bm.imap \ {n} = W /\ (halted \/ bm.bmap \ BlocksOf(i) = SectorsOf(d2, W))
    <2> SUFFICES ASSUME cuts = 0 PROVE bm.imap \ {n} = W /\ (halted \/ bm.bmap \ BlocksOf(i) = SectorsOf(d2, W))
      OBVIOUS
    <2>1. bm.imap = V /\ (halted \/ bm.bmap = SectorsOf(disk, V) \ {S})
      BY <1>0, <1>1
    <2>2. bm.bmap = SectorsOf(disk, V) \ {S} => \A s : s \in bm.bmap \ BlocksOf(i) <=> s \in SectorsOf(d2, W)
      BY <1>9, <1>12
    <2>3. bm.bmap = SectorsOf(disk, V) \ {S} => bm.bmap \ BlocksOf(i) = SectorsOf(d2, W)
      BY <2>2
    <2> QED
      BY <2>1, <2>3
  <1>16. Image(disk)
    BY <1>1 DEF Image
  <1> HIDE DEF W, C, i, a, b
  <1>17. Deletes(kind, W, C, a, b, i, n, bm)
    BY <1>0, <1>1, <1>5, <1>11, <1>14, <1>15, <1>16 DEF Deletes, d1, d2
  <1> QED
    BY <1>17 DEF W, C, i, a, b

\* The directory, one entry smaller, and without a block.
Smaller(i) == [i EXCEPT !.i_size = @ - 1]
Without(i, k) == [i EXCEPT !.i_sectors[k] = NULL]

\* An inode of one entry less is an inode.
LEMMA SmallerInode ==
  ASSUME NEW i \in Inode, i.i_size >= 1
  PROVE  Smaller(i) \in Inode /\ Smaller(i).i_no = i.i_no /\ Smaller(i).i_size = i.i_size - 1 /\ Smaller(i).i_sectors = i.i_sectors
  BY DEF Smaller, Inode

\* An inode without one of its blocks is an inode.
LEMMA WithoutInode ==
  ASSUME NEW i \in Inode, NEW k \in 1..Direct
  PROVE  /\ Without(i, k) \in Inode /\ Without(i, k).i_no = i.i_no /\ Without(i, k).i_size = i.i_size
         /\ \A l \in 1..Direct : Without(i, k).i_sectors[l] = IF l = k THEN NULL ELSE i.i_sectors[l]
  <1> DEFINE s == [i.i_sectors EXCEPT ![k] = NULL]
  <1>1. i.i_sectors \in [1..Direct -> Blocks \cup {NULL}]
    BY DEF Inode
  <1>2. s \in [1..Direct -> Blocks \cup {NULL}] /\ \A l \in 1..Direct : s[l] = IF l = k THEN NULL ELSE i.i_sectors[l]
    BY <1>1
  <1>3. Without(i, k) = [i EXCEPT !.i_sectors = s]
    BY Zenon DEF Without
  <1> HIDE DEF s
  <1> QED
    BY <1>2, <1>3 DEF Inode

\* Removing an entry.
LEMMA RemoveBegins ==
  ASSUME NEW V, NEW D, Rests(V, D), mem \in Bitmaps, NEW p, NEW x, NEW n, Removal(disk, V, D, p, x, n),
         NEW kind \in {"unlink", "rmdir"}, NEW e, e.i_no = n, RemoveEntry(kind, p, e)
  PROVE  Begins(kind)
  <1> DEFINE dir == Ino(p)
             i   == Ino(n)
             k   == x[1]
             S   == Sector(disk, p, k)
             bm  == IF Recycles(dir, k) THEN [mem EXCEPT !.bmap = @ \ {dir.i_sectors[k]}] ELSE mem
             w   == DeleteWrites(dir, n, k, bm.bmap)
             r   == ReleaseWrites(i, bm)
  <1>1. PlaceFacts(disk, V, p, x)
    BY RemovalFacts
  <1>2. k \in UsedOf(disk, p) /\ S \in Blocks /\ disk.inode[p] \in Inode /\ disk.inode[p].i_size >= 1 /\ disk.inode[p].i_size \in Nat
    BY <1>1 DEF PlaceFacts
  <1>3. p \in Synced /\ disk.inode[p].i_no = p /\ k \in 1..Direct /\ dir = disk.inode[p] /\ dir.i_sectors[k] = S
        /\ p \in Inodes /\ \A l : dir.i_sectors[l] = Sector(disk, p, l)
    <2>1. p \in Synced /\ p \in Inodes /\ disk.inode[p].i_no = p
      BY DEF Removal, Img, Inside, Recorded
    <2> QED
      BY <2>1, <1>2 DEF UsedOf, Ino, Sector
  <1>4. k = Least(Holding(dir, n))
    BY HeldBy
  <1>5. /\ op' = kind /\ todo' = w \o r /\ mem' = After(bm, i) /\ halted' = halted /\ disk' = disk /\ cuts' = cuts
        /\ damaged' = damaged
    <2>1. n \in Inodes /\ i.i_no = n
      <3>1. n \in V /\ n \in Inodes
        BY DEF Removal
      <3> QED
        BY <3>1, InodeNumber
    <2>2. After(bm, i) = [imap |-> bm.imap \ {n}, bmap |-> bm.bmap \ {i.i_sectors[l] : l \in Used(i)}]
      BY <2>1 DEF After, BlocksOf
    <2> HIDE DEF k
    <2> QED
      BY <1>4, <2>2 DEF RemoveEntry, Run
  <1>6. Recycles(dir, k) <=> k # 1 /\ Alone(disk, p, x)
    BY RecyclesMeans
  <1> DEFINE left == Smaller(dir)
  <1>7. left \in Inode /\ left.i_no = p /\ left.i_size = disk.inode[p].i_size - 1 /\ left.i_sectors = disk.inode[p].i_sectors
    BY <1>2, <1>3, SmallerInode
  <1>8. \E W, C, a, b : Deletes(kind, W, C, a, b, i, n, bm) /\ w = <<a, b>> /\ bm \in Bitmaps
    <2>1. CASE ~Recycles(dir, k)
      <3> DEFINE c == CutOut(dir, n, k)
      <3>1. CutFacts(c, p, x)
        BY CutOutIs
      <3>2. w = <<Block(S, c), InodeSync(left)>> /\ bm = mem
        BY <2>1, <1>3 DEF DeleteWrites, Smaller, CutOut
      <3>3. InodeSync(left) = InodeAt(p, left)
        BY <1>3, <1>7, SyncIs
      <3>4. k = 1 \/ ~Alone(disk, p, x)
        BY <2>1, <1>6
      <3> HIDE DEF c, left, w, bm, i
      <3>5. Deletes(kind, V \ {n}, D \ {n}, Block(S, c), InodeAt(p, left), Ino(n), n, mem)
        BY <1>7, <3>1, <3>4, CutDeletes
      <3>6. Deletes(kind, V \ {n}, D \ {n}, Block(S, c), InodeAt(p, left), i, n, bm)
        BY <3>2, <3>5 DEF i
      <3>7. w = <<Block(S, c), InodeAt(p, left)>>
        BY <3>2, <3>3
      <3> QED
        BY <3>2, <3>6, <3>7
    <2>2. CASE Recycles(dir, k)
      <3> DEFINE j == Without(left, k)
      <3>1. /\ j \in Inode /\ j.i_no = p /\ j.i_size = disk.inode[p].i_size - 1
            /\ \A l \in 1..Direct : j.i_sectors[l] = IF l = k THEN NULL ELSE left.i_sectors[l]
        BY <1>3, <1>7, WithoutInode
      <3>2. Unhooked(j, p, x)
        BY <3>1, <1>7 DEF Unhooked, Sector
      <3>3. bm = [mem EXCEPT !.bmap = @ \ {S}]
        BY <2>2, <1>3
      <3>4. bm \in Bitmaps /\ bm.imap = mem.imap /\ bm.bmap = mem.bmap \ {S}
        BY <3>3 DEF Bitmaps
      <3>5. w = <<Bmap(bm.bmap), InodeSync(j)>>
        BY <2>2 DEF DeleteWrites, Smaller, Without
      <3>6. InodeSync(j) = InodeAt(p, j)
        BY <1>3, <3>1, SyncIs
      <3>7. Lonely(p, x) /\ Deleting(kind)
        BY <2>2, <1>6 DEF Lonely, Deleting
      <3>11. Returned(bm, p, x)
        BY <3>4 DEF Returned
      <3> HIDE DEF j, left, w, bm, i
      <3>8. Deletes(kind, V \ {n}, D \ {n}, Bmap(bm.bmap), InodeAt(p, j), Ino(n), n, bm)
        BY <3>2, <3>7, <3>11, RecycleDeletes
      <3>9. Deletes(kind, V \ {n}, D \ {n}, Bmap(bm.bmap), InodeAt(p, j), i, n, bm)
        BY <3>8 DEF i
      <3>10. w = <<Bmap(bm.bmap), InodeAt(p, j)>>
        BY <3>5, <3>6
      <3> QED
        BY <3>4, <3>9, <3>10
    <2> QED
      BY <2>1, <2>2
  <1> HIDE DEF w, bm, i, left
  <1>9. PICK W, C, a, b : Deletes(kind, W, C, a, b, i, n, bm) /\ w = <<a, b>> /\ bm \in Bitmaps
    BY <1>8
  <1>10. /\ Ready(kind, After(bm, i), cuts, halted, disk, <<a, b>> \o ReleaseWrites(i, bm))
         /\ <<a, b>> \o ReleaseWrites(i, bm) # <<>> /\ After(bm, i) \in Bitmaps
    BY <1>9, DeletesReady
  <1>11. Ready(kind, mem', cuts, halted', disk, todo') /\ todo' # <<>> /\ mem' \in Bitmaps
    BY <1>5, <1>9, <1>10
  <1>12. halted' \in BOOLEAN
    BY <1>5 DEF Rests
  <1> QED
    BY <1>5, <1>11, <1>12 DEF Begins

\* A directory whose size is that of its dots has no other entries.
LEMMA TwoPlaces ==
  ASSUME NEW V, NEW D, disk \in Disk, Img(disk, V, D), NEW d \in D, Ino(d).i_size = 2
  PROVE  NamedOf(disk, d) = {}
  <1>1. d \in Inodes /\ DotsAt(disk, d) /\ Cardinality(PlacesOf(disk, d)) <= 2
    BY DEF Img, Inside, Dotted, Sized, Ino
  <1> DEFINE P == PlacesOf(disk, d)
             a == <<1, 1>>
             b == <<1, 2>>
  <1>2. P = {a, b}
    <2>1. a # b /\ a \in P /\ b \in P
      BY <1>1 DEF DotsAt
    <2>2. IsFiniteSet(P) /\ Cardinality(P) \in Nat
      BY <1>1, PlacesFinite
    <2>3. Cardinality(P) <= 2
      BY <1>1
    <2> HIDE DEF P, a, b
    <2>4. IsFiniteSet({a, b}) /\ Cardinality({a, b}) = 2
      BY <2>1, TwoElements
    <2>5. {a, b} \in SUBSET P
      BY <2>1
    <2>6. Cardinality({a, b}) <= Cardinality(P) /\ (Cardinality(P) = Cardinality({a, b}) => P = {a, b})
      BY <2>2, <2>5, FS_Subset
    <2> QED
      BY <2>2, <2>3, <2>4, <2>6
  <1> QED
    BY <1>1, <1>2 DEF DotsAt

\* An entry for a file, or for a directory without entries, can be removed.
LEMMA RemovalOf ==
  ASSUME NEW V, NEW D, Rests(V, D), NEW p \in D, NEW e \in Named(Ino(p)), e.i_no \in D => NamedOf(disk, e.i_no) = {}
  PROVE  \E x : Removal(disk, V, D, p, x, e.i_no)
  <1>1. PICK x \in NamedOf(disk, p) : e = EntryAt(disk, p, x) /\ e.i_no \in V /\ e.i_no \in Inodes /\ e.i_no # Root
    BY EntryOf
  <1>2. disk \in Disk /\ Img(disk, V, D) /\ p \in V /\ p \in Inodes
    BY DEF Rests, Img, Inside
  <1>3. e.i_no # p
    BY <1>1
  <1>4. Removal(disk, V, D, p, x, e.i_no)
    BY <1>1, <1>2, <1>3 DEF Removal
  <1> QED
    BY <1>4

\* sys_unlink.
LEMMA UnlinkBegins ==
  ASSUME NEW V, NEW D, Rests(V, D), mem \in Bitmaps, NEW p \in D, Unlink(p)
  PROVE  Begins("unlink")
  <1> DEFINE o == "unlink"
  <1>1. PICK e \in Named(Ino(p)) : e.f_type = "regular" /\ RemoveEntry(o, p, e)
    BY DEF Unlink
  <1>2. e.i_no \notin D
    <2>1. e.f_type = "directory" <=> e.i_no \in D
      BY EntryOf
    <2> QED
      BY <1>1, <2>1
  <1>3. PICK x : Removal(disk, V, D, p, x, e.i_no)
    BY <1>2, RemovalOf
  <1>4. o \in {"unlink", "rmdir"}
    OBVIOUS
  <1> HIDE DEF o
  <1>5. Begins(o)
    BY <1>1, <1>3, <1>4, RemoveBegins
  <1> QED
    BY <1>5 DEF o

\* sys_rmdir: a directory of the size of its dots has no other entries.
LEMMA RmdirBegins ==
  ASSUME NEW V, NEW D, Rests(V, D), mem \in Bitmaps, NEW p \in D, Rmdir(p)
  PROVE  Begins("rmdir")
  <1> DEFINE o == "rmdir"
  <1>1. PICK e \in Named(Ino(p)) : e.f_type = "directory" /\ Ino(e.i_no).i_size = 2 /\ RemoveEntry(o, p, e)
    BY DEF Rmdir
  <1>2. NamedOf(disk, e.i_no) = {}
    <2>1. e.i_no \in D
      BY <1>1, EntryOf
    <2> QED
      BY <1>1, <2>1, TwoPlaces DEF Rests
  <1>3. PICK x : Removal(disk, V, D, p, x, e.i_no)
    BY <1>2, RemovalOf
  <1>4. o \in {"unlink", "rmdir"}
    OBVIOUS
  <1> HIDE DEF o
  <1>5. Begins(o)
    BY <1>1, <1>3, <1>4, RemoveBegins
  <1> QED
    BY <1>5 DEF o

-----------------------------------------------------------------------------
\* Every step, and the theorems.

\* What RmdirSelf does is of the types.
LEMMA SelfInv ==
  ASSUME DInv, op = "idle", NEW d \in Inodes, RmdirSelf(d)
  PROVE  DInv'
  <1> DEFINE i == Ino(d)
             w == ReleaseWrites(i, mem)
  <1>1. disk \in Disk /\ mem \in Bitmaps /\ cuts \in 0..MaxCuts /\ halted \in BOOLEAN
    BY DEF DInv, DTypes
  <1>2. i \in Inode
    BY <1>1 DEF Disk, Ino
  <1>3. w \in Seq(Writes) /\ w # <<>>
    BY <1>1, <1>2, ReleaseTypes
  <1>4. /\ op' = "rmdir" /\ todo' = w /\ damaged' = TRUE /\ disk' = disk /\ cuts' = cuts /\ halted' = halted
        /\ mem' = [imap |-> mem.imap \ {d}, bmap |-> mem.bmap \ {i.i_sectors[k] : k \in Used(i)}]
    BY DEF RmdirSelf
  <1>5. mem' \in Bitmaps
    BY <1>1, <1>4 DEF Bitmaps
  <1> HIDE DEF w
  <1>6. damaged' \in BOOLEAN
    BY <1>4
  <1>7. op' \in {"off", "idle", "format", "create", "mkdir", "unlink", "rmdir", "write"} /\ (op' \in {"off", "idle"} <=> todo' = <<>>)
    BY <1>3, <1>4
  <1>8. DTypes'
    BY <1>1, <1>3, <1>4, <1>5, <1>6, <1>7 DEF DTypes
  <1>9. DSafe'
    BY <1>4 DEF DSafe
  <1> QED
    BY <1>8, <1>9 DEF DInv

\* Every step keeps the invariant.
LEMMA NextInv ==
  ASSUME DInv, [Next]_vars
  PROVE  DInv'
  <1>1. CASE UNCHANGED vars
    BY <1>1 DEF vars, DInv, DTypes, DSafe
  <1>2. CASE Boot
    BY <1>2, StepBoot
  <1>3. CASE WriteSector
    BY <1>3, StepWriteSector
  <1>4. CASE Stop
    BY <1>4, StepStop
  <1>5. CASE PowerCut
    BY <1>5, StepPowerCut
  <1>6. ASSUME op = "idle", ~damaged, NEW d \in Dirs,
               \/ \E name \in Names : Create(d, name) \/ Mkdir(d, name)
               \/ Unlink(d) \/ Rmdir(d) \/ RmdirSelf(d) \/ Write(d)
        PROVE  DInv'
    <2>1. PICK V, D : Rests(V, D)
      BY <1>6, Resting
    <2>2. Dirs = D /\ D \subseteq Inodes /\ mem \in Bitmaps /\ damaged \in BOOLEAN
      BY <2>1, RestImage DEF DInv, DTypes
    <2>3. d \in D /\ d \in Inodes
      BY <2>2, <1>6
    <2>4. ASSUME NEW name \in Names, Create(d, name) PROVE DInv'
      <3>1. Begins("create")
        BY <2>1, <2>2, <2>3, <2>4, CreateBegins
      <3> QED
        BY <3>1, BeginsInv
    <2>5. ASSUME NEW name \in Names, Mkdir(d, name) PROVE DInv'
      <3>1. Begins("mkdir")
        BY <2>1, <2>2, <2>3, <2>5, MkdirBegins
      <3> QED
        BY <3>1, BeginsInv
    <2>6. CASE Unlink(d)
      <3>1. Begins("unlink")
        BY <2>1, <2>2, <2>3, <2>6, UnlinkBegins
      <3> QED
        BY <3>1, BeginsInv
    <2>7. CASE Rmdir(d)
      <3>1. Begins("rmdir")
        BY <2>1, <2>2, <2>3, <2>7, RmdirBegins
      <3> QED
        BY <3>1, BeginsInv
    <2>8. CASE RmdirSelf(d)
      BY <2>3, <2>8, <1>6, SelfInv
    <2>9. CASE Write(d)
      <3>1. Begins("write")
        BY <2>1, <2>2, <2>3, <2>9, WriteBegins
      <3> QED
        BY <3>1, BeginsInv
    <2> QED
      BY <2>4, <2>5, <2>6, <2>7, <2>8, <2>9, <1>6
  <1> QED
    BY <1>1, <1>2, <1>3, <1>4, <1>5, <1>6 DEF Next

\* Whatever the operations do and wherever the power fails outside the three windows, what is
\* on the disk is an image of a file system, and what the operation has still to write leads
\* through images and windows to one; for any number of inodes, until one is created whose
\* number inode_sync cuts down, or sys_rmdir releases a directory by its own ".".
THEOREM DiskInvariant == Spec => []DInv
  <1>1. Init => DInv
    BY InitDisk
  <1>2. DInv /\ [Next]_vars => DInv'
    BY NextInv
  <1> QED
    BY <1>1, <1>2, PTL DEF Spec

\* Types: what is on the disk and what is still to be written to it stay of their types.
THEOREM DiskTypeCorrect == Spec => []TypeOK
  <1>1. DInv => TypeOK
    BY TypesFollow DEF DInv
  <1> QED
    BY <1>1, DiskInvariant, PTL

\* The order of the sector writes in file_create, sys_mkdir, sys_unlink, sys_rmdir and
\* file_write: wherever the power fails outside the three windows, the disk holds a file
\* system in which every path that can be reached can be used.
THEOREM CrashSafeCorrect == Spec => []CrashSafe
  BY CrashSafeFollows, DiskInvariant, PTL

\* dir_remove may assert that an empty directory has no block but its first:
\* delete_dir_entry has given back every other one.
THEOREM EmptyCorrect == Spec => []EmptyIsOneBlock
  BY EmptyFollows, DiskInvariant, PTL

\* While the power stays on, the bitmaps mark exactly what can be reached, when no operation
\* is going on: each operation marks and frees all that it takes and gives back.
THEOREM NothingLostCorrect == Spec => []NothingLost
  BY NothingLostFollows, DiskInvariant, PTL
=============================================================================
