------------------------------ MODULE DiskImage -------------------------------
(***************************************************************************)
(* The disk of the file system under power cuts: partition_format and      *)
(* mount_partition (fs/fs.c), and the sector writes of file_create,        *)
(* sys_mkdir, sys_unlink, sys_rmdir and file_write, in their order.        *)
(*                                                                         *)
(* One operation at a time.  It computes what it is going to write from    *)
(* the disk and the bitmaps in memory, then writes sector by sector; the   *)
(* power may fail before each write.  A bitmap, an inode and a block are   *)
(* one sector each.  The data in a file, which no operation looks at, is a *)
(* block without entries.  Directories stay within their direct blocks,    *)
(* and a write needs at most one more block.                               *)
(***************************************************************************)
EXTENDS Naturals, FiniteSets, SequencesExt

CONSTANTS
  Names,
  NumInodes,    \* MAX_FILES_PER_PART
  NumBlocks,
  Direct,       \* direct blocks of an inode, 12 in the code
  InodeNoSize,  \* inode_sync keeps the inode number in a uint8_t: 256
  PerBlock,     \* directory entries of a block, 21 in the code
  MaxCuts,      \* bound on the power cuts
  NULL

ASSUME DiskImageAssumption ==
  /\ NumInodes \in Nat \ {0} /\ NumBlocks \in Nat \ {0}
  /\ Direct \in Nat \ {0}
  /\ InodeNoSize \in Nat \ {0}
  /\ PerBlock \in Nat /\ PerBlock >= 2
  /\ MaxCuts \in Nat
  /\ {".", ".."} \cap Names = {}
  /\ NULL \notin Nat
  /\ NULL \notin [filename : Names \cup {".", ".."}, i_no : 0..NumInodes - 1, f_type : {"regular", "directory"}]

Inodes == 0..NumInodes - 1
Blocks == 0..NumBlocks - 1
Root   == 0

Entry   == [filename : Names \cup {".", ".."}, i_no : Inodes, f_type : {"regular", "directory"}]
Content == [1..PerBlock -> Entry \cup {NULL}]
Inode   == [i_no : Inodes, i_size : Nat, i_sectors : [1..Direct -> Blocks \cup {NULL}]]

VARIABLES
  disk,     \* magic of the superblock, the bitmaps, the inode table, the blocks
  mem,      \* the bitmaps in memory
  todo,     \* what the operation has still to write
  op,       \* the operation, "idle" or "off"
  cuts,
  halted,   \* a sys_mkdir has stopped the kernel, with the block it had taken on the disk
  damaged   \* an inode is written over another one's record, RmdirSelf, or the power has
            \* halted in one of the windows named below

vars == <<disk, mem, todo, op, cuts, halted, damaged>>

Bitmaps == [imap : SUBSET Inodes, bmap : SUBSET Blocks]

TypeOK ==
  /\ disk \in [magic : BOOLEAN, imap : SUBSET Inodes, bmap : SUBSET Blocks,
               inode : [Inodes -> Inode], block : [Blocks -> Content]]
  /\ mem \in Bitmaps
  /\ \A k \in DOMAIN todo :
       /\ todo[k].kind \in {"magic", "imap", "bmap", "table", "inode", "block", "halt"}
       /\ todo[k].kind = "inode" => todo[k].val \in Inode
       /\ todo[k].kind = "block" => todo[k].val \in Content
  /\ op \in {"off", "idle", "format", "create", "mkdir", "unlink", "rmdir", "write"}
  /\ op \in {"off", "idle"} <=> todo = <<>>
  /\ cuts \in 0..MaxCuts
  /\ halted \in BOOLEAN /\ damaged \in BOOLEAN

-----------------------------------------------------------------------------
\* Sectors and what is in them.

NoEntries == [j \in 1..PerBlock |-> NULL]
NoBlocks  == [k \in 1..Direct |-> NULL]
NoInode   == [i_no |-> 0, i_size |-> 0, i_sectors |-> NoBlocks]
Dots(n, parent) ==
  [NoEntries EXCEPT ![1] = [filename |-> ".", i_no |-> n, f_type |-> "directory"],
                    ![2] = [filename |-> "..", i_no |-> parent, f_type |-> "directory"]]
DirInode(n, b) == [i_no |-> n, i_size |-> 2, i_sectors |-> [NoBlocks EXCEPT ![1] = b]]

Imap(S)      == [kind |-> "imap", val |-> S]
Bmap(S)      == [kind |-> "bmap", val |-> S]
InodeSync(i) == [kind |-> "inode", no |-> i.i_no % InodeNoSize, val |-> i]
InodeZero(n) == [kind |-> "inode", no |-> n, val |-> NoInode]
Block(b, c)  == [kind |-> "block", no |-> b, val |-> c]

\* No sector: bitmap_scan finds no free bit, asserts that there is one, and the kernel
\* stops.
Halt == [kind |-> "halt"]

Stored(d, w) ==
  CASE w.kind = "magic" -> [d EXCEPT !.magic = TRUE]
    [] w.kind = "imap"  -> [d EXCEPT !.imap = w.val]
    [] w.kind = "bmap"  -> [d EXCEPT !.bmap = w.val]
    [] w.kind = "table" -> [d EXCEPT !.inode = [n \in Inodes |-> IF n = Root THEN DirInode(Root, 0)
                                                                 ELSE NoInode]]
    [] w.kind = "inode" -> [d EXCEPT !.inode[w.no] = w.val]
    [] w.kind = "block" -> [d EXCEPT !.block[w.no] = w.val]

Least(S) == CHOOSE n \in S : \A k \in S : n <= k

-----------------------------------------------------------------------------
\* What an operation reads. When no operation is going on, the inodes in memory
\* are those on the disk.

Ino(n) == disk.inode[n]
Used(i) == {k \in 1..Direct : i.i_sectors[k] # NULL}
Of(i, k) == disk.block[i.i_sectors[k]]

Places(i)  == {x \in Used(i) \X (1..PerBlock) : Of(i, x[1])[x[2]] # NULL}
Entries(i) == {Of(i, x[1])[x[2]] : x \in Places(i)}
Named(i)   == {e \in Entries(i) : e.filename \in Names}

\* The directories a path can reach: those in every set that has the root and, with a
\* directory, its subdirectories.
Subdirs(d) == {e.i_no : e \in {f \in Named(Ino(d)) : f.f_type = "directory"}}
Dirs ==
  LET below  == UNION {{d} \X Subdirs(d) : d \in Inodes}
      closed == {S \in SUBSET Inodes : Root \in S /\ \A x \in below : x[1] \in S => x[2] \in S}
  IN {d \in Inodes : \A S \in closed : d \in S}

\* search_file, for a path that names directories.
search_file(path) ==
  LET step(d, name) == (CHOOSE e \in Named(Ino(d)) : e.filename = name).i_no
      at[k \in 0..Len(path)] == IF k = 0 THEN Root ELSE step(at[k - 1], path[k])
  IN at[Len(path)]

\* sys_getcwd climbs from directory d by the second entry of the first block, and
\* looks each directory up in its parent by its number.
get_parent_dir_inode_nr(d) == Of(Ino(d), 1)[2].i_no
get_child_dir_name(parent, d) == (CHOOSE e \in Entries(Ino(parent)) : e.i_no = d).filename
Getcwd ==
  LET dirs == Dirs
      path[d \in dirs] ==
        IF d = Root THEN <<>>
        ELSE LET parent == get_parent_dir_inode_nr(d)
             IN Append(path[parent], get_child_dir_name(parent, d))
  IN path

\* dir_read at position pos, which passes over pos entries, and what reading a directory
\* to its end returns.
Before(dir, x) == {y \in Places(dir) : y[1] < x[1] \/ (y[1] = x[1] /\ y[2] < x[2])}
dir_read(dir, pos) ==
  IF pos < dir.i_size /\ pos < Cardinality(Places(dir))
  THEN LET x == CHOOSE y \in Places(dir) : Cardinality(Before(dir, y)) = pos IN Of(dir, x[1])[x[2]]
  ELSE NULL
Listed(dir) ==
  LET last == Least({pos \in 0..Direct * PerBlock : dir_read(dir, pos) = NULL})
  IN {dir_read(dir, pos) : pos \in 0..last - 1}

FreeInodes == Inodes \ mem.imap
FreeBlocks == Blocks \ mem.bmap

-----------------------------------------------------------------------------
\* Operations are the writes they do and the bitmaps they leave in memory.

Run(kind, writes, bitmaps) ==
  /\ writes # <<>>
  /\ op' = kind
  /\ todo' = writes
  /\ mem' = bitmaps
  /\ UNCHANGED <<disk, cuts>>

\* sync_dir_entry walks over the direct blocks to the first that is missing or has
\* a free entry.
Candidates(dir) == {k \in 1..Direct : k \notin Used(dir) \/ NULL \in {Of(dir, k)[j] : j \in 1..PerBlock}}

\* sync_dir_entry in a block that is there, followed by the sync of the directory.
EntryIn(dir, k, e) ==
  LET j == Least({i \in 1..PerBlock : Of(dir, k)[i] = NULL})
  IN <<Block(dir.i_sectors[k], [Of(dir, k) EXCEPT ![j] = e]),
       InodeSync([dir EXCEPT !.i_size = @ + 1])>>

\* sync_dir_entry in a new block b.
EntryInNew(dir, k, e, b, bmap) ==
  <<Bmap(bmap \cup {b}), Block(b, [NoEntries EXCEPT ![1] = e]),
    InodeSync([dir EXCEPT !.i_sectors[k] = b, !.i_size = @ + 1])>>

\* inode_sync would write inode i over the record of another one.
Truncated(i) == InodeSync(i).no # i.i_no

\* Adding entry e of the new inode i to dir, once before has been written with
\* bitmaps bm: the common part of file_create and sys_mkdir.
Enter(kind, dir, e, i, before, bm) ==
  LET k    == Least(Candidates(dir))
      free == Blocks \ bm.bmap
      b    == Least(free)
  IN /\ Candidates(dir) # {}
     /\ \/ /\ k \in Used(dir)
           /\ Run(kind, before \o EntryIn(dir, k, e) \o <<InodeSync(i), Imap(bm.imap)>>, bm)
           /\ damaged' = (damaged \/ Truncated(i))
           /\ UNCHANGED halted
        \/ /\ k \notin Used(dir) /\ free # {}
           /\ Run(kind, before \o EntryInNew(dir, k, e, b, bm.bmap)
                          \o <<InodeSync(i), Imap(bm.imap)>>,
                  [bm EXCEPT !.bmap = @ \cup {b}])
           /\ damaged' = (damaged \/ Truncated(i))
           /\ UNCHANGED halted
        \/ /\ k \notin Used(dir) /\ free = {}
           /\ Run(kind, Append(before, Halt), bm)
           /\ halted' = (halted \/ kind = "mkdir")
           /\ UNCHANGED damaged

\* The operation needs an inode or a block before it writes anything, and none is free.
Starved(kind) == Run(kind, <<Halt>>, mem) /\ UNCHANGED <<halted, damaged>>

Create(d, name) ==
  LET n == Least(FreeInodes)
  IN /\ name \notin {e.filename : e \in Entries(Ino(d))}
     /\ \/ FreeInodes = {} /\ Starved("create")
        \/ /\ FreeInodes # {}
           /\ Enter("create", Ino(d), [filename |-> name, i_no |-> n, f_type |-> "regular"],
                    [NoInode EXCEPT !.i_no = n], <<>>, [mem EXCEPT !.imap = @ \cup {n}])

Mkdir(d, name) ==
  LET n == Least(FreeInodes)
      b == Least(FreeBlocks)
  IN /\ name \notin {e.filename : e \in Entries(Ino(d))}
     /\ \/ (FreeInodes = {} \/ FreeBlocks = {}) /\ Starved("mkdir")
        \/ /\ FreeInodes # {} /\ FreeBlocks # {}
           /\ Enter("mkdir", Ino(d), [filename |-> name, i_no |-> n, f_type |-> "directory"],
                    DirInode(n, b), <<Bmap(mem.bmap \cup {b}), Block(b, Dots(n, d))>>,
                    [imap |-> mem.imap \cup {n}, bmap |-> mem.bmap \cup {b}])

-----------------------------------------------------------------------------
\* delete_dir_entry: the blocks of dir that hold an entry of inode n, the entries
\* of block k that are not its dots, and the writes. A block other than the first
\* whose only entry goes is given back, its contents left as they are.

Holding(dir, n) == {k \in Used(dir) : \E e \in Named(dir) : e.i_no = n /\ e \in {Of(dir, k)[j] : j \in 1..PerBlock}}
CountIn(dir, k) == Cardinality({j \in 1..PerBlock : Of(dir, k)[j] # NULL /\ Of(dir, k)[j].filename \in Names})
First(dir, k)   == "." \in {e.filename : e \in {Of(dir, k)[j] : j \in 1..PerBlock} \ {NULL}}

\* Wrong on purpose: the block is kept.
NeverRecycles(dir, k) == FALSE

Recycles(dir, k) == CountIn(dir, k) = 1 /\ ~First(dir, k)

DeleteWrites(dir, n, k, bmap) ==
  LET left == [dir EXCEPT !.i_size = @ - 1]
      cleared == [j \in 1..PerBlock |->
                    IF Of(dir, k)[j] # NULL /\ Of(dir, k)[j].i_no = n /\ Of(dir, k)[j].filename \in Names
                    THEN NULL ELSE Of(dir, k)[j]]
  IN IF Recycles(dir, k)
     THEN <<Bmap(bmap), InodeSync([left EXCEPT !.i_sectors[k] = NULL])>>
     ELSE <<Block(dir.i_sectors[k], cleared), InodeSync(left)>>

\* inode_release gives the blocks of the inode back one by one: the bitmaps it writes.
Freeing(i, bmap) ==
  [m \in 1..Cardinality(Used(i)) |->
     Bmap(bmap \ {i.i_sectors[k] : k \in {l \in Used(i) : Cardinality(Used(i) \cap 1..l) <= m}})]

\* Wrong on purpose: the bitmap of the inodes is not written.
ReleaseUnsynced(i, bitmaps) == Append(Freeing(i, bitmaps.bmap), InodeZero(i.i_no))

\* inode_release: the blocks of the inode, its number, its record.
ReleaseWrites(i, bitmaps) ==
  Freeing(i, bitmaps.bmap) \o <<Imap(bitmaps.imap \ {i.i_no}), InodeZero(i.i_no)>>

\* Wrong on purpose: the inode is released before its entry is deleted.
RemoveEntryLast(kind, d, e) ==
  LET dir == Ino(d)
      i   == Ino(e.i_no)
      k   == Least(Holding(dir, e.i_no))
      bm  == IF Recycles(dir, k) THEN [mem EXCEPT !.bmap = @ \ {dir.i_sectors[k]}] ELSE mem
  IN /\ Run(kind, ReleaseWrites(i, bm) \o DeleteWrites(dir, e.i_no, k, bm.bmap),
            [imap |-> bm.imap \ {e.i_no}, bmap |-> bm.bmap \ {i.i_sectors[l] : l \in Used(i)}])
     /\ UNCHANGED <<halted, damaged>>

RemoveEntry(kind, d, e) ==
  LET dir == Ino(d)
      i   == Ino(e.i_no)
      k   == Least(Holding(dir, e.i_no))
      bm  == IF Recycles(dir, k) THEN [mem EXCEPT !.bmap = @ \ {dir.i_sectors[k]}] ELSE mem
  IN /\ Run(kind, DeleteWrites(dir, e.i_no, k, bm.bmap) \o ReleaseWrites(i, bm),
            [imap |-> bm.imap \ {e.i_no}, bmap |-> bm.bmap \ {i.i_sectors[l] : l \in Used(i)}])
     /\ UNCHANGED <<halted, damaged>>

Unlink(d) == \E e \in Named(Ino(d)) : e.f_type = "regular" /\ RemoveEntry("unlink", d, e)

\* dir_is_empty goes by the size.
Rmdir(d) ==
  \E e \in Named(Ino(d)) :
    e.f_type = "directory" /\ Ino(e.i_no).i_size = 2 /\ RemoveEntry("rmdir", d, e)

\* sys_rmdir of a path that ends in "." takes the directory for its own parent,
\* finds no entry to delete there and releases it all the same.
RmdirSelf(d) ==
  LET i == Ino(d)
  IN /\ d # Root /\ i.i_size = 2
     /\ op' = "rmdir"
     /\ todo' = ReleaseWrites(i, mem)
     /\ mem' = [imap |-> mem.imap \ {d}, bmap |-> mem.bmap \ {i.i_sectors[k] : k \in Used(i)}]
     /\ damaged' = TRUE
     /\ UNCHANGED <<disk, cuts, halted>>

\* file_write that takes one more block: bitmap, data, inode.
Write(d) ==
  \E e \in Named(Ino(d)) :
    LET i == Ino(e.i_no)
        k == Least((1..Direct) \ Used(i))
        b == Least(FreeBlocks)
    IN /\ e.f_type = "regular"
       /\ Used(i) # 1..Direct
       /\ \/ FreeBlocks = {} /\ Starved("write")
          \/ /\ FreeBlocks # {}
             /\ Run("write", <<Bmap(mem.bmap \cup {b}), Block(b, NoEntries),
                              InodeSync([i EXCEPT !.i_sectors[k] = b, !.i_size = @ + 1])>>,
                    [mem EXCEPT !.bmap = @ \cup {b}])
             /\ UNCHANGED <<halted, damaged>>

-----------------------------------------------------------------------------
\* One sector is written; the last one ends the operation.
WriteSector ==
  /\ todo # <<>> /\ Head(todo) # Halt
  /\ disk' = Stored(disk, Head(todo))
  /\ todo' = Tail(todo)
  /\ op' = IF Len(todo) = 1 THEN "idle" ELSE op
  /\ UNCHANGED <<mem, cuts, halted, damaged>>

\* The kernel stops where it is, and somebody resets the machine.
Stop ==
  /\ todo = <<Halt>>
  /\ op' = "off"
  /\ todo' = <<>>
  /\ UNCHANGED <<disk, mem, cuts, halted, damaged>>

\* partition_format: the superblock, the bitmaps, the inode table, the root.
FormatWrites ==
  <<[kind |-> "magic"], Bmap({0}), Imap({Root}), [kind |-> "table"], Block(0, Dots(Root, Root))>>

\* mount_partition reads the bitmaps.
Mounted == [imap |-> disk.imap, bmap |-> disk.bmap]

\* filesys_init: a partition with the magic number is taken as it is, another one
\* is formatted. The bitmaps are those mount_partition reads then.
Boot ==
  /\ op = "off"
  /\ \/ /\ disk.magic
        /\ op' = "idle"
        /\ mem' = Mounted
        /\ UNCHANGED todo
     \/ /\ ~disk.magic
        /\ op' = "format"
        /\ todo' = FormatWrites
        /\ mem' = [imap |-> {Root}, bmap |-> {0}]
  /\ UNCHANGED <<disk, cuts, halted, damaged>>

(***************************************************************************)
(* The three windows in which a power cut does more than lose blocks or    *)
(* inodes that are marked as used.                                         *)
(***************************************************************************)

\* The superblock is there, not all of the rest.
MidFormat == op = "format" /\ disk.magic

\* The entry of a new inode is there, not the inode or its number.
MidCreate ==
  /\ op \in {"create", "mkdir"}
  /\ {todo[k].kind : k \in DOMAIN todo} \in {{"inode", "imap"}, {"imap"}}

\* A block of a directory is free in the bitmap, and still in the directory.
MidRecycle ==
  /\ op \in {"unlink", "rmdir"}
  /\ Head(todo).kind = "inode"
  /\ Used(Ino(Head(todo).no)) # Used(Head(todo).val)
  /\ Head(todo).val # NoInode

InWindow == MidFormat \/ MidCreate \/ MidRecycle

\* Wrong on purpose: the next start goes on with the old writes.
PowerCutBuffered ==
  /\ op # "off"
  /\ cuts < MaxCuts
  /\ cuts' = cuts + 1
  /\ damaged' = (damaged \/ InWindow)
  /\ op' = "off"
  /\ UNCHANGED <<disk, mem, halted, todo>>

PowerCut ==
  /\ op # "off"
  /\ cuts < MaxCuts
  /\ cuts' = cuts + 1
  /\ damaged' = (damaged \/ InWindow)
  /\ op' = "off"
  /\ todo' = <<>>
  /\ UNCHANGED <<disk, mem, halted>>

Init ==
  /\ disk = [magic |-> FALSE, imap |-> {}, bmap |-> {},
             inode |-> [n \in Inodes |-> NoInode], block |-> [b \in Blocks |-> NoEntries]]
  /\ mem = [imap |-> {}, bmap |-> {}]
  /\ todo = <<>> /\ op = "off" /\ cuts = 0
  /\ halted = FALSE /\ damaged = FALSE

Next ==
  \/ Boot \/ WriteSector \/ Stop \/ PowerCut
  \/ /\ op = "idle" /\ ~damaged
     /\ \E d \in Dirs :
          \/ \E name \in Names : Create(d, name) \/ Mkdir(d, name)
          \/ Unlink(d) \/ Rmdir(d) \/ RmdirSelf(d) \/ Write(d)

Spec == Init /\ [][Next]_vars

-----------------------------------------------------------------------------
\* Everything a path can reach.
Reached == {Root} \cup {e.i_no : e \in UNION {Named(Ino(d)) : d \in Dirs}}

\* The directory entries, with where they are.
Links == LET dirs == Dirs
             at(d) == {<<d, x[1], x[2]>> : x \in Places(Ino(d))}
         IN {l \in UNION {at(d) : d \in dirs} : Of(Ino(l[1]), l[2])[l[3]].filename \in Names}
Target(l) == Of(Ino(l[1]), l[2])[l[3]].i_no

\* A file system that can be used: every reachable inode is marked as used, has
\* its record and one entry, and no block is free or belongs to two inodes;
\* sys_readdir lists every entry, and sys_getcwd gives every directory a path that
\* leads to it.
Sound ==
  LET dirs     == Dirs
      path     == Getcwd
      reached  == Reached
      pointers == UNION {{<<n, k>> : k \in Used(Ino(n))} : n \in reached}
      sector(x) == Ino(x[1]).i_sectors[x[2]]
  IN /\ reached \subseteq disk.imap
     /\ \A n \in reached : Ino(n).i_no = n
     /\ IsInjective([l \in Links |-> Target(l)])
     /\ {sector(x) : x \in pointers} \subseteq disk.bmap
     /\ IsInjective([x \in pointers |-> sector(x)])
     /\ \A d \in dirs : Listed(Ino(d)) = Entries(Ino(d)) /\ search_file(path[d]) = d

\* Wherever the power fails outside the three windows, what is on the disk is a
\* file system that can be used: the order of the writes loses at most space.  This is
\* so until a file is created whose number does not fit inode_sync, or RmdirSelf.
CrashSafe == disk.magic /\ ~damaged /\ ~InWindow => Sound

\* dir_remove asserts that an empty directory, one whose size is that of its dots,
\* has no block but the first, whatever was created and deleted in it before.
EmptyIsOneBlock ==
  op = "idle" /\ ~damaged =>
    \A d \in Dirs \ {Root} : Ino(d).i_size = 2 => Used(Ino(d)) = {1}

\* While the power stays on, nothing is lost either: when no operation is going on,
\* the bitmaps on the disk are those in memory and mark exactly what is reachable;
\* only a sys_mkdir that stops the kernel for want of a block keeps the one it had.
NothingLost ==
  LET held == {Ino(n).i_sectors[k] : n \in Reached, k \in 1..Direct} \ {NULL}
  IN op = "idle" /\ cuts = 0 /\ ~damaged =>
       /\ disk.imap = mem.imap /\ disk.bmap = mem.bmap
       /\ mem.imap = Reached
       /\ held \subseteq mem.bmap /\ (held = mem.bmap \/ halted)
=============================================================================
