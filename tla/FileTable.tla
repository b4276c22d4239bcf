------------------------------ MODULE FileTable -------------------------------
(***************************************************************************)
(* Open files: the descriptors of the processes, file_table, and the list  *)
(* open_inodes of inodes in memory (fs/file.c, fs/inode.c, fs/fs.c), used  *)
(* by sys_open of an existing file, sys_close, sys_unlink, fork and exit.  *)
(*                                                                         *)
(* A system call runs with interrupts off and loses the processor only     *)
(* while it waits for the disk, so a step goes from one wait to the next:  *)
(*                                                                         *)
(*   unused     no process                                                 *)
(*   user       outside these system calls                                 *)
(*   opening    sys_open waits in search_file                              *)
(*   reading    inode_open waits for the inode                             *)
(*   unlinking  sys_unlink waits in search_file                            *)
(*   entry      delete_dir_entry waits for the block of the directory      *)
(*   release    delete_dir_entry waits for its writes                      *)
(*   loading    inode_open waits for the inode, called by inode_release    *)
(*   record     inode_release waits for its writes of the bitmaps          *)
(*   cleared    inode_delete waits for its write                           *)
(*                                                                         *)
(* Files are regular files of the root directory; slots and descriptors    *)
(* count from 0, those of the code from 3.                                 *)
(***************************************************************************)
EXTENDS Naturals, FiniteSets, SequencesExt

CONSTANTS
  Processes,
  First,           \* the process that exists at the start
  Files,
  BootFile,        \* the file main has created and never closes
  Deleted,         \* what inode_open reads where an inode has been deleted
  MAX_FILE_OPEN,
  MAX_FILES_OPEN_PER_PROC,
  MaxInodes,       \* bound on the inodes in memory
  MaxCount,        \* bound on their open counts
  NULL

ASSUME FileTableAssumption ==
  /\ First \in Processes /\ IsFiniteSet(Processes)
  /\ BootFile \in Files
  /\ Deleted \notin Files
  /\ MAX_FILE_OPEN \in Nat \ {0}
  /\ MAX_FILES_OPEN_PER_PROC \in Nat \ {0}
  /\ MaxInodes \in Nat \ {0}
  /\ MaxCount \in Nat \ {0}
  /\ NULL \notin Nat

Slots     == 0..MAX_FILE_OPEN - 1
Fds       == 0..MAX_FILES_OPEN_PER_PROC - 1
Addresses == 1..MaxInodes

InodeWith(counts) ==
  [i_no : Files \cup {Deleted}, i_open_cnts : counts, write_deny : BOOLEAN]
Inode == InodeWith(0..MaxCount)

ASSUME NullAssumption == NULL \notin InodeWith(Nat)

VARIABLES
  mem,       \* inode: heap of inodes; open: open_inodes; slot: fd_inode of
             \* file_table; writes: slots whose fd_flag says O_WRONLY or
             \* O_RDWR; ok: FALSE once the kernel has stopped
  fd_table,
  pc,
  call,      \* the locals of a system call that waits
  entries,   \* the files that have a directory entry on the disk
  records    \* the files whose inode on the disk has not been deleted

vars == <<mem, fd_table, pc, call, entries, records>>

Pcs == {"unused", "user", "opening", "reading", "unlinking", "entry", "release",
        "loading", "record", "cleared"}

NoCall == [i_no |-> BootFile, write |-> FALSE, slot |-> 0, inode |-> 1]

TypeOK ==
  /\ mem \in [inode : [Addresses -> Inode \cup {NULL}],
              open  : Seq(Addresses),
              slot  : [Slots -> Addresses \cup {NULL}],
              writes : SUBSET Slots,
              ok    : BOOLEAN]
  /\ fd_table \in [Processes -> [Fds -> Slots \cup {NULL}]]
  /\ pc \in [Processes -> Pcs]
  /\ call \in [Processes -> [i_no : Files, write : BOOLEAN, slot : Slots, inode : Addresses]]
  /\ entries \subseteq Files
  /\ records \subseteq Files

\* main has opened BootFile by creating it.
Init ==
  /\ mem = [inode |-> [a \in Addresses |->
                         IF a = 1 THEN [i_no |-> BootFile, i_open_cnts |-> 1, write_deny |-> FALSE]
                         ELSE NULL],
            open  |-> <<1>>,
            slot  |-> [s \in Slots |-> IF s = 0 THEN 1 ELSE NULL],
            writes |-> {0},
            ok    |-> TRUE]
  /\ fd_table = [p \in Processes |-> [i \in Fds |-> NULL]]
  /\ pc       = [p \in Processes |-> IF p = First THEN "user" ELSE "unused"]
  /\ call     = [p \in Processes |-> NoCall]
  /\ entries  = Files
  /\ records  = Files

At(p, loc)   == mem.ok /\ pc[p] = loc
Goto(p, loc) == pc' = [pc EXCEPT ![p] = loc]
Return(p)    == Goto(p, "user") /\ call' = [call EXCEPT ![p] = NoCall]

Least(S) == CHOOSE n \in S : \A k \in S : n <= k

-----------------------------------------------------------------------------
\* Inodes in memory. open_inodes is searched from its head.

Known(m, f)  == {a \in ToSet(m.open) : m.inode[a].i_no = f}
Found(m, f)  == m.open[Least({k \in DOMAIN m.open : m.inode[m.open[k]].i_no = f})]
FreeAddr(m)  == {a \in Addresses : m.inode[a] = NULL}

CountsBounded(m) == \A a \in Addresses : m.inode[a] # NULL => m.inode[a].i_open_cnts <= MaxCount

Again(m, f) == [m EXCEPT !.inode[Found(m, f)].i_open_cnts = @ + 1]

\* inode_open, before it waits: the memory for the inode.
Allocate(m, a, f) ==
  [m EXCEPT !.inode[a] = [i_no |-> f, i_open_cnts |-> 0, write_deny |-> FALSE]]

\* inode_open, when the inode has come from the disk.
Loaded(m, a, f) ==
  [m EXCEPT !.inode[a] = [i_no        |-> IF f \in records THEN f ELSE Deleted,
                          i_open_cnts |-> 1,
                          write_deny  |-> FALSE],
            !.open = <<a>> \o @]

\* list_remove.
Delisted(m, a) == RemoveAt(m.open, CHOOSE k \in DOMAIN m.open : m.open[k] = a)

\* Wrong on purpose: the last user is not told from the others.
InodeCloseAlways(m, a) == [m EXCEPT !.inode[a] = NULL, !.open = Delisted(m, a)]

InodeClose(m, a) ==
  IF m.inode[a].i_open_cnts = 1
  THEN [m EXCEPT !.inode[a] = NULL, !.open = Delisted(m, a)]
  ELSE [m EXCEPT !.inode[a].i_open_cnts = @ - 1]

-----------------------------------------------------------------------------
\* sys_open of an existing file.

OpenCall(p, f, w) ==
  /\ At(p, "user")
  /\ call' = [call EXCEPT ![p] = [NoCall EXCEPT !.i_no = f, !.write = w]]
  /\ Goto(p, "opening")
  /\ UNCHANGED <<mem, fd_table, entries, records>>

\* Wrong on purpose: the last test of get_free_slot_in_global is missing.
FreeSlotsOneMore == {s \in 0..MAX_FILE_OPEN : s = MAX_FILE_OPEN \/ mem.slot[s] = NULL}

\* Wrong on purpose: a slot counts as free when its file has no writer.
FreeSlotsUnwritten == Slots \ mem.writes

FreeSlots  == {s \in Slots : mem.slot[s] = NULL}
FreeFds(p) == {i \in Fds : fd_table[p][i] = NULL}

\* file_open once it has its inode: the slot stays taken also when write_deny or
\* a full fd_table makes it fail.
InstallInode(p, s, a, m) ==
  LET refused == call[p].write /\ m.inode[a].write_deny
  IN /\ mem' = [m EXCEPT !.slot[s] = a,
                         !.writes = IF call[p].write THEN @ \cup {s} ELSE @ \ {s},
                         !.inode[a].write_deny = @ \/ call[p].write]
     /\ fd_table' = IF refused \/ FreeFds(p) = {} THEN fd_table
                    ELSE [fd_table EXCEPT ![p][Least(FreeFds(p))] = s]

\* Back from search_file.
FileOpen(p) ==
  LET f == call[p].i_no
  IN /\ At(p, "opening")
     /\ \/ /\ f \notin entries \/ FreeSlots = {}
           /\ Return(p)
           /\ UNCHANGED <<mem, fd_table>>
        \/ /\ f \in entries /\ FreeSlots # {} /\ Known(mem, f) # {}
           /\ InstallInode(p, Least(FreeSlots), Found(mem, f), Again(mem, f))
           /\ CountsBounded(mem')
           /\ Return(p)
        \/ /\ f \in entries /\ FreeSlots # {} /\ Known(mem, f) = {}
           /\ FreeAddr(mem) # {}
           /\ mem' = Allocate(mem, Least(FreeAddr(mem)), f)
           /\ call' = [call EXCEPT ![p].slot = Least(FreeSlots),
                                   ![p].inode = Least(FreeAddr(mem))]
           /\ Goto(p, "reading")
           /\ UNCHANGED fd_table
     /\ UNCHANGED <<entries, records>>

InodeRead(p) ==
  /\ At(p, "reading")
  /\ InstallInode(p, call[p].slot, call[p].inode, Loaded(mem, call[p].inode, call[p].i_no))
  /\ Return(p)
  /\ UNCHANGED <<entries, records>>

-----------------------------------------------------------------------------
\* sys_close, fork and exit.

\* A slot another process has closed holds NULL, whose use is a page fault. The
\* fd_flag of a free slot is not read.
FileClose(m, s) ==
  IF m.slot[s] = NULL THEN [m EXCEPT !.ok = FALSE]
  ELSE [InodeClose([m EXCEPT !.inode[m.slot[s]].write_deny = FALSE], m.slot[s])
          EXCEPT !.slot[s] = NULL, !.writes = @ \ {s}]

\* Wrong on purpose: the descriptor is not given back.
CloseKeepingFd(p, i) ==
  /\ At(p, "user")
  /\ fd_table[p][i] # NULL
  /\ mem' = FileClose(mem, fd_table[p][i])
  /\ UNCHANGED <<fd_table, pc, call, entries, records>>

Close(p, i) ==
  /\ At(p, "user")
  /\ fd_table[p][i] # NULL
  /\ mem' = FileClose(mem, fd_table[p][i])
  /\ fd_table' = [fd_table EXCEPT ![p][i] = NULL]
  /\ UNCHANGED <<pc, call, entries, records>>

\* What fork and exit do to the slot of each descriptor, from the first to the last.
Each(Op(_, _), m, fds) ==
  LET after[n \in 0..MAX_FILES_OPEN_PER_PROC] ==
        IF n = 0 THEN m
        ELSE IF fds[n - 1] = NULL THEN after[n - 1]
        ELSE Op(after[n - 1], fds[n - 1])
  IN after[MAX_FILES_OPEN_PER_PROC]

\* update_inode_open_cnts.
CountOnce(m, s) ==
  IF m.slot[s] = NULL THEN [m EXCEPT !.ok = FALSE]
  ELSE [m EXCEPT !.inode[m.slot[s]].i_open_cnts = @ + 1]

Fork(p, q) ==
  /\ At(p, "user")
  /\ pc[q] = "unused"
  /\ mem' = Each(CountOnce, mem, fd_table[p])
  /\ CountsBounded(mem')
  /\ fd_table' = [fd_table EXCEPT ![q] = fd_table[p]]
  /\ Goto(q, "user")
  /\ UNCHANGED <<call, entries, records>>

Exit(p) ==
  /\ At(p, "user")
  /\ mem' = Each(FileClose, mem, fd_table[p])
  /\ fd_table' = [fd_table EXCEPT ![p] = [i \in Fds |-> NULL]]
  /\ Goto(p, "unused")
  /\ UNCHANGED <<call, entries, records>>

-----------------------------------------------------------------------------
\* sys_unlink.

UnlinkCall(p, f) ==
  /\ At(p, "user")
  /\ call' = [call EXCEPT ![p] = [NoCall EXCEPT !.i_no = f]]
  /\ Goto(p, "unlinking")
  /\ UNCHANGED <<mem, fd_table, entries, records>>

InUse(f) == \E s \in Slots : mem.slot[s] # NULL /\ mem.inode[mem.slot[s]].i_no = f

\* Back from search_file.
UnlinkCheck(p) ==
  LET f == call[p].i_no
  IN /\ At(p, "unlinking")
     /\ \/ f \in entries /\ ~InUse(f) /\ Goto(p, "entry") /\ UNCHANGED call
        \/ (f \notin entries \/ InUse(f)) /\ Return(p)
     /\ UNCHANGED <<mem, fd_table, entries, records>>

\* inode_release opens the inode.
OpenToRelease(p) ==
  LET f == call[p].i_no
  IN \/ /\ Known(mem, f) # {}
        /\ mem' = Again(mem, f)
        /\ CountsBounded(mem')
        /\ call' = [call EXCEPT ![p].inode = Found(mem, f)]
        /\ Goto(p, "record")
     \/ /\ Known(mem, f) = {}
        /\ FreeAddr(mem) # {}
        /\ mem' = Allocate(mem, Least(FreeAddr(mem)), f)
        /\ call' = [call EXCEPT ![p].inode = Least(FreeAddr(mem))]
        /\ Goto(p, "loading")

\* sys_unlink goes on whether or not delete_dir_entry has found the entry.
DeleteEntry(p) ==
  LET f == call[p].i_no
  IN /\ At(p, "entry")
     /\ \/ /\ f \in entries
           /\ entries' = entries \ {f}
           /\ Goto(p, "release")
           /\ UNCHANGED <<mem, call>>
        \/ /\ f \notin entries
           /\ OpenToRelease(p)
           /\ UNCHANGED entries
     /\ UNCHANGED <<fd_table, records>>

Release(p) ==
  /\ At(p, "release")
  /\ OpenToRelease(p)
  /\ UNCHANGED <<fd_table, entries, records>>

\* ASSERT(inode_to_del->i_no == inode_no)
LoadToRelease(p) ==
  /\ At(p, "loading")
  /\ mem' = [Loaded(mem, call[p].inode, call[p].i_no) EXCEPT !.ok = call[p].i_no \in records]
  /\ Goto(p, "record")
  /\ UNCHANGED <<fd_table, call, entries, records>>

DeleteRecord(p) ==
  /\ At(p, "record")
  /\ records' = records \ {call[p].i_no}
  /\ Goto(p, "cleared")
  /\ UNCHANGED <<mem, fd_table, call, entries>>

CloseReleased(p) ==
  /\ At(p, "cleared")
  /\ mem' = InodeClose(mem, call[p].inode)
  /\ Return(p)
  /\ UNCHANGED <<fd_table, entries, records>>

-----------------------------------------------------------------------------
Unlinks(p) ==
  \/ UnlinkCheck(p) \/ DeleteEntry(p) \/ Release(p) \/ LoadToRelease(p)
  \/ DeleteRecord(p) \/ CloseReleased(p)

Next ==
  \E p \in Processes :
    \/ \E f \in Files : UnlinkCall(p, f) \/ \E w \in BOOLEAN : OpenCall(p, f, w)
    \/ FileOpen(p) \/ InodeRead(p)
    \/ \E i \in Fds : Close(p, i)
    \/ \E q \in Processes : Fork(p, q)
    \/ Exit(p)
    \/ Unlinks(p)

Spec == Init /\ [][Next]_vars

-----------------------------------------------------------------------------
SlotsAt(m, a) == {s \in Slots : m.slot[s] = a}
Releasing(a) == {p \in Processes : pc[p] \in {"record", "cleared"} /\ call[p].inode = a}

\* The open count of an inode covers every slot of file_table and every
\* inode_release that uses it, and open_inodes lists each inode once: memory that
\* is still pointed to is never freed, although two opens may read the same
\* inode, take the same slot, or share a slot through fork, and an open may meet
\* an unlink of its file.
NoDanglingInode ==
  mem.ok =>
    /\ IsInjective(mem.open)
    /\ \A s \in Slots : mem.slot[s] # NULL => mem.slot[s] \in ToSet(mem.open)
    /\ \A a \in ToSet(mem.open) :
         /\ mem.inode[a] # NULL
         /\ mem.inode[a].i_open_cnts >= Cardinality(SlotsAt(mem, a)) + Cardinality(Releasing(a))

Users(s) == {u \in Processes \X Fds : fd_table[u[1]][u[2]] = s}
Live(p, i) == fd_table[p][i] # NULL /\ mem.slot[fd_table[p][i]] # NULL
FileOf(p, i) == mem.inode[mem.slot[fd_table[p][i]]].i_no

\* A descriptor that stays open loses its file only when another descriptor of
\* the same slot is closed, by a process that has the slot through fork or has
\* opened a file at the same time: nobody else's close, exit or unlink takes a
\* file away.
DiesOnlyByShare ==
  [][ \A p \in Processes, i \in Fds :
        Live(p, i) /\ ~Live(p, i)' =>
          fd_table'[p][i] = NULL \/ Cardinality(Users(fd_table[p][i])) > 1 ]_vars

\* A descriptor comes to stand for another file only through an open that chose
\* the same slot before it waited for its inode.
ChangesOnlyByRace ==
  [][ \A p \in Processes, i \in Fds :
        Live(p, i) /\ Live(p, i)' /\ FileOf(p, i)' # FileOf(p, i) =>
          \E q \in Processes : pc[q] = "reading" /\ call[q].slot = fd_table[p][i] ]_vars

\* What inode.h says of write_deny and the code does not keep, "files cannot be
\* written in parallel": a file has one descriptor for writing.
SingleWriter ==
  \A s, t \in mem.writes :
    Users(s) # {} /\ Users(t) # {} /\ mem.slot[s] # NULL /\ mem.slot[t] # NULL
    /\ mem.inode[mem.slot[s]].i_no = mem.inode[mem.slot[t]].i_no
      => s = t

-----------------------------------------------------------------------------
\* The inductive invariant from which FileTable_proofs derives NoDanglingInode.
\* It holds of the memory m with the processes where they are, also in the
\* middle of a fork or of an exit, and after the kernel has stopped.

Loading   == {p \in Processes : pc[p] \in {"reading", "loading"}}
Deleting  == {p \in Processes : pc[p] \in {"record", "cleared"}}

\* open_inodes lists an inode once, and whatever uses one finds it there.
Referenced(m) ==
  /\ IsInjective(m.open)
  /\ \A s \in Slots : m.slot[s] # NULL => m.slot[s] \in ToSet(m.open)
  /\ \A p \in Deleting : call[p].inode \in ToSet(m.open)

\* No user is left out of the count.
Counted(m) ==
  \A a \in ToSet(m.open) :
    /\ m.inode[a] # NULL
    /\ m.inode[a].i_open_cnts >= Cardinality(SlotsAt(m, a)) + Cardinality(Releasing(a))

\* An inode that is being read from the disk is in memory of its own, which
\* nothing points to yet.
Private(m) ==
  /\ \A p \in Loading : m.inode[call[p].inode] # NULL /\ call[p].inode \notin ToSet(m.open)
  /\ \A p, q \in Loading : call[p].inode = call[q].inode => p = q

Sound(m) == Referenced(m) /\ Counted(m) /\ Private(m)

IInv == TypeOK /\ Sound(mem)
=============================================================================
