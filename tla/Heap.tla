-------------------------------- MODULE Heap --------------------------------
(***************************************************************************)
(* The memory of a user process: sys_malloc and sys_free of                *)
(* kernel/memory.c, with the linked lists of free blocks, what fork makes  *)
(* of it, and the program that sys_execv loads where the heap begins, too, *)
(* over whatever is there.                                                 *)
(* A list has its head and tail in the PCB, which every address space      *)
(* shows, and its elements in the blocks, of which every process has its   *)
(* own.                                                                    *)
(*                                                                         *)
(* System calls run with interrupts off and the lock of the pool is free   *)
(* or waited for, so a call is one step.                                   *)
(***************************************************************************)
EXTENDS Integers, FiniteSetsExt, SequencesExt

CONSTANTS
  Slots,        \* places for a PCB, 1..n
  NumPages,     \* pages of user addresses, below the page of the stack
  Frames,       \* page frames of user_pool that heaps can have
  PG_SIZE,
  ArenaSize,    \* sizeof(struct arena)
  BlockSizes,   \* block_size of the descriptors, ascending
  RequestSizes, \* what programs ask for
  Segments      \* the segments programs consist of: address and size

ASSUME HeapAssumption ==
  /\ IsFiniteSet(Slots) /\ Slots = 1..Cardinality(Slots) /\ Slots # {}
  /\ NumPages \in Nat \ {0} /\ Frames \in Nat \ {0}
  /\ PG_SIZE \in Nat /\ ArenaSize \in Nat
  /\ BlockSizes \in Seq(1..PG_SIZE - ArenaSize) /\ BlockSizes # <<>>
  /\ RequestSizes \subseteq 1..Frames * PG_SIZE - 1
  /\ Segments \subseteq [at : Nat, size : Nat]
  /\ \A s \in Segments : s.at >= PG_SIZE /\ s.size > 0 /\ s.at + s.size <= (NumPages + 1) * PG_SIZE

Pages   == 1..NumPages
Classes == DOMAIN BlockSizes

PageOf(a)   == a \div PG_SIZE                        \* block2arena
PerArena(c) == (PG_SIZE - ArenaSize) \div BlockSizes[c]
BlocksIn(page, c) ==                                 \* arena2block
  [i \in 1..PerArena(c) |-> page * PG_SIZE + ArenaSize + (i - 1) * BlockSizes[c]]

\* The bytes of the header on a page, of a block, and of what a program has.
HeaderOf(page) == page * PG_SIZE..page * PG_SIZE + ArenaSize - 1
BytesOf(b, c)  == b..b + BlockSizes[c] - 1
Extent(h)      == h.at..h.at + h.size - 1

\* The heads and tails of the free lists are kernel memory, behind all user addresses.
ListHead(p, c) == (NumPages + 2) * PG_SIZE + 2 * ((p - 1) * Len(BlockSizes) + c)
ListTail(p, c) == ListHead(p, c) + 1
ListEnds(p) == {ListHead(p, c) : c \in Classes} \cup {ListTail(p, c) : c \in Classes}
NULL == 0

VARIABLES
  alive,     \* the slots in use
  taken,     \* per process, the pages set in its address bitmap, which are the mapped ones
  arena,     \* per process, the header on the first page of an allocation
  links,     \* per process, prev and next of the blocks on its pages
  list_ends, \* prev and next of the heads and tails
  held,      \* per process, what the program has been given and not yet freed
  lost,      \* per process, what earlier programs of it have left in its heap
  program,   \* per process, the segment sys_execv has loaded, as a set
  inherited, \* per process, the pages it got from its parent
  stop       \* where a behaviour ends: "full" when no page was left, "fault" by a fault
             \* or an ASSERT, "overlaid" when a program was loaded over free blocks,
             \* "mixed" when a child has freed a small block of its parent

heapVars == <<alive, taken, arena, links, list_ends, held, lost, program, inherited, stop>>

NoArena == [list |-> NULL, cnt |-> 0, large |-> FALSE]
Link    == [prev : Nat, next : Nat]
NoLink  == [prev |-> NULL, next |-> NULL]

HeapTypeOK ==
  /\ alive \subseteq Slots
  /\ \A p \in Slots :
       /\ taken[p] \subseteq Pages
       /\ inherited[p] \subseteq taken[p]
       /\ arena[p] \in [Pages -> [list : Nat, cnt : Nat, large : BOOLEAN]]
       /\ \A a \in DOMAIN links[p] : PageOf(a) \in Pages /\ links[p][a] \in Link
       /\ held[p] \cup lost[p] \subseteq [at : Nat, size : RequestSizes]
       /\ program[p] \subseteq Segments
  /\ \A a \in UNION {ListEnds(p) : p \in alive} : list_ends[a] \in Link
  /\ stop \in {"no", "full", "fault", "overlaid", "mixed"}

EmptyLists(p) ==                                     \* block_desc_init
  [a \in ListEnds(p) |-> IF a \in {ListHead(p, c) : c \in Classes}
                          THEN [prev |-> NULL, next |-> a + 1]
                          ELSE [prev |-> a - 1, next |-> NULL]]

HeapInit ==
  /\ alive = {1}
  /\ taken = [p \in Slots |-> {}]
  /\ arena = [p \in Slots |-> [page \in Pages |-> NoArena]]
  /\ links = [p \in Slots |-> <<>>]
  /\ list_ends = EmptyLists(1)
  /\ held = [p \in Slots |-> {}]
  /\ lost = [p \in Slots |-> {}]
  /\ program = [p \in Slots |-> {}]
  /\ inherited = [p \in Slots |-> {}]
  /\ stop = "no"

-----------------------------------------------------------------------------
\* Lists.  m is the memory a process sees: its own blocks and the ends of all lists.

Over(m, n) == [a \in DOMAIN m \cup DOMAIN n |-> IF a \in DOMAIN m THEN m[a] ELSE n[a]]

Memory(p) == Over(links[p], list_ends)

Appended(m, head, b) ==                               \* list_append
  LET tail == head + 1
      last == m[tail].prev
  IN [m EXCEPT ![last].next = b, ![b] = [prev |-> last, next |-> tail], ![tail].prev = b]

Unlink(m, b) ==                                      \* list_remove
  [m EXCEPT ![m[b].prev].next = m[b].next, ![m[b].next].prev = m[b].prev]

\* One block after the other.
AppendedAll(m, head, blocks) ==
  LET mem[i \in 0..Len(blocks)] == IF i = 0 THEN m ELSE Appended(mem[i - 1], head, blocks[i])
  IN mem[Len(blocks)]

UnlinkedAll(m, blocks) ==
  LET mem[i \in 0..Len(blocks)] == IF i = 0 THEN m ELSE Unlink(mem[i - 1], blocks[i])
  IN mem[Len(blocks)]

Linked(m, b) == b \in DOMAIN m /\ m[b].prev \in DOMAIN m /\ m[b].next \in DOMAIN m

\* The elements of a list, from the head on, as elem_find meets them.
Onward(m, head, seen) == seen \cup {m[a].next : a \in (seen \cap DOMAIN m) \ {head + 1}}

Walk(m, head) ==
  LET steps == Cardinality(DOMAIN m)
      seen[i \in 0..steps] == IF i = 0 THEN {m[head].next} ELSE Onward(m, head, seen[i - 1])
  IN seen[steps] \ {head + 1}

Remembered(p, m) ==
  /\ links' = [links EXCEPT ![p] = [a \in DOMAIN m \ DOMAIN list_ends |-> m[a]]]
  /\ list_ends' = [a \in DOMAIN list_ends |-> m[a]]

-----------------------------------------------------------------------------
\* Pages.

\* Wrong on purpose: one page too few is looked at.
ScanShort(used, n) ==
  LET set    == used \cup {NumPages + 1}
      starts == {k \in 1..NumPages + 1 - n : \A j \in k..k + Max({n - 2, 0}) : j \notin set}
  IN IF starts = {} THEN -1 ELSE Min(starts)

\* bitmap_scan of the address bitmap, in which the page of the stack is set and the
\* bit behind the last reads as free: the start of n free pages or -1.
Scan(used, n) ==
  LET set    == used \cup {NumPages + 1}
      starts == {k \in 1..NumPages + 3 - n : \A j \in k..k + n - 1 : j \notin set}
  IN IF starts = {} THEN -1 ELSE Min(starts)

FramesUsed == Cardinality(UNION {{p} \X taken[p] : p \in alive})

Halts(how) ==
  /\ stop' = how
  /\ UNCHANGED <<alive, taken, arena, links, list_ends, held, lost, program, inherited>>

-----------------------------------------------------------------------------
\* sys_malloc.

ClassFor(size) == Min({c \in Classes : size <= BlockSizes[c]})
Small(size)    == size <= BlockSizes[Len(BlockSizes)]
PagesFor(size) == (size + ArenaSize + PG_SIZE - 1) \div PG_SIZE

Gives(p, at, size) == held' = [held EXCEPT ![p] = @ \cup {[at |-> at, size |-> size]}]

MallocLarge(p, size) ==
  LET n    == PagesFor(size)
      page == Scan(taken[p], n)
  IN IF taken[p] = Pages \/ (page # -1 /\ FramesUsed + n > Frames) THEN Halts("full")
     ELSE /\ page # -1
          /\ taken' = [taken EXCEPT ![p] = @ \cup page..page + n - 1]
          /\ arena' = [arena EXCEPT ![p][page] = [list |-> NULL, cnt |-> n, large |-> TRUE]]
          /\ Gives(p, page * PG_SIZE + ArenaSize, size)
          /\ UNCHANGED <<alive, links, list_ends, lost, program, inherited, stop>>

\* The blocks of a new arena on page are put on its list.
NewArena(p, head, page, c) ==
  LET blocks == BlocksIn(page, c)
  IN AppendedAll(Over([b \in ToSet(blocks) |-> NoLink], Memory(p)), head, blocks)

MallocSmall(p, size) ==
  LET c     == ClassFor(size)
      head  == ListHead(p, c)
      empty == list_ends[head].next = ListTail(p, c)
      page  == Scan(taken[p], 1)
      m     == IF empty THEN NewArena(p, head, page, c) ELSE Memory(p)
      b     == m[head].next
      heads == IF empty THEN [arena[p] EXCEPT ![page] = [list |-> head, cnt |-> PerArena(c), large |-> FALSE]]
               ELSE arena[p]
  IN IF empty /\ (taken[p] = Pages \/ FramesUsed = Frames) THEN Halts("full")
     ELSE IF ~Linked(m, b) THEN Halts("fault")
     ELSE /\ Remembered(p, [Unlink(m, b) EXCEPT ![b] = NoLink])
          /\ taken' = IF empty THEN [taken EXCEPT ![p] = @ \cup {page}] ELSE taken
          /\ arena' = [arena EXCEPT ![p] = [heads EXCEPT ![PageOf(b)].cnt = @ - 1]]
          /\ Gives(p, b, size)
          /\ UNCHANGED <<alive, lost, program, inherited, stop>>

Malloc(p, size) ==
  \/ Small(size) /\ MallocSmall(p, size)
  \/ ~Small(size) /\ MallocLarge(p, size)

-----------------------------------------------------------------------------
\* sys_free.

Unmap(p, pages) ==                                   \* mfree_page
  /\ taken' = [taken EXCEPT ![p] = @ \ pages]
  /\ inherited' = [inherited EXCEPT ![p] = @ \ pages]

FreeLarge(p, h) ==
  LET page == PageOf(h.at)
  IN /\ Unmap(p, page..page + arena[p][page].cnt - 1)
     /\ arena' = [arena EXCEPT ![p][page] = NoArena]
     /\ held' = [held EXCEPT ![p] = @ \ {h}]
     /\ UNCHANGED <<links, list_ends, stop>>

\* The descriptor of an inherited page is the parent's, in the parent's PCB.
FreeSmall(p, h) ==
  LET page   == PageOf(h.at)
      head   == arena[p][page].list
      c      == CHOOSE c \in Classes : \E q \in Slots : head = ListHead(q, c)
      blocks == BlocksIn(page, c)
      m      == Appended(Memory(p), head, h.at)
      last   == arena[p][page].cnt + 1 = PerArena(c)
      unhook == UnlinkedAll(m, blocks)
      mixed  == page \in inherited[p]
  IN IF \/ head \notin DOMAIN list_ends
        \/ Memory(p)[head + 1].prev \notin DOMAIN Memory(p)
        \/ last /\ \E b \in ToSet(blocks) : b \notin Walk(m, head) \/ ~Linked(m, b)
     THEN Halts(IF mixed THEN "mixed" ELSE "fault")
     ELSE /\ held' = [held EXCEPT ![p] = @ \ {h}]
          /\ stop' = IF mixed THEN "mixed" ELSE stop
          /\ IF last
             THEN /\ Remembered(p, Restrict(unhook, DOMAIN unhook \ ToSet(blocks)))
                  /\ Unmap(p, {page})
                  /\ arena' = [arena EXCEPT ![p][page] = NoArena]
             ELSE /\ Remembered(p, m)
                  /\ arena' = [arena EXCEPT ![p][page].cnt = @ + 1]
                  /\ UNCHANGED <<taken, inherited>>

Free(p, h) ==
  /\ h \in held[p]
  /\ \/ arena[p][PageOf(h.at)].large /\ FreeLarge(p, h)
     \/ ~arena[p][PageOf(h.at)].large /\ FreeSmall(p, h)
  /\ UNCHANGED <<alive, lost, program>>

-----------------------------------------------------------------------------
\* exec, fork and exit.

\* segment_load: the pages of a segment.
PagesOf(s) ==
  LET in_first == PG_SIZE - (s.at % PG_SIZE)
      occupy   == IF s.size > in_first THEN (s.size - in_first + PG_SIZE - 1) \div PG_SIZE + 1 ELSE 1
  IN PageOf(s.at)..PageOf(s.at) + occupy - 1

\* A segment covers a block of a free list of the process, or the header of its arena.
Overlays(p, s) ==
  \E c \in Classes : \E b \in Walk(Memory(p), ListHead(p, c)) :
    Extent(s) \cap (BytesOf(b, c) \cup HeaderOf(PageOf(b))) # {}

\* sys_execv of a program: pages that are mapped are written over, with the headers and
\* the blocks there.  What the old program held stays allocated, and nobody knows of it.
HeapExec(p, s) ==
  LET hit == {page \in Pages : arena[p][page] # NoArena /\ HeaderOf(page) \cap Extent(s) # {}}
  IN IF FramesUsed + Cardinality(PagesOf(s) \ taken[p]) > Frames THEN Halts("full")
     ELSE /\ taken' = [taken EXCEPT ![p] = @ \cup PagesOf(s)]
          /\ program' = [program EXCEPT ![p] = {s}]
          /\ arena' = [arena EXCEPT ![p] = [page \in Pages |-> IF page \in hit THEN NoArena ELSE @[page]]]
          /\ links' = [links EXCEPT ![p] = Restrict(@, {a \in DOMAIN @ : PageOf(a) \notin hit})]
          /\ held' = [held EXCEPT ![p] = {}]
          /\ lost' = [lost EXCEPT ![p] = {h \in @ \cup held[p] : PageOf(h.at) \notin hit}]
          /\ stop' = IF Overlays(p, s) THEN "overlaid" ELSE stop
          /\ UNCHANGED <<alive, list_ends, inherited>>

\* copy_process: the child gets a copy of the bitmap and of every page, and lists of
\* its own, which are empty.
HeapFork(p, q) ==
  /\ q \notin alive
  /\ IF FramesUsed + Cardinality(taken[p]) > Frames THEN Halts("full")
     ELSE /\ alive' = alive \cup {q}
          /\ taken' = [taken EXCEPT ![q] = taken[p]]
          /\ arena' = [arena EXCEPT ![q] = arena[p]]
          /\ links' = [links EXCEPT ![q] = links[p]]
          /\ list_ends' = Over(EmptyLists(q), list_ends)
          /\ held' = [held EXCEPT ![q] = held[p]]
          /\ lost' = [lost EXCEPT ![q] = lost[p]]
          /\ program' = [program EXCEPT ![q] = program[p]]
          /\ inherited' = [inherited EXCEPT ![q] = taken[p]]
          /\ UNCHANGED stop

\* release_prog_resource and, later, thread_exit.
HeapExit(p) ==
  /\ alive' = alive \ {p}
  /\ taken' = [taken EXCEPT ![p] = {}]
  /\ arena' = [arena EXCEPT ![p] = [page \in Pages |-> NoArena]]
  /\ links' = [links EXCEPT ![p] = <<>>]
  /\ list_ends' = Restrict(list_ends, DOMAIN list_ends \ ListEnds(p))
  /\ held' = [held EXCEPT ![p] = {}]
  /\ lost' = [lost EXCEPT ![p] = {}]
  /\ program' = [program EXCEPT ![p] = {}]
  /\ inherited' = [inherited EXCEPT ![p] = {}]
  /\ UNCHANGED stop

HeapNext ==
  /\ stop = "no"
  /\ \E p \in alive :
       \/ \E size \in RequestSizes : Malloc(p, size)
       \/ \E h \in held[p] : Free(p, h)
       \/ \E s \in Segments : HeapExec(p, s)
       \/ \E q \in Slots : HeapFork(p, q)
       \/ HeapExit(p)

HeapSpec == HeapInit /\ [][HeapNext]_heapVars

-----------------------------------------------------------------------------
\* What a program has is its own: no two things it holds, nor one of them and the
\* program itself, share a byte, and none covers the header of an arena or lies outside
\* the pages of the process.
HeldApart ==
  \A p \in alive :
    /\ \A h, g \in held[p] \cup program[p] : h # g => Extent(h) \cap Extent(g) = {}
    /\ \A h \in held[p] \cup program[p] : \A b \in Extent(h) :
         PageOf(b) \in taken[p] /\ ~(arena[p][PageOf(b)] # NoArena /\ b % PG_SIZE < ArenaSize)

FreeIn(p, page, c) == ToSet(BlocksIn(page, c)) \ {h.at : h \in held[p] \cup lost[p]}

\* Each free list has, each once and linked both ways, exactly the blocks of the arenas its
\* process has made that no program of it was given and kept, and cnt counts them.
FreeListsExact ==
  stop = "no" => \A p \in alive, c \in Classes :
    LET m     == Memory(p)
        head  == ListHead(p, c)
        own   == {page \in taken[p] \ inherited[p] : arena[p][page].list = head}
        chain == Walk(m, head)
    IN /\ chain = UNION {FreeIn(p, page, c) : page \in own}
       /\ \A page \in own : arena[p][page].cnt = Cardinality(FreeIn(p, page, c))
       /\ \A b \in chain : Linked(m, b) /\ m[m[b].next].prev = b /\ m[m[b].prev].next = b

\* A heap stays sound through every order of calls, execs, forks and exits, and no ASSERT of
\* memory.c fails and no fault happens but for want of pages, until a program is loaded over
\* free blocks or a child frees a small block of its parent: ListsAvailable shows what then
\* becomes of it.
HeapSound == stop \in {"overlaid", "mixed"} \/ (HeldApart /\ FreeListsExact /\ stop # "fault")

\* mem_block_desc.free_list has available blocks: no end of a free list of a process is in
\* what the process holds or in its program.
ListsAvailable ==
  \A p \in alive, c \in Classes : \A h \in held[p] \cup program[p] :
    {list_ends[ListHead(p, c)].next, list_ends[ListTail(p, c)].prev} \cap Extent(h) = {}
=============================================================================
