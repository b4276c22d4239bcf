# A verification of the kernel

TLA+ models of the operating system in `src/实现系统调用wait,exit/`, TLC
configurations that check them on small instances, and proofs for TLAPS. The
repository keeps the system at 27 stages of its development; that directory is
the last and most complete one and the only one modelled. Paths below are
relative to it.

## 1. The system

The kernel runs on one x86 processor. It has kernel threads and processes, and
three sources of concurrency:

- the timer interrupt preempts whatever runs with interrupts on: user code,
  and the code of kernel threads (`main`, `idle`);
- a system call runs with interrupts off (its gate clears IF) and gives the
  processor away only where it blocks or yields;
- the keyboard and the disk interrupt in between, and wake tasks.

| Component | Its state | Its operations | What makes it correct |
|---|---|---|---|
| Scheduler (`thread/thread.c`, `device/timer.c`) | `thread_ready_list`, `status`, `ticks`, `idle_thread` | `schedule`, `thread_block`, `thread_unblock`, `thread_yield`, timer interrupt | one task RUNNING; the ready list holds the READY tasks, each once; idle can be woken when nothing is ready; a ready task runs |
| Semaphores and locks (`thread/sync.c`) | `value`, `waiters`, `holder`, `holder_repeat_nr` | `sema_down`, `sema_up`, `lock_acquire`, `lock_release` | exclusion; no lost wakeup; nesting; nobody on two lists |
| Keyboard (`device/keyboard.c`, `device/ioqueue.c`) | the ring, `consumer`, the modifier flags | the interrupt handler, `ioq_getchar` | a FIFO queue; a reader sleeps only on an empty ring and is woken |
| Disk (`device/ide.c`) | `expecting_intr`, `disk_done`, the channel lock | `ide_read`, `ide_write`, the interrupt handler | one request at a time; data is moved only when the drive is ready for it; whoever waits for it is woken |
| Processes (`userprog/fork.c`, `userprog/wait_exit.c`, pid pool) | `thread_all_list`, `parent_pid`, the pids | `fork`, `wait`, `exit` | the process tree; no missed exit; pids are unique; pages come back |
| Memory (`kernel/memory.c`) | two page pools, address bitmaps, page tables, free lists of the arenas | `malloc_page`, `mfree_page`, `sys_malloc`, `sys_free`, the pages of exec | blocks in use do not overlap; a free list holds exactly the free blocks; arenas are given back exactly when empty |
| Open files (`fs/file.c`, `fs/inode.c`) | `file_table`, `fd_table`, `open_inodes`, `i_open_cnts`, `write_deny` | `open`, `close`, `unlink`, `fork`, `exit` | an inode in use is not freed; nobody else takes a descriptor's file away |
| Blocks of a file (`fs/file.c`) | `i_size`, `i_sectors`, the index table, `fd_pos` | `read`, `write`, `lseek` | the file is an array of bytes |
| Directories and disk (`fs/dir.c`, `fs/fs.c`) | entries, inodes and bitmaps, on the disk and in memory | format, mount, create, `mkdir`, `write`, `unlink`, `rmdir` | no entry without inode, no block in two files, also after a power cut; nothing is lost without one |
| Shell (`shell/`) | the command line, `argv`, `final_path` | `readline`, `cmd_parse`, `wash_path` | what is run is what was typed; buffers are not overrun |

How they interact: a system call of a process runs to its end unless it blocks
in a lock, in a semaphore, in `ioq_wait`, in `sys_wait` or in `ticks_to_sleep`;
each of these is a call into the scheduler, so every module is built on
`Scheduler`. Interrupt handlers reach the rest of the kernel through two calls
only: `sema_up(&disk_done)` and `thread_unblock(ioq->consumer)`. Processes share
the kernel's page pool, the file table, the inode list and the disk, and meet
each other in `fork`, `wait` and `exit`.

What is hard here: kernel threads are preempted anywhere; the places where a
system call can lose the processor are few but easy to overlook (a lock inside
`sys_free` inside `sys_exit`), and what was read before them is used after them;
wakeups come from handlers; many operations on the disk image are several
writes with nothing that makes them one.

## 2. Modules

| Module | Models | Builds on |
|---|---|---|
| `Scheduler` | `schedule`, `thread_block`, `thread_unblock`, `thread_yield`, the timer handler, as operators on a record | |
| `Semaphore` | `sema_down`, `sema_up`, as operators on a record | `Scheduler` |
| `Sync` | `lock_acquire`, `lock_release` statement by statement, tasks that block and wake each other, the idle thread, interrupts | `Semaphore` |
| `LockSpec` | what a lock promises | |
| `IoQueue` | the keyboard ring, its readers and the keyboard interrupt | `Semaphore` |
| `KeyQueue` | what the ring promises: a bounded FIFO queue | |
| `Ide` | `ide_read`, `ide_write`, `busy_wait`, the disk interrupt, the drive (external) | `Semaphore` |
| `ProcLife` | `sys_fork`, `sys_wait`, `sys_exit`, `thread_exit`, the pid pool, kernel pages as a number | `Semaphore` |
| `FileTable` | descriptors, `file_table` and `open_inodes` under open, close, unlink, fork and exit, across waits for the disk | |
| `DiskImage` | the sector writes of the file system in their order, power cuts, mount | |
| `FileBlocks` | `file_write`, `file_read`, `sys_lseek` on direct and indirect blocks | |
| `ByteFile` | what they promise: an array of bytes with a position | |
| `Heap` | `sys_malloc`, `sys_free`, `bitmap_scan`, the linked free lists, and what exec, fork and exit do to them | |
| `Keyboard` | scan codes to characters | |
| `Shell` | `readline`, `cmd_parse`, `wash_path` | |
| `MCSync`, `MCIoQueue`, `MCIde`, `MCProcLife`, `MCFileTable`, `MCDiskImage`, `MCHeap` | the constants of the runs | |
| `MCSequential` | `FileBlocks`, `Heap`, `Keyboard` and `Shell` side by side; `part` says which of them a behaviour explores | the four |
| `Scheduler_proofs`, `Sync_proofs`, `IoQueue_proofs`, `Device_proofs`, `ProcLife_proofs`, `FileTable_proofs`, `DiskImage_proofs`, `Sequential_proofs` | the theorems (section 6) | the modules they are about |

**The processor.** `sched` is a record: the running task, `status`, the ready
list, the time slices, and `ok`, which becomes FALSE where an `ASSERT` fails
(the kernel then spins with interrupts off, so every action requires `ok`).
Code that runs with interrupts off is one step from one place where it can lose
the processor to the next; two effects in one such step are two operators
composed, as in `Block(Unblock(sched, ...), "HANGING")` for `sys_exit`. In
`Sync` and `Ide`, where kernel threads run driver and lock code with interrupts
on, each statement that touches shared state is a step. `pc[t]` says where task
`t` is; the head of each module lists the places. A task that is resumed inside
`thread_block` goes on from its `pc`: waking never runs code of the woken task.

**Scheduler and Semaphore.** `thread_unblock` pushes to the front of the ready
list and `thread_yield` appends; both are modelled on sequences, and the two
`ASSERT`s about list membership are part of the operators. `sema_down` is a
loop: `SemaWait` is its body for value 0, `SemaTake` what follows it, and a
woken waiter runs the test again. `value` wraps at 256.

**Sync.** `sema`, `holder` and `repeat` are the fields of `struct lock`;
`depth[t][l]` records what the callers have done and is used to state the
properties and the protocol of the callers (release what you have acquired;
return from a system call without locks). No caller takes two different locks
at a time, so `StartAcquire` requires that; it may nest the same one up to
`MaxRepeat`. `Park` and `WakeParked` are the scheduler's other users. What a
task does outside the functions of `sync.c` is free (`Chosen`), what it does
inside is determined (`Forced`).

**IoQueue.** A reader's whole `ioq_getchar` from one blocking point to the next
is one step (`GetChar`); the lock it takes there is its semaphore. Only the
interrupt handler produces, and drops the key when the ring is full, so the
waiting producer of `ioq_putchar` is unreachable and not modelled.

**Ide.** `sema.lock` and `sema.done` are the semaphore of the channel's lock and
`disk_done`; `drive` and `irq` are the drive and the pending request in the
8259A. `cmd_out` is two steps, the flag and the command. `req[t].left` counts
the commands a request still needs (`ide_read` splits at 256 sectors); the
decrement, written at the end of the loop in C, is done when the command is
given. A command is of any number of sectors out of `ReadSectors` or `WriteSectors`. The
drive interrupts once for every sector it offers to a reader, and while it takes and stores what
is written it interrupts for the next sector and for the last; giving it a command
withdraws what is pending, as writing the command register of an ATA drive does. A
command that reaches a drive which is still storing may also be ignored: what the drive
does then is its own choice (`GiveCommand`).
An interrupt that is pending while interrupts are on is taken before the next
instruction (`At`). `time_limit` goes down by 1 per round as the C expression
does.

**ProcLife.** `all` is `thread_all_list`, searched from its head as
`list_traversal` does; pids are allocated first-fit. `sys_fork` takes the lock
of the kernel pool four times; only the first can find it taken, for `main`
alone holds it while not on the processor. `sys_exit` gives the children to init
and the bitmap back before it closes files, where it may block for that lock
(`ExitWait`), then wakes its parent and hangs (`HangUp`). Runs of kernel pages
are assumed to be found wherever enough pages are free. User pages, page
tables, open files and exit statuses are left out.

**FileTable.** A system call loses the processor only in `ide_read` and
`ide_write`, so a step goes from one such wait to the next; `pc[p]` names the
wait and `call[p]` keeps the locals. `mem.inode` is the heap of inodes with
addresses, so that an inode can be in memory twice, a pointer can be stale and
memory can be given back too early. The races of the code are all there: the
slot that is chosen before `inode_open` waits, the look-up that is not repeated
after the wait, the unlink that asks for users before it waits, the slot that
fork shares, the slot a refused open keeps. Using the slot another process has
cleared is a page fault in the kernel, which stops it (`ok`). Files exist at the
start. `file_create` by a process is left out: it takes its inode from the heap
of that process (`fs/file.c:116`) and puts it on the list that all processes
follow, so what the others find there depends on their page tables.

**DiskImage.** `disk` is what is on the disk, `mem` the bitmaps in memory,
`todo` the sectors the current operation has still to write. An operation
computes its writes when it starts, for nothing else runs in between; the order
in `todo` is that of the calls of `ide_write`. `PowerCut` may come before each
write, and `Boot` mounts what is left or formats. A sector is written whole.
After a cut in one of the windows `MidFormat`, `MidCreate`, `MidRecycle` the
image may be unsound and nothing further is done to it (`damaged`). The same
goes for the creation of an inode whose number `inode_sync` cuts down (`Truncated`), and
for `RmdirSelf`, the `sys_rmdir` of a path that ends in `.`. When no block or
inode is free the kernel stops (`Halt`), with what the operation has written so far on
the disk, and `Boot` follows. What only reads,
`search_file`, `sys_readdir` and `sys_getcwd`, is an operator on the disk and part
of what `Sound` asks for.

**FileBlocks and ByteFile.** `inode`, `index` and `data` are the inode, index
tables and data blocks. A call is one step. In `ByteFile` a write
appends all its bytes and leaves the position before the last of them, as the
code does, or it fails. `ok` ends the behaviour where an `ASSERT` fails: at the
maximal size (`fs/file.c:274`), one block before it for reads (`:443`), and when
blocks run out (`lib/kernel/bitmap.c:29`), which `left` counts in `ByteFile`.

**Heap.** Memory is words with addresses. A list has its ends in the PCB, which
is in kernel memory, and its elements in the free blocks themselves, so
`links[p]` is per process and `list_ends` is shared. `HeapExec` loads a segment at the addresses where the heap begins,
whatever the process holds there: headers that the segment covers are gone, and what the
old program was given stays allocated (`lost`). Following a pointer to
memory that is not mapped sets `stop` to "fault". Two things break a heap, and a behaviour ends
with the step that does them: a program loaded over free blocks or over the header of their arena
("overlaid"), and a child that frees a small block of its parent ("mixed"). Section 5 says what
comes of them; up to that step the heap is proved sound (section 6).

**Keyboard.** `wire` holds the bytes that the controller has not delivered, so
keys go down and up while earlier codes are still on their way. `down` and
`meant` are the reference: what each character is meant to be was decided when
its key was pressed. `crossed` names what one flag for two keys cannot follow.
The handler is a function of the status and the byte (`Decoded`, `Prints`), which is what
its proof reasons about.

**Shell.** The buffer is edited as the code does it and `typed` as a user sees
it; words and path components are compared with a definition by maximal runs.

## 3. Runs

Tasks, keys and locks are model values. "Noticed" names the definition marked
*Wrong on purpose* that makes the property fail in that run; those definitions
are not part of any specification.

| Run | Instance | Properties (noticed) |
|---|---|---|
| `lock_safety` | idle, main, a second kernel thread, init; one lock, nested to 2; slices of 0 and 1 | `TypeOK`, `NoPanic` (`TakeWhenWoken`), `IInv` (`KeepRepeat`), `MutualExclusion`, `ImplementsLockSpec` (`SemaTakeNothing`), `ListsExact` (`SemaUpKeepWaiter`), `HolderKnown` (`KeepHolder`), `NoLostWakeup` (`SemaUpSchedSilent`), `NoOvertaking` (`DispatchLast`), `DispatchWhenQuiet` (`TimerTickOnly`) |
| `keyboard_safety` | two readers, two characters, 4 cells | `TypeOK` (`NextPosUnwrapped`), `SleeperRecorded` (`KeyPressRemembers`), `LockPassedOn` (`WakeSelfish`), `ImplementsKeyQueue` (`IoqFullUnwrapped`), `ReadReturns` (`KeyPressSilent`) |
| `disk` | idle, main, a process; requests of up to 2 commands of 1 or 2 sectors; a drive that may be busy when polled | `TypeOK` (`PollOn`), `PostedForCommand` (`DiskInterruptTrusting`), `DataMoved` (`PollBusyOnly`), `AnswerAwaited`, `AnswerArrives` (`CmdOutLateFlag`) |
| `process_safety` | init and 3 PCBs, 3 forks, 7 pids, 65 pages | `TypeOK`, `NoPageTwice` (`FreedWithPcb`), `NoPanic` (`AdoptedNobody`), `FamilyTree` (`AdoptedFirst`), `WaitsForTheLiving`, `CallsReturn` (`HangUpSilent`) |
| `files` | two processes, two files of which main has one open, 3 slots, 2 descriptors each, 3 inodes in memory, counts to 2 | `TypeOK` (`FreeSlotsOneMore`), `NoDanglingInode` (`InodeCloseAlways`), `DiesOnlyByShare` (`CloseKeepingFd`), `ChangesOnlyByRace` (`FreeSlotsUnwritten`) |
| `image` | three names, 4 inodes, 3 blocks, 2 blocks in a directory, 3 entries in a block, one power cut | `TypeOK` (`PowerCutBuffered`), `CrashSafe` (`RemoveEntryLast`), `EmptyIsOneBlock` (`NeverRecycles`), `NothingLost` (`ReleaseUnsynced`) |
| `sequential` | blocks of 2 bytes, 2 direct and 2 indirect of up to 6; heaps of 2 processes, 3 pages and 4 frames, two sizes of blocks, two programs; 3 keys down at once, 2 bytes on the wire; lines of 7 characters, 2 arguments | `TypesOK` (`LseekAnywhere`), `BlocksReady` (`BlocksTight`), `ImplementsByteFile` (`FilledFresh`), `HeapSound` (`ScanShort`), `KeysAsHeld` (`BreakLeft`), `CommandAsTyped` (`ScannedTight`) |
| `two_readers`, `nap`, `init_collects`, `single_writer`, `heap_fork` | | one property each that the code violates, see section 5 |

What the properties of the disk, the file system and the sequential parts say.
`PostedForCommand`: the handler posts `disk_done` only for a task that has the channel and has set
`expecting_intr`, and never while the drive looks for the first sector of its command; that the
interrupt is the one for that command is more, and false (section 5). `DataMoved`: even so no
data goes to or comes from a drive that has not asked for it or offered it, and all of it has been
moved before the next command and before `ide_read` or `ide_write` returns.
`NoDanglingInode`: in spite of all the races above, the open count of an inode
covers every pointer to it, so none is freed in use. `DiesOnlyByShare` and
`ChangesOnlyByRace`: the only ways in which a descriptor loses or changes its
file by another's doing are a shared slot and an open that had chosen the same
slot before it waited. `CrashSafe`: outside the three windows, what a cut leaves
can be used, at worst with lost space: each directory reads as the set of its
entries, and the path that `sys_getcwd` gives for it leads back to it. `EmptyIsOneBlock` is what `dir_remove`
asserts. `NothingLost`: without a cut the bitmaps mark exactly what is reachable.
`ImplementsByteFile` and `BlocksReady`: appends, reads and seeks never touch a
block that is not the file's, and the last block is there when the next append
fills it. `HeapSound`: blocks in use do not overlap
each other or the program, and each free list is exactly
the free blocks of its size, until a step makes the heap "overlaid" or "mixed". `KeysAsHeld`, `CommandAsTyped`: what arrives is
what was typed, and the only line that stops the shell is one of blanks, for
which `argv[0]` is NULL (`shell/shell.c:136`). It says this of lines of every length: those that are too
long for the buffer or for `argv` go behind it by one character and by up to two words, and by no more.

Why these bounds are enough to be interesting. Four tasks allow two waiters
behind a holder, one of which is woken while another takes the lock first, with
idle and the timer in between; a second lock would be independent, since nobody
holds two. A ring of four cells holds three characters and wraps; a ring of
three is full with two. One process and one kernel thread give both interrupt
modes and both orders of the two on the channel; two commands let a request of
one meet what is left of the other and of its own first command. Three PCBs
besides init allow a grandparent, parent and child and their adoption in every
order; `MaxPid` 7 makes a pid be handed out again, 65 pages (84 in `init_collects`)
are not enough for all of them at once, so that a fork fails half way
(`ForkFails`). Pools with nothing
left at all stop the kernel by an `ASSERT` in `bitmap_scan` (`ForkPanics`); the
instances stay away from it. Two processes and two files give every race of
`FileTable`, which are all between two calls; with three inodes in memory one
file is there twice beside the file of main, and two slots beside that of main
are both contended and exhausted. In `image` a directory fills its first block,
gets its second and gives it back; blocks and inodes run out (`Halt`); three names in two
levels put directories into directories. A file of 4 blocks has both kinds, and
its maximal size is reached; 6 blocks are enough for the data and an index, and
runs start with fewer. Three pages for the heap make a large block fit only between
arenas, and four frames for two processes run out. Of the two programs one fills the first page
of the heap and one lies across its end and the next page, behind the header of the first; both meet
blocks that are held, lost or free. Lines of 7 characters hold three words, one more
than `argv` has room for. Four inodes stay below the 256 that `inode_sync` can number, so `image` shows nothing of
`Truncated`; the theorems do. Three keys down are two of a
kind and a letter.

`MaxRepeat`, `MaxForks`, `MaxPid`, `KernelPages`, `MaxCommands`, `TimeLimit`,
`ReadSectors`, `WriteSectors`,
`BufSize`, `MAX_FILE_OPEN`, `MAX_FILES_OPEN_PER_PROC`, `MaxInodes`, `MaxCount`,
`NumInodes`, `NumBlocks`, `InodeNoSize`, `Direct`, `PerBlock`, `MaxCuts`, `BLOCK_SIZE`,
`Blocks140`, `MaxCall`, `Wrap`, `NumPages`, `Frames`, `PG_SIZE`, `ArenaSize`,
`BlockSizes`, `RequestSizes`, `Segments`, `Fingers`, `MaxWire`, `MAX_PATH_LEN` and
`MAX_ARG_NR` are all the bounds there are; those that name a size of the code
are that size made small. `image` uses the symmetry of the names, and nowhere
else is symmetry used.

Deadlock is checked except where the kernel may stop (`busy_wait` panics in
`disk` and `nap`, a page fault in `files`, `single_writer` and `heap_fork`, an
`ASSERT` in `sequential`) and in `image`, whose disk may be left damaged.

## 4. Fairness

- Code on the processor is executed. `Sync` and the others ask weak fairness of
  a step that can only be interrupted by a switch to another task; `Ide` asks
  strong fairness, because a kernel thread there is preempted again and again
  and a time slice is longer than a statement.
- The timer interrupts periodically and the 8259A keeps a request until
  interrupts are on: strong fairness of the timer and of the disk interrupt.
- The drive answers every command: weak fairness.
- System calls return, critical sections are left, nested ones too: strong
  fairness of `ReturnToUser`, `StartRelease`, `ReleaseNested`, `MainUnlock`. `main` does
  end (`MainExit`) and init does call wait again, as its loop says.
- Nobody has to type, to read, to ask for a lock, to fork or to exit.

What liveness does *not* hold. A wakeup puts a task in front of the ready list,
so tasks that keep waking each other starve those behind them: hence the premise
of `DispatchWhenQuiet`. A released semaphore is not handed over, so a waiter for
a lock may find it taken again, for ever: hence no property says that who waits
for a lock gets it. `AnswerArrives` is about the sleeper on `disk_done`, who has
no rival.

## 5. What the code does not keep

- `two_readers` (`device/ioqueue.c:53`): the reader that waited for the lock goes
  to sleep beside a character that has arrived.
- `nap` (`device/ide.c:143`): a system call that sleeps in `busy_wait` with nobody
  else ready yields to itself for ever with interrupts off. A drive that is never
  busy when it is polled, such as an emulated one, hides it.
- `init_collects` (`userprog/wait_exit.c:94`): init is not woken for a zombie it adopts.
- `single_writer` (`fs/file.c:218`): any close of a file allows a second writer.
- `heap_fork` (`userprog/fork.c:23`): a block that a child frees ends up in a free
  list of its parent, which still uses it.

What the models contain as the code has it, without a run that refutes anything:

- an exit gives 22 of the 23 pages of the address bitmap back
  (`userprog/wait_exit.c:53`, `FreedByExit`); `fork` keeps the pid and pages it
  took when it fails later (`ForkFails`);
- a write of several sectors is over, for the driver, at the interrupt for the first
  (`device/ide.c:229`), with the drive still storing; the interrupt for the next sector may come after
  the following request has set `expecting_intr`, and is taken for its answer, which the comment
  at `:335` says need not worry anyone. `inode_sync` writes two sectors for an inode that straddles them
  (`fs/inode.c:68`), `partition_format` many (`fs/fs.c:144`). `PostedForCommand`, `DataMoved` and
  `AnswerAwaited` say what holds in spite of it;
- exec by a process that has blocks in its heap leaves the free lists leading into the program
  that is loaded there (`userprog/exec.c:81`), so that `ListsAvailable` fails as it does in
  `heap_fork`. To open a file in a subdirectory is enough, since `sys_open` leaves the `struct dir`
  in the heap (`fs/fs.c:355`). The step is in the model, with which `HeapSound` ends ("overlaid");
- `inode_sync` keeps the number of an inode in a `uint8_t` (`fs/inode.c:44`), though a partition
  has 4096 inodes (`fs/fs.h:5`): inode 256 is written over the root directory (`Truncated`);
- with its buffer full `readline` stores one more character behind it (`shell/shell.c:30`, `Overrun`),
  and `cmd_parse` up to two words behind `argv` before it compares their count, with `>`
  (`shell/shell.c:108`, `Scanned`): the lengths that `CommandAsTyped` names;
- a descriptor loses its file when a process that shares the slot through fork
  closes it (`fs/file.c:220`); two opens may be given one slot (`fs/file.c:192`)
  and a refused open keeps its slot (`:207`): the exceptions that
  `DiesOnlyByShare` and `ChangesOnlyByRace` name;
- power cuts in `MidFormat`, `MidCreate` and `MidRecycle` damage the image
  (`fs/fs.c:119`, `fs/file.c:148`, `fs/dir.c:278`);
- what the callers of `inode_bitmap_alloc` and `block_bitmap_alloc` do when they return
  -1 is never reached: `bitmap_scan` asserts that there is a free bit first, and the
  kernel stops on a full disk (`lib/kernel/bitmap.c:29`, `Halt` and `Asserts`); a
  `sys_mkdir` that gets its first block and not its second leaves the first marked
  (`fs/dir.c:146`, `halted`);
- `sys_rmdir` of a path ending in `.` releases the directory and keeps its entry
  (`fs/fs.c:684`, `fs/dir.c:384`, `RmdirSelf`);
- a file of the maximal size, and a read of its last block, stop the kernel
  (`fs/file.c:274`, `:443`);
- the limit of `busy_wait` counts down ten times too slowly (`Decrement`);
- two shift or ctrl keys share a flag, and holding caps lock toggles it
  (`device/keyboard.c:144`, `:223`, `crossed`).

Outside the models: the timer is programmed with the low byte of its divisor only
(`device/timer.c:32`); directories of more
than 12 blocks get entries at index 12 only, and deleting from one loops for
ever (`fs/dir.c:160`, `:288`); `partition_format` marks one block past the end of
the partition as free (`fs/fs.c:141`); `path_depth_cnt` reads a name that
`path_parse` has not written for "/" (`fs/fs.c:221`); the search for a path stops at
a regular file, and `sys_unlink` does not compare depths, so a path that goes on
behind the name of a file removes that file (`fs/fs.c:278`); a working directory may
be removed, and `sys_getcwd` then fails an `ASSERT` (`fs/fs.c:712`); `mfree_page` in an exit clears bits of the pool outside
its lock while main may be allocating (`kernel/memory.c:442`); `thread_exit` reads a PCB
that it has just given back (`thread/thread.c:332`).

## 6. Proofs

TLC checks a small instance; what follows holds for all values of the constants
that satisfy the assumptions of the modules. None of the safety properties is
inductive: each component has an inductive invariant `IInv`, stated at the end of
its module, which TLC checked before it was proved (`lock_safety` still does). Those of
the heap (`HeapIInv`) and of the disk (`DInv`) are in the proof modules, for they need
the vocabulary of the proof.
A proof module has a lemma for every action (`Step...`), the theorem `StepIInv`
that puts them together, and then the properties.

**The scheduler.** `Scheduler_proofs` proves, for any tasks, priorities and
scheduler states, that `Schedule`, `Block`, `Yield`, `TimerTick`, `Unblock` and
`Asserting` stay in `SchedulerState` and keep `WellFormed` (one task RUNNING, the
ready list exactly the READY tasks, idle available), with what each does to
`status`, and the same for the parts of `sema_down` and `sema_up`. It begins with
the lists: what appending to, pushing on, popping and removing from a list
leave on it, and that a set of natural numbers has a least one. The
proofs of the components rest on it; `FileTable_proofs`, `DiskImage_proofs` and
`Sequential_proofs`, which are about code that no task switch interrupts, do not,
and have their own copy of the facts about lists that they need.

| Module | Theorem | Property of the runs |
|---|---|---|
| `Sync_proofs` | `Invariant` | `IInv` |
| | `TypeCorrect` | `TypeOK` |
| | `NeverPanics` | `NoPanic` |
| | `Exclusion` | `MutualExclusion` |
| | `Lists` | `ListsExact` |
| | `Holders` | `HolderKnown` |
| | `NoWakeupLost` | `NoLostWakeup` |
| | `Refines` | `ImplementsLockSpec` |
| | `Order` | `NoOvertaking` |
| `IoQueue_proofs` | `TypeCorrect` | `TypeOK` |
| | `Recorded` | `SleeperRecorded` |
| | `PassedOn` | `LockPassedOn` |
| | `Refines` | `ImplementsKeyQueue` |
| `Device_proofs` | `TypeCorrect` | `TypeOK` |
| | `Moved` | `DataMoved` |
| | `Awaited` | `AnswerAwaited` |
| | `Posted` | `PostedForCommand` |
| | `KeyboardCorrect` | `KeysAsHeld` |
| `ProcLife_proofs` | `TypeCorrect` | `TypeOK` |
| | `Family` | `FamilyTree` |
| | `Living` | `WaitsForTheLiving` |
| | `Pages` | `NoPageTwice` |
| | `OnlyForkPanics`, `PanicFree` | `NoPanic` |
| `FileTable_proofs` | `TypeCorrect` | `TypeOK` |
| | `NothingDangles` | `NoDanglingInode` |
| | `ShareTheorem` | `DiesOnlyByShare` |
| | `RaceTheorem` | `ChangesOnlyByRace` |
| `DiskImage_proofs` | `DiskTypeCorrect` | `TypeOK` |
| | `CrashSafeCorrect` | `CrashSafe` |
| | `EmptyCorrect` | `EmptyIsOneBlock` |
| | `NothingLostCorrect` | `NothingLost` |
| `Sequential_proofs` | `Ready` | `BlocksReady` |
| | `Refines` | `ImplementsByteFile` |
| | `HeapTypeCorrect` | part of `TypesOK` |
| | `HeapCorrect` | `HeapSound` |
| | `TypesCorrect` | `TypesOK` |

**Locks.** For any set of tasks, of locks and of kernel threads, any priorities
and any bound on nesting. `MutualExclusion` needs to know that the
semaphore is 0 exactly while some task is between its `sema_down` and its
`sema_up` (`OwnerInv`); `NoPanic` needs that holder and count lag behind by
exactly the statements that `pc` says (`HolderInv`), that the sleepers in a
waiters list are blocked and nowhere else (`WaitersInv`), and that the scheduler
state is well formed; all of it needs to know that a task is blocked only where
`pc` says so (`TaskInv`). Actions that leave the locks alone share
`LockFrame` and `WaitersFrame`, those between two statements share `MoveInside`.
`NoLostWakeup` is not implied by `IInv`: `StepNoLostWakeup` proves it inductive
relative to it. `Refines` maps each step to a step of
`LockSpec` or a stutter: a task gets in where it takes the semaphore, nests or
leaves a level where the count changes, and is out where it raises the semaphore.
`NoOvertaking` is proved by what each operation of the scheduler does to the
positions on the ready list.

**The keyboard ring.** For any number of readers, any size of the buffer and any
characters. `IInv` says that the lock's semaphore is 0 exactly while a reader is in
`ioq_wait` (`LockInv`), that its queue is the readers that sleep for it
(`WaitersInv`), and that `ioq->consumer` is the one who sleeps for a key
(`ConsumerInv`). For the refinement, the contents of the ring between `tail` and
`head`, modulo the size, are a sequence to which `KeyPress` appends and from
which `GetChar` takes the first, across every wrap.

**The disk channel.** For any tasks, any number of commands and any numbers of sectors that a
command reads or writes. The driver does not know which sector an interrupt is for, so the
invariant cannot say that it is the answer to the last command (it need not be, section 5). What holds is weaker and enough: from the setting of `expecting_intr` to the end of
`sema_down` the flag is set exactly while `disk_done` has not been posted (`Armed`), and as long as
it is set an interrupt is pending or the drive is at work (`Due`), be it on this command or on an
earlier one. `DriveInv` adds to this how far the drive may be at each place: idle or still
storing while no command is under way (`Past`), at work or past it while the answer is awaited
(`Awaiting`), ready when data is moved (`Polling`), for `busy_wait` has asked it. `ChannelInv` says that all
this is one task's at a time. No theorem has a hypothesis.

**The keyboard.** For any number of keys that are down at once and of bytes that are on their way. What
`KeysAsHeld` says when the wire is empty is not inductive, for a byte may wait while keys go
down and up. `KeyboardInv` looks ahead: there is a status that agrees with the
keys (`Agrees`), to which the bytes on the wire lead from the present one, one after the other,
and their characters are those that the user meant, in order (`Follows`). The way
there is a sequence of statuses, so no recursion is needed: a byte sent makes it longer at its
end (`PushQuiet`, `PushCharacter`), an interrupt takes off its first (`Pop`). `MakeStatus` and
`BreakStatus` say what the bytes of a key do to a status, `FlagFollows`
that one flag follows two keys except while it is crossed, and `CharacterMeant` that a status that
agrees gives the character that is meant. TLC checked the invariant with a fold
over the wire in place of `Follows`.

**Processes.** For any number of PCBs, pids, forks and pages. `PcInv` ties `status` to
the place in the code, `PoolInv` says that main is the only one to have the lock
of the kernel pool while it is not on the processor and that its queue is those who wait in
`sys_fork` and `sys_exit`, `ListInv` that `thread_all_list` is the PCBs in use. The
family needs both halves at once: a parent that lives is found because pids are
distinct, and an exit gives the children to init, who has no parent and never
exits. `NoPageTwice` counts the PCBs of a finite list by their cardinalities.
Statements about all positions of a list are proved by the least position that
would break them, since the induction theorems of the library cannot be used.

`NoPanic` has no unconditional theorem, because the code does not keep it: a
pool with no page or no pid left makes `bitmap_scan` fail its `ASSERT`
(`ForkPanics`). `OnlyForkPanics` proves that no other step ever stops the kernel,
and `PanicFree` that `NoPanic` holds in every behaviour without such a step; the
instance of `process_safety` has pools in which it cannot occur.

**Open files.** For any processes and files, any number of slots, descriptors and
inodes. `NoDanglingInode` alone is not inductive: `Referenced` adds that an unlink
finds on `open_inodes` the inode it is deleting, `Private` that an inode that
`inode_open` is reading from the disk is in memory that nothing points to and no
other open reads into, so that putting it on the list keeps the list free of repetitions;
`Counted` covers the slots and the unlinks of an inode. They are stated of a
memory `m` and not of `mem`, because fork and exit go over the descriptors one by
one and each step must leave what the next one relies on, also once the kernel
has stopped at a NULL slot: `EachCloses` and `EachCounts` prove that the recursive
function in `Each` exists and what its steps are, `EachCloseSound` and
`EachCountSound` carry `Sound` from the first descriptor to the last. The
two action properties follow from `StepOutcome`: a step leaves a slot that is in use
alone, gives it back with a descriptor of it, or is an open that had chosen
it. That fork overwrites no descriptor needs one more invariant, `NothingHeld`: a
process that does not exist has none.

**The file system on the disk.** For any number of inodes, of blocks, of direct blocks, of entries in a block
and of power cuts, and any names. An image (`Img`) is what a disk holds of a file
system: inodes `V` and directories `D` such that every inode but the root has
exactly one entry (`Entered`, `OneEntry`), every block one owner (`OwnBlocks`),
every directory its dots, the second of which names the directory that has its
entry (`Dotted`, `Parents`), names that differ (`UniqueNames`), a size that covers its entries
(`Sized`), no block without one but the first (`Needed`), and every directory
somewhere below the root (`Tree`). It says nothing of the bitmaps but that they mark what is
there: after a power cut they may mark more. `Exact` says that they do not.

How images change is proved once for all operations: `AlikeImage` when nothing
that is looked at changes, `GainedImage` when one entry and its inode come,
`LostImage` when they go. `sync_dir_entry` in an old block or a new one
(`EnterInPlace`, `EnterInNewBlock`) is a gain, `delete_dir_entry` that clears its entry or gives the
block back (`CutDeletes`, `RecycleDeletes`) a loss, and the writes of `inode_release` are harmless to
an image that does not have the inode (`ReleaseReady`).

The invariant `DInv` is about what is still to be written. `Ready` says that the
writes lead from the disk, one after the other, through images or one of the
three windows to an image with the bitmaps of the memory, or to an image on which the
kernel stops. It is stated as the existence of a set of states that contains
with each state what the next write makes of it (`Course`): so a `WriteSector`
keeps it by definition (`ReadyGoes`), a `PowerCut` outside the windows leaves an
image, and a lemma per operation (`CreateBegins`, `MkdirBegins`, `UnlinkBegins`,
`RmdirBegins`, `WriteBegins`, `FormatReady`) has to show only that the writes are `Ready` when it
begins. Every inode of an image is one that `inode_sync` can number (`Synced`). The
number of inodes is not bounded by that: an operation that creates one beyond it sets
`damaged`, which `Begins` allows for, and from then on only the types are claimed.

That an image is `Sound` takes three more arguments, each about paths or
positions of any number (`ImageSound`). `Dirs`, the least set of directories that is closed under
subdirectories, is `D` (`Reach`, from `Tree`). The position at which `dir_read`
returns an entry is the number of entries ahead of it, and these ranks run through all positions
(`RankOnto`), so that `sys_readdir` lists everything exactly once (`ListsAll`). And the recursive
path of `sys_getcwd` exists because every directory has one way down to it
from the root, two of which would be equal from their ends (`OneChain`), and
`search_file` goes down that way (`PathsLeadHome`). `Needed` and `Sized` give `EmptyIsOneBlock`.

`NothingLost` is `Exact` with the bitmaps of the memory, and holds from the end of one operation to the
beginning of the next as long as there was no cut; `halted` is the one exception the code makes.

**The blocks of a file.** For blocks of any size, any numbers of direct and indirect ones, any disk and
calls of any length. `IInv` says which blocks the file has at its size: the one
its next byte goes to included, a table exactly if one of them is indirect, and no
other (`Placed`). This is what the `ASSERT`s of `file_write` are about, so `Blame`
proves that a write stops the kernel only when blocks run out or at the largest size.
`NthLemma` and `NthOnce` say that successive calls of `bitmap_scan` give different
free blocks; from that `GrowLemma` and `NewBlocks` derive, over the three situations of
`file_write` at once, that no two bytes of the file share a place. `BytesLemma` then follows
each byte through the division into block and offset, and `Appended` is the step of
`ByteFile`. `Position` covers the one position outside the file, the -1 that
a write of nothing to an empty file leaves.

**The heap.** For any number of pages, frames and processes, any block sizes that fit a
page, any requests and any program. `HeapCorrect` is the whole of `HeapSound`: what a
process holds and runs is apart, the free lists are exact, and no pointer is followed to
memory that is not there. Its invariant `HeapIInv` is in the proof module: a slot without a
process is empty (`Gone`), and a living process is `Sound` and `Occupied` (`Fine`).
`Sound` is stated of the pages, the headers, the memory, the holdings, the program and the
inherited pages of a process, and not of the variables, so that each part of an operation
is a lemma of its own: an arena is made (`ArenaMade`), a block given (`GivesBlock`), pages
got (`GetsPages`) and dropped (`DropsPages`), a block returned (`ReturnsBlock`), an arena that
is all free given up (`DropsArena`), a child's copy made (`Copied`). The lemmas on the actions
only say which of these an operation consists of, and that the other processes, which share the
memory of the list ends, keep theirs (`Kept`).

A list is a sequence of addresses with a head before and a tail behind it, linked both
ways (`Chain`); `ListOf` says of which set. `ListAppend` and `ListUnlink` are about the
five or so pointers that `list_append` and `list_remove` write, `AppendedAllSteps` and
`UnlinkedAllSteps` about the loops over the blocks of a page, and `WalkMeets` shows that going from
the head on finds exactly the set. There is no induction theorem to use; that a loop keeps a
property is proved from the least step at which it would be lost.

Four things in the invariant are not in `HeapSound` and are needed for it. A header of whole
pages counts pages that the process has and that have no header (`Alone`), or `mfree_page`
would take pages from others. An arena is on a list of its own process unless it is
inherited (`OfClass`). No arena is all free (`Occupied`): each has a block that is held, or that a
program before this one has left (`lost`). And the program lies clear of all headers and of every
block that can still be given, freed or followed (`Unmixed`): a segment that covers a header
takes the whole arena out of the heap, one that covers a free block is the step "overlaid", and
what it covers besides, blocks of earlier programs and free blocks of pages that are inherited, is
never touched again. An arena that reaches into the pages of the program keeps a block of an
earlier one (`OnLost`), so it is never given up and takes no page of the program with it.

The theorems have no hypothesis. `HeapSafe` says that `HeapIInv` holds or that the heap is
overlaid or mixed, where a behaviour ends; `heap_fork` shows that what
`HeapSound` leaves open there is indeed lost. `HeapTypeCorrect` holds there, too.

**Assumptions.** Those that the modules name (`SchedulerAssumption`,
`SyncAssumption`, `IoQueueAssumption`, `IdeAssumption`, `ProcLifeAssumption`,
`FileTableAssumption`, `DiskImageAssumption`, `FileBlocksAssumption`,
`HeapAssumption`, `KeyboardAssumption`, `NullAssumption`) and TLC evaluates: idle, main and init are different tasks, sets of tasks are finite
where they are counted, sizes are natural numbers and not 0 where the code divides by
them or takes the last, a block fits a page behind the header of an arena, programs lie on
pages that processes have, a block of a directory has room for its two dots, and neither of these is a
name a caller may create.

**Model-checked only.** Liveness (`DispatchWhenQuiet`, `ReadReturns`,
`AnswerArrives`, `CallsReturn`): TLAPS does not do `ENABLED`, hence no fairness.
Of the invariants only `CommandAsTyped` of the shell, whose scanners sort
and fold the line that was typed: an induction over that data would be needed.

## 7. What is not modelled, and the plan

What could still be added, in the order of its worth:

1. `Pages`: `malloc_page`, `mfree_page` and `get_a_page` on pools, address bitmaps
   and page tables, with an exit between two instructions of `bitmap_set` in main.
2. `file_create` by processes, which needs their page tables (see `FileTable` in
   section 2), and directories that are open while they are removed.

Not planned: the boot sector and loader, the set-up of the 8259A, the PIT, the
GDT, IDT and TSS, ELF loading, `printf`, `printk` and the string functions,
console output, the user programs, the partition scan at boot. They are machine
set-up or pure data without interaction. The directories of the earlier stages
hold what this one has grown out of, and some of them carry the source of the
bochs emulator, which is third-party.
