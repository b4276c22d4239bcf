------------------------------- MODULE ProcLife -------------------------------
(***************************************************************************)
(* The life of processes: sys_fork (userprog/fork.c), sys_wait and         *)
(* sys_exit (userprog/wait_exit.c), thread_exit and the pid pool           *)
(* (thread/thread.c), over the scheduler, with the kernel pages they take  *)
(* and give back (memory.c, counted).                                      *)
(*                                                                         *)
(* Init never exits: it forks the shell and then waits forever (init in    *)
(* kernel/main.c). Every other process may fork, wait and exit as it       *)
(* likes. Main is the kernel thread that boots the system: it runs with    *)
(* interrupts on, so it may lose the processor while it holds the lock of  *)
(* the kernel pool, which is the only thing a system call of this module   *)
(* can have to wait for besides its children. pc[t] is                     *)
(*                                                                         *)
(*   none      the PCB of t is not in use                                  *)
(*   user      in user mode (interrupts on); for Main, outside the lock    *)
(*   locked    Main, holding kernel_pool.lock (interrupts on)              *)
(*   fork      in sys_fork, queued for kernel_pool.lock                    *)
(*   exit      in sys_exit, children given away, queued for the same lock  *)
(*   wait      in sys_wait, blocked or just woken                          *)
(*   zombie    in sys_exit, after its last thread_block                    *)
(*   loop      idle, before thread_block                                   *)
(*   halt      idle, in hlt (interrupts on)                                *)
(*                                                                         *)
(* Left out: the pages of user programs and their page tables, what a      *)
(* process has open, and the exit status.                                  *)
(***************************************************************************)
EXTENDS Semaphore, FiniteSets

CONSTANTS
  Main, Init,   \* the other two tasks of thread_init
  MaxPid,       \* pids in the pool
  KernelPages,  \* pages left in the kernel pool when scheduling starts
  MaxForks      \* bound on the calls of sys_fork

Processes == Tasks \ {Idle, Main}

NoPid == 0      \* -1 in the code

\* The kernel pages of a process: its PCB, its page directory and the bitmap
\* of its virtual addresses.
BitmapBytes == 94199    \* (0xc0000000 - USER_VADDR_START) / PG_SIZE / 8
PgSize      == 4096
BitmapPages == (BitmapBytes + PgSize - 1) \div PgSize
ProcPages   == 2 + BitmapPages

ASSUME ProcLifeAssumption ==
  /\ {Main, Init} \subseteq Tasks
  /\ Main # Init /\ Main # Idle /\ Init # Idle
  /\ MaxPid \in Nat /\ MaxPid >= 3
  /\ KernelPages \in Nat
  /\ MaxForks \in Nat

VARIABLES
  sched,
  pool,     \* kernel_pool.lock.semaphore
  pc,
  all,      \* thread_all_list
  pid,      \* task_struct.pid
  parent,   \* task_struct.parent_pid
  pids,     \* pids allocated in pid_pool
  pages,    \* free pages of the kernel pool
  forks     \* calls of sys_fork so far

vars == <<sched, pool, pc, all, pid, parent, pids, pages, forks>>

TypeOK ==
  /\ sched  \in SchedulerState
  /\ pool   \in SemaphoreState
  /\ pc     \in [Tasks -> {"none", "user", "locked", "fork", "exit", "wait",
                           "zombie", "loop", "halt"}]
  /\ all    \in Seq(Tasks)
  /\ pid    \in [Tasks -> 0..MaxPid]
  /\ parent \in [Tasks -> 0..MaxPid]
  /\ pids   \in SUBSET (1..MaxPid)
  /\ pages  \in 0..KernelPages
  /\ forks  \in 0..MaxForks

\* thread_init: init gets pid 1, main 2, idle 3.
InitialPid == [t \in Tasks |-> CASE t = Init -> 1 [] t = Main -> 2
                                 [] t = Idle -> 3 [] OTHER -> NoPid]

InitState ==
  /\ sched = [cur    |-> Main,
              status |-> [t \in Tasks |-> CASE t = Main           -> "RUNNING"
                                            [] t \in {Init, Idle} -> "READY"
                                            [] OTHER              -> "DIED"],
              ready  |-> <<Init, Idle>>,
              ticks  |-> Priority,
              ok     |-> TRUE]
  /\ pool   = SemaInit(1)
  /\ pc     = [t \in Tasks |-> CASE t = Idle           -> "loop"
                                 [] t \in {Main, Init} -> "user"
                                 [] OTHER              -> "none"]
  /\ all    = <<Init, Main, Idle>>
  /\ pid    = InitialPid
  /\ parent = [t \in Tasks |-> NoPid]
  /\ pids   = {1, 2, 3}
  /\ pages  = KernelPages
  /\ forks  = 0

At(t, loc) == sched.ok /\ sched.cur = t /\ pc[t] = loc
Goto(t, loc) == pc' = [pc EXCEPT ![t] = loc]

Listed(t) == Contains(all, t)
Children(p) == {t \in Tasks : Listed(t) /\ parent[t] = pid[p]}
Hanging(p)  == {t \in Children(p) : sched.status[t] = "HANGING"}
Without(t)  == RemoveAt(all, CHOOSE i \in DOMAIN all : all[i] = t)

\* list_traversal stops at the first of S in thread_all_list.
FirstListed(S) == CHOOSE t \in S :
  \E i \in DOMAIN all : all[i] = t /\ \A j \in 1..i-1 : all[j] \notin S

-----------------------------------------------------------------------------
\* A lock_acquire and lock_release of kernel_pool.lock that does not have to
\* wait, on x = [sched, pool]: it may wake a waiter that has not run yet.
Now == [sched |-> sched, pool |-> pool]
PassLock(x) ==
  LET s == SemaTakeSched(x.sched, x.pool)
      l == SemaTake(x.pool)
  IN [sched |-> SemaUpSched(s, l), pool |-> SemaUp(l)]

-----------------------------------------------------------------------------
\* sys_fork.

\* A call made now is counted, one that is resumed has been.
CountFork(p) ==
  /\ pc[p] = "user" => forks < MaxForks
  /\ forks' = IF pc[p] = "user" THEN forks + 1 ELSE forks

\* get_kernel_pages(1) for the PCB finds the lock taken ...
ForkWait(p) ==
  /\ At(p, "user") \/ At(p, "fork")
  /\ CountFork(p)
  /\ pool.value = 0
  /\ sched' = SemaWaitSched(sched, pool)
  /\ pool' = SemaWait(pool, p)
  /\ Goto(p, "fork")
  /\ UNCHANGED <<all, pid, parent, pids, pages>>

\* ... or it does not, and the rest of sys_fork runs without interruption.
ForkProceeds(p) ==
  /\ At(p, "user") \/ At(p, "fork")
  /\ CountFork(p)
  /\ pool.value # 0

\* allocate_pid takes the first free one.
FreePid == CHOOSE n \in 1..MaxPid \ pids : \A m \in 1..MaxPid \ pids : n <= m

\* Four calls of get_kernel_pages: PCB, buf_page, bitmap, page directory;
\* buf_page is given back.
Fork(p, c) ==
  /\ ForkProceeds(p)
  /\ pc[c] = "none"
  /\ pages > ProcPages
  /\ pids # 1..MaxPid
  /\ LET x == PassLock(PassLock(PassLock(PassLock(Now))))
     IN /\ sched' = Enqueue([x.sched EXCEPT !.ticks[c] = Priority[c]], c)
        /\ pool' = x.pool
  /\ pages' = pages - ProcPages
  /\ pids' = pids \cup {FreePid}
  /\ pid' = [pid EXCEPT ![c] = FreePid]
  /\ parent' = [parent EXCEPT ![c] = pid[p]]
  /\ all' = Append(all, c)
  /\ pc' = [pc EXCEPT ![p] = "user", ![c] = "user"]

\* The PCB, buf_page and the pid are there, the bitmap does not fit: -1 is
\* returned and what has been allocated stays allocated.
ForkFails(p) ==
  /\ ForkProceeds(p)
  /\ pages > 2 /\ pages - 2 < BitmapPages
  /\ pids # 1..MaxPid
  /\ LET x == PassLock(PassLock(PassLock(Now)))
     IN sched' = x.sched /\ pool' = x.pool
  /\ pages' = pages - 2
  /\ pids' = pids \cup {FreePid}
  /\ Goto(p, "user")
  /\ UNCHANGED <<all, pid, parent>>

\* bitmap_scan fails an ASSERT when no bit at all is free.
ForkPanics(p) ==
  /\ ForkProceeds(p)
  /\ pages \in {0, 1, 2, ProcPages} \/ pids = 1..MaxPid
  /\ sched' = Asserting(sched, FALSE)
  /\ UNCHANGED <<pool, pc, all, pid, parent, pids, pages>>

-----------------------------------------------------------------------------
\* sys_wait and thread_exit(child, false).

Reap(p, c) ==
  /\ sched' = [sched EXCEPT !.status[c] = "DIED"]
  /\ all' = Without(c)
  /\ pages' = pages + 2
  /\ pids' = pids \ {pid[c]}
  /\ pid' = [pid EXCEPT ![c] = NoPid]
  /\ parent' = [parent EXCEPT ![c] = NoPid]
  /\ pc' = [pc EXCEPT ![p] = "user", ![c] = "none"]
  /\ UNCHANGED <<pool, forks>>

\* One iteration of the loop of sys_wait.
Wait(p) ==
  /\ At(p, "user") \/ At(p, "wait")
  /\ \/ /\ Hanging(p) # {}
        /\ Reap(p, FirstListed(Hanging(p)))
     \/ /\ Children(p) = {}
        /\ Goto(p, "user")
        /\ UNCHANGED <<sched, pool, all, pid, parent, pids, pages, forks>>
     \/ /\ Hanging(p) = {}
        /\ Children(p) # {}
        /\ sched' = Block(sched, "WAITING")
        /\ Goto(p, "wait")
        /\ UNCHANGED <<pool, all, pid, parent, pids, pages, forks>>

-----------------------------------------------------------------------------
\* sys_exit.

\* Wrong on purpose: nobody is adopted.
AdoptedNobody(p) == parent

\* Wrong on purpose: list_traversal stops at the first child.
AdoptedFirst(p) == IF Children(p) = {} THEN parent
                   ELSE [parent EXCEPT ![FirstListed(Children(p))] = pid[Init]]

\* The children go to init.
Adopted(p) == [t \in Tasks |-> IF t \in Children(p) THEN pid[Init] ELSE parent[t]]

\* Wrong on purpose: exit also gives back what wait will give back.
FreedWithPcb == BitmapPages + 2

\* mfree_page of the bitmap, with a page count rounded down.
FreedByExit == BitmapBytes \div PgSize

\* What comes before the files are closed.
GiveAway(p) ==
  /\ parent' = Adopted(p)
  /\ pages' = pages + FreedByExit

\* release_prog_resource closes the last descriptor of some file, and sys_free
\* finds the lock of the kernel pool taken.
ExitWait(p) ==
  /\ (At(p, "user") /\ p # Init) \/ At(p, "exit")
  /\ pool.value = 0
  /\ sched' = SemaWaitSched(sched, pool)
  /\ pool' = SemaWait(pool, p)
  /\ IF pc[p] = "user" THEN GiveAway(p) ELSE UNCHANGED <<parent, pages>>
  /\ Goto(p, "exit")
  /\ UNCHANGED <<all, pid, pids, forks>>

\* Wrong on purpose: the parent is not woken.
HangUpSilent(p, x) ==
  /\ sched' = Block(x.sched, "HANGING")
  /\ pool' = x.pool
  /\ Goto(p, "zombie")
  /\ UNCHANGED <<all, pid, pids, forks>>

\* sys_exit from where it keeps the processor, having passed the lock as often
\* as x says: the parent, if it waits, is woken and the task hangs.
HangUp(p, x) ==
  LET father == {t \in Tasks : Listed(t) /\ pid[t] = parent[p]}
      woken  == {t \in father : sched.status[t] = "WAITING"}
      s      == IF woken = {} THEN x.sched
                ELSE Unblock(x.sched, CHOOSE t \in woken : TRUE)
  IN /\ sched' = Block(Asserting(s, father # {}), "HANGING")
     /\ pool' = x.pool
     /\ Goto(p, "zombie")
     /\ UNCHANGED <<all, pid, pids, forks>>

\* No file, or up to two, are closed for the last time.
Closing == {PassLock(Now), PassLock(PassLock(Now))}

Exit(p) ==
  /\ At(p, "user")
  /\ p # Init
  /\ GiveAway(p)
  /\ \E x \in {Now} \cup (IF pool.value # 0 THEN Closing ELSE {}) : HangUp(p, x)

ExitResume(p) ==
  /\ At(p, "exit")
  /\ pool.value # 0
  /\ \E x \in Closing : HangUp(p, x)
  /\ UNCHANGED <<parent, pages>>

-----------------------------------------------------------------------------
\* Main: palloc and sys_malloc for the boot program, then thread_exit.

MainLock ==
  /\ At(Main, "user")
  /\ pool.value # 0
  /\ pool' = SemaTake(pool)
  /\ sched' = SemaTakeSched(sched, pool)
  /\ Goto(Main, "locked")
  /\ UNCHANGED <<all, pid, parent, pids, pages, forks>>

MainUnlock ==
  /\ At(Main, "locked")
  /\ pool' = SemaUp(pool)
  /\ sched' = SemaUpSched(sched, pool)
  /\ Goto(Main, "user")
  /\ UNCHANGED <<all, pid, parent, pids, pages, forks>>

\* thread_exit(running_thread(), true).
MainExit ==
  /\ At(Main, "user")
  /\ sched' = Schedule([sched EXCEPT !.status[Main] = "DIED"])
  /\ all' = Without(Main)
  /\ pids' = pids \ {pid[Main]}
  /\ pid' = [pid EXCEPT ![Main] = NoPid]
  /\ Goto(Main, "none")
  /\ UNCHANGED <<pool, parent, pages, forks>>

-----------------------------------------------------------------------------
\* Idle and the timer.

IdleBlock ==
  /\ At(Idle, "loop")
  /\ sched' = Block(sched, "BLOCKED")
  /\ Goto(Idle, "halt")
  /\ UNCHANGED <<pool, all, pid, parent, pids, pages, forks>>

TimerInterrupt ==
  /\ sched.ok
  /\ pc[sched.cur] \in {"user", "locked", "halt"}
  /\ sched' = TimerTick(sched)
  /\ pc' = IF pc[sched.cur] = "halt" THEN [pc EXCEPT ![Idle] = "loop"] ELSE pc
  /\ UNCHANGED <<pool, all, pid, parent, pids, pages, forks>>

-----------------------------------------------------------------------------
\* What a process has begun and the processor finishes.
Resumed(p) ==
  \/ At(p, "fork") /\ (ForkWait(p) \/ ForkFails(p) \/ ForkPanics(p)
                       \/ \E c \in Processes : Fork(p, c))
  \/ At(p, "wait") /\ Wait(p)
  \/ At(p, "exit") /\ (ExitWait(p) \/ ExitResume(p))

\* What it is free to begin.
Called(p) ==
  \/ At(p, "user") /\ (ForkWait(p) \/ ForkFails(p) \/ ForkPanics(p)
                       \/ \E c \in Processes : Fork(p, c))
  \/ At(p, "user") /\ (Wait(p) \/ ExitWait(p) \/ Exit(p))

Next ==
  \/ \E p \in Processes : Resumed(p) \/ Called(p)
  \/ MainLock \/ MainUnlock \/ MainExit \/ IdleBlock \/ TimerInterrupt

Spec == InitState /\ [][Next]_vars

\* The processor executes kernel code, the timer ticks, main leaves its
\* critical sections and ends (it takes the lock of the pool again and again
\* before a woken waiter can, but only finitely often), and init keeps waiting.
Fairness ==
  /\ WF_vars(\E p \in Processes : sched.cur = p /\ Resumed(p))
  /\ WF_vars(IdleBlock)
  /\ SF_vars(TimerInterrupt)
  /\ SF_vars(MainUnlock)
  /\ SF_vars(MainExit)
  /\ SF_vars(At(Init, "user") /\ Wait(Init))

FairSpec == Spec /\ Fairness

-----------------------------------------------------------------------------
\* No ASSERT fails, and sys_exit never follows the NULL of pid2thread. (Pools
\* with no page or pid left at all do make the kernel panic; the instances
\* keep clear of that.)
NoPanic == sched.ok

\* The tree of processes hangs together: whoever's parent exits, in whatever
\* order and also while its exit is held up by a lock, every process but init
\* has a parent that is listed and is no zombie.
ParentLives ==
  \A t \in Processes \ {Init} :
    Listed(t) => \E p \in Processes \ {t} :
                   Listed(p) /\ pid[p] = parent[t] /\ pc[p] \notin {"exit", "zombie"}

\* A pid names one task for as long as that task is listed, although pids are
\* given back and handed out again, and init keeps pid 1.
PidsDistinct ==
  /\ pid[Init] = 1
  /\ IsInjective(all)
  /\ \A t, u \in Tasks : Listed(t) /\ Listed(u) /\ t # u => pid[t] # pid[u]
  /\ \A t \in Tasks : Listed(t) => pid[t] \in pids

\* Parents and pids stay together.
FamilyTree == ParentLives /\ PidsDistinct

\* The exit of a child is not missed: a process that sleeps in sys_wait has a
\* child that will wake it, and none that has hung up already. Init may sleep
\* on zombies that it adopted.
WaitsForTheLiving ==
  \A p \in Processes :
    sched.status[p] = "WAITING" =>
      /\ Children(p) # {}
      /\ p # Init => Hanging(p) = {}

\* The kernel pages that the processes forked so far should have: a process
\* that exits keeps its PCB and page directory until it has been waited for.
Held ==
  LET forked  == {t \in Processes \ {Init} : Listed(t)}
      exiting == {t \in forked : pc[t] \in {"exit", "zombie"}}
  IN 2 * Cardinality(exiting) + ProcPages * Cardinality(forked \ exiting)

\* Pages are never given back twice: the free pages and those that the listed
\* processes still have are no more than there were.
NoPageTwice == pages + Held <= KernelPages

\* Who calls exit does exit, although main may hold the lock it needs, and a
\* parent that waits gets its child when the child exits.
CallsReturn ==
  \A p \in Processes \ {Init} :
    /\ pc[p] = "exit" ~> pc[p] = "zombie"
    /\ pc[p] = "wait" /\ Hanging(p) # {} ~> pc[p] = "user"

\* What main.c says of init: it keeps collecting zombies.
InitCollects ==
  \A t \in Processes :
    pc[t] = "zombie" /\ parent[t] = pid[Init] ~> pc[t] = "none"

-----------------------------------------------------------------------------
\* The inductive invariant from which ProcLife_proofs derives the safety
\* properties above. It holds whatever the number of pages and pids, also when
\* an ASSERT of sys_fork has failed.

\* Where a task is says in which state the scheduler has it.
PcInv ==
  /\ pc[Idle] \in {"loop", "halt"}
  /\ pc[Main] \in {"user", "locked", "none"}
  /\ pc[Init] \in {"user", "fork", "wait"}
  /\ \A t \in Tasks \ {Idle} :
       /\ pc[t] \notin {"loop", "halt"}
       /\ t # Main => pc[t] # "locked"
       /\ sched.status[t] = "DIED"    <=> pc[t] = "none"
       /\ sched.status[t] = "HANGING" <=> pc[t] = "zombie"
       /\ sched.status[t] = "WAITING" => pc[t] = "wait"
       /\ sched.status[t] = "BLOCKED" => pc[t] \in {"fork", "exit"}

\* Main has the lock of the kernel pool or nobody does, and who sleeps in
\* sys_fork or sys_exit is in its queue.
PoolInv ==
  /\ pool.value \in {0, 1}
  /\ pool.value = 0 <=> pc[Main] = "locked"
  /\ IsInjective(pool.waiters)
  /\ \A t \in Tasks : Contains(pool.waiters, t) <=>
                        pc[t] \in {"fork", "exit"} /\ sched.status[t] = "BLOCKED"

\* The PCBs in use are those on thread_all_list; the kernel threads and init
\* have no parent.
ListInv ==
  /\ \A t \in Tasks : Listed(t) <=> pc[t] # "none"
  /\ \A t \in {Main, Init, Idle} : parent[t] = NoPid

IInv ==
  /\ TypeOK
  /\ WellFormed(sched)
  /\ PcInv /\ PoolInv /\ ListInv
  /\ FamilyTree /\ WaitsForTheLiving /\ NoPageTwice
=============================================================================
