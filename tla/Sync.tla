--------------------------------- MODULE Sync ---------------------------------
(***************************************************************************)
(* The locks of thread/sync.c, run by tasks that the scheduler of          *)
(* thread/thread.c multiplexes on one processor.                           *)
(*                                                                         *)
(* Kernel code of a kernel thread (and of a process that has not yet       *)
(* entered user mode for the first time) runs with interrupts ON, so the   *)
(* timer may preempt it between any two statements of lock_acquire and     *)
(* lock_release; the kernel code of a system call runs with interrupts OFF *)
(* and gives the processor away only where it blocks or yields.  ion[t] is *)
(* the flag t runs with.  The parts of the code that disable interrupts    *)
(* are one step each; everywhere else each statement that writes shared    *)
(* state is a step of its own, and pc[t] says which one comes next:        *)
(*                                                                         *)
(*   user    in user mode                                                  *)
(*   run     in kernel code outside the functions of sync.c                *)
(*   down    in lock_acquire, before sema_down                             *)
(*   woken   in the loop of sema_down, asleep or just switched back in     *)
(*   got     in lock_acquire, sema_down done, holder not yet set           *)
(*   held    in lock_acquire, holder set, holder_repeat_nr not yet         *)
(*   rel     in lock_release, before holder = NULL                         *)
(*   clear   in lock_release, before holder_repeat_nr = 0                  *)
(*   up      in lock_release, before sema_up                               *)
(*   parked  in a direct thread_block (a pipe end, a waiting parent)       *)
(*   loop    idle, before thread_block                                     *)
(*   halt    idle, in hlt                                                  *)
(*                                                                         *)
(* depth[t][l] is the caller's view: how many lock_acquire(l) of t have    *)
(* returned without the matching lock_release having been called.          *)
(***************************************************************************)
EXTENDS Semaphore

CONSTANTS
  Locks,
  KernelThreads,  \* main, idle and whatever thread_start creates
  Main,           \* the thread that runs when scheduling starts
  BootQueue,      \* thread_ready_list at that moment: init, idle, ...
  NoTask,         \* NULL as a lock holder
  NoLock,         \* the task is not inside a function of sync.c
  MaxRepeat       \* bound on nested acquisitions of one lock

ASSUME SyncAssumption ==
  /\ KernelThreads \subseteq Tasks
  /\ {Main, Idle} \subseteq KernelThreads
  /\ Main # Idle
  /\ BootQueue \in Seq(Tasks)
  /\ IsInjective(BootQueue)
  /\ \A t \in Tasks : Contains(BootQueue, t) <=> t # Main
  /\ NoTask \notin Tasks
  /\ NoLock \notin Locks
  /\ MaxRepeat \in Nat \ {0}

VARIABLES
  sched,    \* the scheduler state
  sema,     \* lock.semaphore
  holder,   \* lock.holder
  repeat,   \* lock.holder_repeat_nr
  pc, lk, ion, depth

vars == <<sched, sema, holder, repeat, pc, lk, ion, depth>>

Acquiring == {"down", "woken"}
Owning == {"got", "held", "rel", "clear", "up"}
Pcs == {"user", "run", "parked", "loop", "halt"} \cup Acquiring \cup Owning

TypeOK ==
  /\ sched  \in SchedulerState
  /\ sema   \in [Locks -> SemaphoreState]
  /\ holder \in [Locks -> Tasks \cup {NoTask}]
  /\ repeat \in [Locks -> Nat]
  /\ pc     \in [Tasks -> Pcs]
  /\ lk     \in [Tasks -> Locks \cup {NoLock}]
  /\ ion    \in [Tasks -> BOOLEAN]
  /\ depth  \in [Tasks -> [Locks -> Nat]]

\* thread_init, then intr_enable in init_all: main on the processor.
Init ==
  /\ sched = [cur    |-> Main,
              status |-> [t \in Tasks |-> IF t = Main THEN "RUNNING" ELSE "READY"],
              ready  |-> BootQueue,
              ticks  |-> Priority,
              ok     |-> TRUE]
  /\ sema   = [l \in Locks |-> SemaInit(1)]
  /\ holder = [l \in Locks |-> NoTask]
  /\ repeat = [l \in Locks |-> 0]
  /\ pc     = [t \in Tasks |-> IF t = Idle THEN "loop" ELSE "run"]
  /\ lk     = [t \in Tasks |-> NoLock]
  /\ ion    = [t \in Tasks |-> TRUE]
  /\ depth  = [t \in Tasks |-> [l \in Locks |-> 0]]

At(t, loc) == sched.ok /\ sched.cur = t /\ pc[t] = loc
Goto(t, loc) == pc' = [pc EXCEPT ![t] = loc]

\* Whether the processor accepts an interrupt while t is on it.
Interruptible(t) == ion[t] /\ pc[t] # "woken"

LocksFree(t) == \A l \in Locks : depth[t][l] = 0

-----------------------------------------------------------------------------
\* System calls of processes.

SystemCall(t) ==
  /\ At(t, "user")
  /\ Goto(t, "run")
  /\ ion' = [ion EXCEPT ![t] = FALSE]
  /\ UNCHANGED <<sched, sema, holder, repeat, lk, depth>>

\* intr_exit to user mode, from a system call or (the first time) from
\* start_process. Every system call releases the locks it took.
ReturnToUser(t) ==
  /\ At(t, "run")
  /\ t \notin KernelThreads
  /\ LocksFree(t)
  /\ Goto(t, "user")
  /\ ion' = [ion EXCEPT ![t] = TRUE]
  /\ UNCHANGED <<sched, sema, holder, repeat, lk, depth>>

-----------------------------------------------------------------------------
\* lock_acquire. The callers nest acquisitions of one lock at most, never of
\* two different ones.

Reacquire(t, l) ==
  /\ At(t, "run")
  /\ holder[l] = t
  /\ repeat[l] < MaxRepeat
  /\ repeat' = [repeat EXCEPT ![l] = @ + 1]
  /\ depth' = [depth EXCEPT ![t][l] = @ + 1]
  /\ UNCHANGED <<sched, sema, holder, pc, lk, ion>>

StartAcquire(t, l) ==
  /\ At(t, "run")
  /\ t # Idle
  /\ LocksFree(t)
  /\ holder[l] # t
  /\ Goto(t, "down")
  /\ lk' = [lk EXCEPT ![t] = l]
  /\ UNCHANGED <<sched, sema, holder, repeat, ion, depth>>

\* One iteration of the loop of sema_down that finds value = 0 ...
SleepInDown(t) ==
  LET l == lk[t]
  IN /\ At(t, "down") \/ At(t, "woken")
     /\ sema[l].value = 0
     /\ sched' = SemaWaitSched(sched, sema[l])
     /\ sema' = [sema EXCEPT ![l] = SemaWait(@, t)]
     /\ Goto(t, "woken")
     /\ UNCHANGED <<holder, repeat, lk, ion, depth>>

\* Wrong on purpose: "if" for "while" in sema_down.
TakeWhenWoken(t) ==
  LET l == lk[t]
  IN /\ At(t, "down") \/ At(t, "woken")
     /\ pc[t] = "woken" \/ sema[l].value # 0
     /\ sched' = SemaTakeSched(sched, sema[l])
     /\ sema' = [sema EXCEPT ![l] = SemaTake(@)]
     /\ Goto(t, "got")
     /\ UNCHANGED <<holder, repeat, lk, ion, depth>>

\* ... and the one that finds it free and leaves the loop.
TakeSemaphore(t) ==
  LET l == lk[t]
  IN /\ At(t, "down") \/ At(t, "woken")
     /\ sema[l].value # 0
     /\ sched' = SemaTakeSched(sched, sema[l])
     /\ sema' = [sema EXCEPT ![l] = SemaTake(@)]
     /\ Goto(t, "got")
     /\ UNCHANGED <<holder, repeat, lk, ion, depth>>

SetHolder(t) ==
  /\ At(t, "got")
  /\ holder' = [holder EXCEPT ![lk[t]] = t]
  /\ Goto(t, "held")
  /\ UNCHANGED <<sched, sema, repeat, lk, ion, depth>>

SetRepeat(t) ==
  LET l == lk[t]
  IN /\ At(t, "held")
     /\ sched' = Asserting(sched, repeat[l] = 0)
     /\ repeat' = [repeat EXCEPT ![l] = 1]
     /\ depth' = [depth EXCEPT ![t][l] = @ + 1]
     /\ lk' = [lk EXCEPT ![t] = NoLock]
     /\ Goto(t, "run")
     /\ UNCHANGED <<sema, holder, ion>>

-----------------------------------------------------------------------------
\* lock_release, called by a task that has acquired the lock.

ReleaseNested(t, l) ==
  /\ At(t, "run")
  /\ depth[t][l] > 0
  /\ repeat[l] > 1
  /\ sched' = Asserting(sched, holder[l] = t)
  /\ repeat' = [repeat EXCEPT ![l] = @ - 1]
  /\ depth' = [depth EXCEPT ![t][l] = @ - 1]
  /\ UNCHANGED <<sema, holder, pc, lk, ion>>

StartRelease(t, l) ==
  /\ At(t, "run")
  /\ depth[t][l] > 0
  /\ repeat[l] <= 1
  /\ sched' = Asserting(sched, holder[l] = t /\ repeat[l] = 1)
  /\ depth' = [depth EXCEPT ![t][l] = @ - 1]
  /\ lk' = [lk EXCEPT ![t] = l]
  /\ Goto(t, "rel")
  /\ UNCHANGED <<sema, holder, repeat, ion>>

\* Wrong on purpose: the holder is not reset.
KeepHolder(t) ==
  /\ At(t, "rel")
  /\ Goto(t, "clear")
  /\ UNCHANGED <<sched, sema, holder, repeat, lk, ion, depth>>

ClearHolder(t) ==
  /\ At(t, "rel")
  /\ holder' = [holder EXCEPT ![lk[t]] = NoTask]
  /\ Goto(t, "clear")
  /\ UNCHANGED <<sched, sema, repeat, lk, ion, depth>>

\* Wrong on purpose: the count is not reset.
KeepRepeat(t) ==
  /\ At(t, "clear")
  /\ Goto(t, "up")
  /\ UNCHANGED <<sched, sema, holder, repeat, lk, ion, depth>>

ClearRepeat(t) ==
  /\ At(t, "clear")
  /\ repeat' = [repeat EXCEPT ![lk[t]] = 0]
  /\ Goto(t, "up")
  /\ UNCHANGED <<sched, sema, holder, lk, ion, depth>>

UpSemaphore(t) ==
  LET l == lk[t]
  IN /\ At(t, "up")
     /\ sched' = SemaUpSched(sched, sema[l])
     /\ sema' = [sema EXCEPT ![l] = SemaUp(@)]
     /\ lk' = [lk EXCEPT ![t] = NoLock]
     /\ Goto(t, "run")
     /\ UNCHANGED <<holder, repeat, ion, depth>>

-----------------------------------------------------------------------------
\* The scheduler's other callers.

\* thread_yield, as in ticks_to_sleep.
YieldCpu(t) ==
  /\ At(t, "run")
  /\ t # Idle
  /\ sched' = Yield(sched)
  /\ UNCHANGED <<sema, holder, repeat, pc, lk, ion, depth>>

\* thread_block outside sema_down: ioq_wait, sys_wait. A lock may be held.
Park(t, stat) ==
  /\ At(t, "run")
  /\ t # Idle
  /\ sched' = Block(sched, stat)
  /\ Goto(t, "parked")
  /\ UNCHANGED <<sema, holder, repeat, lk, ion, depth>>

\* thread_unblock by a task: wakeup, sys_exit.
WakeParked(t, u) ==
  /\ At(t, "run")
  /\ t # Idle
  /\ pc[u] = "parked"
  /\ sched' = Unblock(sched, u)
  /\ Goto(u, "run")
  /\ UNCHANGED <<sema, holder, repeat, lk, ion, depth>>

\* idle: thread_block(TASK_BLOCKED), then sti; hlt.
IdleBlock ==
  /\ At(Idle, "loop")
  /\ sched' = Block(sched, "BLOCKED")
  /\ Goto(Idle, "run")
  /\ UNCHANGED <<sema, holder, repeat, lk, ion, depth>>

IdleHalt ==
  /\ At(Idle, "run")
  /\ Goto(Idle, "halt")
  /\ UNCHANGED <<sched, sema, holder, repeat, lk, ion, depth>>

-----------------------------------------------------------------------------
\* Interrupts. An interrupt ends the hlt of the idle thread; one that arrives
\* before the hlt does not keep idle from halting.

AcceptInterrupt ==
  sched.ok /\ Interruptible(sched.cur)

AfterHalt(p) == IF p[Idle] = "halt" /\ sched.cur = Idle
                THEN [p EXCEPT ![Idle] = "loop"] ELSE p

TimerInterrupt ==
  /\ AcceptInterrupt
  /\ sched' = TimerTick(sched)
  /\ pc' = AfterHalt(pc)
  /\ UNCHANGED <<sema, holder, repeat, lk, ion, depth>>

\* The keyboard handler wakes the task parked in ioq_getchar, the disk
\* handler the one that waits for disk_done.
DeviceInterrupt(u) ==
  /\ AcceptInterrupt
  /\ pc[u] = "parked"
  /\ sched' = Unblock(sched, u)
  /\ pc' = [AfterHalt(pc) EXCEPT ![u] = "run"]
  /\ UNCHANGED <<sema, holder, repeat, lk, ion, depth>>

-----------------------------------------------------------------------------
\* What t does next inside sync.c and idle is determined.
Forced(t) ==
  \/ SleepInDown(t) \/ TakeSemaphore(t) \/ SetHolder(t) \/ SetRepeat(t)
  \/ ClearHolder(t) \/ ClearRepeat(t) \/ UpSemaphore(t)
  \/ t = Idle /\ (IdleBlock \/ IdleHalt)

\* What it does outside is up to the rest of the kernel and to user programs.
Chosen(t) ==
  \/ SystemCall(t) \/ ReturnToUser(t) \/ YieldCpu(t)
  \/ \E stat \in {"BLOCKED", "WAITING"} : Park(t, stat)
  \/ \E u \in Tasks : WakeParked(t, u)
  \/ \E l \in Locks : \/ Reacquire(t, l) \/ StartAcquire(t, l)
                      \/ ReleaseNested(t, l) \/ StartRelease(t, l)

Next ==
  \/ \E t \in Tasks : Forced(t) \/ Chosen(t)
  \/ TimerInterrupt
  \/ \E u \in Tasks : DeviceInterrupt(u)

Spec == Init /\ [][Next]_vars

(***************************************************************************)
(* Fairness. The processor executes the code it is in (Forced). The PIT    *)
(* interrupts periodically and the 8259A keeps the request pending until   *)
(* interrupts are on, so a timer interrupt that is possible again and      *)
(* again is accepted (SF). System calls of processes, which run with       *)
(* interrupts off, release their locks and end (SF). Nothing is assumed of *)
(* the devices, of kernel threads or of what a task asks for.              *)
(***************************************************************************)
Fairness ==
  /\ WF_vars(\E t \in Tasks : Forced(t))
  /\ SF_vars(TimerInterrupt)
  /\ \A t \in Tasks \ KernelThreads :
       /\ SF_vars(ReturnToUser(t))
       /\ \A l \in Locks : SF_vars(StartRelease(t, l)) /\ SF_vars(ReleaseNested(t, l))

FairSpec == Spec /\ Fairness

-----------------------------------------------------------------------------
\* Safety properties.

\* No ASSERT of thread.c or sync.c fails, whatever the interleaving: no task
\* is put on a list it is on, none is unblocked that is not blocked, idle can
\* be woken when it is needed, the semaphore of a lock stays binary, and the
\* holder and its count are what lock_acquire and lock_release expect.
NoPanic == sched.ok

\* Between the return of lock_acquire and the call of lock_release a task is
\* alone with the lock, although a thread may be preempted anywhere and a
\* woken waiter has to compete for the semaphore again.
MutualExclusion ==
  \A l \in Locks, t, u \in Tasks :
    depth[t][l] > 0 /\ depth[u][l] > 0 => t = u

\* general_tag links a task into at most one of the ready list and the
\* waiters lists, once: the ready list holds the READY tasks, and the waiters
\* list of a semaphore those that sleep in its sema_down.
ListsExact ==
  /\ ReadyListExact(sched)
  /\ \A l \in Locks :
       /\ IsInjective(sema[l].waiters)
       /\ \A t \in Tasks :
            Contains(sema[l].waiters, t) <=>
              pc[t] = "woken" /\ lk[t] = l /\ sched.status[t] = "BLOCKED"

\* The lock knows its owner: lock_acquire recognises a nested acquisition and
\* lock_release the last one, because holder and holder_repeat_nr agree with
\* what the owner has done, also while other tasks run inside these functions.
HolderKnown ==
  \A l \in Locks, t \in Tasks :
    /\ depth[t][l] > 0 => holder[l] = t /\ repeat[l] = depth[t][l]
    /\ holder[l] = t => depth[t][l] > 0 \/ pc[t] \in {"held", "rel"}

\* No wakeup is lost: when a lock is free and tasks still sleep in its queue,
\* one that has been woken is on its way to take it and to wake the next.
NoLostWakeup ==
  \A l \in Locks :
    sema[l].value > 0 /\ sema[l].waiters # <<>> =>
      \E t \in Tasks : /\ pc[t] = "woken"
                      /\ lk[t] = l
                      /\ sched.status[t] \in {"READY", "RUNNING"}

\* A task is woken in this step, which puts it before the ready ones.
WakeupStep ==
  \E t \in Tasks : sched.status[t] \in Parked /\ sched'.status[t] = "READY"

\* Only thread_unblock overtakes: as long as nobody is woken, preemption,
\* yielding and blocking never let a task pass one that was ready before it.
NoOvertaking ==
  [][ \A t, u \in Tasks :
        LET before(s) == \E i, j \in DOMAIN s.ready :
                           i < j /\ s.ready[i] = t /\ s.ready[j] = u
        IN before(sched) /\ ~WakeupStep /\ sched'.status[t] = "READY"
             => before(sched)' ]_vars

\* A ready task that no wakeup overtakes any more gets the processor: every
\* other task is preempted, also the idle thread that halts just after the
\* interrupt that made the task ready. (With wakeups this fails: two tasks
\* that keep waking each other starve the rest of the ready list.)
DispatchWhenQuiet ==
  <>[][~WakeupStep]_vars =>
    \A t \in Tasks : sched.status[t] = "READY" ~> sched.status[t] = "RUNNING"

-----------------------------------------------------------------------------
\* The locks implement LockSpec: the owner is the task between its successful
\* sema_down and its sema_up.

Owns(t, l) == depth[t][l] > 0 \/ (lk[t] = l /\ pc[t] \in Owning)

Owner(l) == IF \E t \in Tasks : Owns(t, l)
            THEN CHOOSE t \in Tasks : Owns(t, l) ELSE NoTask

Count(l) == IF Owner(l) = NoTask THEN 0
            ELSE IF depth[Owner(l)][l] > 0 THEN depth[Owner(l)][l] ELSE 1

Abstract == INSTANCE LockSpec WITH
              owner <- [l \in Locks |-> Owner(l)],
              count <- [l \in Locks |-> Count(l)]

ImplementsLockSpec == Abstract!Spec

-----------------------------------------------------------------------------
\* The inductive invariant from which Sync_proofs derives the invariants
\* above. It adds what they leave open: how pc, lk and the scheduler's view of
\* a task fit together, and that the semaphore of a lock is 0 exactly while
\* some task is between its sema_down and its sema_up.

TaskInv(t) ==
  /\ t = Idle => pc[t] \in {"loop", "run", "halt"} /\ LocksFree(t)
  /\ t # Idle => pc[t] \notin {"loop", "halt"}
  /\ lk[t] \in Locks <=> pc[t] \in Acquiring \cup Owning
  /\ pc[t] = "parked" => sched.status[t] \in Parked
  /\ sched.status[t] \in Parked /\ t # Idle => pc[t] \in {"parked", "woken"}

OwnerInv(l) ==
  /\ sema[l].value \in {0, 1}
  /\ sema[l].value = 1 <=> \A t \in Tasks : ~Owns(t, l)
  /\ \A t, u \in Tasks : Owns(t, l) /\ Owns(u, l) => t = u
  /\ \A t \in Tasks : lk[t] = l => depth[t][l] = 0

HolderInv(l) ==
  /\ \A t \in Tasks :
       /\ holder[l] = t <=> depth[t][l] > 0 \/ (lk[t] = l /\ pc[t] \in {"held", "rel"})
       /\ depth[t][l] > 0 => repeat[l] = depth[t][l]
       /\ lk[t] = l /\ pc[t] \in {"rel", "clear"} => repeat[l] = 1
       /\ lk[t] = l /\ pc[t] \in {"got", "held", "up"} => repeat[l] = 0
  /\ (\A t \in Tasks : ~Owns(t, l)) => repeat[l] = 0

WaitersInv(l) ==
  /\ IsInjective(sema[l].waiters)
  /\ \A t \in Tasks :
       Contains(sema[l].waiters, t) <=>
         pc[t] = "woken" /\ lk[t] = l /\ sched.status[t] = "BLOCKED"

IInv ==
  /\ TypeOK
  /\ sched.ok
  /\ WellFormed(sched)
  /\ \A t \in Tasks : TaskInv(t)
  /\ \A l \in Locks : OwnerInv(l) /\ HolderInv(l) /\ WaitersInv(l)
=============================================================================
