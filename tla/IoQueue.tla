------------------------------- MODULE IoQueue --------------------------------
(***************************************************************************)
(* The keyboard buffer: the ring of device/ioqueue.c with ioq_getchar as   *)
(* sys_read calls it, and the keyboard interrupt as its only producer.     *)
(*                                                                         *)
(* A reader runs with interrupts off from its system call to the return to *)
(* user mode, so ioq_getchar is one step from each place where the reader  *)
(* can lose the processor to the next: pc[t] is                            *)
(*                                                                         *)
(*   user    in user mode (interrupts on)                                  *)
(*   queued  in the sema_down of lock_acquire(&ioq->lock)                  *)
(*   asleep  in ioq_wait, holding ioq->lock                                *)
(*   loop    idle, before thread_block                                     *)
(*   halt    idle, in hlt (interrupts on)                                  *)
(*                                                                         *)
(* The lock is its semaphore here; Sync is about the rest of it. Nothing   *)
(* else writes to the ring: the interrupt handler drops the character of a *)
(* full ring, so ioq_putchar never waits and ioq->producer stays NULL.     *)
(***************************************************************************)
EXTENDS Semaphore

CONSTANTS
  First,    \* the task on the processor to begin with
  BootQueue,\* the others
  Keys,     \* characters
  NoKey,    \* a cell never written, a reader that has read nothing
  NoTask,   \* NULL
  BufSize   \* bufsize

Readers == Tasks \ {Idle}

ASSUME IoQueueAssumption ==
  /\ First \in Readers
  /\ BootQueue \in Seq(Tasks)
  /\ IsInjective(BootQueue)
  /\ \A t \in Tasks : Contains(BootQueue, t) <=> t # First
  /\ NoKey \notin Keys
  /\ NoTask \notin Tasks
  /\ BufSize \in Nat \ {0, 1}

VARIABLES
  sched,
  lock,       \* ioq->lock.semaphore
  consumer,   \* ioq->consumer
  buf, head, tail,
  char,       \* what the last ioq_getchar of each reader returned
  pc

vars == <<sched, lock, consumer, buf, head, tail, char, pc>>

TypeOK ==
  /\ sched    \in SchedulerState
  /\ lock     \in SemaphoreState
  /\ consumer \in Readers \cup {NoTask}
  /\ buf      \in [0..BufSize-1 -> Keys \cup {NoKey}]
  /\ head     \in 0..BufSize-1
  /\ tail     \in 0..BufSize-1
  /\ char     \in [Readers -> Keys \cup {NoKey}]
  /\ pc       \in [Tasks -> {"user", "queued", "asleep", "loop", "halt"}]

\* ioqueue_init, with the readers in user mode.
Init ==
  /\ sched = [cur    |-> First,
              status |-> [t \in Tasks |-> IF t = First THEN "RUNNING" ELSE "READY"],
              ready  |-> BootQueue,
              ticks  |-> Priority,
              ok     |-> TRUE]
  /\ lock     = SemaInit(1)
  /\ consumer = NoTask
  /\ buf      = [i \in 0..BufSize-1 |-> NoKey]
  /\ head     = 0
  /\ tail     = 0
  /\ char     = [t \in Readers |-> NoKey]
  /\ pc       = [t \in Tasks |-> IF t = Idle THEN "loop" ELSE "user"]

\* Wrong on purpose: no wrap at the end of the ring.
NextPosUnwrapped(pos) == pos + 1

\* Wrong on purpose: the last cell before the wrap is never full.
IoqFullUnwrapped == head + 1 = tail

NextPos(pos) == (pos + 1) % BufSize
IoqFull  == NextPos(head) = tail
IoqEmpty == head = tail

At(t, loc) == sched.ok /\ sched.cur = t /\ pc[t] = loc
Goto(t, loc) == pc' = [pc EXCEPT ![t] = loc]

-----------------------------------------------------------------------------
\* ioq_getchar.

\* The part after the loop. No producer ever waits.
TakeChar(t) ==
  /\ char' = [char EXCEPT ![t] = buf[tail]]
  /\ tail' = NextPos(tail)
  /\ Goto(t, "user")
  /\ UNCHANGED <<consumer, buf, head>>

\* The body of the loop up to where the reader loses the processor, from
\* scheduler state s and semaphore l: it queues up for the lock ...
QueueUp(t, s, l) ==
  /\ l.value = 0
  /\ sched' = SemaWaitSched(s, l)
  /\ lock' = SemaWait(l, t)
  /\ Goto(t, "queued")
  /\ UNCHANGED <<consumer, buf, head, tail, char>>

\* ... or gets it and sleeps in ioq_wait.
IoqWait(t, s, l) ==
  /\ l.value # 0
  /\ sched' = Block(Asserting(SemaTakeSched(s, l), consumer = NoTask), "BLOCKED")
  /\ lock' = SemaTake(l)
  /\ consumer' = t
  /\ Goto(t, "asleep")
  /\ UNCHANGED <<buf, head, tail, char>>

\* From the test of the loop on.
GetChar(t, s, l) ==
  \/ /\ ~IoqEmpty
     /\ sched' = s
     /\ lock' = l
     /\ TakeChar(t)
  \/ /\ IoqEmpty
     /\ QueueUp(t, s, l) \/ IoqWait(t, s, l)

Read(t) ==
  /\ At(t, "user")
  /\ GetChar(t, sched, lock)

\* Woken in sema_down: whether there is something to read by now is not asked.
RetryLock(t) ==
  /\ At(t, "queued")
  /\ QueueUp(t, sched, lock) \/ IoqWait(t, sched, lock)

\* Wrong on purpose: lock_release wakes nobody.
WakeSelfish(t) ==
  /\ At(t, "asleep")
  /\ GetChar(t, sched, [lock EXCEPT !.value = 1])

\* Woken in ioq_wait: lock_release, then the test of the loop again.
Wake(t) ==
  /\ At(t, "asleep")
  /\ GetChar(t, SemaUpSched(sched, lock), SemaUp(lock))

-----------------------------------------------------------------------------
\* Interrupts and the idle thread.

Interruptible == sched.ok /\ pc[sched.cur] \in {"user", "halt"}
AfterHalt == IF pc[sched.cur] = "halt" THEN [pc EXCEPT ![sched.cur] = "loop"] ELSE pc

\* Wrong on purpose: wakeup does not reset ioq->consumer.
KeyPressRemembers(k) ==
  /\ Interruptible
  /\ ~IoqFull
  /\ buf' = [buf EXCEPT ![head] = k]
  /\ head' = NextPos(head)
  /\ sched' = IF consumer = NoTask THEN sched ELSE Unblock(sched, consumer)
  /\ pc' = AfterHalt
  /\ UNCHANGED <<lock, consumer, tail, char>>

\* Wrong on purpose: ioq_putchar wakes nobody.
KeyPressSilent(k) ==
  /\ Interruptible
  /\ ~IoqFull
  /\ buf' = [buf EXCEPT ![head] = k]
  /\ head' = NextPos(head)
  /\ pc' = AfterHalt
  /\ UNCHANGED <<sched, lock, consumer, tail, char>>

\* intr_keyboard_handler for a key that has a character.
KeyPress(k) ==
  /\ Interruptible
  /\ ~IoqFull
  /\ buf' = [buf EXCEPT ![head] = k]
  /\ head' = NextPos(head)
  /\ sched' = IF consumer = NoTask THEN sched ELSE Unblock(sched, consumer)
  /\ consumer' = NoTask
  /\ pc' = AfterHalt
  /\ UNCHANGED <<lock, tail, char>>

KeyDropped ==
  /\ Interruptible
  /\ IoqFull
  /\ pc' = AfterHalt
  /\ UNCHANGED <<sched, lock, consumer, buf, head, tail, char>>

TimerInterrupt ==
  /\ Interruptible
  /\ sched' = TimerTick(sched)
  /\ pc' = AfterHalt
  /\ UNCHANGED <<lock, consumer, buf, head, tail, char>>

\* thread_block(TASK_BLOCKED); sti; hlt.
IdleBlock ==
  /\ At(Idle, "loop")
  /\ sched' = Block(sched, "BLOCKED")
  /\ Goto(Idle, "halt")
  /\ UNCHANGED <<lock, consumer, buf, head, tail, char>>

-----------------------------------------------------------------------------
Next ==
  \/ \E t \in Readers : Read(t) \/ RetryLock(t) \/ Wake(t)
  \/ \E k \in Keys : KeyPress(k)
  \/ KeyDropped \/ TimerInterrupt \/ IdleBlock

Spec == Init /\ [][Next]_vars

\* The processor executes the kernel code it is in; the timer keeps ticking.
\* Nobody has to type, nor to read.
Fairness ==
  /\ \A t \in Readers : WF_vars(RetryLock(t) \/ Wake(t))
  /\ WF_vars(IdleBlock)
  /\ SF_vars(TimerInterrupt)

FairSpec == Spec /\ Fairness

-----------------------------------------------------------------------------
\* The interrupt handler finds the sleeper: while a reader is blocked in
\* ioq_wait it is the one in ioq->consumer, it holds the lock and nobody else
\* does. One that is not recorded would never be woken. No ASSERT fails: the
\* lock keeps a second reader away from ioq->consumer (ioq_wait), and whom the
\* handler wakes is asleep (thread_unblock).
SleeperRecorded ==
  /\ sched.ok
  /\ \A t \in Readers :
       /\ consumer = t <=> pc[t] = "asleep" /\ sched.status[t] = "BLOCKED"
       /\ pc[t] = "asleep" =>
            lock.value = 0 /\ \A u \in Readers \ {t} : pc[u] # "asleep"

\* A reader waits for the lock only while another one is in ioq_wait or has
\* been woken from the queue: the lock is never left free with sleepers only.
LockPassedOn ==
  lock.value > 0 /\ lock.waiters # <<>> =>
    \E t \in Readers : pc[t] = "queued" /\ sched.status[t] \in {"READY", "RUNNING"}

\* What ioqueue.c says of the loop: the buffer is empty when a reader is
\* recorded to be woken later.
SleepsOnlyWhenEmpty == consumer # NoTask => IoqEmpty

\* A reader in ioq_getchar gets a character if there is one to read, as long as
\* the others do not read: a reader that had to wait for the lock may go to sleep
\* on a ring with characters in it.
ReadReturns ==
  \A t \in Readers :
    [](\A u \in Readers \ {t} : pc[u] = "user" /\ char[u] = NoKey) =>
      (pc[t] \in {"queued", "asleep"} /\ ~IoqEmpty ~> pc[t] = "user")

\* The ring is a queue: no character is lost, read twice or read out of order
\* across wraps of head and tail, wakeups and readers that compete.
Contents ==
  [i \in 1..((head + BufSize - tail) % BufSize) |-> buf[(tail + i - 1) % BufSize]]

Abstract == INSTANCE KeyQueue WITH queue <- Contents, Capacity <- BufSize - 1

ImplementsKeyQueue == Abstract!Spec

-----------------------------------------------------------------------------
\* The inductive invariant from which IoQueue_proofs derives the invariants
\* above: what each task may be doing, the semaphore of the lock, which is 0
\* exactly while a reader is in ioq_wait, its queue, and who is recorded.

PcInv ==
  /\ pc[Idle] \in {"loop", "halt"}
  /\ \A t \in Readers : pc[t] \in {"user", "queued", "asleep"}

LockInv ==
  /\ lock.value \in {0, 1}
  /\ lock.value = 1 <=> \A t \in Readers : pc[t] # "asleep"
  /\ \A t, u \in Readers : pc[t] = "asleep" /\ pc[u] = "asleep" => t = u

WaitersInv ==
  /\ IsInjective(lock.waiters)
  /\ \A t \in Tasks :
       Contains(lock.waiters, t) <=>
         t \in Readers /\ pc[t] = "queued" /\ sched.status[t] = "BLOCKED"

ConsumerInv ==
  \A t \in Readers :
    consumer = t <=> pc[t] = "asleep" /\ sched.status[t] = "BLOCKED"

IInv ==
  /\ TypeOK
  /\ sched.ok
  /\ WellFormed(sched)
  /\ PcInv /\ LockInv /\ WaitersInv /\ ConsumerInv
=============================================================================
