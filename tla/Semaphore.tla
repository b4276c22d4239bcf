------------------------------ MODULE Semaphore ------------------------------
(***************************************************************************)
(* The semaphores of thread/sync.c as operators on a record                *)
(*                                                                         *)
(*   sem.value    struct semaphore.value, a uint8_t used as a binary one   *)
(*   sem.waiters  struct semaphore.waiters, FIFO                           *)
(*                                                                         *)
(* and on the scheduler state s.  sema_down is a loop around thread_block: *)
(* its body is one of SemaWait (value 0) and SemaTake (value not 0), and a *)
(* woken waiter runs the body again.  An operation changes both the        *)
(* semaphore and the scheduler, so it is a pair of operators, the one that *)
(* returns the semaphore and, ending in Sched, the one that returns the    *)
(* scheduler state.                                                        *)
(***************************************************************************)
EXTENDS Scheduler

SemaphoreState == [value : 0..255, waiters : Seq(Tasks)]

\* sema_init
SemaInit(value) == [value |-> value, waiters |-> <<>>]

\* sema_down, value = 0: queue up and block.
SemaWait(sem, t) == [sem EXCEPT !.waiters = Append(@, t)]
SemaWaitSched(s, sem) ==
  Block(Asserting(s, ~Contains(sem.waiters, s.cur)), "BLOCKED")

\* Wrong on purpose: the decrement is missing.
SemaTakeNothing(sem) == sem

\* sema_down, value # 0: take it.
SemaTake(sem) == [sem EXCEPT !.value = @ - 1]
SemaTakeSched(s, sem) == Asserting(s, sem.value - 1 = 0)

\* Wrong on purpose: list_pop is missing.
SemaUpKeepWaiter(sem) == [sem EXCEPT !.value = (@ + 1) % 256]

\* Wrong on purpose: thread_unblock is missing.
SemaUpSchedSilent(s, sem) == Asserting(s, sem.value = 0)

\* sema_up: wake the first waiter, if any, and increment. The woken task is
\* not handed the semaphore: it competes for it again when it runs.
SemaUp(sem) ==
  [value   |-> (sem.value + 1) % 256,
   waiters |-> IF sem.waiters = <<>> THEN <<>> ELSE Tail(sem.waiters)]
SemaUpSched(s, sem) ==
  LET woken == IF sem.waiters = <<>> THEN s ELSE Unblock(s, Head(sem.waiters))
  IN Asserting(woken, sem.value = 0)
=============================================================================
