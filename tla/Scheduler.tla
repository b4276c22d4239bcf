------------------------------ MODULE Scheduler ------------------------------
(***************************************************************************)
(* The scheduler of thread/thread.c as operators on a scheduler state s:   *)
(*                                                                         *)
(*   s.cur     the task on the processor (running_thread())                *)
(*   s.status  task_struct.status of every task                            *)
(*   s.ready   thread_ready_list, from its head to its tail                *)
(*   s.ticks   task_struct.ticks, what is left of the time slice           *)
(*   s.ok      FALSE once an ASSERT of the code has failed (panic_spin)    *)
(*                                                                         *)
(* Every operator stands for code that runs with interrupts off, so each   *)
(* is one indivisible change; a system call that wakes one task and blocks *)
(* another is the composition of two of them.  All operators are           *)
(* non-recursive: Scheduler_proofs proves facts about them.                *)
(*                                                                         *)
(* In this module and in those that build on it, a definition marked       *)
(* "Wrong on purpose" is no part of the specification: it is what some     *)
(* definition below it would be if the code had a certain bug. README.md   *)
(* says which property notices it.                                         *)
(***************************************************************************)
EXTENDS Naturals, SequencesExt

CONSTANTS
  Tasks,      \* the PCBs
  Idle,       \* idle_thread
  Priority    \* task_struct.priority, a uint8_t

ASSUME SchedulerAssumption ==
  /\ Idle \in Tasks
  /\ Priority \in [Tasks -> 0..255]

\* enum task_status.
Parked == {"BLOCKED", "WAITING", "HANGING"}
TaskStatus == {"RUNNING", "READY", "DIED"} \cup Parked

SchedulerState ==
  [cur    : Tasks,
   status : [Tasks -> TaskStatus],
   ready  : Seq(Tasks),
   ticks  : [Tasks -> 0..255],
   ok     : BOOLEAN]

\* ASSERT(cond): when it fails the kernel panics and spins with interrupts off.
Asserting(s, cond) == [s EXCEPT !.ok = @ /\ cond]

\* ASSERT(!elem_find(...)); list_append(&thread_ready_list, ...); READY.
Enqueue(s, t) ==
  [s EXCEPT !.ok        = @ /\ ~Contains(s.ready, t),
            !.ready     = Append(@, t),
            !.status[t] = "READY"]

\* thread_unblock: the woken task goes to the FRONT of the ready list.
Unblock(s, t) ==
  [s EXCEPT !.ok        = /\ @
                          /\ s.status[t] \in Parked
                          /\ ~Contains(s.ready, t),
            !.ready     = Cons(t, @),
            !.status[t] = "READY"]

\* schedule, first part: a task that is still RUNNING has used up its slice.
Requeue(s) ==
  IF s.status[s.cur] = "RUNNING"
  THEN [Enqueue(s, s.cur) EXCEPT !.ticks[s.cur] = Priority[s.cur]]
  ELSE s

\* schedule, second part: with nothing to run, wake the idle thread.
WakeIdle(s) == IF s.ready = <<>> THEN Unblock(s, Idle) ELSE s

\* Wrong on purpose: the tail of the list is taken.
DispatchLast(s) ==
  [s EXCEPT !.cur                   = Last(s.ready),
            !.ready                 = Front(@),
            !.status[Last(s.ready)] = "RUNNING"]

\* schedule, last part: pop the head of the ready list and switch to it.
Dispatch(s) ==
  [s EXCEPT !.cur                   = Head(s.ready),
            !.ready                 = Tail(@),
            !.status[Head(s.ready)] = "RUNNING"]

Schedule(s) == Dispatch(WakeIdle(Requeue(s)))

\* thread_block: the running task parks itself and gives the processor away.
Block(s, stat) ==
  Schedule([s EXCEPT !.ok            = @ /\ stat \in Parked,
                     !.status[s.cur] = stat])

\* thread_yield: to the tail of the ready list; the time slice is kept.
Yield(s) == Schedule(Enqueue(s, s.cur))

\* Wrong on purpose: the end of a time slice goes unnoticed.
TimerTickOnly(s) == IF s.ticks[s.cur] = 0 THEN s ELSE [s EXCEPT !.ticks[s.cur] = @ - 1]

\* intr_timer_handler.
TimerTick(s) ==
  IF s.ticks[s.cur] = 0
  THEN Schedule(s)
  ELSE [s EXCEPT !.ticks[s.cur] = @ - 1]

-----------------------------------------------------------------------------
\* What every operation of the scheduler relies on and re-establishes: one
\* task is RUNNING and it is the one on the processor, and the ready list
\* holds the READY tasks, each exactly once.
OneRunning(s) == \A t \in Tasks : s.status[t] = "RUNNING" <=> t = s.cur

ReadyListExact(s) ==
  /\ \A t \in Tasks : Contains(s.ready, t) <=> s.status[t] = "READY"
  /\ IsInjective(s.ready)

\* idle only ever blocks itself, so schedule can always wake it.
IdleAvailable(s) == s.status[Idle] \in {"RUNNING", "READY", "BLOCKED"}

WellFormed(s) == OneRunning(s) /\ ReadyListExact(s) /\ IdleAvailable(s)
=============================================================================
