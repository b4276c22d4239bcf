--------------------------------- MODULE Ide ----------------------------------
(***************************************************************************)
(* One channel of device/ide.c: ide_read, ide_write, the interrupt handler *)
(* and the drive.  The tasks that use the channel are processes, whose     *)
(* system calls run with interrupts off, and kernel threads (main loads a  *)
(* program from the disk at boot), which run with interrupts on.           *)
(*                                                                         *)
(*   user     in user mode                                                 *)
(*   run      in kernel code outside ide_read and ide_write                *)
(*   lock     in lock_acquire of the channel;    queued: asleep in it      *)
(*   next     at the head of the loop over the commands of a request       *)
(*   cmd      in cmd_out, before expecting_intr = true                     *)
(*   out      in cmd_out, before the command goes to the drive             *)
(*   done     before sema_down(disk_done);       waiting: asleep in it     *)
(*   poll     at the head of the loop of busy_wait                         *)
(*   nap      in ticks_to_sleep                                            *)
(*   data     before insw or outsw                                         *)
(*   release  before lock_release                                          *)
(*   failed   busy_wait has failed: PANIC                                  *)
(*   loop, halt  idle, before thread_block and in hlt                      *)
(*                                                                         *)
(* The lock is its semaphore (Sync models the rest of it).                 *)
(***************************************************************************)
EXTENDS Semaphore

CONSTANTS
  KernelThreads,
  First,          \* the task that is on the processor
  BootQueue,      \* the ready list behind it
  MaxCommands,    \* bound on the commands of 256 sectors that a request needs
  ReadSectors,    \* the sectors of a command that reads
  WriteSectors,   \* the sectors of a command that writes
  SlowDrive,      \* whether the drive is busy before it asks for data to write
  TimeLimit       \* time_limit of busy_wait in milliseconds, 30000 in the code

ASSUME IdeAssumption ==
  /\ KernelThreads \subseteq Tasks
  /\ First \in Tasks
  /\ Idle \in KernelThreads \ {First}
  /\ BootQueue \in Seq(Tasks) /\ IsInjective(BootQueue)
  /\ \A t \in Tasks : Contains(BootQueue, t) <=> t # First
  /\ MaxCommands \in Nat \ {0}
  /\ ReadSectors \subseteq 1..256 /\ WriteSectors \subseteq 1..256
  /\ SlowDrive \in BOOLEAN
  /\ TimeLimit \in Nat \ {0}

VARIABLES
  sched,
  sema,       \* channel.lock.semaphore and channel.disk_done
  expecting,  \* channel.expecting_intr
  drive,      \* what the drive does, and the sectors of its command
  irq,        \* the 8259A holds an interrupt request of the channel
  pc,
  req,        \* the arguments of ide_read and ide_write
  limit,      \* time_limit of the one task in busy_wait
  ticked      \* ticks has changed since start_tick was read

channel == <<expecting, drive, irq>>
vars == <<sched, sema, channel, pc, req, limit, ticked>>

Busy == {"reading", "starting", "storing"}
Pcs == {"user", "run", "lock", "queued", "next", "cmd", "out", "done", "waiting",
        "poll", "nap", "data", "release", "failed", "loop", "halt"}

TypeOK ==
  /\ sched \in SchedulerState
  /\ sema \in [{"lock", "done"} -> SemaphoreState]
  /\ expecting \in BOOLEAN
  /\ drive \in [phase : Busy \cup {"idle", "data"}, secs : 0..256]
  /\ irq \in BOOLEAN
  /\ pc \in [Tasks -> Pcs]
  /\ req \in [Tasks -> [op : {"read", "write"}, left : 0..MaxCommands]]
  /\ limit \in 0..TimeLimit
  /\ ticked \in BOOLEAN

\* ide_init, once the drives have been identified.
Init ==
  /\ sched = [cur    |-> First,
              status |-> [t \in Tasks |-> IF t = First THEN "RUNNING" ELSE "READY"],
              ready  |-> BootQueue,
              ticks  |-> Priority,
              ok     |-> TRUE]
  /\ sema      = [lock |-> SemaInit(1), done |-> SemaInit(0)]
  /\ expecting = FALSE
  /\ drive     = [phase |-> "idle", secs |-> 0]
  /\ irq       = FALSE
  /\ pc        = [t \in Tasks |-> IF t = Idle THEN "loop"
                                  ELSE IF t \in KernelThreads THEN "run" ELSE "user"]
  /\ req       = [t \in Tasks |-> [op |-> "read", left |-> 0]]
  /\ limit     = TimeLimit
  /\ ticked    = FALSE

\* Whether interrupts are on while t is on the processor. Whoever wakes up in
\* sema_down still has them off.
Interruptible(t) ==
  \/ pc[t] = "user"
  \/ t \in KernelThreads /\ pc[t] \notin {"queued", "waiting"}

\* A pending request is served before the next instruction.
At(t, loc) ==
  /\ sched.ok
  /\ sched.cur = t
  /\ pc[t] = loc
  /\ ~(irq /\ Interruptible(t))

Goto(t, loc) == pc' = [pc EXCEPT ![t] = loc]

-----------------------------------------------------------------------------
\* Outside the driver.

SystemCall(t) ==
  /\ At(t, "user")
  /\ Goto(t, "run")
  /\ UNCHANGED <<sched, sema, channel, req, limit, ticked>>

ReturnToUser(t) ==
  /\ At(t, "run")
  /\ t \notin KernelThreads
  /\ Goto(t, "user")
  /\ UNCHANGED <<sched, sema, channel, req, limit, ticked>>

\* The call of ide_read or ide_write.
Request(t, o, n) ==
  /\ At(t, "run")
  /\ t # Idle
  /\ req' = [req EXCEPT ![t] = [op |-> o, left |-> n]]
  /\ Goto(t, "lock")
  /\ UNCHANGED <<sched, sema, channel, limit, ticked>>

-----------------------------------------------------------------------------
\* sema_down(s), called at before: once around its loop.
Down(t, s, before, asleep, after) ==
  /\ At(t, before) \/ At(t, asleep)
  /\ \/ /\ sema[s].value = 0
        /\ sched' = SemaWaitSched(sched, sema[s])
        /\ sema' = [sema EXCEPT ![s] = SemaWait(@, t)]
        /\ Goto(t, asleep)
     \/ /\ sema[s].value # 0
        /\ sched' = SemaTakeSched(sched, sema[s])
        /\ sema' = [sema EXCEPT ![s] = SemaTake(@)]
        /\ Goto(t, after)
  /\ UNCHANGED <<channel, req, limit, ticked>>

AcquireChannel(t) == Down(t, "lock", "lock", "queued", "next")

\* while (secs_done < sec_cnt)
NextCommand(t) ==
  /\ At(t, "next")
  /\ Goto(t, IF req[t].left > 0 THEN "cmd" ELSE "release")
  /\ UNCHANGED <<sched, sema, channel, req, limit, ticked>>

SetExpecting(t, from, to) ==
  /\ At(t, from)
  /\ expecting' = TRUE
  /\ Goto(t, to)
  /\ UNCHANGED <<sched, sema, drive, irq, req, limit, ticked>>

\* What ide_read and ide_write do once cmd_out has returned.
AfterCmdOut(t) == IF req[t].op = "read" THEN "done" ELSE "poll"

\* outb(reg_cmd): the drive withdraws its interrupt request and gets to work. What
\* one does that is still storing is indeterminate: it may ignore the command.
GiveCommand(t, from, to) ==
  /\ At(t, from)
  /\ \/ /\ \E n \in (IF req[t].op = "read" THEN ReadSectors ELSE WriteSectors) :
             drive' = [phase |-> IF req[t].op = "read" THEN "reading"
                                 ELSE IF SlowDrive THEN "starting" ELSE "data",
                       secs  |-> n]
        /\ irq' = FALSE
     \/ drive.phase = "storing" /\ UNCHANGED <<drive, irq>>
  /\ req' = [req EXCEPT ![t].left = @ - 1]
  /\ Goto(t, to)
  /\ UNCHANGED <<sched, sema, expecting, limit, ticked>>

\* Wrong on purpose: the command is given before expecting_intr is set.
CmdOutLateFlag(t) ==
  GiveCommand(t, "cmd", "out") \/ SetExpecting(t, "out", AfterCmdOut(t))

CmdOut(t) ==
  SetExpecting(t, "cmd", "out") \/ GiveCommand(t, "out", AfterCmdOut(t))

\* Reading goes on with busy_wait, writing is over.
WaitForDisk(t) ==
  Down(t, "done", "done", "waiting", IF req[t].op = "read" THEN "poll" ELSE "next")

-----------------------------------------------------------------------------
\* busy_wait.

\* time_limit -= 10 >= 0, which C reads as time_limit -= (10 >= 0).
Decrement == IF 10 >= 0 THEN 1 ELSE 0

\* Wrong on purpose: no limit.
PollOn(t) ==
  /\ At(t, "poll")
  /\ limit' = limit - Decrement
  /\ ticked' = FALSE
  /\ Goto(t, IF drive.phase \in Busy THEN "nap" ELSE "data")
  /\ UNCHANGED <<sched, sema, channel, req>>

\* Wrong on purpose: DRQ is not asked for.
PollBusyOnly(t) ==
  LET left == limit - Decrement
  IN /\ At(t, "poll")
     /\ sched' = [sched EXCEPT !.ok = left # 0]
     /\ Goto(t, IF left = 0 THEN "failed" ELSE IF drive.phase \in Busy THEN "nap" ELSE "data")
     /\ limit' = IF pc'[t] = "nap" THEN left ELSE TimeLimit
     /\ ticked' = FALSE
     /\ UNCHANGED <<sema, channel, req>>

\* One test of the loop. The kernel panics when the time is up and when the
\* drive is neither busy nor ready for data.
Poll(t) ==
  LET left  == limit - Decrement
      fails == left = 0 \/ drive.phase = "idle"
  IN /\ At(t, "poll")
     /\ sched' = [sched EXCEPT !.ok = ~fails]
     /\ Goto(t, IF fails THEN "failed"
                ELSE IF drive.phase = "data" THEN "data" ELSE "nap")
     /\ limit' = IF pc'[t] = "nap" THEN left ELSE TimeLimit
     /\ ticked' = FALSE
     /\ UNCHANGED <<sema, channel, req>>

\* mtime_sleep(10): yield until a tick has passed.
Nap(t) ==
  /\ At(t, "nap")
  /\ \/ /\ ticked
        /\ Goto(t, "poll")
        /\ UNCHANGED sched
     \/ /\ ~ticked
        /\ sched' = Yield(sched)
        /\ UNCHANGED pc
  /\ UNCHANGED <<sema, channel, req, limit, ticked>>

-----------------------------------------------------------------------------
\* insw and outsw: all sectors of the command in one go, with which the drive keeps up.
\* When one has been transferred and another follows, it asks for an interrupt again.

Transfer(t) ==
  /\ At(t, "data")
  /\ drive' = [drive EXCEPT !.phase = IF req[t].op = "read" THEN "idle" ELSE "storing"]
  /\ irq' = (irq \/ drive.secs > 1)
  /\ Goto(t, IF req[t].op = "read" THEN "next" ELSE "done")
  /\ UNCHANGED <<sched, sema, expecting, req, limit, ticked>>

Release(t) ==
  /\ At(t, "release")
  /\ sched' = SemaUpSched(sched, sema.lock)
  /\ sema' = [sema EXCEPT !.lock = SemaUp(@)]
  /\ Goto(t, "run")
  /\ UNCHANGED <<channel, req, limit, ticked>>

-----------------------------------------------------------------------------
\* The drive: a sector to read is there, there is room for one to write, or
\* what was written is stored.
DriveAnswers ==
  /\ sched.ok
  /\ drive.phase \in Busy
  /\ drive' = [drive EXCEPT !.phase = IF @ = "storing" THEN "idle" ELSE "data"]
  /\ irq' = (irq \/ drive.phase # "starting")
  /\ UNCHANGED <<sched, sema, expecting, pc, req, limit, ticked>>

AcceptInterrupt == sched.ok /\ Interruptible(sched.cur)
AfterHalt == IF pc[sched.cur] = "halt" THEN [pc EXCEPT ![sched.cur] = "loop"] ELSE pc

\* Wrong on purpose: expecting_intr is not asked.
DiskInterruptTrusting ==
  /\ AcceptInterrupt
  /\ irq
  /\ irq' = FALSE
  /\ expecting' = FALSE
  /\ sched' = SemaUpSched(sched, sema.done)
  /\ sema' = [sema EXCEPT !.done = SemaUp(@)]
  /\ pc' = AfterHalt
  /\ UNCHANGED <<drive, req, limit, ticked>>

\* intr_hd_handler.
DiskInterrupt ==
  /\ AcceptInterrupt
  /\ irq
  /\ irq' = FALSE
  /\ expecting' = FALSE
  /\ \/ /\ expecting
        /\ sched' = SemaUpSched(sched, sema.done)
        /\ sema' = [sema EXCEPT !.done = SemaUp(@)]
     \/ ~expecting /\ UNCHANGED <<sched, sema>>
  /\ pc' = AfterHalt
  /\ UNCHANGED <<drive, req, limit, ticked>>

TimerInterrupt ==
  /\ AcceptInterrupt
  /\ sched' = TimerTick(sched)
  /\ ticked' = TRUE
  /\ pc' = AfterHalt
  /\ UNCHANGED <<sema, channel, req, limit>>

IdleBlock ==
  /\ At(Idle, "loop")
  /\ sched' = Block(sched, "BLOCKED")
  /\ Goto(Idle, "halt")
  /\ UNCHANGED <<sema, channel, req, limit, ticked>>

-----------------------------------------------------------------------------
\* What t does inside the driver.
Drives(t) ==
  \/ AcquireChannel(t) \/ NextCommand(t) \/ CmdOut(t) \/ WaitForDisk(t)
  \/ Poll(t) \/ Nap(t) \/ Transfer(t) \/ Release(t)

Next ==
  \/ \E t \in Tasks :
       \/ SystemCall(t) \/ ReturnToUser(t) \/ Drives(t)
       \/ \E o \in {"read", "write"}, n \in 1..MaxCommands : Request(t, o, n)
  \/ IdleBlock
  \/ DriveAnswers \/ DiskInterrupt \/ TimerInterrupt

Spec == Init /\ [][Next]_vars

(***************************************************************************)
(* Fairness.  Code that is on the processor again and again gets on: a     *)
(* time slice is longer than a statement.  System calls end.  The drive    *)
(* answers, and the 8259A keeps a request until interrupts are on.         *)
(***************************************************************************)
Fairness ==
  /\ \A t \in Tasks : SF_vars(Drives(t)) /\ SF_vars(ReturnToUser(t))
  /\ WF_vars(IdleBlock)
  /\ WF_vars(DriveAnswers)
  /\ SF_vars(DiskInterrupt)
  /\ SF_vars(TimerInterrupt)

FairSpec == Spec /\ Fairness

-----------------------------------------------------------------------------
\* In the driver with the lock of the channel; with a command under way.
Commanding == {"out", "done", "waiting", "poll", "nap", "data", "failed"}
InChannel  == Commanding \cup {"next", "cmd", "release"}

\* The handler posts disk_done.
Posts == sema'.done.value > sema.done.value

\* "Do not worry whether this interrupt belongs to this expecting_intr" (device/ide.c:335).
\* It need not: it may be one for a further sector of an earlier command, left over when
\* ide_write returned, and strike between expecting_intr = true and the command.  What the
\* code keeps, however many sectors its commands have: the handler acts upon an interrupt only
\* for a task that has the channel and has set expecting_intr, and never while the drive
\* is still looking for the first sector of the command.
PostedForCommand ==
  [][ Posts => /\ \E t \in Tasks : pc[t] \in Commanding
               /\ drive.phase \notin {"reading", "starting"} ]_vars

\* No data is moved that the drive does not ask for or offer, also when the interrupt
\* that ended the wait was another command's or the drive has ignored the command; and
\* before the next command, and when ide_read or ide_write returns, all of them
\* have been moved: all that may be left for the drive to do is to store.
DataMoved ==
  \A t \in Tasks :
    /\ pc[t] = "data" => drive.phase = "data"
    /\ pc[t] \in {"cmd", "out", "release"} => drive.phase \in {"idle", "storing"}

\* The answer of the drive cannot be missed: who sleeps for it has expecting_intr
\* set and either the drive still works or its interrupt is pending, also when
\* the interrupt strikes between cmd_out and sema_down. Nor does it come twice: no
\* ASSERT fails, disk_done is never posted without a wait in between, and the only
\* panic is that of busy_wait.
AnswerAwaited ==
  /\ sched.ok \/ \E t \in Tasks : pc[t] = "failed"
  /\ \A t \in Tasks :
       pc[t] = "waiting" /\ sched.status[t] = "BLOCKED" =>
         expecting /\ (irq \/ drive.phase \in Busy)

\* "Sleep 10 milliseconds" in busy_wait comes to an end.
NapEnds == \A t \in Tasks : pc[t] = "nap" ~> pc[t] = "poll"

\* Who sleeps for the drive is woken and gets the processor back, whatever the
\* others do and however slow the drive is.
AnswerArrives == \A t \in Tasks : pc[t] = "waiting" ~> pc[t] # "waiting"

-----------------------------------------------------------------------------
\* The inductive invariant from which Device_proofs derives the safety properties
\* above. It says how far the dialogue of the task that has the channel with the
\* drive has got.

PcInv ==
  /\ pc[Idle] \in {"loop", "halt"}
  /\ \A t \in Tasks \ {Idle} : pc[t] \notin {"loop", "halt"}
  /\ sched.ok <=> \A t \in Tasks : pc[t] # "failed"

ChannelInv ==
  /\ sema.lock.value \in {0, 1}
  /\ sema.lock.value = 1 <=> \A t \in Tasks : pc[t] \notin InChannel
  /\ \A t, u \in Tasks : pc[t] \in InChannel /\ pc[u] \in InChannel => t = u

\* The queue of semaphore s holds who sleeps at asleep.
QueueInv(s, asleep) ==
  /\ IsInjective(sema[s].waiters)
  /\ \A t \in Tasks :
       Contains(sema[s].waiters, t) <=> pc[t] = asleep /\ sched.status[t] = "BLOCKED"

\* The interrupt is either still expected or has posted disk_done, be it the drive's answer
\* or one for an earlier sector; as long as it is expected one is to come.
Armed == expecting <=> sema.done.value = 0
Due   == expecting => irq \/ drive.phase \in Busy

\* What the drive does while it has no command that it has taken up.
Past == {"idle", "storing"}

\* Between the command and the end of sema_down.
Awaiting(t) ==
  /\ Armed /\ Due
  /\ drive.phase \in Past \cup (IF req[t].op = "read" THEN {"reading", "data"} ELSE {})

\* Between sema_down and insw; between the command and outsw.
Polling(t) ==
  /\ req[t].op = "read"  => ~expecting /\ sema.done.value = 0
  /\ req[t].op = "write" => Armed
  /\ pc[t] = "data" => drive.phase = "data"

DriveInv ==
  /\ sema.done.value \in {0, 1}
  /\ drive.phase \in {"reading", "starting"} => ~irq
  /\ (\A t \in Tasks : pc[t] \notin Commanding) => ~expecting /\ sema.done.value = 0
  /\ (\A t \in Tasks : pc[t] \notin Commanding \ {"out"}) => drive.phase \in Past
  /\ \A t \in Tasks :
       /\ pc[t] \in {"cmd", "out"} => req[t].left > 0
       /\ pc[t] = "out" => Armed
       /\ pc[t] \in {"done", "waiting"} => Awaiting(t)
       /\ pc[t] \in {"poll", "nap", "data"} => Polling(t)
       /\ pc[t] = "waiting" /\ sched.status[t] = "BLOCKED" => sema.done.value = 0

IInv ==
  /\ TypeOK /\ limit > 0
  /\ WellFormed(sched)
  /\ PcInv /\ ChannelInv
  /\ QueueInv("lock", "queued") /\ QueueInv("done", "waiting")
  /\ DriveInv
=============================================================================
