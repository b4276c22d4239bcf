---------------------------- MODULE Device_proofs -----------------------------
(***************************************************************************)
(* The two drivers of device/ that talk to hardware.                       *)
(* The driver of one disk channel, for every set of tasks, every priority, *)
(* any requests, any number of sectors to a command and any limit of       *)
(* busy_wait: IInv is inductive, and what the driver relies on when it     *)
(* talks to the drive follows from it.                                     *)
(* The keyboard driver, for any number of keys that are down at once and   *)
(* of bytes that are on their way: KeyboardInv is inductive.               *)
(***************************************************************************)
EXTENDS Ide, Keyboard, Scheduler_proofs

Semas == {"lock", "done"}

\* What the proofs need of the constants.
LEMMA Names ==
  /\ Idle \in Tasks /\ Idle \in KernelThreads /\ Idle # First /\ First \in Tasks
  /\ KernelThreads \subseteq Tasks
  BY SchedulerAssumption, IdeAssumption

\* The same of the numbers.
LEMMA Numbers ==
  /\ MaxCommands \in Nat /\ TimeLimit \in Nat /\ TimeLimit > 0
  /\ ReadSectors \subseteq 1..256 /\ WriteSectors \subseteq 1..256
  BY IdeAssumption

\* What TypeOK says of the parts of the state, in the form the steps use it.
LEMMA Types ==
  ASSUME TypeOK
  PROVE  /\ sched \in SchedulerState /\ sched.cur \in Tasks
         /\ sched.status \in [Tasks -> TaskStatus]
         /\ sema \in [Semas -> SemaphoreState]
         /\ \A s \in Semas : sema[s] \in SemaphoreState /\ sema[s].value \in 0..255
         /\ sema.lock = sema["lock"] /\ sema.done = sema["done"]
         /\ drive.phase \in Busy \cup {"idle", "data"} /\ drive.secs \in 0..256
         /\ expecting \in BOOLEAN /\ irq \in BOOLEAN
         /\ \A t \in Tasks : req[t].op \in {"read", "write"} /\ req[t].left \in 0..MaxCommands
  BY StateComponents DEF TypeOK, SemaphoreState, Semas

\* The task that has the channel has it alone, and is not the idle thread.
LEMMA Alone ==
  ASSUME IInv, NEW t \in Tasks, pc[t] \in InChannel
  PROVE  /\ t # Idle
         /\ sema.lock.value = 0
         /\ \A u \in Tasks \ {t} : pc[u] \notin InChannel
  BY DEF IInv, PcInv, ChannelInv, InChannel, Commanding

\* Whoever is on the processor is not blocked.
LEMMA Running ==
  ASSUME IInv
  PROVE  sched.status[sched.cur] = "RUNNING"
  BY Types DEF IInv, WellFormed, OneRunning

\* What Init says of the scheduler.
LEMMA InitSched ==
  ASSUME Init
  PROVE  sched \in SchedulerState /\ WellFormed(sched) /\ sched.ok = TRUE
  <1>1. /\ sched = [cur    |-> First,
                   status |-> [t \in Tasks |-> IF t = First THEN "RUNNING" ELSE "READY"],
                   ready  |-> BootQueue,
                   ticks  |-> Priority,
                   ok     |-> TRUE]
    BY DEF Init
  <1>2. BootQueue \in Seq(Tasks) /\ IsInjective(BootQueue)
        /\ \A t \in Tasks : Contains(BootQueue, t) <=> t # First
    BY IdeAssumption
  <1>3. [t \in Tasks |-> IF t = First THEN "RUNNING" ELSE "READY"] \in [Tasks -> TaskStatus]
    BY DEF TaskStatus
  <1>4. Priority \in [Tasks -> 0..255]
    BY SchedulerAssumption
  <1>5. First \in Tasks /\ Idle \in Tasks
    BY Names
  <1>6. sched \in SchedulerState
    BY <1>1, <1>2, <1>3, <1>4, <1>5 DEF SchedulerState
  <1>7. /\ sched.cur = First /\ sched.ready = BootQueue
        /\ \A t \in Tasks : sched.status[t] = IF t = First THEN "RUNNING" ELSE "READY"
        /\ sched.ok = TRUE
    BY <1>1
  <1> QED
    BY <1>2, <1>5, <1>6, <1>7 DEF WellFormed, OneRunning, ReadyListExact, IdleAvailable

\* What Init says of the program counters.
LEMMA InitPc ==
  ASSUME Init
  PROVE  /\ pc \in [Tasks -> {"loop", "run", "user"}] /\ pc[Idle] = "loop"
         /\ \A t \in Tasks \ {Idle} : pc[t] \in {"run", "user"}
  <1>1. pc = [t \in Tasks |-> IF t = Idle THEN "loop"
                                  ELSE IF t \in KernelThreads THEN "run" ELSE "user"]
    BY DEF Init
  <1>2. \A t \in Tasks : pc[t] = IF t = Idle THEN "loop"
                                  ELSE IF t \in KernelThreads THEN "run" ELSE "user"
    BY <1>1
  <1>3. pc \in [Tasks -> {"loop", "run", "user"}]
    BY <1>1
  <1> QED
    BY <1>2, <1>3, SchedulerAssumption

\* What Init says of the channel.
LEMMA InitChannel ==
  ASSUME Init
  PROVE  /\ sema \in [Semas -> SemaphoreState]
         /\ sema["lock"] = SemaInit(1) /\ sema["done"] = SemaInit(0)
         /\ expecting = FALSE /\ drive = [phase |-> "idle", secs |-> 0]
         /\ irq = FALSE /\ limit = TimeLimit /\ ticked = FALSE
         /\ req = [t \in Tasks |-> [op |-> "read", left |-> 0]]
  <1>1. SemaInit(1) \in SemaphoreState /\ SemaInit(0) \in SemaphoreState
    BY DEF SemaInit, SemaphoreState
  <1>2. sema = [lock |-> SemaInit(1), done |-> SemaInit(0)]
    BY DEF Init
  <1>3. sema["lock"] = SemaInit(1) /\ sema["done"] = SemaInit(0)
    BY <1>2
  <1>4. sema \in [Semas -> SemaphoreState]
    BY <1>1, <1>2 DEF Semas
  <1> QED
    BY <1>3, <1>4 DEF Init

\* IInv holds once the drives have been identified.
THEOREM InitIInv == Init => IInv
  <1> SUFFICES ASSUME Init PROVE IInv
    OBVIOUS
  <1> HIDE DEF Init
  <1>1. TypeOK
    <2>1. pc \in [Tasks -> Pcs]
      BY InitPc DEF Pcs
    <2>2. drive \in [phase : Busy \cup {"idle", "data"}, secs : 0..256]
      BY InitChannel
    <2>3. req \in [Tasks -> [op : {"read", "write"}, left : 0..MaxCommands]]
      <3>1. [op |-> "read", left |-> 0] \in [op : {"read", "write"}, left : 0..MaxCommands]
        BY Numbers
      <3> QED
        BY <3>1, InitChannel
    <2>4. limit \in 0..TimeLimit
      BY InitChannel, Numbers
    <2> QED
      BY <2>1, <2>2, <2>3, <2>4, InitSched, InitChannel DEF TypeOK, Semas
  <1>2. limit > 0
    BY InitChannel, Numbers
  <1>3. PcInv
    BY InitPc, InitSched DEF PcInv
  <1>4. \A t \in Tasks : pc[t] \in {"loop", "run", "user"}
    BY InitPc
  <1>5. ChannelInv
    BY <1>4, InitChannel DEF ChannelInv, InChannel, Commanding, SemaInit
  <1>6. QueueInv("lock", "queued") /\ QueueInv("done", "waiting")
    BY <1>4, InitChannel DEF QueueInv, SemaInit, IsInjective, Contains
  <1>7. DriveInv
    BY <1>4, InitChannel DEF DriveInv, Past, Commanding, SemaInit
  <1> QED
    BY <1>1, <1>2, <1>3, <1>5, <1>6, <1>7, InitSched DEF IInv

-----------------------------------------------------------------------------
\* What a step does to the scheduler and to the two semaphores.

\* The two ways to write a component of sema mean the same.
LEMMA Fields ==
  ASSUME NEW x \in [Semas -> SemaphoreState]
  PROVE  x.lock = x["lock"] /\ x.done = x["done"]
  BY DEF Semas

Asleep(s) == IF s = "lock" THEN "queued" ELSE "waiting"

\* The part of IInv that is about the scheduler and the queues.
ParkingInv ==
  /\ sched \in SchedulerState /\ WellFormed(sched)
  /\ sema \in [Semas -> SemaphoreState]
  /\ QueueInv("lock", "queued") /\ QueueInv("done", "waiting")

LEMMA ParkingInvHolds == IInv => ParkingInv
  BY DEF IInv, ParkingInv, TypeOK, Semas

\* What moving one task does to pc.
LEMMA GotoLemma ==
  ASSUME TypeOK, NEW t \in Tasks, NEW loc \in Pcs, Goto(t, loc)
  PROVE  /\ pc' \in [Tasks -> Pcs] /\ pc'[t] = loc
         /\ \A u \in Tasks \ {t} : pc'[u] = pc[u]
  BY DEF TypeOK, Goto

\* A step that leaves the semaphores alone and parks and wakes no task that is
\* asleep, before it or after it, in a sema_down.
LEMMA ParkingFrame ==
  ASSUME ParkingInv, UNCHANGED sema, sched' \in SchedulerState, WellFormed(sched'),
         \A u \in Tasks, asleep \in {"queued", "waiting"} :
           pc'[u] = asleep /\ sched'.status[u] = "BLOCKED" <=>
             pc[u] = asleep /\ sched.status[u] = "BLOCKED"
  PROVE  ParkingInv'
  <1>1. QueueInv("lock", "queued")' /\ QueueInv("done", "waiting")'
    BY DEF ParkingInv, QueueInv
  <1> QED
    BY <1>1 DEF ParkingInv

\* sema_down, value 0: the task on the processor is parked.
LEMMA DownSleeps ==
  ASSUME IInv, NEW s \in Semas, NEW t \in Tasks \ {Idle}, sched.cur = t,
         sema[s].value = 0,
         sched' = SemaWaitSched(sched, sema[s]),
         sema' = [sema EXCEPT ![s] = SemaWait(@, t)],
         Goto(t, Asleep(s))
  PROVE  /\ ParkingInv'
         /\ sched'.ok = sched.ok /\ sched'.status[t] = "BLOCKED"
         /\ \A u \in Tasks \ {Idle, t} :
              sched'.status[u] = "BLOCKED" <=> sched.status[u] = "BLOCKED"
         /\ \A r \in Semas : sema'[r].value = sema[r].value
  <1> DEFINE q == SemaWait(sema[s], sched.cur)
  <1>1. /\ sched \in SchedulerState /\ WellFormed(sched)
        /\ \A r \in Semas : sema[r] \in SemaphoreState
        /\ sema \in [Semas -> SemaphoreState]
    BY Types DEF IInv
  <1>2. QueueInv(s, Asleep(s))
    BY DEF IInv, Semas, Asleep
  <1>3. sched.status[t] # "BLOCKED"
    BY Running
  <1>4. IsInjective(sema[s].waiters) /\ ~Contains(sema[s].waiters, sched.cur)
    BY <1>2, <1>3 DEF QueueInv
  <1>5. /\ sched' \in SchedulerState /\ sched'.ok = sched.ok /\ WellFormed(sched')
        /\ sched'.status[t] = "BLOCKED"
        /\ \A u \in Tasks \ {Idle, t} :
             sched.status[u] = "BLOCKED" <=> sched'.status[u] = "BLOCKED"
        /\ q \in SemaphoreState /\ q.value = sema[s].value /\ IsInjective(q.waiters)
        /\ \A u : Contains(q.waiters, u) <=> Contains(sema[s].waiters, u) \/ u = t
    <2>1. "BLOCKED" \in Parked \cup {"DIED"} /\ sched.cur # Idle /\ sema[s] \in SemaphoreState
      BY <1>1 DEF Parked
    <2>2. sched' = SemaWaitSched(sched, sema[s])
      OBVIOUS
    <2> QED
      BY <1>1, <1>4, <2>1, <2>2, SemaWaitLemma
  <1> HIDE DEF q
  <1>6. sema' = [sema EXCEPT ![s] = q]
    BY DEF q
  <1>7. /\ sema' \in [Semas -> SemaphoreState] /\ sema'[s] = q
        /\ \A r \in Semas \ {s} : sema'[r] = sema[r]
    BY <1>1, <1>5, <1>6
  <1>8. Asleep(s) \in {"queued", "waiting"}
    BY DEF Asleep
  <1>9. pc'[t] = Asleep(s) /\ \A u \in Tasks \ {t} : pc'[u] = pc[u]
    BY <1>8, GotoLemma DEF IInv, Pcs
  <1>10. pc[Idle] \notin {"queued", "waiting"}
    BY DEF IInv, PcInv
  <1>11. ASSUME NEW r \in Semas
         PROVE  QueueInv(r, Asleep(r))'
    <2>1. QueueInv(r, Asleep(r))
      BY DEF IInv, Semas, Asleep
    <2>2. r # s => Asleep(r) # Asleep(s)
      BY DEF Semas, Asleep
    <2>3. Asleep(r)' = Asleep(r) /\ Asleep(r) \in {"queued", "waiting"}
      BY DEF Asleep
    <2>4. CASE r = s
      BY <2>1, <2>3, <2>4, <1>5, <1>7, <1>9, <1>10 DEF QueueInv
    <2>5. CASE r # s
      <3>1. sema'[r] = sema[r]
        BY <2>5, <1>7
      <3>2. pc[t] # Asleep(r) \/ sched.status[t] # "BLOCKED"
        BY <1>3
      <3> QED
        BY <2>1, <2>2, <2>3, <2>5, <3>1, <3>2, <1>5, <1>9, <1>10 DEF QueueInv
    <2> QED
      BY <2>4, <2>5
  <1>12. QueueInv("lock", "queued")' /\ QueueInv("done", "waiting")'
    BY <1>11 DEF Semas, Asleep
  <1> QED
    BY <1>5, <1>7, <1>12 DEF ParkingInv

\* sema_down, value 1: the task on the processor takes it.
LEMMA DownTakes ==
  ASSUME IInv, NEW s \in Semas, NEW t \in Tasks \ {Idle}, sched.cur = t,
         sema[s].value = 1,
         sched' = SemaTakeSched(sched, sema[s]),
         sema' = [sema EXCEPT ![s] = SemaTake(@)],
         NEW loc \in Pcs \ {"queued", "waiting"}, Goto(t, loc)
  PROVE  /\ ParkingInv'
         /\ sched'.ok = sched.ok /\ sched'.cur = t /\ sched'.status = sched.status
         /\ sema'[s].value = 0
         /\ \A r \in Semas \ {s} : sema'[r].value = sema[r].value
  <1> DEFINE q == SemaTake(sema[s])
  <1>1. /\ sched \in SchedulerState /\ WellFormed(sched)
        /\ sema[s] \in SemaphoreState
        /\ sema \in [Semas -> SemaphoreState]
    BY Types DEF IInv
  <1>2. sched' = SemaTakeSched(sched, sema[s])
    OBVIOUS
  <1>3. /\ sched' \in SchedulerState /\ sched'.ok = sched.ok /\ sched'.cur = t
        /\ sched'.status = sched.status /\ WellFormed(sched')
        /\ q \in SemaphoreState /\ q.value = 0 /\ q.waiters = sema[s].waiters
    BY <1>1, <1>2, SemaTakeLemma
  <1>4. sema' = [sema EXCEPT ![s] = q]
    OBVIOUS
  <1> HIDE DEF q
  <1>5. /\ sema' \in [Semas -> SemaphoreState] /\ sema'[s] = q
        /\ \A r \in Semas \ {s} : sema'[r] = sema[r]
    BY <1>1, <1>3, <1>4
  <1>6. \A r \in Semas : sema'[r].waiters = sema[r].waiters
    BY <1>3, <1>5
  <1>7. pc'[t] = loc /\ \A u \in Tasks \ {t} : pc'[u] = pc[u]
    BY GotoLemma DEF IInv
  <1>8. sched.status[t] # "BLOCKED"
    BY Running
  <1>9. \A u \in Tasks, asleep \in {"queued", "waiting"} :
          pc'[u] = asleep /\ sched'.status[u] = "BLOCKED" <=>
            pc[u] = asleep /\ sched.status[u] = "BLOCKED"
    BY <1>3, <1>7, <1>8
  <1>10. QueueInv("lock", "queued")' /\ QueueInv("done", "waiting")'
    BY <1>6, <1>9 DEF IInv, QueueInv, Semas
  <1> QED
    BY <1>3, <1>5, <1>10 DEF ParkingInv

\* sema_up, value 0, by a step that moves nobody into or out of a sema_down: W
\* holds the task that is woken, if there is one.
LEMMA UpWakes ==
  ASSUME IInv, NEW s \in Semas,
         sema[s].value = 0,
         sched' = SemaUpSched(sched, sema[s]),
         sema' = [sema EXCEPT ![s] = SemaUp(@)],
         \A u \in Tasks, asleep \in {"queued", "waiting"} :
           pc'[u] = asleep /\ sched.status[u] = "BLOCKED" <=>
             pc[u] = asleep /\ sched.status[u] = "BLOCKED"
  PROVE  /\ ParkingInv'
         /\ sched'.ok = sched.ok /\ sched'.cur = sched.cur
         /\ \A u \in Tasks : sched'.status[u] = "BLOCKED" => sched.status[u] = "BLOCKED"
         /\ sema'[s].value = 1
         /\ \A r \in Semas \ {s} : sema'[r].value = sema[r].value
         /\ (\E u \in Tasks : pc[u] = Asleep(s) /\ sched.status[u] = "BLOCKED") =>
              \E u \in Tasks : pc[u] = Asleep(s) /\ sched'.status[u] # "BLOCKED"
  <1> DEFINE q == SemaUp(sema[s])
             r == SemaUpSched(sched, sema[s])
  <1>1. /\ sched \in SchedulerState /\ WellFormed(sched)
        /\ sema[s] \in SemaphoreState
        /\ sema \in [Semas -> SemaphoreState]
    BY Types DEF IInv
  <1>2. \A x \in Semas : QueueInv(x, Asleep(x))
    BY DEF IInv, Semas, Asleep
  <1>3. /\ IsInjective(sema[s].waiters)
        /\ \A u \in Tasks : Contains(sema[s].waiters, u) => sched.status[u] = "BLOCKED"
    BY <1>2 DEF QueueInv
  <1>4. /\ r \in SchedulerState /\ r.ok = sched.ok /\ r.cur = sched.cur
        /\ WellFormed(r)
        /\ q \in SemaphoreState /\ q.value = 1 /\ IsInjective(q.waiters)
        /\ \E W \in SUBSET Tasks :
              /\ sema[s].waiters # <<>> => W # {}
              /\ \A u \in W : Contains(sema[s].waiters, u) /\ r.status[u] = "READY"
              /\ \A u \in Tasks \ W : r.status[u] = sched.status[u]
              /\ \A u \in Tasks : Contains(q.waiters, u) <=>
                                    Contains(sema[s].waiters, u) /\ u \notin W
    BY <1>1, <1>3, SemaUpLemma
  <1>5. sema' = [sema EXCEPT ![s] = q] /\ sched' = r
    OBVIOUS
  <1> HIDE DEF q, r
  <1>6. PICK W \in SUBSET Tasks :
              /\ sema[s].waiters # <<>> => W # {}
              /\ \A u \in W : Contains(sema[s].waiters, u) /\ sched'.status[u] = "READY"
              /\ \A u \in Tasks \ W : sched'.status[u] = sched.status[u]
              /\ \A u \in Tasks : Contains(q.waiters, u) <=>
                                    Contains(sema[s].waiters, u) /\ u \notin W
    BY <1>4, <1>5
  <1>7. /\ sema' \in [Semas -> SemaphoreState] /\ sema'[s] = q
        /\ \A x \in Semas \ {s} : sema'[x] = sema[x]
    BY <1>1, <1>4, <1>5
  <1>8. \A u \in W : pc[u] = Asleep(s) /\ sched.status[u] = "BLOCKED"
    BY <1>2, <1>6 DEF QueueInv
  <1>9. ASSUME NEW x \in Semas
        PROVE  QueueInv(x, Asleep(x))'
    <2>1. Asleep(x)' = Asleep(x) /\ Asleep(x) \in {"queued", "waiting"}
      BY DEF Asleep
    <2>2. x # s => Asleep(x) # Asleep(s)
      BY DEF Semas, Asleep
    <2>3. \A u \in Tasks : pc'[u] = Asleep(x) /\ sched'.status[u] = "BLOCKED" <=>
                             /\ pc[u] = Asleep(x) /\ sched.status[u] = "BLOCKED"
                             /\ u \notin W
      BY <1>6, <2>1
    <2>4. CASE x = s
      BY <1>2, <1>4, <1>6, <1>7, <2>1, <2>3, <2>4 DEF QueueInv
    <2>5. CASE x # s
      BY <1>2, <1>7, <1>8, <2>1, <2>2, <2>3, <2>5 DEF QueueInv
    <2> QED
      BY <2>4, <2>5
  <1>10. QueueInv("lock", "queued")' /\ QueueInv("done", "waiting")'
    BY <1>9 DEF Semas, Asleep
  <1>11. ASSUME NEW u \in Tasks, pc[u] = Asleep(s), sched.status[u] = "BLOCKED"
         PROVE  \E v \in Tasks : pc[v] = Asleep(s) /\ sched'.status[v] # "BLOCKED"
    <2>1. Contains(sema[s].waiters, u)
      BY <1>2, <1>11 DEF QueueInv
    <2>2. sema[s].waiters # <<>>
      BY <2>1 DEF Contains
    <2>3. PICK v \in W : TRUE
      BY <1>6, <2>2
    <2> QED
      BY <1>6, <1>8, <2>3
  <1> QED
    BY <1>4, <1>5, <1>6, <1>7, <1>10, <1>11 DEF ParkingInv

-----------------------------------------------------------------------------
\* What a step leaves alone.

\* A step of task t on the way to loc.
LEMMA StepOfTask ==
  ASSUME IInv, NEW t \in Tasks \ {Idle},
         NEW loc \in Pcs \ {"loop", "halt", "failed"}, Goto(t, loc),
         sched.ok, sched'.ok
  PROVE  /\ pc' \in [Tasks -> Pcs] /\ pc'[t] = loc
         /\ \A u \in Tasks \ {t} : pc'[u] = pc[u]
         /\ PcInv'
  <1>1. /\ pc' \in [Tasks -> Pcs] /\ pc'[t] = loc
        /\ \A u \in Tasks \ {t} : pc'[u] = pc[u]
    BY GotoLemma DEF IInv
  <1>2. PcInv'
    BY <1>1, Names DEF IInv, PcInv
  <1> QED
    BY <1>1, <1>2

\* A step on which nobody enters or leaves the driver.
LEMMA ChannelFrame ==
  ASSUME IInv, sema'.lock.value = sema.lock.value,
         \A u \in Tasks : pc'[u] \in InChannel <=> pc[u] \in InChannel
  PROVE  ChannelInv'
  BY DEF IInv, ChannelInv

\* A step that leaves the drive and disk_done alone, and who has a command under
\* way where he is.
LEMMA DriveFrame ==
  ASSUME IInv, UNCHANGED channel, sema'.done.value = sema.done.value,
         \A u \in Tasks :
           /\ pc[u] \in Commanding \/ pc'[u] \in Commanding =>
                pc'[u] = pc[u] /\ req'[u] = req[u]
           /\ pc'[u] = "cmd" => req'[u].left > 0
           /\ pc'[u] = "waiting" /\ sched'.status[u] = "BLOCKED" =>
                sched.status[u] = "BLOCKED"
  PROVE  DriveInv'
  <1>1. DriveInv
    BY DEF IInv
  <1>2. expecting' = expecting /\ drive' = drive /\ irq' = irq
    BY DEF channel
  <1>3. /\ (\A u \in Tasks : pc'[u] \notin Commanding) => ~expecting' /\ sema'.done.value = 0
        /\ (\A u \in Tasks : pc'[u] \notin Commanding \ {"out"}) => drive'.phase \in Past
    BY <1>1, <1>2 DEF DriveInv
  <1>4. ASSUME NEW u \in Tasks, pc'[u] \in Commanding
        PROVE  /\ pc'[u] = "out" => req'[u].left > 0 /\ Armed'
               /\ pc'[u] \in {"done", "waiting"} => Awaiting(u)'
               /\ pc'[u] \in {"poll", "nap", "data"} => Polling(u)'
               /\ pc'[u] = "waiting" /\ sched'.status[u] = "BLOCKED" => sema'.done.value = 0
    <2>1. pc'[u] = pc[u] /\ req'[u] = req[u]
      BY <1>4
    <2> QED
      BY <1>1, <1>2, <2>1 DEF DriveInv, Armed, Due, Awaiting, Polling
  <1>5. \A u \in Tasks : pc'[u] \in {"out", "done", "waiting", "poll", "nap", "data"} =>
                           pc'[u] \in Commanding
    BY DEF Commanding
  <1> QED
    BY <1>1, <1>2, <1>3, <1>4, <1>5 DEF DriveInv

\* A step that leaves the processor and the semaphores alone.
LEMMA SchedFrame ==
  ASSUME IInv, NEW t \in Tasks, sched.cur = t, UNCHANGED <<sched, sema>>,
         \A u \in Tasks \ {t} : pc'[u] = pc[u]
  PROVE  ParkingInv'
  <1>1. sched.status[t] # "BLOCKED"
    BY Running
  <1> QED
    BY <1>1, ParkingInvHolds, ParkingFrame DEF ParkingInv

-----------------------------------------------------------------------------
\* The steps that keep IInv.

\* What remains to be said of a step that keeps the other parts.
LEMMA Together ==
  ASSUME IInv, ParkingInv', PcInv', ChannelInv', DriveInv',
         expecting' \in BOOLEAN, irq' \in BOOLEAN, ticked' \in BOOLEAN,
         drive' \in [phase : Busy \cup {"idle", "data"}, secs : 0..256],
         pc' \in [Tasks -> Pcs],
         req' \in [Tasks -> [op : {"read", "write"}, left : 0..MaxCommands]],
         limit' \in 0..TimeLimit, limit' > 0
  PROVE  IInv'
  <1>1. TypeOK'
    BY DEF TypeOK, ParkingInv, Semas
  <1> QED
    BY <1>1 DEF IInv, ParkingInv

\* The way into and out of kernel code.
LEMMA UserKeeps ==
  ASSUME IInv, NEW t \in Tasks, SystemCall(t) \/ ReturnToUser(t)
  PROVE  IInv'
  <1>1. PICK loc \in {"run", "user"} : Goto(t, loc)
    BY DEF SystemCall, ReturnToUser
  <1>2. /\ sched.ok /\ sched.cur = t /\ pc[t] \in {"run", "user"}
        /\ UNCHANGED <<sched, sema, channel, req, limit, ticked>>
    BY DEF SystemCall, ReturnToUser, At
  <1>3. t # Idle /\ loc \in Pcs \ {"loop", "halt", "failed"}
    BY <1>2 DEF IInv, PcInv, Pcs
  <1>4. /\ pc' \in [Tasks -> Pcs] /\ pc'[t] = loc
        /\ \A u \in Tasks \ {t} : pc'[u] = pc[u]
        /\ PcInv'
    BY <1>1, <1>2, <1>3, StepOfTask
  <1>5. ParkingInv'
    BY <1>2, <1>4, SchedFrame
  <1>6. ChannelInv'
    BY <1>2, <1>4, ChannelFrame DEF InChannel, Commanding
  <1>7. DriveInv'
    <2>1. \A u \in Tasks : pc[u] = "cmd" => req[u].left > 0
      BY DEF IInv, DriveInv
    <2> QED
      BY <1>2, <1>4, <2>1, DriveFrame DEF Commanding
  <1> QED
    BY <1>2, <1>4, <1>5, <1>6, <1>7, Together DEF IInv, TypeOK, channel

\* The call of ide_read or ide_write.
LEMMA RequestKeeps ==
  ASSUME IInv, NEW t \in Tasks, NEW o \in {"read", "write"}, NEW n \in 1..MaxCommands,
         Request(t, o, n)
  PROVE  IInv'
  <1>1. /\ sched.ok /\ sched.cur = t /\ pc[t] = "run" /\ t # Idle /\ Goto(t, "lock")
        /\ req' = [req EXCEPT ![t] = [op |-> o, left |-> n]]
        /\ UNCHANGED <<sched, sema, channel, limit, ticked>>
    BY DEF Request, At
  <1>2. /\ pc' \in [Tasks -> Pcs] /\ pc'[t] = "lock"
        /\ \A u \in Tasks \ {t} : pc'[u] = pc[u]
        /\ PcInv'
    BY <1>1, StepOfTask DEF Pcs
  <1>3. [op |-> o, left |-> n] \in [op : {"read", "write"}, left : 0..MaxCommands]
    BY Numbers
  <1>4. /\ req' \in [Tasks -> [op : {"read", "write"}, left : 0..MaxCommands]]
        /\ \A u \in Tasks \ {t} : req'[u] = req[u]
    BY <1>1, <1>3 DEF IInv, TypeOK
  <1>5. ParkingInv'
    BY <1>1, <1>2, SchedFrame
  <1>6. ChannelInv'
    BY <1>1, <1>2, ChannelFrame DEF InChannel, Commanding
  <1>7. DriveInv'
    <2>1. \A u \in Tasks : pc[u] = "cmd" => req[u].left > 0
      BY DEF IInv, DriveInv
    <2> QED
      BY <1>1, <1>2, <1>4, <2>1, DriveFrame DEF Commanding
  <1> QED
    BY <1>1, <1>2, <1>4, <1>5, <1>6, <1>7, Together DEF IInv, TypeOK, channel

\* lock_acquire of the channel.
LEMMA AcquireKeeps ==
  ASSUME IInv, NEW t \in Tasks, AcquireChannel(t)
  PROVE  IInv'
  <1>1. /\ sched.ok /\ sched.cur = t /\ pc[t] \in {"lock", "queued"}
        /\ UNCHANGED <<channel, req, limit, ticked>>
    BY DEF AcquireChannel, Down, At
  <1>2. t \in Tasks \ {Idle}
    BY <1>1 DEF IInv, PcInv
  <1>3. /\ sema.lock = sema["lock"] /\ sema.done = sema["done"]
        /\ sema \in [Semas -> SemaphoreState] /\ {"lock", "done"} = Semas
        /\ sema.lock.value \in {0, 1}
    BY Types DEF IInv, ChannelInv, Semas
  <1>4. \A u \in Tasks : pc[u] = "cmd" => req[u].left > 0
    BY DEF IInv, DriveInv
  <1>5. CASE sema["lock"].value = 0
    <2>1. /\ sched' = SemaWaitSched(sched, sema["lock"])
          /\ sema' = [sema EXCEPT !["lock"] = SemaWait(@, t)]
          /\ Goto(t, "queued")
      BY <1>5 DEF AcquireChannel, Down
    <2>2. /\ ParkingInv'
          /\ sched'.ok = sched.ok /\ sched'.status[t] = "BLOCKED"
          /\ \A u \in Tasks \ {Idle, t} :
               sched'.status[u] = "BLOCKED" <=> sched.status[u] = "BLOCKED"
          /\ \A r \in Semas : sema'[r].value = sema[r].value
      BY <1>1, <1>2, <1>3, <1>5, <2>1, DownSleeps DEF Asleep
    <2>3. sema'.lock.value = sema.lock.value /\ sema'.done.value = sema.done.value
      BY <1>3, <2>2, Fields DEF ParkingInv
    <2>4. /\ pc' \in [Tasks -> Pcs] /\ pc'[t] = "queued"
          /\ \A u \in Tasks \ {t} : pc'[u] = pc[u]
          /\ PcInv'
      BY <1>1, <1>2, <2>1, <2>2, StepOfTask DEF Pcs
    <2>5. ChannelInv'
      BY <1>1, <2>3, <2>4, ChannelFrame DEF InChannel, Commanding
    <2>6. pc[Idle] # "waiting"
      BY DEF IInv, PcInv
    <2>7. DriveInv'
      BY <1>1, <1>4, <2>2, <2>3, <2>4, <2>6, DriveFrame DEF Commanding
    <2> QED
      BY <1>1, <2>2, <2>4, <2>5, <2>7, Together DEF IInv, TypeOK, channel
  <1>6. CASE sema["lock"].value = 1
    <2>1. /\ sched' = SemaTakeSched(sched, sema["lock"])
          /\ sema' = [sema EXCEPT !["lock"] = SemaTake(@)]
          /\ Goto(t, "next")
      BY <1>6 DEF AcquireChannel, Down
    <2>2. /\ ParkingInv'
          /\ sched'.ok = sched.ok /\ sched'.cur = t /\ sched'.status = sched.status
          /\ sema'["lock"].value = 0
          /\ sema'["done"].value = sema["done"].value
      BY <1>1, <1>2, <1>3, <1>6, <2>1, DownTakes DEF Pcs, Semas
    <2>3. sema'.lock.value = 0 /\ sema'.done.value = sema.done.value
      BY <1>3, <2>2, Fields DEF ParkingInv
    <2>4. /\ pc' \in [Tasks -> Pcs] /\ pc'[t] = "next"
          /\ \A u \in Tasks \ {t} : pc'[u] = pc[u]
          /\ PcInv'
      BY <1>1, <1>2, <2>1, <2>2, StepOfTask DEF Pcs
    <2>5. ChannelInv'
      <3>1. \A u \in Tasks : pc[u] \notin InChannel
        BY <1>3, <1>6 DEF IInv, ChannelInv
      <3> QED
        BY <2>3, <2>4, <3>1 DEF ChannelInv, InChannel
    <2>6. DriveInv'
      BY <1>1, <1>4, <2>2, <2>3, <2>4, DriveFrame DEF Commanding
    <2> QED
      BY <1>1, <2>2, <2>4, <2>5, <2>6, Together DEF IInv, TypeOK, channel
  <1> QED
    BY <1>3, <1>5, <1>6

\* The head of the loop over the commands.
LEMMA NextCommandKeeps ==
  ASSUME IInv, NEW t \in Tasks, NextCommand(t)
  PROVE  IInv'
  <1> DEFINE loc == IF req[t].left > 0 THEN "cmd" ELSE "release"
  <1>1. /\ sched.ok /\ sched.cur = t /\ pc[t] = "next" /\ Goto(t, loc)
        /\ UNCHANGED <<sched, sema, channel, req, limit, ticked>>
    BY DEF NextCommand, At
  <1>2. loc \in {"cmd", "release"} /\ (loc = "cmd" => req[t].left > 0)
    OBVIOUS
  <1> HIDE DEF loc
  <1>3. t \in Tasks \ {Idle}
    BY <1>1 DEF IInv, PcInv
  <1>4. /\ pc' \in [Tasks -> Pcs] /\ pc'[t] = loc
        /\ \A u \in Tasks \ {t} : pc'[u] = pc[u]
        /\ PcInv'
    BY <1>1, <1>2, <1>3, StepOfTask DEF Pcs
  <1>5. ParkingInv'
    BY <1>1, <1>4, SchedFrame
  <1>6. ChannelInv'
    BY <1>1, <1>2, <1>4, ChannelFrame DEF InChannel, Commanding
  <1>7. DriveInv'
    <2>1. \A u \in Tasks : pc[u] = "cmd" => req[u].left > 0
      BY DEF IInv, DriveInv
    <2> QED
      BY <1>1, <1>2, <1>4, <2>1, DriveFrame DEF Commanding
  <1> QED
    BY <1>1, <1>4, <1>5, <1>6, <1>7, Together DEF IInv, TypeOK, channel

\* The task that has the channel alone is in DriveInv when it says so for itself.
LEMMA DriveOfOwner ==
  ASSUME IInv, NEW t \in Tasks, pc[t] \in InChannel,
         \A u \in Tasks \ {t} : pc'[u] = pc[u],
         sema'.done.value \in {0, 1},
         drive'.phase \in {"reading", "starting"} => ~irq',
         pc'[t] \notin Commanding => ~expecting' /\ sema'.done.value = 0,
         pc'[t] \notin Commanding \ {"out"} => drive'.phase \in Past,
         pc'[t] \in {"cmd", "out"} => req'[t].left > 0,
         pc'[t] = "out" => Armed',
         pc'[t] \in {"done", "waiting"} => Awaiting(t)',
         pc'[t] \in {"poll", "nap", "data"} => Polling(t)',
         pc'[t] = "waiting" /\ sched'.status[t] = "BLOCKED" => sema'.done.value = 0
  PROVE  DriveInv'
  <1>1. \A u \in Tasks \ {t} : pc'[u] \notin InChannel
    BY Alone
  <1>2. \A u \in Tasks : u # t => pc'[u] \notin {"cmd", "out", "done", "waiting", "poll", "nap", "data"}
    BY <1>1 DEF InChannel, Commanding
  <1> QED
    BY <1>2 DEF DriveInv

\* expecting_intr = true.
LEMMA SetExpectingKeeps ==
  ASSUME IInv, NEW t \in Tasks, SetExpecting(t, "cmd", "out")
  PROVE  IInv'
  <1>1. /\ sched.ok /\ sched.cur = t /\ pc[t] = "cmd"
        /\ expecting' = TRUE /\ Goto(t, "out")
        /\ UNCHANGED <<sched, sema, drive, irq, req, limit, ticked>>
    BY DEF SetExpecting, At
  <1>2. /\ t \in Tasks \ {Idle} /\ pc[t] \in InChannel
        /\ \A u \in Tasks \ {t} : pc[u] \notin InChannel
    BY <1>1, Alone DEF InChannel
  <1>3. /\ pc' \in [Tasks -> Pcs] /\ pc'[t] = "out"
        /\ \A u \in Tasks \ {t} : pc'[u] = pc[u]
        /\ PcInv'
    BY <1>1, <1>2, StepOfTask DEF Pcs
  <1>4. ParkingInv'
    BY <1>1, <1>3, SchedFrame
  <1>5. ChannelInv'
    BY <1>1, <1>3, ChannelFrame DEF InChannel, Commanding
  <1>6. /\ sema.done.value = 0 /\ drive.phase \in Past /\ req[t].left > 0
        /\ drive.phase \in {"reading", "starting"} => ~irq
    BY <1>1, <1>2 DEF IInv, DriveInv, InChannel, Commanding
  <1>7. Armed'
    BY <1>1, <1>6 DEF Armed
  <1>8. DriveInv'
    BY <1>1, <1>2, <1>3, <1>6, <1>7, DriveOfOwner DEF Commanding
  <1> QED
    BY <1>1, <1>3, <1>4, <1>5, <1>8, Together DEF IInv, TypeOK

\* What the drive, and its interrupt request, are after a command to it: it has
\* taken it up, or stores what it was given before.
LEMMA CommandedDrive ==
  ASSUME IInv, NEW t \in Tasks, GiveCommand(t, "out", AfterCmdOut(t))
  PROVE  /\ drive' \in [phase : Busy \cup {"idle", "data"}, secs : 0..256]
         /\ irq' \in BOOLEAN
         /\ drive'.phase \in {"reading", "starting"} => ~irq'
         /\ req[t].op = "read" => drive'.phase \in {"reading", "storing"}
  <1>1. CASE drive.phase = "storing" /\ UNCHANGED <<drive, irq>>
    BY SMTT(20), <1>1 DEF IInv, TypeOK
  <1>2. CASE /\ irq' = FALSE
             /\ \E n \in (IF req[t].op = "read" THEN ReadSectors ELSE WriteSectors) :
                  drive' = [phase |-> IF req[t].op = "read" THEN "reading"
                                      ELSE IF SlowDrive THEN "starting" ELSE "data",
                            secs  |-> n]
    <2>1. PICK n \in 1..256 :
             drive' = [phase |-> IF req[t].op = "read" THEN "reading"
                                 ELSE IF SlowDrive THEN "starting" ELSE "data",
                       secs  |-> n]
      BY <1>2, Numbers
    <2>2. \E p \in {"reading", "starting", "data"} :
             /\ drive' = [phase |-> p, secs |-> n]
             /\ req[t].op = "read" => p = "reading"
      <3>1. CASE req[t].op = "read"
        BY <2>1, <3>1
      <3>2. CASE req[t].op # "read" /\ SlowDrive
        BY <2>1, <3>2
      <3>3. CASE req[t].op # "read" /\ ~SlowDrive
        BY <2>1, <3>3
      <3> QED
        BY <3>1, <3>2, <3>3
    <2>3. PICK p \in {"reading", "starting", "data"} :
             /\ drive' = [phase |-> p, secs |-> n]
             /\ req[t].op = "read" => p = "reading"
      BY <2>2
    <2>4. drive'.phase = p /\ n \in 0..256
      BY <2>3
    <2> QED
      BY <1>2, <2>3, <2>4 DEF Busy
  <1> QED
    BY <1>1, <1>2 DEF GiveCommand

\* The command goes to the drive.
LEMMA GiveCommandKeeps ==
  ASSUME IInv, NEW t \in Tasks, GiveCommand(t, "out", AfterCmdOut(t))
  PROVE  IInv'
  <1> DEFINE loc == AfterCmdOut(t)
  <1>1. /\ sched.ok /\ sched.cur = t /\ pc[t] = "out" /\ Goto(t, loc)
        /\ req' = [req EXCEPT ![t].left = @ - 1]
        /\ UNCHANGED <<sched, sema, expecting, limit, ticked>>
    BY DEF GiveCommand, At
  <1>2. /\ drive' \in [phase : Busy \cup {"idle", "data"}, secs : 0..256]
        /\ irq' \in BOOLEAN
        /\ drive'.phase \in {"reading", "starting"} => ~irq'
        /\ req[t].op = "read" => drive'.phase \in {"reading", "storing"}
    BY CommandedDrive
  <1>3. /\ t \in Tasks \ {Idle} /\ pc[t] \in InChannel
        /\ \A u \in Tasks \ {t} : pc[u] \notin InChannel
    BY <1>1, Alone DEF InChannel, Commanding
  <1>4. /\ req[t].op \in {"read", "write"}
        /\ loc = IF req[t].op = "read" THEN "done" ELSE "poll"
    BY Types DEF IInv, AfterCmdOut
  <1> HIDE DEF loc
  <1>5. /\ pc' \in [Tasks -> Pcs] /\ pc'[t] = loc
        /\ \A u \in Tasks \ {t} : pc'[u] = pc[u]
        /\ PcInv'
    BY <1>1, <1>3, <1>4, StepOfTask DEF Pcs
  <1>6. ParkingInv'
    BY <1>1, <1>5, SchedFrame
  <1>7. ChannelInv'
    BY <1>1, <1>4, <1>5, ChannelFrame DEF InChannel, Commanding
  <1>8. Armed /\ sema.done.value \in {0, 1} /\ req[t].left > 0
    BY <1>1 DEF IInv, DriveInv
  <1>9. /\ req' \in [Tasks -> [op : {"read", "write"}, left : 0..MaxCommands]]
        /\ req'[t].op = req[t].op
    <2>1. /\ req \in [Tasks -> [op : {"read", "write"}, left : 0..MaxCommands]]
          /\ req[t].left - 1 \in 0..MaxCommands
      BY <1>8, Numbers DEF IInv, TypeOK
    <2> QED
      BY <1>1, <2>1
  <1>10. Armed'
    BY <1>1, <1>8 DEF Armed
  <1>11. loc = "done" => Awaiting(t)'
    BY <1>2, <1>4, <1>9, <1>10 DEF Awaiting, Due, Busy, Past
  <1>12. loc = "poll" => Polling(t)'
    BY <1>4, <1>5, <1>9, <1>10 DEF Polling
  <1>13. DriveInv'
    BY <1>1, <1>2, <1>3, <1>4, <1>5, <1>8, <1>11, <1>12, DriveOfOwner DEF Commanding
  <1> QED
    BY <1>1, <1>2, <1>5, <1>6, <1>7, <1>9, <1>13, Together DEF IInv, TypeOK

\* sema_down(disk_done).
LEMMA WaitForDiskKeeps ==
  ASSUME IInv, NEW t \in Tasks, WaitForDisk(t)
  PROVE  IInv'
  <1> DEFINE loc == IF req[t].op = "read" THEN "poll" ELSE "next"
  <1>1. /\ sched.ok /\ sched.cur = t /\ pc[t] \in {"done", "waiting"}
        /\ UNCHANGED <<channel, req, limit, ticked>>
    BY DEF WaitForDisk, Down, At
  <1>2. t \in Tasks \ {Idle}
    BY <1>1 DEF IInv, PcInv
  <1>3. /\ sema.lock = sema["lock"] /\ sema.done = sema["done"]
        /\ sema \in [Semas -> SemaphoreState] /\ "done" \in Semas /\ "lock" \in Semas
        /\ req[t].op \in {"read", "write"}
    BY Types DEF IInv, Semas
  <1>4. Awaiting(t) /\ pc[t] \in InChannel
    BY <1>1 DEF IInv, DriveInv, InChannel, Commanding
  <1>5. expecting' = expecting /\ drive' = drive /\ irq' = irq /\ req' = req
    BY <1>1 DEF channel
  <1>6. drive.phase \in {"reading", "starting"} => ~irq
    BY DEF IInv, DriveInv
  <1>7. CASE sema["done"].value = 0
    <2>1. /\ sched' = SemaWaitSched(sched, sema["done"])
          /\ sema' = [sema EXCEPT !["done"] = SemaWait(@, t)]
          /\ Goto(t, "waiting")
      BY <1>7 DEF WaitForDisk, Down
    <2>2. /\ ParkingInv'
          /\ sched'.ok = sched.ok
          /\ \A r \in Semas : sema'[r].value = sema[r].value
      BY <1>1, <1>2, <1>3, <1>7, <2>1, DownSleeps DEF Asleep
    <2>3. sema'.lock.value = sema.lock.value /\ sema'.done.value = 0
      BY <1>3, <1>7, <2>2, Fields DEF ParkingInv
    <2>4. /\ pc' \in [Tasks -> Pcs] /\ pc'[t] = "waiting"
          /\ \A u \in Tasks \ {t} : pc'[u] = pc[u]
          /\ PcInv'
      BY <1>1, <1>2, <2>1, <2>2, StepOfTask DEF Pcs
    <2>5. ChannelInv'
      BY <1>1, <2>3, <2>4, ChannelFrame DEF InChannel, Commanding
    <2>6. Awaiting(t)'
      BY <1>3, <1>4, <1>5, <1>7, <2>3 DEF Awaiting, Armed, Due
    <2>7. DriveInv'
      BY <1>4, <1>5, <1>6, <2>3, <2>4, <2>6, DriveOfOwner DEF Commanding
    <2> QED
      BY <1>1, <2>2, <2>4, <2>5, <2>7, Together DEF IInv, TypeOK, channel
  <1>8. CASE sema["done"].value # 0
    <2>1. /\ sched' = SemaTakeSched(sched, sema["done"])
          /\ sema' = [sema EXCEPT !["done"] = SemaTake(@)]
          /\ Goto(t, loc)
      BY <1>8 DEF WaitForDisk, Down
    <2>2. /\ sema["done"].value = 1 /\ ~expecting
          /\ req[t].op # "read" => drive.phase \in Past
      <3>1. sema.done.value \in {0, 1}
        BY DEF IInv, DriveInv
      <3> QED
        BY <1>3, <1>4, <1>8, <3>1 DEF Awaiting, Armed
    <2>3. loc = IF req[t].op = "read" THEN "poll" ELSE "next"
      OBVIOUS
    <2> HIDE DEF loc
    <2>4. /\ ParkingInv'
          /\ sched'.ok = sched.ok
          /\ sema'["done"].value = 0
          /\ sema'["lock"].value = sema["lock"].value
      BY <1>1, <1>2, <1>3, <2>1, <2>2, <2>3, DownTakes DEF Pcs
    <2>5. sema'.lock.value = sema.lock.value /\ sema'.done.value = 0
      BY <1>3, <2>4, Fields DEF ParkingInv
    <2>6. /\ pc' \in [Tasks -> Pcs] /\ pc'[t] = loc
          /\ \A u \in Tasks \ {t} : pc'[u] = pc[u]
          /\ PcInv'
      BY <1>1, <1>2, <2>1, <2>3, <2>4, StepOfTask DEF Pcs
    <2>7. ChannelInv'
      BY <1>1, <2>3, <2>5, <2>6, ChannelFrame DEF InChannel, Commanding
    <2>8. loc = "poll" => Polling(t)'
      BY <1>3, <1>5, <2>2, <2>3, <2>5, <2>6 DEF Polling
    <2>9. DriveInv'
      BY <1>4, <1>5, <1>6, <2>2, <2>3, <2>5, <2>6, <2>8, DriveOfOwner DEF Commanding
    <2> QED
      BY <1>1, <2>4, <2>6, <2>7, <2>9, Together DEF IInv, TypeOK, channel
  <1> QED
    BY <1>7, <1>8

\* One test of the loop in busy_wait. It fails when the time is up.
LEMMA PollKeeps ==
  ASSUME IInv, NEW t \in Tasks, Poll(t)
  PROVE  IInv'
  <1> DEFINE left == limit - Decrement
             fails == left = 0 \/ drive.phase = "idle"
  <1>1. /\ sched.ok /\ sched.cur = t /\ pc[t] = "poll"
        /\ sched' = [sched EXCEPT !.ok = ~fails]
        /\ Goto(t, IF fails THEN "failed"
                   ELSE IF drive.phase = "data" THEN "data" ELSE "nap")
        /\ limit' = IF pc'[t] = "nap" THEN left ELSE TimeLimit
        /\ ticked' = FALSE
        /\ UNCHANGED <<sema, channel, req>>
    BY DEF Poll, At
  <1>2. /\ t \in Tasks \ {Idle} /\ pc[t] \in InChannel
    BY <1>1 DEF IInv, PcInv, InChannel, Commanding
  <1>3. /\ left = limit - 1 /\ limit \in 0..TimeLimit /\ limit > 0
        /\ TimeLimit \in Nat /\ TimeLimit > 0
    BY Numbers DEF Decrement, IInv, TypeOK
  <1>4. fails <=> left = 0 \/ drive.phase = "idle"
    OBVIOUS
  <1> HIDE DEF left, fails
  <1>5. PICK loc \in {"failed", "data", "nap"} :
          /\ Goto(t, loc)
          /\ loc = "failed" <=> fails
          /\ loc = "data" => drive.phase = "data"
    BY <1>1
  <1>6. /\ pc' \in [Tasks -> Pcs] /\ pc'[t] = loc
        /\ \A u \in Tasks \ {t} : pc'[u] = pc[u]
    BY <1>5, GotoLemma DEF IInv, Pcs
  <1>7. limit' \in 0..TimeLimit /\ limit' > 0
    <2>1. CASE loc = "nap"
      BY <1>1, <1>3, <1>4, <1>5, <1>6, <2>1
    <2>2. CASE loc # "nap"
      BY <1>1, <1>3, <1>6, <2>2
    <2> QED
      BY <2>1, <2>2
  <1>8. /\ sched' \in SchedulerState /\ WellFormed(sched')
        /\ sched'.cur = t /\ sched'.status = sched.status /\ sched'.ok = ~fails
    <2>1. sched \in SchedulerState /\ WellFormed(sched) /\ fails \in BOOLEAN
      BY DEF IInv, TypeOK, fails
    <2>2. sched' \in SchedulerState /\ sched'.cur = t /\ sched'.status = sched.status
          /\ sched'.ready = sched.ready /\ sched'.ok = ~fails
      BY <1>1, <2>1 DEF SchedulerState
    <2> QED
      BY <1>1, <2>1, <2>2 DEF WellFormed, OneRunning, ReadyListExact, IdleAvailable
  <1>9. ParkingInv'
    <2>1. sched.status[t] # "BLOCKED"
      BY <1>1, Running
    <2> QED
      BY <1>1, <1>6, <1>8, <2>1, ParkingInvHolds, ParkingFrame
  <1>10. PcInv'
    <2>1. \A u \in Tasks : pc[u] # "failed"
      BY <1>1 DEF IInv, PcInv
    <2> QED
      BY <1>2, <1>5, <1>6, <1>8, <2>1, Names DEF IInv, PcInv
  <1>11. ChannelInv'
    BY <1>1, <1>6, ChannelFrame DEF InChannel, Commanding
  <1>12. Polling(t)
    BY <1>1 DEF IInv, DriveInv
  <1>13. loc \in {"data", "nap"} => Polling(t)'
    BY <1>1, <1>5, <1>6, <1>12 DEF Polling, Armed, channel
  <1>14. /\ sema'.done.value \in {0, 1}
         /\ drive'.phase \in {"reading", "starting"} => ~irq'
    BY <1>1 DEF IInv, DriveInv, channel
  <1>15. DriveInv'
    BY <1>2, <1>6, <1>13, <1>14, DriveOfOwner DEF Commanding
  <1> QED
    BY <1>1, <1>6, <1>7, <1>9, <1>10, <1>11, <1>15, Together DEF IInv, TypeOK, channel

\* mtime_sleep.
LEMMA NapKeeps ==
  ASSUME IInv, NEW t \in Tasks, Nap(t)
  PROVE  IInv'
  <1>1. /\ sched.ok /\ sched.cur = t /\ pc[t] = "nap"
        /\ UNCHANGED <<sema, channel, req, limit, ticked>>
    BY DEF Nap, At
  <1>2. t \in Tasks \ {Idle} /\ pc[t] \in InChannel
    BY <1>1 DEF IInv, PcInv, InChannel, Commanding
  <1>3. CASE ticked
    <2>1. Goto(t, "poll") /\ sched' = sched
      BY <1>3 DEF Nap
    <2>2. /\ pc' \in [Tasks -> Pcs] /\ pc'[t] = "poll"
          /\ \A u \in Tasks \ {t} : pc'[u] = pc[u]
          /\ PcInv'
      BY <1>1, <1>2, <2>1, StepOfTask DEF Pcs
    <2>3. ParkingInv'
      BY <1>1, <2>1, <2>2, SchedFrame
    <2>4. ChannelInv'
      BY <1>1, <2>2, ChannelFrame DEF InChannel, Commanding
    <2>5. Polling(t)
      BY <1>1 DEF IInv, DriveInv
    <2>6. Polling(t)'
      BY <1>1, <2>2, <2>5 DEF Polling, Armed, channel
    <2>7. /\ sema'.done.value \in {0, 1}
          /\ drive'.phase \in {"reading", "starting"} => ~irq'
      BY <1>1 DEF IInv, DriveInv, channel
    <2>8. DriveInv'
      BY <1>2, <2>2, <2>6, <2>7, DriveOfOwner DEF Commanding
    <2> QED
      BY <1>1, <2>2, <2>3, <2>4, <2>8, Together DEF IInv, TypeOK, channel
  <1>4. CASE ~ticked
    <2>1. sched' = Yield(sched) /\ pc' = pc
      BY <1>4 DEF Nap
    <2>2. /\ sched' \in SchedulerState /\ sched'.ok = sched.ok /\ WellFormed(sched')
          /\ SameParked(sched, sched')
      BY <2>1, YieldLemma DEF IInv, TypeOK
    <2>3. pc[Idle] \notin {"queued", "waiting"}
      BY DEF IInv, PcInv
    <2>4. \A u \in Tasks \ {Idle} :
            sched'.status[u] = "BLOCKED" <=> sched.status[u] = "BLOCKED"
      BY <2>2 DEF SameParked, Parked
    <2>5. ParkingInv'
      BY <1>1, <2>1, <2>2, <2>3, <2>4, ParkingInvHolds, ParkingFrame
    <2>6. PcInv'
      BY SMTT(20), <2>1, <2>2 DEF IInv, PcInv
    <2>7. ChannelInv'
      BY SMTT(20), <1>1, <2>1, ChannelFrame
    <2>8. DriveInv'
      <3>1. \A u \in Tasks : pc[u] = "cmd" => req[u].left > 0
        BY DEF IInv, DriveInv
      <3> QED
        BY SMTT(20), <1>1, <2>1, <2>3, <2>4, <3>1, DriveFrame
    <2> QED
      BY <1>1, <2>1, <2>5, <2>6, <2>7, <2>8, Together DEF IInv, TypeOK, channel
  <1> QED
    BY <1>3, <1>4

\* insw and outsw.
LEMMA TransferKeeps ==
  ASSUME IInv, NEW t \in Tasks, Transfer(t)
  PROVE  IInv'
  <1>1. /\ sched.ok /\ sched.cur = t /\ pc[t] = "data"
        /\ drive' = [drive EXCEPT !.phase = IF req[t].op = "read" THEN "idle" ELSE "storing"]
        /\ irq' = (irq \/ drive.secs > 1)
        /\ Goto(t, IF req[t].op = "read" THEN "next" ELSE "done")
        /\ UNCHANGED <<sched, sema, expecting, req, limit, ticked>>
    BY DEF Transfer, At
  <1>2. t \in Tasks \ {Idle} /\ pc[t] \in InChannel
    BY <1>1 DEF IInv, PcInv, InChannel, Commanding
  <1>3. Polling(t) /\ req[t].op \in {"read", "write"}
    BY <1>1, Types DEF IInv, DriveInv
  <1>4. /\ drive' \in [phase : Busy \cup {"idle", "data"}, secs : 0..256]
        /\ drive'.phase = IF req[t].op = "read" THEN "idle" ELSE "storing"
    BY <1>1 DEF IInv, TypeOK, Busy
  <1>5. PICK loc \in {"next", "done"} : Goto(t, loc) /\ (loc = "next" <=> req[t].op = "read")
    BY <1>1
  <1>6. /\ pc' \in [Tasks -> Pcs] /\ pc'[t] = loc
        /\ \A u \in Tasks \ {t} : pc'[u] = pc[u]
        /\ PcInv'
    BY <1>1, <1>2, <1>5, StepOfTask DEF Pcs
  <1>7. ParkingInv'
    BY <1>1, <1>6, SchedFrame
  <1>8. ChannelInv'
    BY <1>1, <1>6, ChannelFrame DEF InChannel, Commanding
  <1>9. /\ loc = "next" => ~expecting' /\ sema'.done.value = 0 /\ drive'.phase = "idle"
        /\ sema'.done.value \in {0, 1} /\ drive'.phase \in Past
    BY <1>1, <1>3, <1>4, <1>5 DEF Polling, IInv, DriveInv, Past
  <1>10. loc = "done" => Awaiting(t)'
    BY <1>1, <1>3, <1>4, <1>5, <1>9 DEF Polling, Awaiting, Armed, Due, Busy
  <1>11. drive'.phase \notin {"reading", "starting"}
    BY <1>4
  <1>12. DriveInv'
    BY <1>2, <1>6, <1>9, <1>10, <1>11, DriveOfOwner DEF Commanding
  <1>13. irq' \in BOOLEAN
    BY <1>1
  <1> QED
    BY <1>1, <1>4, <1>6, <1>7, <1>8, <1>12, <1>13, Together DEF IInv, TypeOK

\* lock_release.
LEMMA ReleaseKeeps ==
  ASSUME IInv, NEW t \in Tasks, Release(t)
  PROVE  IInv'
  <1>1. /\ sched.ok /\ sched.cur = t /\ pc[t] = "release"
        /\ sched' = SemaUpSched(sched, sema.lock)
        /\ sema' = [sema EXCEPT !.lock = SemaUp(@)]
        /\ Goto(t, "run")
        /\ UNCHANGED <<channel, req, limit, ticked>>
    BY DEF Release, At
  <1>2. t \in Tasks \ {Idle} /\ pc[t] \in InChannel
    BY <1>1 DEF IInv, PcInv, InChannel
  <1>3. /\ sema.lock = sema["lock"] /\ sema.done = sema["done"]
        /\ sema \in [Semas -> SemaphoreState] /\ "lock" \in Semas /\ "done" \in Semas
    BY Types DEF IInv, Semas
  <1>4. /\ sema["lock"].value = 0
        /\ \A u \in Tasks \ {t} : pc[u] \notin InChannel
    BY <1>2, <1>3, Alone
  <1>5. /\ pc' \in [Tasks -> Pcs] /\ pc'[t] = "run"
        /\ \A u \in Tasks \ {t} : pc'[u] = pc[u]
    BY <1>1, GotoLemma DEF IInv, Pcs
  <1>6. /\ sched' = SemaUpSched(sched, sema["lock"])
        /\ sema' = [sema EXCEPT !["lock"] = SemaUp(@)]
    BY <1>1, <1>3
  <1>7. /\ ParkingInv'
        /\ sched'.ok = sched.ok /\ sched'.cur = sched.cur
        /\ \A u \in Tasks : sched'.status[u] = "BLOCKED" => sched.status[u] = "BLOCKED"
        /\ sema'["lock"].value = 1
        /\ sema'["done"].value = sema["done"].value
    <2>1. \A u \in Tasks, asleep \in {"queued", "waiting"} :
             pc'[u] = asleep /\ sched.status[u] = "BLOCKED" <=>
               pc[u] = asleep /\ sched.status[u] = "BLOCKED"
      BY <1>1, <1>5
    <2> QED
      BY <1>3, <1>4, <1>6, <2>1, UpWakes DEF Semas
  <1>8. sema'.lock.value = 1 /\ sema'.done.value = sema.done.value
    BY <1>3, <1>7, Fields DEF ParkingInv
  <1>9. PcInv'
    BY <1>1, <1>2, <1>7, StepOfTask DEF Pcs
  <1>10. ChannelInv'
    BY <1>4, <1>5, <1>8 DEF ChannelInv, InChannel, Commanding
  <1>11. DriveInv'
    <2>1. \A u \in Tasks : pc[u] = "cmd" => req[u].left > 0
      BY DEF IInv, DriveInv
    <2> QED
      BY <1>1, <1>5, <1>7, <1>8, <2>1, DriveFrame DEF Commanding
  <1> QED
    BY <1>1, <1>5, <1>7, <1>9, <1>10, <1>11, Together DEF IInv, TypeOK, channel

\* The drive answers whoever has a command under way.
LEMMA DriveAnswersKeeps ==
  ASSUME IInv, DriveAnswers
  PROVE  IInv'
  <1>1. /\ sched.ok /\ drive.phase \in Busy
        /\ drive' = [drive EXCEPT !.phase = IF @ = "storing" THEN "idle" ELSE "data"]
        /\ irq' = (irq \/ drive.phase # "starting")
        /\ UNCHANGED <<sched, sema, expecting, pc, req, limit, ticked>>
    BY DEF DriveAnswers
  <1>2. /\ drive' \in [phase : Busy \cup {"idle", "data"}, secs : 0..256]
        /\ drive'.phase = IF drive.phase = "storing" THEN "idle" ELSE "data"
        /\ drive'.secs = drive.secs
    BY <1>1 DEF IInv, TypeOK
  <1>3. ParkingInv'
    BY <1>1, ParkingInvHolds, ParkingFrame DEF ParkingInv
  <1>4. PcInv' /\ ChannelInv'
    BY <1>1 DEF IInv, PcInv, ChannelInv
  <1>5. /\ drive'.phase \notin {"reading", "starting"}
        /\ irq' \in BOOLEAN /\ (drive.phase # "starting" => irq')
    BY <1>1, <1>2
  <1>6. DriveInv
    BY DEF IInv
  <1>7. drive.phase \in Past => drive'.phase \in Past
    BY <1>1, <1>2 DEF Past, Busy
  <1>8. Armed => Armed'
    BY <1>1 DEF Armed
  <1>9. ASSUME NEW t \in Tasks, pc[t] \in {"done", "waiting"}
        PROVE  Awaiting(t)'
    <2>1. Awaiting(t)
      BY <1>6, <1>9 DEF DriveInv
    <2>2. drive.phase # "starting"
      BY <2>1 DEF Awaiting, Past
    <2> QED
      BY <1>1, <1>2, <1>5, <1>8, <2>1, <2>2 DEF Awaiting, Due, Past, Busy
  <1>10. ASSUME NEW t \in Tasks, pc[t] \in {"poll", "nap", "data"}
         PROVE  Polling(t)'
    <2>1. Polling(t)
      BY <1>6, <1>10 DEF DriveInv
    <2> QED
      BY <1>1, <1>8, <2>1 DEF Polling, Busy
  <1>11. DriveInv'
    BY <1>1, <1>5, <1>6, <1>7, <1>8, <1>9, <1>10 DEF DriveInv
  <1> QED
    BY <1>1, <1>2, <1>3, <1>4, <1>5, <1>11, Together DEF IInv, TypeOK

-----------------------------------------------------------------------------
\* Interrupts.

\* One does no more to pc than to end the hlt of the idle thread.
LEMMA AfterHaltLemma ==
  ASSUME IInv
  PROVE  /\ AfterHalt \in [Tasks -> Pcs]
         /\ AfterHalt[Idle] \in {"loop", "halt"}
         /\ \A t \in Tasks \ {Idle} : AfterHalt[t] = pc[t]
  <1>1. sched.cur \in Tasks /\ pc \in [Tasks -> Pcs]
    BY Types DEF IInv, TypeOK
  <1>2. pc[sched.cur] = "halt" => sched.cur = Idle
    BY <1>1 DEF IInv, PcInv
  <1> QED
    BY <1>1, <1>2, Names DEF IInv, PcInv, AfterHalt, Pcs

\* What an interrupt does not touch.
LEMMA InterruptFrame ==
  ASSUME IInv, AcceptInterrupt, pc' = AfterHalt
  PROVE  /\ pc' \in [Tasks -> Pcs]
         /\ \A u \in Tasks, loc \in Pcs \ {"loop", "halt"} : pc'[u] = loc <=> pc[u] = loc
         /\ \A u \in Tasks : pc'[u] \in InChannel <=> pc[u] \in InChannel
         /\ sched'.ok = sched.ok => PcInv'
  <1>1. /\ pc' \in [Tasks -> Pcs] /\ pc'[Idle] \in {"loop", "halt"}
        /\ \A u \in Tasks \ {Idle} : pc'[u] = pc[u]
    BY AfterHaltLemma
  <1>2. pc[Idle] \in {"loop", "halt"}
    BY DEF IInv, PcInv
  <1>3. \A u \in Tasks, loc \in Pcs \ {"loop", "halt"} : pc'[u] = loc <=> pc[u] = loc
    BY <1>1, <1>2
  <1>4. \A u \in Tasks : pc'[u] \in InChannel <=> pc[u] \in InChannel
    BY <1>1, <1>2 DEF InChannel, Commanding
  <1>5. sched'.ok = sched.ok => PcInv'
    BY <1>1, <1>2 DEF IInv, PcInv
  <1> QED
    BY <1>1, <1>3, <1>4, <1>5

\* The timer.
LEMMA TimerKeeps ==
  ASSUME IInv, TimerInterrupt
  PROVE  IInv'
  <1>1. /\ AcceptInterrupt /\ sched' = TimerTick(sched) /\ ticked' = TRUE /\ pc' = AfterHalt
        /\ UNCHANGED <<sema, channel, req, limit>>
    BY DEF TimerInterrupt
  <1>2. /\ sched' \in SchedulerState /\ sched'.ok = sched.ok /\ WellFormed(sched')
        /\ SameParked(sched, sched')
    BY <1>1, TimerTickLemma DEF IInv, TypeOK
  <1>3. \A u \in Tasks \ {Idle} :
          sched'.status[u] = "BLOCKED" <=> sched.status[u] = "BLOCKED"
    BY <1>2 DEF SameParked, Parked
  <1>4. /\ pc' \in [Tasks -> Pcs]
        /\ \A u \in Tasks, loc \in Pcs \ {"loop", "halt"} : pc'[u] = loc <=> pc[u] = loc
        /\ \A u \in Tasks : pc'[u] \in InChannel <=> pc[u] \in InChannel
        /\ PcInv'
    BY <1>1, <1>2, InterruptFrame
  <1>5. pc[Idle] \notin {"queued", "waiting"}
    BY DEF IInv, PcInv
  <1>6. ParkingInv'
    <2>1. \A u \in Tasks, asleep \in {"queued", "waiting"} : pc'[u] = asleep <=> pc[u] = asleep
      BY <1>4 DEF Pcs
    <2> QED
      BY <1>1, <1>2, <1>3, <1>5, <2>1, ParkingInvHolds, ParkingFrame
  <1>7. ChannelInv'
    BY <1>1, <1>4, ChannelFrame
  <1>8. DriveInv'
    <2>1. \A u \in Tasks : pc[u] = "cmd" => req[u].left > 0
      BY DEF IInv, DriveInv
    <2>2. \A u \in Tasks : pc[u] \in Commanding \/ pc'[u] \in Commanding => pc'[u] = pc[u]
      BY <1>4 DEF Commanding, Pcs
    <2>3. \A u \in Tasks : /\ pc'[u] = "cmd" => pc[u] = "cmd"
                           /\ pc'[u] = "waiting" => pc[u] = "waiting"
      BY <1>4 DEF Pcs
    <2> QED
      BY <1>1, <1>3, <1>4, <1>5, <2>1, <2>2, <2>3, DriveFrame
  <1> QED
    BY <1>1, <1>2, <1>4, <1>6, <1>7, <1>8, Together DEF IInv, TypeOK, channel

\* The idle thread gives the processor away.
LEMMA IdleKeeps ==
  ASSUME IInv, IdleBlock
  PROVE  IInv'
  <1>1. /\ sched.ok /\ sched.cur = Idle /\ pc[Idle] = "loop"
        /\ sched' = Block(sched, "BLOCKED") /\ Goto(Idle, "halt")
        /\ UNCHANGED <<sema, channel, req, limit, ticked>>
    BY DEF IdleBlock, At
  <1>2. "BLOCKED" \in Parked /\ "BLOCKED" \in Parked \cup {"DIED"}
    BY DEF Parked
  <1>3. /\ sched' \in SchedulerState /\ sched'.ok = sched.ok /\ WellFormed(sched')
        /\ \A u \in Tasks \ {Idle} :
             sched'.status[u] = "BLOCKED" <=> sched.status[u] = "BLOCKED"
    <2>1. sched \in SchedulerState /\ WellFormed(sched)
      BY DEF IInv, TypeOK
    <2>2. /\ Block(sched, "BLOCKED") \in SchedulerState
          /\ Block(sched, "BLOCKED").ok = sched.ok
          /\ WellFormed(Block(sched, "BLOCKED"))
          /\ \A u \in Tasks \ {Idle, sched.cur}, p \in Parked \cup {"DIED"} :
               sched.status[u] = p <=> Block(sched, "BLOCKED").status[u] = p
      BY <1>2, <2>1, BlockLemma
    <2> QED
      BY <1>1, <1>2, <2>2
  <1>4. /\ pc' \in [Tasks -> Pcs] /\ pc'[Idle] = "halt"
        /\ \A u \in Tasks \ {Idle} : pc'[u] = pc[u]
    BY <1>1, GotoLemma, Names DEF IInv, Pcs
  <1>5. PcInv'
    BY <1>1, <1>3, <1>4, Names, ZenonT(40) DEF IInv, PcInv
  <1>6. ParkingInv'
    BY <1>1, <1>3, <1>4, ParkingInvHolds, ParkingFrame
  <1>7. ChannelInv'
    BY <1>1, <1>4, ChannelFrame DEF InChannel, Commanding
  <1>8. DriveInv'
    <2>1. \A u \in Tasks : pc[u] = "cmd" => req[u].left > 0
      BY DEF IInv, DriveInv
    <2> QED
      BY <1>1, <1>3, <1>4, <2>1, DriveFrame DEF Commanding
  <1> QED
    BY <1>1, <1>3, <1>4, <1>5, <1>6, <1>7, <1>8, Together DEF IInv, TypeOK, channel

\* An interrupt that the handler acts upon finds the task that has set expecting_intr,
\* disk_done not posted yet, and the drive past the start of the command.
LEMMA AnswerHasOwner ==
  ASSUME IInv, AcceptInterrupt, irq, expecting
  PROVE  /\ sema.done.value = 0
         /\ drive.phase \notin {"reading", "starting"}
         /\ \E t \in Tasks : pc[t] \in Commanding \ {"failed"}
  <1>1. PICK t \in Tasks : pc[t] \in Commanding
    BY DEF IInv, DriveInv
  <1>2. pc[t] # "failed"
    BY DEF IInv, PcInv, AcceptInterrupt
  <1>3. req[t].op \in {"read", "write"}
    BY Types DEF IInv
  <1>4. pc[t] \in {"out", "done", "waiting"} => sema.done.value = 0
    BY DEF IInv, DriveInv, Awaiting, Armed
  <1>5. pc[t] \in {"poll", "nap", "data"} => sema.done.value = 0
    BY <1>3 DEF IInv, DriveInv, Polling, Armed
  <1>6. drive.phase \notin {"reading", "starting"}
    BY DEF IInv, DriveInv
  <1> QED
    BY <1>1, <1>2, <1>4, <1>5, <1>6 DEF Commanding

\* intr_hd_handler.
LEMMA DiskInterruptKeeps ==
  ASSUME IInv, DiskInterrupt
  PROVE  IInv'
  <1>1. /\ AcceptInterrupt /\ irq /\ irq' = FALSE /\ expecting' = FALSE /\ pc' = AfterHalt
        /\ UNCHANGED <<drive, req, limit, ticked>>
    BY DEF DiskInterrupt
  <1>2. /\ pc' \in [Tasks -> Pcs]
        /\ \A u \in Tasks, loc \in Pcs \ {"loop", "halt"} : pc'[u] = loc <=> pc[u] = loc
        /\ \A u \in Tasks : pc'[u] \in InChannel <=> pc[u] \in InChannel
        /\ sched'.ok = sched.ok => PcInv'
    BY <1>1, InterruptFrame
  <1>3. \A u \in Tasks, asleep \in {"queued", "waiting"} : pc'[u] = asleep <=> pc[u] = asleep
    BY <1>2 DEF Pcs
  <1>4. \A u \in Tasks : /\ pc[u] \in Commanding \/ pc'[u] \in Commanding => pc'[u] = pc[u]
                         /\ pc'[u] = "cmd" => pc[u] = "cmd"
    BY <1>2 DEF Commanding, Pcs
  <1>5. CASE expecting
    <2>1. /\ sched' = SemaUpSched(sched, sema.done)
          /\ sema' = [sema EXCEPT !.done = SemaUp(@)]
      BY <1>5 DEF DiskInterrupt
    <2>2. /\ sema.lock = sema["lock"] /\ sema.done = sema["done"]
          /\ sema \in [Semas -> SemaphoreState] /\ "lock" \in Semas /\ "done" \in Semas
      BY Types DEF IInv, Semas
    <2>3. PICK t \in Tasks : pc[t] \in Commanding \ {"failed"} /\ sema.done.value = 0
      BY <1>1, <1>5, AnswerHasOwner
    <2>4. /\ sched' = SemaUpSched(sched, sema["done"])
          /\ sema' = [sema EXCEPT !["done"] = SemaUp(@)]
          /\ sema["done"].value = 0
      BY <2>1, <2>2, <2>3
    <2>5. /\ ParkingInv'
          /\ sched'.ok = sched.ok
          /\ \A u \in Tasks : sched'.status[u] = "BLOCKED" => sched.status[u] = "BLOCKED"
          /\ sema'["done"].value = 1
          /\ sema'["lock"].value = sema["lock"].value
          /\ (\E u \in Tasks : pc[u] = "waiting" /\ sched.status[u] = "BLOCKED") =>
                \E u \in Tasks : pc[u] = "waiting" /\ sched'.status[u] # "BLOCKED"
      <3>1. "lock" # "done" /\ Asleep("done") = "waiting"
        BY DEF Asleep
      <3>2. \A u \in Tasks, asleep \in {"queued", "waiting"} :
               pc'[u] = asleep /\ sched.status[u] = "BLOCKED" <=>
                 pc[u] = asleep /\ sched.status[u] = "BLOCKED"
        BY <1>3
      <3>3. /\ ParkingInv'
            /\ sched'.ok = sched.ok
            /\ \A u \in Tasks : sched'.status[u] = "BLOCKED" => sched.status[u] = "BLOCKED"
            /\ sema'["done"].value = 1
            /\ \A r \in Semas \ {"done"} : sema'[r].value = sema[r].value
            /\ (\E u \in Tasks : pc[u] = Asleep("done") /\ sched.status[u] = "BLOCKED") =>
                  \E u \in Tasks : pc[u] = Asleep("done") /\ sched'.status[u] # "BLOCKED"
        BY <2>2, <2>4, <3>2, UpWakes
      <3> QED
        BY <2>2, <3>1, <3>3
    <2>6. sema'.lock.value = sema.lock.value /\ sema'.done.value = 1
      BY <2>2, <2>5, Fields DEF ParkingInv
    <2>7. ChannelInv'
      BY <1>2, <2>6, ChannelFrame
    <2>8. pc[t] \in InChannel /\ \A u \in Tasks \ {t} : pc[u] \notin InChannel
      <3>1. pc[t] \in InChannel
        BY <2>3 DEF InChannel, Commanding
      <3> QED
        BY <3>1, Alone
    <2>9. pc'[t] = pc[t] /\ req'[t] = req[t] /\ req[t].op \in {"read", "write"}
      BY <1>1, <1>4, <2>3, Types DEF IInv
    <2>10. ~(pc[t] = "waiting" /\ sched'.status[t] = "BLOCKED")
      <3>1. \A u \in Tasks : pc[u] = "waiting" => u = t
        BY <2>8 DEF InChannel, Commanding
      <3> QED
        BY <2>5, <3>1
    <2>11. DriveInv /\ Armed' /\ Due'
      BY <1>1, <2>6 DEF IInv, Armed, Due
    <2>12. pc[t] \in {"done", "waiting"} => Awaiting(t)'
      BY <1>1, <2>9, <2>11 DEF DriveInv, Awaiting
    <2>13. pc[t] \in {"poll", "nap", "data"} => Polling(t)'
      BY <1>1, <1>5, <2>9, <2>11 DEF DriveInv, Polling
    <2>14. \A u \in Tasks \ {t} : pc'[u] \notin InChannel
      BY <1>2, <2>8
    <2>15. pc[t] = "out" => req'[t].left > 0
      BY <2>9, <2>11 DEF DriveInv
    <2>16. pc[t] = "out" => drive'.phase \in Past
      BY <1>1, <2>8, <2>11 DEF DriveInv, InChannel
    <2>17. DriveInv'
      <3>1. \A u \in Tasks : u # t =>
              pc'[u] \notin {"cmd", "out", "done", "waiting", "poll", "nap", "data"}
        BY <2>14 DEF InChannel, Commanding
      <3> QED
        BY <1>1, <2>3, <2>6, <2>9, <2>10, <2>11, <2>12, <2>13, <2>15, <2>16, <3>1
           DEF DriveInv, Commanding
    <2> QED
      BY <1>1, <1>2, <2>5, <2>7, <2>17, Together DEF IInv, TypeOK
  <1>6. CASE ~expecting
    <2>1. sched' = sched /\ sema' = sema
      BY <1>6 DEF DiskInterrupt
    <2>2. ParkingInv'
      BY <1>3, <2>1, ParkingInvHolds, ParkingFrame DEF ParkingInv
    <2>3. PcInv' /\ ChannelInv'
      BY <1>2, <2>1, ChannelFrame
    <2>4. /\ DriveInv /\ drive' = drive /\ req' = req /\ ~irq' /\ ~expecting'
          /\ sema'.done.value = sema.done.value
      BY <1>1, <2>1 DEF IInv
    <2>5. \A u \in Tasks :
            /\ pc'[u] \in Commanding <=> pc[u] \in Commanding
            /\ pc'[u] \in Commanding \/ pc'[u] = "cmd" => pc'[u] = pc[u]
      BY <1>4
    <2>6. Due' /\ (Armed => Armed')
      BY <1>6, <2>4 DEF Due, Armed
    <2>7. ASSUME NEW u \in Tasks
          PROVE  /\ pc'[u] \in {"cmd", "out"} => req'[u].left > 0
                 /\ pc'[u] = "out" => Armed'
                 /\ pc'[u] \in {"done", "waiting"} => Awaiting(u)'
                 /\ pc'[u] \in {"poll", "nap", "data"} => Polling(u)'
                 /\ pc'[u] = "waiting" /\ sched'.status[u] = "BLOCKED" => sema'.done.value = 0
      <3>1. pc'[u] \in {"cmd", "out", "done", "waiting", "poll", "nap", "data"} => pc'[u] = pc[u]
        BY <2>5 DEF Commanding
      <3>2. Polling(u) /\ pc'[u] = pc[u] => Polling(u)'
        BY <2>4, <2>6 DEF Polling
      <3>3. Awaiting(u) => Awaiting(u)'
        BY <2>4, <2>6 DEF Awaiting
      <3> QED
        BY <2>1, <2>4, <2>6, <3>1, <3>2, <3>3 DEF DriveInv
    <2>8. DriveInv'
      BY <2>4, <2>5, <2>7 DEF DriveInv
    <2> QED
      BY <1>1, <1>2, <2>2, <2>3, <2>8, Together DEF IInv, TypeOK
  <1> QED
    BY <1>5, <1>6

-----------------------------------------------------------------------------
\* Every step of one channel keeps IInv.
THEOREM StepIInv == IInv /\ [Next]_vars => IInv'
  <1> SUFFICES ASSUME IInv, [Next]_vars PROVE IInv'
    OBVIOUS
  <1>1. CASE UNCHANGED vars
    <2>1. UNCHANGED <<sched, sema, expecting, drive, irq, pc, req, limit, ticked>>
      BY <1>1 DEF vars, channel
    <2>2. TypeOK' /\ WellFormed(sched') /\ PcInv' /\ ChannelInv'
      BY <2>1 DEF IInv, TypeOK, PcInv, ChannelInv
    <2>3. QueueInv("lock", "queued")' /\ QueueInv("done", "waiting")'
      BY <2>1 DEF IInv, QueueInv
    <2>4. DriveInv'
      BY <2>1 DEF IInv, DriveInv, Armed, Due, Awaiting, Polling
    <2> QED
      BY <2>1, <2>2, <2>3, <2>4 DEF IInv
  <1>2. ASSUME NEW t \in Tasks, SystemCall(t) \/ ReturnToUser(t)
        PROVE  IInv'
    BY <1>2, UserKeeps
  <1>3. ASSUME NEW t \in Tasks, NEW o \in {"read", "write"}, NEW n \in 1..MaxCommands,
               Request(t, o, n)
        PROVE  IInv'
    BY <1>3, RequestKeeps
  <1>4. ASSUME NEW t \in Tasks, Drives(t)
        PROVE  IInv'
    BY <1>4, AcquireKeeps, NextCommandKeeps, SetExpectingKeeps, GiveCommandKeeps,
       WaitForDiskKeeps, PollKeeps, NapKeeps, TransferKeeps, ReleaseKeeps
       DEF Drives, CmdOut
  <1>5. ASSUME IdleBlock \/ DriveAnswers \/ DiskInterrupt \/ TimerInterrupt
        PROVE  IInv'
    BY <1>5, IdleKeeps, DriveAnswersKeeps, DiskInterruptKeeps, TimerKeeps
  <1> QED
    BY <1>1, <1>2, <1>3, <1>4, <1>5 DEF Next

\* IInv holds in every reachable state of a channel, whatever its commands are.
THEOREM Invariant == Spec => []IInv
  BY InitIInv, StepIInv, PTL DEF Spec

\* The state keeps its type: disk_done and the semaphore of the lock stay
\* semaphores, a request never has less than no commands left (secs_done never
\* passes sec_cnt), and the time limit of busy_wait does not wrap around.
THEOREM TypeCorrect == Spec => []TypeOK
  <1>1. IInv => TypeOK
    BY DEF IInv
  <1> QED
    BY <1>1, Invariant, PTL

\* No data is moved that the drive does not ask for or offer, whichever interrupt ended
\* the wait; and before the next command, and when ide_read or ide_write returns, all
\* of them have been moved.
THEOREM Moved == Spec => []DataMoved
  <1>1. ASSUME IInv, NEW t \in Tasks, pc[t] = "data"
        PROVE  drive.phase = "data"
    BY <1>1 DEF IInv, DriveInv, Polling
  <1>2. ASSUME IInv, NEW t \in Tasks, pc[t] \in {"cmd", "out", "release"}
        PROVE  drive.phase \in {"idle", "storing"}
    <2>1. pc[t] \in InChannel /\ pc[t] \notin Commanding \ {"out"}
      BY <1>2 DEF InChannel, Commanding
    <2>2. \A u \in Tasks : pc[u] \notin Commanding \ {"out"}
      BY <1>2, <2>1, Alone DEF InChannel
    <2> QED
      BY <1>2, <2>2 DEF IInv, DriveInv, Past
  <1>3. IInv => DataMoved
    BY <1>1, <1>2 DEF DataMoved
  <1> QED
    BY <1>3, Invariant, PTL

\* The answer of the drive is not missed and does not come twice: no ASSERT fails,
\* and who sleeps for it has expecting_intr set and the drive at work or its
\* interrupt pending.
THEOREM Awaited == Spec => []AnswerAwaited
  <1>1. ASSUME IInv, NEW t \in Tasks, pc[t] = "waiting", sched.status[t] = "BLOCKED"
        PROVE  expecting /\ (irq \/ drive.phase \in Busy)
    BY <1>1 DEF IInv, DriveInv, Awaiting, Armed, Due
  <1>2. IInv => sched.ok \/ \E t \in Tasks : pc[t] = "failed"
    BY DEF IInv, PcInv
  <1>3. IInv => AnswerAwaited
    BY <1>1, <1>2 DEF AnswerAwaited
  <1> QED
    BY <1>3, Invariant, PTL

\* Only the handler of the disk interrupt posts disk_done.
LEMMA OnlyTheHandlerPosts ==
  ASSUME IInv, [Next]_vars, sema'.done.value > sema.done.value
  PROVE  DiskInterrupt /\ expecting
  <1>1. /\ sema \in [Semas -> SemaphoreState] /\ {"lock", "done"} = Semas
        /\ sema.lock = sema["lock"] /\ sema.done = sema["done"]
        /\ sema["done"] \in SemaphoreState /\ sema["done"].value \in 0..255
    BY Types DEF IInv, Semas
  <1>2. sema' \in [Semas -> SemaphoreState]
    BY StepIInv DEF IInv, TypeOK, Semas
  <1>3. sema'["done"].value > sema["done"].value
    BY <1>1, <1>2, Fields
  <1>4. \A x : sema' # [sema EXCEPT !["lock"] = x]
    BY <1>1, <1>3
  <1>5. \A x : sema' = [sema EXCEPT !["done"] = x] => x.value > sema["done"].value
    BY <1>1, <1>3
  <1>6. sema' # sema
    BY <1>1, <1>3
  <1>7. ASSUME NEW t \in Tasks, AcquireChannel(t) \/ Release(t)
        PROVE  FALSE
    <2>1. ~AcquireChannel(t)
      BY <1>4 DEF AcquireChannel, Down
    <2>2. ~Release(t)
      <3>1. Release(t) => sema' = [sema EXCEPT !["lock"] = SemaUp(sema["lock"])]
        BY <1>1 DEF Release
      <3> QED
        BY <1>4, <3>1
    <2> QED
      BY <1>7, <2>1, <2>2
  <1>8. ASSUME NEW t \in Tasks, WaitForDisk(t)
        PROVE  FALSE
    <2>1. \/ sema' = [sema EXCEPT !["done"] = SemaWait(sema["done"], t)]
          \/ /\ sema["done"].value # 0
             /\ sema' = [sema EXCEPT !["done"] = SemaTake(sema["done"])]
      BY <1>8 DEF WaitForDisk, Down
    <2>a. sema["done"].value # 0 => sema["done"].value > 0
      BY <1>1
    <2>2. /\ SemaWait(sema["done"], t).value = sema["done"].value
          /\ sema["done"].value # 0 =>
               SemaTake(sema["done"]).value = sema["done"].value - 1
      BY <1>1, <2>a, SemaphoreFields, Zenon
    <2> QED
      BY <1>1, <1>5, <2>1, <2>2
  <1>9. ASSUME DiskInterrupt
        PROVE  expecting
    BY <1>6, <1>9 DEF DiskInterrupt
  <1>10. ~UNCHANGED sema
    BY <1>6
  <1>11. ASSUME NEW t \in Tasks, NEW o, NEW n
         PROVE  ~SystemCall(t) /\ ~ReturnToUser(t) /\ ~Request(t, o, n)
    BY <1>10 DEF SystemCall, ReturnToUser, Request
  <1>12. ASSUME NEW t \in Tasks
         PROVE  ~NextCommand(t) /\ ~CmdOut(t) /\ ~Poll(t) /\ ~Nap(t) /\ ~Transfer(t)
    BY <1>10 DEF NextCommand, CmdOut, SetExpecting, GiveCommand, Poll, Nap, Transfer
  <1>13. ~IdleBlock /\ ~DriveAnswers /\ ~TimerInterrupt /\ ~UNCHANGED vars
    BY <1>10 DEF IdleBlock, DriveAnswers, TimerInterrupt, vars
  <1> QED
    BY <1>7, <1>8, <1>9, <1>11, <1>12, <1>13 DEF Next, Drives

\* The handler acts upon an interrupt only for a task that has the channel and has set
\* expecting_intr, and never while the drive is still looking for the first sector
\* of its command.
THEOREM Posted == Spec => PostedForCommand
  <1> DEFINE ForCommand == /\ \E t \in Tasks : pc[t] \in Commanding
                           /\ drive.phase \notin {"reading", "starting"}
  <1>1. ASSUME IInv, [Next]_vars, Posts
        PROVE  ForCommand
    <2>1. DiskInterrupt /\ expecting
      BY <1>1, OnlyTheHandlerPosts DEF Posts
    <2> QED
      BY <1>1, <2>1, AnswerHasOwner DEF DiskInterrupt
  <1>2. IInv /\ [Next]_vars => [Posts => ForCommand]_vars
    BY <1>1
  <1> HIDE DEF ForCommand
  <1>3. Spec => [][Posts => ForCommand]_vars
    BY <1>2, Invariant, PTL DEF Spec
  <1> QED
    BY <1>3 DEF PostedForCommand, ForCommand

-----------------------------------------------------------------------------
\* The keyboard.  Whatever bytes are on the wire, the handler will, once it has seen them
\* all, know the keys that are down; and what it makes of each of them was meant.

KbdState == [ctrl : BOOLEAN, shift : BOOLEAN, caps : BOOLEAN, ext : BOOLEAN]
Meanings == SUBSET {"l", "L", "1", "!", "clear"}

\* Byte b leads from status k to l; its character, if any, is the first of m, and the
\* rest of m is q.
Gives(k, m, b, l, q) ==
  /\ l = Decoded(k, b)
  /\ Prints(k, b) => m # <<>> /\ Character(k, b) \in Head(m) /\ q = Tail(m)
  /\ ~Prints(k, b) => q = m

\* From status k the bytes w lead to k2, and their characters are among those of m.
Follows(w, m, k, k2) ==
  \E ks \in [1..Len(w) + 1 -> KbdState], ms \in [1..Len(w) + 1 -> Seq(Meanings)] :
    /\ ks[1] = k /\ ms[1] = m
    /\ ks[Len(w) + 1] = k2 /\ ms[Len(w) + 1] = <<>>
    /\ \A i \in 1..Len(w) : Gives(ks[i], ms[i], w[i], ks[i + 1], ms[i + 1])

\* The status at the end agrees with the keys.
Agrees(k) ==
  /\ ~k.ext
  /\ "shift" \notin crossed => (k.shift <=> Held(Shifts))
  /\ ~Held(Shifts) => ~k.shift
  /\ "ctrl" \notin crossed => (k.ctrl <=> Held(Ctrls))
  /\ ~Held(Ctrls) => ~k.ctrl
  /\ "caps" \notin crossed => (k.caps <=> caps)

KeyboardTypeOK ==
  /\ wire \in Seq(Nat) /\ meant \in Seq(Meanings)
  /\ kbd \in KbdState
  /\ caps \in BOOLEAN

KeyboardInv ==
  /\ KeyboardTypeOK
  /\ char.got \in char.meant
  /\ "shift" \notin crossed => ~(Shifts \subseteq down)
  /\ "ctrl" \notin crossed => ~(Ctrls \subseteq down)
  /\ \E k \in KbdState : Agrees(k) /\ Follows(wire, meant, kbd, k)

LEMMA DecodedType ==
  ASSUME NEW k \in KbdState, NEW b \in Nat
  PROVE  Decoded(k, b) \in KbdState
  <1>1. [k EXCEPT !.ext = TRUE] \in KbdState /\ [k EXCEPT !.ext = FALSE] \in KbdState
    BY DEF KbdState
  <1>2. \A c : Break(k, c) \in KbdState
    BY DEF KbdState, Break
  <1>3. \A c : Flags(k, c) \in KbdState
    BY DEF KbdState, Flags
  <1> QED
    BY <1>1, <1>2, <1>3 DEF Decoded

LEMMA Appending ==
  ASSUME NEW S, NEW s \in Seq(S), NEW x \in S, s # <<>>
  PROVE  /\ Append(s, x) # <<>> /\ Head(Append(s, x)) = Head(s)
         /\ Tail(Append(s, x)) = Append(Tail(s), x)
  <1> DEFINE a == Append(s, x)
  <1>1. /\ a \in Seq(S) /\ Len(a) = Len(s) + 1 /\ a[Len(s) + 1] = x
        /\ \A i \in 1..Len(s) : a[i] = s[i]
    BY AppendProperties
  <1>2. Len(s) \in Nat /\ Len(s) # 0
    BY EmptySeq
  <1>3. /\ Tail(s) \in Seq(S) /\ Len(Tail(s)) = Len(s) - 1
        /\ \A i \in 1..Len(s) - 1 : Tail(s)[i] = s[i + 1]
    BY HeadTailProperties
  <1>4. a # <<>>
    BY <1>1, <1>2
  <1>5. /\ Tail(a) \in Seq(S) /\ Len(Tail(a)) = Len(s)
        /\ \A i \in 1..Len(s) : Tail(a)[i] = a[i + 1]
    <2> HIDE DEF a
    <2> QED
      BY <1>1, <1>2, <1>4, HeadTailProperties
  <1>6. /\ Append(Tail(s), x) \in Seq(S) /\ Len(Append(Tail(s), x)) = Len(s)
        /\ Append(Tail(s), x)[Len(s)] = x
        /\ \A i \in 1..Len(s) - 1 : Append(Tail(s), x)[i] = Tail(s)[i]
    <2> DEFINE t == Tail(s)
    <2>1. t \in Seq(S) /\ Len(t) = Len(s) - 1
      BY <1>3
    <2> HIDE DEF t
    <2>2. /\ Append(t, x) \in Seq(S) /\ Len(Append(t, x)) = Len(t) + 1
          /\ Append(t, x)[Len(t) + 1] = x /\ \A i \in 1..Len(t) : Append(t, x)[i] = t[i]
      BY <2>1, AppendProperties
    <2>3. Len(t) + 1 = Len(s)
      BY <1>2, <2>1
    <2> QED
      BY <2>1, <2>2, <2>3 DEF t
  <1> HIDE DEF a
  <1>7. \A i \in 1..Len(s) : Tail(a)[i] = Append(Tail(s), x)[i]
    <2>1. ASSUME NEW i \in 1..Len(s)
          PROVE  Tail(a)[i] = Append(Tail(s), x)[i]
      <3>1. CASE i = Len(s)
        BY <1>1, <1>2, <1>5, <1>6, <3>1
      <3>2. CASE i # Len(s)
        <4>1. i \in 1..Len(s) - 1 /\ i + 1 \in 1..Len(s)
          BY <1>2, <3>2
        <4> QED
          BY <1>1, <1>3, <1>5, <1>6, <4>1
      <3> QED
        BY <3>1, <3>2
    <2> QED
      BY <2>1
  <1>8. Tail(a) = Append(Tail(s), x)
    BY <1>5, <1>6, <1>7, SeqEqual
  <1>9. Head(a) = Head(s)
    BY <1>1, <1>2, <1>4, HeadTailProperties
  <1> QED
    BY <1>4, <1>8, <1>9 DEF a

\* A byte that gives no character goes on the wire.
LEMMA PushQuiet ==
  ASSUME NEW w \in Seq(Nat), NEW m, NEW k, NEW k2 \in KbdState,
         Follows(w, m, k, k2), NEW b \in Nat, ~Prints(k2, b)
  PROVE  Follows(Append(w, b), m, k, Decoded(k2, b))
  <1> DEFINE n == Len(w)
             v == Append(w, b)
             e == Decoded(k2, b)
  <1>1. /\ n \in Nat /\ v \in Seq(Nat) /\ Len(v) = n + 1 /\ v[n + 1] = b
        /\ \A i \in 1..n : v[i] = w[i]
    BY AppendProperties
  <1>2. PICK ks \in [1..n + 1 -> KbdState], ms \in [1..n + 1 -> Seq(Meanings)] :
          /\ ks[1] = k /\ ms[1] = m /\ ks[n + 1] = k2 /\ ms[n + 1] = <<>>
          /\ \A i \in 1..n : Gives(ks[i], ms[i], w[i], ks[i + 1], ms[i + 1])
    BY DEF Follows
  <1>3. e \in KbdState
    BY DecodedType
  <1> DEFINE ls == [i \in 1..n + 2 |-> IF i <= n + 1 THEN ks[i] ELSE e]
             ts == [i \in 1..n + 2 |-> IF i <= n + 1 THEN ms[i] ELSE <<>>]
  <1> HIDE DEF n, v, e
  <1>4. /\ ls \in [1..n + 2 -> KbdState] /\ ts \in [1..n + 2 -> Seq(Meanings)]
        /\ \A i \in 1..n + 1 : ls[i] = ks[i] /\ ts[i] = ms[i]
        /\ ls[n + 2] = e /\ ts[n + 2] = <<>>
    BY <1>1, <1>3
  <1> HIDE DEF ls, ts
  <1>5. ASSUME NEW i \in 1..n + 1
        PROVE  Gives(ls[i], ts[i], v[i], ls[i + 1], ts[i + 1])
    <2>1. CASE i \in 1..n
      <3>1. i + 1 \in 1..n + 1
        BY <1>1, <2>1
      <3>2. /\ ls[i] = ks[i] /\ ts[i] = ms[i] /\ v[i] = w[i]
            /\ ls[i + 1] = ks[i + 1] /\ ts[i + 1] = ms[i + 1]
        BY <1>1, <1>4, <2>1, <3>1
      <3> QED
        BY <1>2, <2>1, <3>2
    <2>2. CASE i = n + 1
      <3>1. /\ ls[i] = k2 /\ ts[i] = <<>> /\ v[i] = b
            /\ ls[i + 1] = e /\ ts[i + 1] = <<>>
        <4>1. i + 1 = n + 2 /\ n + 1 \in 1..n + 1
          BY <1>1, <2>2
        <4> QED
          BY <1>1, <1>2, <1>4, <2>2, <4>1
      <3> QED
        BY <3>1 DEF e, Gives
    <2> QED
      BY <1>1, <2>1, <2>2
  <1>6. ls[1] = k /\ ts[1] = m
    BY <1>1, <1>2, <1>4
  <1>7. Len(v) + 1 = n + 2
    BY <1>1
  <1>8. /\ ls \in [1..Len(v) + 1 -> KbdState] /\ ts \in [1..Len(v) + 1 -> Seq(Meanings)]
        /\ ls[Len(v) + 1] = e /\ ts[Len(v) + 1] = <<>>
        /\ \A i \in 1..Len(v) : Gives(ls[i], ts[i], v[i], ls[i + 1], ts[i + 1])
    BY <1>1, <1>4, <1>5, <1>7
  <1>9. Follows(v, m, k, e)
    BY <1>6, <1>8 DEF Follows
  <1> QED
    BY <1>9 DEF v, e

\* A byte that gives a character goes on the wire, with what it is meant to be.
LEMMA PushCharacter ==
  ASSUME NEW w \in Seq(Nat), NEW m \in Seq(Meanings), NEW k, NEW k2 \in KbdState,
         Follows(w, m, k, k2), NEW b \in Nat, Prints(k2, b),
         NEW c \in Meanings, Character(k2, b) \in c
  PROVE  Follows(Append(w, b), Append(m, c), k, Decoded(k2, b))
  <1> DEFINE n == Len(w)
             v == Append(w, b)
             e == Decoded(k2, b)
  <1>1. /\ n \in Nat /\ v \in Seq(Nat) /\ Len(v) = n + 1 /\ v[n + 1] = b
        /\ \A i \in 1..n : v[i] = w[i]
    BY AppendProperties
  <1>2. PICK ks \in [1..n + 1 -> KbdState], ms \in [1..n + 1 -> Seq(Meanings)] :
          /\ ks[1] = k /\ ms[1] = m /\ ks[n + 1] = k2 /\ ms[n + 1] = <<>>
          /\ \A i \in 1..n : Gives(ks[i], ms[i], w[i], ks[i + 1], ms[i + 1])
    BY DEF Follows
  <1>3. e \in KbdState
    BY DecodedType
  <1>4. \A i \in 1..n + 1 : Append(ms[i], c) \in Seq(Meanings)
    <2>1. \A q \in Seq(Meanings) : Append(q, c) \in Seq(Meanings)
      BY AppendProperties
    <2>2. \A i \in 1..n + 1 : ms[i] \in Seq(Meanings)
      BY <1>2
    <2> QED
      BY <2>1, <2>2
  <1> DEFINE ls == [i \in 1..n + 2 |-> IF i <= n + 1 THEN ks[i] ELSE e]
             ts == [i \in 1..n + 2 |-> IF i <= n + 1 THEN Append(ms[i], c) ELSE <<>>]
  <1> HIDE DEF n, v, e
  <1>5. /\ ls \in [1..n + 2 -> KbdState] /\ ts \in [1..n + 2 -> Seq(Meanings)]
        /\ \A i \in 1..n + 1 : ls[i] = ks[i] /\ ts[i] = Append(ms[i], c)
        /\ ls[n + 2] = e /\ ts[n + 2] = <<>>
    <2>1. \A i \in 1..n + 2 : i <= n + 1 => i \in 1..n + 1
      BY <1>1
    <2>2. <<>> \in Seq(Meanings)
      OBVIOUS
    <2>3. ls \in [1..n + 2 -> KbdState]
      BY <1>2, <1>3, <2>1
    <2>4. ts \in [1..n + 2 -> Seq(Meanings)]
      BY <1>4, <2>1, <2>2
    <2>5. \A i \in 1..n + 1 : i \in 1..n + 2 /\ i <= n + 1
      BY <1>1
    <2>6. n + 2 \in 1..n + 2 /\ ~(n + 2 <= n + 1)
      BY <1>1
    <2> QED
      BY <2>3, <2>4, <2>5, <2>6
  <1> HIDE DEF ls, ts
  <1>6. ASSUME NEW i \in 1..n + 1
        PROVE  Gives(ls[i], ts[i], v[i], ls[i + 1], ts[i + 1])
    <2>1. CASE i \in 1..n
      <3>1. i + 1 \in 1..n + 1
        BY <1>1, <2>1
      <3>2. /\ ls[i] = ks[i] /\ ts[i] = Append(ms[i], c) /\ v[i] = w[i]
            /\ ls[i + 1] = ks[i + 1] /\ ts[i + 1] = Append(ms[i + 1], c)
        BY <1>1, <1>5, <2>1, <3>1
      <3>3. ms[i] \in Seq(Meanings)
        BY <1>2
      <3>4. ms[i] # <<>> =>
              /\ ts[i] # <<>> /\ Head(ts[i]) = Head(ms[i])
              /\ Tail(ts[i]) = Append(Tail(ms[i]), c)
        <4>1. \A q \in Seq(Meanings) : q # <<>> =>
                /\ Append(q, c) # <<>> /\ Head(Append(q, c)) = Head(q)
                /\ Tail(Append(q, c)) = Append(Tail(q), c)
          BY Appending
        <4> QED
          BY <3>2, <3>3, <4>1
      <3> QED
        BY <1>2, <2>1, <3>2, <3>4 DEF Gives
    <2>2. CASE i = n + 1
      <3>1. /\ ls[i] = k2 /\ ts[i] = Append(<<>>, c) /\ v[i] = b
            /\ ls[i + 1] = e /\ ts[i + 1] = <<>>
        <4>1. i + 1 = n + 2 /\ n + 1 \in 1..n + 1
          BY <1>1, <2>2
        <4> QED
          BY <1>1, <1>2, <1>5, <2>2, <4>1
      <3>2. Append(<<>>, c) = <<c>> /\ Head(<<c>>) = c /\ Tail(<<c>>) = <<>> /\ <<c>> # <<>>
        OBVIOUS
      <3> QED
        BY <3>1, <3>2 DEF e, Gives
    <2> QED
      BY <1>1, <2>1, <2>2
  <1>7. ls[1] = k /\ ts[1] = Append(m, c)
    <2>1. 1 \in 1..n + 1
      BY <1>1
    <2> QED
      BY <1>2, <1>5, <2>1
  <1>8. Len(v) + 1 = n + 2
    BY <1>1
  <1>9. /\ ls \in [1..Len(v) + 1 -> KbdState] /\ ts \in [1..Len(v) + 1 -> Seq(Meanings)]
        /\ ls[Len(v) + 1] = e /\ ts[Len(v) + 1] = <<>>
        /\ \A i \in 1..Len(v) : Gives(ls[i], ts[i], v[i], ls[i + 1], ts[i + 1])
    BY <1>1, <1>5, <1>6, <1>8
  <1>10. Follows(v, Append(m, c), k, e)
    BY <1>7, <1>9 DEF Follows
  <1> QED
    BY <1>10 DEF v, e

\* The first byte is taken off the wire.
LEMMA Pop ==
  ASSUME NEW w \in Seq(Nat), w # <<>>, NEW m, NEW k, NEW k2, Follows(w, m, k, k2)
  PROVE  /\ Prints(k, Head(w)) =>
              /\ m \in Seq(Meanings) /\ m # <<>> /\ Character(k, Head(w)) \in Head(m)
              /\ Follows(Tail(w), Tail(m), Decoded(k, Head(w)), k2)
         /\ ~Prints(k, Head(w)) => Follows(Tail(w), m, Decoded(k, Head(w)), k2)
  <1> DEFINE n == Len(w)
             v == Tail(w)
  <1>1. /\ n \in Nat /\ n # 0 /\ v \in Seq(Nat) /\ Len(v) = n - 1 /\ Head(w) = w[1]
        /\ \A i \in 1..n - 1 : v[i] = w[i + 1]
    BY HeadTailProperties, EmptySeq
  <1>2. PICK ks \in [1..n + 1 -> KbdState], ms \in [1..n + 1 -> Seq(Meanings)] :
          /\ ks[1] = k /\ ms[1] = m /\ ks[n + 1] = k2 /\ ms[n + 1] = <<>>
          /\ \A i \in 1..n : Gives(ks[i], ms[i], w[i], ks[i + 1], ms[i + 1])
    BY DEF Follows
  <1> DEFINE ls == [i \in 1..n |-> ks[i + 1]]
             ts == [i \in 1..n |-> ms[i + 1]]
  <1> HIDE DEF n, v
  <1>3. /\ ls \in [1..n -> KbdState] /\ ts \in [1..n -> Seq(Meanings)]
        /\ \A i \in 1..n : ls[i] = ks[i + 1] /\ ts[i] = ms[i + 1]
    <2>1. \A i \in 1..n : i + 1 \in 1..n + 1
      BY <1>1
    <2> QED
      BY <2>1
  <1> HIDE DEF ls, ts
  <1>4. ASSUME NEW i \in 1..n - 1
        PROVE  Gives(ls[i], ts[i], v[i], ls[i + 1], ts[i + 1])
    <2>1. i \in 1..n /\ i + 1 \in 1..n
      BY <1>1
    <2>2. /\ ls[i] = ks[i + 1] /\ ts[i] = ms[i + 1] /\ v[i] = w[i + 1]
          /\ ls[i + 1] = ks[(i + 1) + 1] /\ ts[i + 1] = ms[(i + 1) + 1]
      BY <1>1, <1>3, <2>1
    <2> QED
      BY <1>2, <2>1, <2>2
  <1>5. /\ 1 \in 1..n /\ n \in 1..n /\ Len(v) + 1 = n /\ Len(v) = n - 1
        /\ ls[1] = ks[1 + 1] /\ ts[1] = ms[1 + 1] /\ ls[n] = k2 /\ ts[n] = <<>>
    BY <1>1, <1>2, <1>3
  <1>6. /\ ls \in [1..Len(v) + 1 -> KbdState] /\ ts \in [1..Len(v) + 1 -> Seq(Meanings)]
        /\ ls[Len(v) + 1] = k2 /\ ts[Len(v) + 1] = <<>>
        /\ \A i \in 1..Len(v) : Gives(ls[i], ts[i], v[i], ls[i + 1], ts[i + 1])
    BY <1>3, <1>4, <1>5
  <1>7. Follows(v, ts[1], ls[1], k2)
    BY <1>6 DEF Follows
  <1>8. /\ ls[1] = Decoded(k, w[1])
        /\ Prints(k, w[1]) => m # <<>> /\ Character(k, w[1]) \in Head(m) /\ ts[1] = Tail(m)
        /\ ~Prints(k, w[1]) => ts[1] = m
    BY <1>2, <1>5 DEF Gives
  <1>9. m \in Seq(Meanings)
    BY <1>1, <1>2
  <1> QED
    BY <1>1, <1>7, <1>8, <1>9 DEF v
\* With nothing on the wire the handler has seen everything.
LEMMA Drained ==
  ASSUME NEW m, NEW k \in KbdState
  PROVE  /\ Follows(<<>>, <<>>, k, k)
         /\ \A k2 : Follows(<<>>, m, k, k2) => k2 = k
  <1>1. Len(<<>>) = 0 /\ 1..0 = {} /\ 1..0 + 1 = {1} /\ <<>> \in Seq(Meanings)
    BY EmptySeq
  <1>2. Follows(<<>>, <<>>, k, k)
    <2> DEFINE ks == [i \in {1} |-> k]
               ms == [i \in {1} |-> <<>>]
    <2>1. /\ ks \in [{1} -> KbdState] /\ ms \in [{1} -> Seq(Meanings)]
          /\ ks[1] = k /\ ms[1] = <<>>
      BY <1>1
    <2> HIDE DEF ks, ms
    <2>2. /\ ks \in [1..Len(<<>>) + 1 -> KbdState] /\ ms \in [1..Len(<<>>) + 1 -> Seq(Meanings)]
          /\ ks[Len(<<>>) + 1] = k /\ ms[Len(<<>>) + 1] = <<>>
          /\ \A i \in 1..Len(<<>>) : Gives(ks[i], ms[i], <<>>[i], ks[i + 1], ms[i + 1])
      BY <1>1, <2>1
    <2> QED
      BY <2>1, <2>2 DEF Follows
  <1>3. ASSUME NEW k2, Follows(<<>>, m, k, k2)
        PROVE  k2 = k
    BY <1>1, <1>3 DEF Follows
  <1> QED
    BY <1>2, <1>3

-----------------------------------------------------------------------------
\* What the bytes of one key do to the status.

KeyAfter(k, key, code) == IF key.ext THEN Decoded(Decoded(k, 224), code) ELSE Decoded(k, code)

LEMMA KeyFacts ==
  ASSUME NEW key \in Keys
  PROVE  /\ key.code \in 1..127
         /\ ~key.ext => key.code \in 1..58
         /\ key \in {letter, digit} => ~key.ext /\ key.code \in {38, 2}
         /\ key \notin {letter, digit} => key.code \notin {38, 2}
         /\ key \in Shifts <=> ~key.ext /\ key.code \in {42, 54}
         /\ key \in Ctrls <=> key.code = 29
         /\ key = caps_lock <=> key.code = 58
         /\ key = arrow => key.code = 72
         /\ key.ext <=> key \in {ctrl_r, arrow}
         /\ DOMAIN keymap = {38, 2}
  <1>1. /\ shift_l.ext = FALSE /\ shift_l.code = 42 /\ shift_r.ext = FALSE /\ shift_r.code = 54
        /\ ctrl_l.ext = FALSE /\ ctrl_l.code = 29 /\ ctrl_r.ext = TRUE /\ ctrl_r.code = 29
        /\ caps_lock.ext = FALSE /\ caps_lock.code = 58 /\ letter.ext = FALSE /\ letter.code = 38
        /\ digit.ext = FALSE /\ digit.code = 2 /\ arrow.ext = TRUE /\ arrow.code = 72
    BY DEF Key, shift_l, shift_r, ctrl_l, ctrl_r, caps_lock, letter, digit, arrow
  <1>2. DOMAIN keymap = {38, 2}
    BY DEF keymap
  <1>3. /\ key \in {shift_l, shift_r, ctrl_l, ctrl_r, caps_lock, letter, digit, arrow}
        /\ Shifts = {shift_l, shift_r} /\ Ctrls = {ctrl_l, ctrl_r}
    BY DEF Keys, Shifts, Ctrls
  <1>4. CASE key \in {shift_l, shift_r}
    BY <1>1, <1>2, <1>3, <1>4
  <1>5. CASE key \in {ctrl_l, ctrl_r}
    BY <1>1, <1>2, <1>3, <1>5
  <1>6. CASE key \in {caps_lock, arrow}
    BY <1>1, <1>2, <1>3, <1>6
  <1>7. CASE key \in {letter, digit}
    BY <1>1, <1>2, <1>3, <1>7
  <1> QED
    BY <1>3, <1>4, <1>5, <1>6, <1>7

LEMMA ExtFields ==
  ASSUME NEW k \in KbdState, NEW x \in BOOLEAN, NEW l, l = [k EXCEPT !.ext = x]
  PROVE  /\ l \in KbdState
         /\ l.ext = x /\ l.ctrl = k.ctrl /\ l.shift = k.shift /\ l.caps = k.caps
  BY DEF KbdState

LEMMA BreakFields ==
  ASSUME NEW k \in KbdState, NEW c, NEW l, l = Break(k, c)
  PROVE  /\ l \in KbdState /\ ~l.ext /\ l.caps = k.caps
         /\ l.ctrl <=> k.ctrl /\ c # 29
         /\ l.shift <=> k.shift /\ (k.ext \/ c \notin {42, 54})
  BY DEF KbdState, Break, ctrl_l, shift_l, shift_r, Key

LEMMA FlagsFields ==
  ASSUME NEW k \in KbdState, NEW c, NEW l, l = Flags(k, c)
  PROVE  /\ l \in KbdState /\ ~l.ext
         /\ l.ctrl <=> k.ctrl \/ c = 29
         /\ l.shift <=> k.shift \/ c \in {42, 54}
         /\ c = 58 => (l.caps <=> ~k.caps)
         /\ c # 58 => (l.caps <=> k.caps)
  BY DEF KbdState, Flags, ctrl_l, shift_l, shift_r, caps_lock, Key

\* A make code sets the flag of its kind of key, and caps lock's the other way.
LEMMA MakeStatus ==
  ASSUME NEW k \in KbdState, ~k.ext, NEW key \in Keys, NEW l, l = KeyAfter(k, key, key.code)
  PROVE  /\ l \in KbdState /\ ~l.ext
         /\ l.shift <=> k.shift \/ key \in Shifts
         /\ l.ctrl <=> k.ctrl \/ key \in Ctrls
         /\ key = caps_lock => (l.caps <=> ~k.caps)
         /\ key # caps_lock => (l.caps <=> k.caps)
  <1> DEFINE e == [k EXCEPT !.ext = TRUE]
  <1>1. e \in KbdState /\ e.ext /\ e.ctrl = k.ctrl /\ e.shift = k.shift /\ e.caps = k.caps
    BY ExtFields
  <1> HIDE DEF e
  <1>2. /\ key.code \in 1..127
        /\ ~key.ext => key.code \in 1..58
        /\ key \in Shifts <=> ~key.ext /\ key.code \in {42, 54}
        /\ key \in Ctrls <=> key.code = 29
        /\ key = caps_lock <=> key.code = 58
        /\ key = arrow => key.code = 72
        /\ key.ext <=> key \in {ctrl_r, arrow}
    BY KeyFacts
  <1>3. CASE key = arrow
    <2>1. key.ext /\ l = Decoded(e, 72)
      <3>1. key.ext /\ key.code = 72 /\ Decoded(k, 224) = e
        BY <1>2, <1>3 DEF Decoded, e
      <3> QED
        BY <3>1 DEF KeyAfter
    <2>2. l = [e EXCEPT !.ext = FALSE]
      BY <1>1, <2>1 DEF Decoded, Known, ctrl_r, Key
    <2>3. l \in KbdState /\ ~l.ext /\ l.ctrl = e.ctrl /\ l.shift = e.shift /\ l.caps = e.caps
      BY <1>1, <2>2 DEF KbdState
    <2>4. key \notin Shifts /\ key \notin Ctrls /\ key # caps_lock
      BY <1>2, <1>3, <2>1
    <2> QED
      BY <1>1, <2>3, <2>4
  <1>4. CASE key # arrow /\ key.ext
    <2>1. key.code = 29
      BY <1>2, <1>4 DEF ctrl_r, Key
    <2>2. l = Decoded(e, 29)
      BY <1>4, <2>1 DEF KeyAfter, Decoded, e
    <2>3. l = Flags(e, 29)
      BY <1>1, <2>2 DEF Decoded, Known, ctrl_r, Key
    <2>4. /\ l \in KbdState /\ ~l.ext /\ l.ctrl
          /\ l.shift <=> e.shift
          /\ l.caps <=> e.caps
      BY <1>1, <2>3, FlagsFields
    <2>5. key \notin Shifts /\ key \in Ctrls /\ key # caps_lock
      BY <1>2, <1>4, <2>1
    <2> QED
      BY <1>1, <2>4, <2>5
  <1>5. CASE key # arrow /\ ~key.ext
    <2>1. l = Decoded(k, key.code)
      BY <1>2, <1>5 DEF KeyAfter
    <2>2. l = Flags(k, key.code)
      <3>1. Known(key.code, k.ext) /\ key.code # 224 /\ ~(key.code >= 128)
        BY <1>2, <1>5 DEF Known
      <3> QED
        BY <2>1, <3>1 DEF Decoded
    <2>3. /\ l \in KbdState /\ ~l.ext
          /\ l.ctrl <=> k.ctrl \/ key.code = 29
          /\ l.shift <=> k.shift \/ key.code \in {42, 54}
          /\ key.code = 58 => (l.caps <=> ~k.caps)
          /\ key.code # 58 => (l.caps <=> k.caps)
      BY <2>2, FlagsFields
    <2> QED
      BY <1>2, <1>5, <2>3
  <1> QED
    BY <1>2, <1>3, <1>4, <1>5

\* A break code clears the flag of its kind of key.
LEMMA BreakStatus ==
  ASSUME NEW k \in KbdState, ~k.ext, NEW key \in Keys, NEW l, l = KeyAfter(k, key, key.code + 128)
  PROVE  /\ l \in KbdState /\ ~l.ext
         /\ l.shift <=> k.shift /\ key \notin Shifts
         /\ l.ctrl <=> k.ctrl /\ key \notin Ctrls
         /\ l.caps = k.caps
  <1> DEFINE e == [k EXCEPT !.ext = TRUE]
             c == key.code
  <1>1. e \in KbdState /\ e.ext /\ e.ctrl = k.ctrl /\ e.shift = k.shift /\ e.caps = k.caps
    BY ExtFields
  <1>2. /\ c \in 1..127
        /\ ~key.ext => c \in 1..58
        /\ key \in Shifts <=> ~key.ext /\ c \in {42, 54}
        /\ key \in Ctrls <=> c = 29
        /\ key.ext <=> key \in {ctrl_r, arrow}
        /\ key = arrow => c = 72
        /\ key = ctrl_r => c = 29
    BY KeyFacts DEF ctrl_r, Key
  <1>3. CASE key.ext
    <2>0. l = Decoded(e, c + 128)
      BY <1>3 DEF KeyAfter, Decoded
    <2> HIDE DEF e, c
    <2>1. c + 128 # 224 /\ c + 128 >= 128 /\ (c + 128) - 128 = c
      BY <1>2, <1>3
    <2>2. l = Break(e, c)
      BY <2>0, <2>1 DEF Decoded
    <2>3. /\ l \in KbdState /\ ~l.ext /\ l.caps = e.caps
          /\ l.ctrl <=> e.ctrl /\ c # 29
          /\ l.shift <=> e.shift /\ (e.ext \/ c \notin {42, 54})
      BY <1>1, <2>2, BreakFields
    <2> QED
      BY <1>1, <1>2, <1>3, <2>3
  <1>4. CASE ~key.ext
    <2>0. l = Decoded(k, c + 128) /\ c # 96
      BY <1>2, <1>4 DEF KeyAfter
    <2> HIDE DEF e, c
    <2>1. c + 128 # 224 /\ c + 128 >= 128 /\ (c + 128) - 128 = c
      BY <1>2, <2>0
    <2>2. l = Break(k, c)
      BY <2>0, <2>1 DEF Decoded
    <2>3. /\ l \in KbdState /\ ~l.ext /\ l.caps = k.caps
          /\ l.ctrl <=> k.ctrl /\ c # 29
          /\ l.shift <=> k.shift /\ (k.ext \/ c \notin {42, 54})
      BY <2>2, BreakFields
    <2> QED
      BY <1>2, <1>4, <2>3
  <1> QED
    BY <1>2, <1>3, <1>4

-----------------------------------------------------------------------------
\* The bytes of a key go on the wire.

LEMMA SendsBytes ==
  ASSUME NEW w \in Seq(Nat), NEW key \in Keys, NEW code \in Nat
  PROVE  /\ w \o Sends(key, code) \in Seq(Nat)
         /\ key.ext => w \o Sends(key, code) = Append(Append(w, 224), code)
         /\ ~key.ext => w \o Sends(key, code) = Append(w, code)
  <1>1. \A v \in Seq(Nat), b \in Nat : v \o <<b>> = Append(v, b) /\ Append(v, b) \in Seq(Nat)
    BY AppendIsConcat, AppendProperties
  <1>2. CASE key.ext
    <2>1. Sends(key, code) = <<224>> \o <<code>>
      BY <1>2 DEF Sends
    <2>2. w \o (<<224>> \o <<code>>) = (w \o <<224>>) \o <<code>>
      OBVIOUS
    <2> QED
      BY <1>1, <1>2, <2>1, <2>2
  <1>3. CASE ~key.ext
    <2>1. Sends(key, code) = <<code>>
      <3>1. Sends(key, code) = <<>> \o <<code>>
        BY <1>3 DEF Sends
      <3> QED
        BY <3>1
    <2> QED
      BY <1>1, <1>3, <2>1
  <1> QED
    BY <1>2, <1>3

\* Those of a key that prints nothing, and those of a key that comes up.
LEMMA SendQuiet ==
  ASSUME NEW w \in Seq(Nat), NEW m, NEW k, NEW k2 \in KbdState, ~k2.ext, Follows(w, m, k, k2),
         NEW key \in Keys, NEW code \in Nat,
         \/ code = key.code /\ key \notin {letter, digit}
         \/ code = key.code + 128
  PROVE  Follows(w \o Sends(key, code), m, k, KeyAfter(k2, key, code))
  <1>1. key.code \in 1..127 /\ (key \notin {letter, digit} => key.code \notin DOMAIN keymap)
    BY KeyFacts
  <1>2. \A l : ~Prints(l, code) /\ ~Prints(l, 224)
    <2>1. ~(code < 128) \/ code \notin DOMAIN keymap
      <3>1. CASE code = key.code + 128
        <4>1. \A n \in 1..127 : ~(n + 128 < 128)
          OBVIOUS
        <4>2. key.code \in 1..127
          BY <1>1
        <4> QED
          BY <3>1, <4>1, <4>2
      <3>2. CASE code = key.code /\ key \notin {letter, digit}
        BY <1>1, <3>2
      <3> QED
        BY <3>1, <3>2
    <2>2. ~(224 < 128)
      OBVIOUS
    <2> QED
      BY <2>1, <2>2 DEF Prints
  <1>3. CASE key.ext
    <2> DEFINE v == Append(w, 224)
               e == Decoded(k2, 224)
    <2>1. v \in Seq(Nat) /\ e \in KbdState
      BY AppendProperties, DecodedType
    <2>2. Follows(v, m, k, e)
      BY <1>2, PushQuiet
    <2> HIDE DEF v, e
    <2>3. Follows(Append(v, code), m, k, Decoded(e, code))
      BY <1>2, <2>1, <2>2, PushQuiet
    <2>4. w \o Sends(key, code) = Append(v, code)
      BY <1>3, SendsBytes DEF v
    <2>5. KeyAfter(k2, key, code) = Decoded(e, code)
      BY <1>3 DEF KeyAfter, e
    <2> QED
      BY <2>3, <2>4, <2>5
  <1>4. CASE ~key.ext
    <2>1. Follows(Append(w, code), m, k, Decoded(k2, code))
      BY <1>2, PushQuiet
    <2>2. w \o Sends(key, code) = Append(w, code)
      BY <1>4, SendsBytes
    <2> QED
      BY <1>4, <2>1, <2>2 DEF KeyAfter
  <1> QED
    BY <1>3, <1>4

\* That of a key that prints.
LEMMA SendCharacter ==
  ASSUME NEW w \in Seq(Nat), NEW m \in Seq(Meanings), NEW k, NEW k2 \in KbdState, ~k2.ext,
         Follows(w, m, k, k2), NEW key \in {letter, digit}, NEW c \in Meanings,
         Character(k2, key.code) \in c
  PROVE  Follows(w \o Sends(key, key.code), Append(m, c), k, KeyAfter(k2, key, key.code))
  <1>1. key \in Keys
    BY DEF Keys
  <1>2. ~key.ext /\ key.code \in {38, 2} /\ DOMAIN keymap = {38, 2}
    BY <1>1, KeyFacts
  <1>3. Prints(k2, key.code) /\ key.code \in Nat
    <2>1. \A n \in {38, 2} : n \in Nat /\ n < 128 /\ n \in 1..58
      OBVIOUS
    <2>2. key.code \in Nat /\ key.code < 128 /\ key.code \in 1..58
      BY <1>2, <2>1
    <2>3. Known(key.code, k2.ext)
      BY <2>2 DEF Known
    <2>4. key.code \in DOMAIN keymap
      BY <1>2
    <2> QED
      BY <2>2, <2>3, <2>4 DEF Prints
  <1>4. Follows(Append(w, key.code), Append(m, c), k, Decoded(k2, key.code))
    BY <1>3, PushCharacter
  <1>5. w \o Sends(key, key.code) = Append(w, key.code)
    BY <1>1, <1>2, <1>3, SendsBytes
  <1>6. KeyAfter(k2, key, key.code) = Decoded(k2, key.code)
    BY <1>2 DEF KeyAfter
  <1> QED
    BY <1>4, <1>5, <1>6

\* A status that agrees with the keys makes of a key what it is meant to say.
LEMMA CharacterMeant ==
  ASSUME NEW k \in KbdState, Agrees(k), caps \in BOOLEAN, NEW key \in {letter, digit}
  PROVE  Character(k, key.code) \in Meaning(key) /\ Meaning(key) \in Meanings
  <1>1. /\ letter.code = 38 /\ digit.code = 2 /\ letter # digit
        /\ keymap[38] = <<"l", "L">> /\ keymap[2] = <<"1", "!">>
    BY DEF letter, digit, Key, keymap
  <1>2. CASE key = letter
    <2>1. Character(k, 38) =
            IF k.shift # k.caps THEN "L" ELSE IF k.ctrl THEN "clear" ELSE "l"
      BY <1>1 DEF Character, Shifted
    <2>2. CASE crossed # {}
      BY <1>1, <1>2, <2>1, <2>2 DEF Meaning, Meanings
    <2>3. CASE crossed = {}
      <3>1. /\ k.shift <=> Held(Shifts)
            /\ k.ctrl <=> Held(Ctrls)
            /\ k.caps <=> caps
        BY <2>3 DEF Agrees
      <3>2. k.shift \in BOOLEAN /\ k.caps \in BOOLEAN /\ Held(Shifts) \in BOOLEAN
        BY DEF KbdState, Held
      <3>3. k.shift # k.caps <=> Held(Shifts) # caps
        BY <3>1, <3>2
      <3> QED
        BY <1>1, <1>2, <2>1, <2>3, <3>1, <3>3 DEF Meaning, Meanings
    <2> QED
      BY <2>2, <2>3
  <1>3. CASE key = digit
    <2>1. Character(k, 2) = IF k.shift THEN "!" ELSE "1"
      BY <1>1 DEF Character, Shifted
    <2>2. "shift" \notin crossed => (k.shift <=> Held(Shifts))
      BY DEF Agrees
    <2> QED
      BY <1>1, <1>3, <2>1, <2>2 DEF Meaning, Meanings
  <1> QED
    BY <1>2, <1>3

\* A flag follows the keys of its kind, when one of them goes down or up.  f and f2 are the
\* flag before and after, D and D2 the keys that are down, c and c2 whether it is crossed.
LEMMA FlagFollows ==
  ASSUME NEW a, NEW b, NEW P, P = {a, b}, NEW D, NEW D2, NEW key,
         NEW f \in BOOLEAN, NEW f2 \in BOOLEAN, NEW c \in BOOLEAN, NEW c2 \in BOOLEAN,
         ~c => (f <=> P \cap D # {}), P \cap D = {} => ~f, ~c => ~(P \subseteq D),
         \/ D2 = D \cup {key} /\ (f2 <=> f \/ key \in P)
         \/ D2 = D \ {key} /\ key \in D /\ (f2 <=> f /\ key \notin P),
         c2 <=> P \subseteq D2 \/ (c /\ P \cap D2 # {})
  PROVE  /\ ~c2 => (f2 <=> P \cap D2 # {})
         /\ P \cap D2 = {} => ~f2
         /\ ~c2 => ~(P \subseteq D2)
  <1>1. CASE key \notin P
    <2>1. P \cap D2 = P \cap D /\ (P \subseteq D2 <=> P \subseteq D)
      BY <1>1
    <2>2. f2 <=> f
      BY <1>1
    <2> QED
      BY <2>1, <2>2
  <1>2. CASE key \in P /\ D2 = D \cup {key}
    <2>1. P \cap D2 # {}
      BY <1>2
    <2>2. f2 \/ (D2 = D \ {key} /\ key \in D)
      BY <1>2
    <2>3. ~(D2 = D \ {key} /\ key \in D)
      BY <1>2
    <2> QED
      BY <2>1, <2>2, <2>3
  <1>3. CASE key \in P /\ D2 = D \ {key} /\ key \in D
    <2>1. ~f2 /\ ~(P \subseteq D2)
      BY <1>3
    <2>2. ~c => P \cap D2 = {}
      BY <1>3
    <2> QED
      BY <2>1, <2>2
  <1> QED
    BY <1>1, <1>2, <1>3

-----------------------------------------------------------------------------
\* The steps.

\* When a key goes down, repeats itself or comes up, the status at the end agrees again.
LEMMA StillAgrees ==
  ASSUME NEW key \in Keys, NEW k \in KbdState, NEW l \in KbdState, Agrees(k), ~l.ext,
         caps \in BOOLEAN, caps' \in BOOLEAN,
         "shift" \notin crossed => ~(Shifts \subseteq down),
         "ctrl" \notin crossed => ~(Ctrls \subseteq down),
         NEW r \in BOOLEAN, crossed' = Crossing(down', r),
         \/ /\ down' = down \cup {key}
            /\ l.shift <=> k.shift \/ key \in Shifts
            /\ l.ctrl <=> k.ctrl \/ key \in Ctrls
         \/ /\ down' = down \ {key} /\ key \in down
            /\ l.shift <=> k.shift /\ key \notin Shifts
            /\ l.ctrl <=> k.ctrl /\ key \notin Ctrls,
         ~r => ((l.caps <=> caps') <=> (k.caps <=> caps))
  PROVE  /\ Agrees(l)'
         /\ "shift" \notin crossed' => ~(Shifts \subseteq down')
         /\ "ctrl" \notin crossed' => ~(Ctrls \subseteq down')
  <1>1. /\ "shift" \in crossed' <=>
             Shifts \subseteq down' \/ ("shift" \in crossed /\ Shifts \cap down' # {})
        /\ "ctrl" \in crossed' <=>
             Ctrls \subseteq down' \/ ("ctrl" \in crossed /\ Ctrls \cap down' # {})
        /\ "caps" \in crossed' <=> "caps" \in crossed \/ r
    BY DEF Crossing
  <1>2. k.shift \in BOOLEAN /\ k.ctrl \in BOOLEAN /\ l.shift \in BOOLEAN /\ l.ctrl \in BOOLEAN
    BY DEF KbdState
  <1>3. /\ "shift" \notin crossed' => (l.shift <=> Shifts \cap down' # {})
        /\ Shifts \cap down' = {} => ~l.shift
        /\ "shift" \notin crossed' => ~(Shifts \subseteq down')
    <2> DEFINE c == "shift" \in crossed
               c2 == "shift" \in crossed'
               f == k.shift
               f2 == l.shift
    <2>1. /\ ~c => (f <=> Shifts \cap down # {})
          /\ Shifts \cap down = {} => ~f
          /\ ~c => ~(Shifts \subseteq down)
      BY DEF Agrees, Held
    <2>2. \/ down' = down \cup {key} /\ (f2 <=> f \/ key \in Shifts)
          \/ down' = down \ {key} /\ key \in down /\ (f2 <=> f /\ key \notin Shifts)
      OBVIOUS
    <2>3. c2 <=> Shifts \subseteq down' \/ (c /\ Shifts \cap down' # {})
      BY <1>1
    <2>4. f \in BOOLEAN /\ f2 \in BOOLEAN /\ c \in BOOLEAN /\ c2 \in BOOLEAN
      BY <1>2
    <2>5. Shifts = {shift_l, shift_r}
      BY DEF Shifts
    <2> HIDE DEF c, c2, f, f2
    <2>6. /\ ~c2 => (f2 <=> Shifts \cap down' # {})
          /\ Shifts \cap down' = {} => ~f2
          /\ ~c2 => ~(Shifts \subseteq down')
      BY <2>1, <2>2, <2>3, <2>4, <2>5, FlagFollows
    <2> QED
      BY <2>6 DEF c2, f2
  <1>4. /\ "ctrl" \notin crossed' => (l.ctrl <=> Ctrls \cap down' # {})
        /\ Ctrls \cap down' = {} => ~l.ctrl
        /\ "ctrl" \notin crossed' => ~(Ctrls \subseteq down')
    <2> DEFINE c == "ctrl" \in crossed
               c2 == "ctrl" \in crossed'
               f == k.ctrl
               f2 == l.ctrl
    <2>1. /\ ~c => (f <=> Ctrls \cap down # {})
          /\ Ctrls \cap down = {} => ~f
          /\ ~c => ~(Ctrls \subseteq down)
      BY DEF Agrees, Held
    <2>2. \/ down' = down \cup {key} /\ (f2 <=> f \/ key \in Ctrls)
          \/ down' = down \ {key} /\ key \in down /\ (f2 <=> f /\ key \notin Ctrls)
      OBVIOUS
    <2>3. c2 <=> Ctrls \subseteq down' \/ (c /\ Ctrls \cap down' # {})
      BY <1>1
    <2>4. f \in BOOLEAN /\ f2 \in BOOLEAN /\ c \in BOOLEAN /\ c2 \in BOOLEAN
      BY <1>2
    <2>5. Ctrls = {ctrl_l, ctrl_r}
      BY DEF Ctrls
    <2> HIDE DEF c, c2, f, f2
    <2>6. /\ ~c2 => (f2 <=> Ctrls \cap down' # {})
          /\ Ctrls \cap down' = {} => ~f2
          /\ ~c2 => ~(Ctrls \subseteq down')
      BY <2>1, <2>2, <2>3, <2>4, <2>5, FlagFollows
    <2> QED
      BY <2>6 DEF c2, f2
  <1>5. "caps" \notin crossed' => (l.caps <=> caps')
    BY <1>1 DEF Agrees
  <1> QED
    BY <1>3, <1>4, <1>5 DEF Agrees, Held

\* Press and RepeatKey: what the make code of key leads to.
LEMMA MakeFollows ==
  ASSUME KeyboardTypeOK, NEW key \in Keys, Make(key), UNCHANGED kbd,
         NEW k \in KbdState, Agrees(k), Follows(wire, meant, kbd, k)
  PROVE  /\ wire' \in Seq(Nat) /\ meant' \in Seq(Meanings)
         /\ Follows(wire', meant', kbd', KeyAfter(k, key, key.code))
  <1>1. key.code \in Nat
    BY KeyFacts
  <1>2. wire \in Seq(Nat) /\ meant \in Seq(Meanings) /\ caps \in BOOLEAN /\ ~k.ext
    BY DEF KeyboardTypeOK, Agrees
  <1>3. wire' = wire \o Sends(key, key.code) /\ wire' \in Seq(Nat)
    BY <1>1, <1>2, SendsBytes DEF Make
  <1>4. CASE key \in {letter, digit}
    <2>1. Character(k, key.code) \in Meaning(key) /\ Meaning(key) \in Meanings
      BY <1>2, <1>4, CharacterMeant
    <2>2. meant' = Append(meant, Meaning(key)) /\ meant' \in Seq(Meanings)
      BY <1>2, <1>4, <2>1, AppendProperties DEF Make
    <2>3. Follows(wire \o Sends(key, key.code), Append(meant, Meaning(key)), kbd,
                  KeyAfter(k, key, key.code))
      BY <1>2, <1>4, <2>1, SendCharacter
    <2> QED
      BY <1>3, <2>2, <2>3
  <1>5. CASE key \notin {letter, digit}
    <2>1. meant' = meant
      BY <1>5 DEF Make
    <2>2. Follows(wire \o Sends(key, key.code), meant, kbd, KeyAfter(k, key, key.code))
      BY <1>1, <1>2, <1>5, SendQuiet
    <2> QED
      BY <1>2, <1>3, <2>1, <2>2
  <1> QED
    BY <1>4, <1>5

LEMMA PressStep ==
  ASSUME KeyboardInv, NEW key \in Keys, Press(key)
  PROVE  KeyboardInv'
  <1>1. PICK k \in KbdState : Agrees(k) /\ Follows(wire, meant, kbd, k)
    BY DEF KeyboardInv
  <1> DEFINE l == KeyAfter(k, key, key.code)
  <1>2. KeyboardTypeOK /\ Make(key) /\ UNCHANGED <<kbd, char>> /\ ~k.ext
    BY <1>1 DEF KeyboardInv, Press, Agrees
  <1>3. /\ wire' \in Seq(Nat) /\ meant' \in Seq(Meanings)
        /\ Follows(wire', meant', kbd', l)
    BY <1>1, <1>2, MakeFollows
  <1>4. /\ l \in KbdState /\ ~l.ext
        /\ l.shift <=> k.shift \/ key \in Shifts
        /\ l.ctrl <=> k.ctrl \/ key \in Ctrls
        /\ key = caps_lock => (l.caps <=> ~k.caps)
        /\ key # caps_lock => (l.caps <=> k.caps)
    BY <1>2, MakeStatus
  <1> HIDE DEF l
  <1>5. /\ caps \in BOOLEAN /\ caps' \in BOOLEAN
        /\ (l.caps <=> caps') <=> (k.caps <=> caps)
    BY <1>2, <1>4 DEF KeyboardTypeOK, Press
  <1>6. /\ Agrees(l)'
        /\ "shift" \notin crossed' => ~(Shifts \subseteq down')
        /\ "ctrl" \notin crossed' => ~(Ctrls \subseteq down')
    <2>1. /\ down' = down \cup {key} /\ crossed' = Crossing(down', FALSE)
          /\ "shift" \notin crossed => ~(Shifts \subseteq down)
          /\ "ctrl" \notin crossed => ~(Ctrls \subseteq down)
      BY DEF Press, KeyboardInv
    <2> QED
      BY <1>1, <1>4, <1>5, <2>1, StillAgrees
  <1> QED
    BY <1>2, <1>3, <1>4, <1>5, <1>6 DEF KeyboardInv, KeyboardTypeOK

LEMMA RepeatStep ==
  ASSUME KeyboardInv, NEW key \in Keys, RepeatKey(key)
  PROVE  KeyboardInv'
  <1>1. PICK k \in KbdState : Agrees(k) /\ Follows(wire, meant, kbd, k)
    BY DEF KeyboardInv
  <1> DEFINE l == KeyAfter(k, key, key.code)
             r == key = caps_lock
  <1>2. KeyboardTypeOK /\ Make(key) /\ UNCHANGED <<down, kbd, char, caps>> /\ ~k.ext
    BY <1>1 DEF KeyboardInv, RepeatKey, Agrees
  <1>3. /\ wire' \in Seq(Nat) /\ meant' \in Seq(Meanings)
        /\ Follows(wire', meant', kbd', l)
    BY <1>1, <1>2, MakeFollows
  <1>4. /\ l \in KbdState /\ ~l.ext
        /\ l.shift <=> k.shift \/ key \in Shifts
        /\ l.ctrl <=> k.ctrl \/ key \in Ctrls
        /\ key = caps_lock => (l.caps <=> ~k.caps)
        /\ key # caps_lock => (l.caps <=> k.caps)
    BY <1>2, MakeStatus
  <1> HIDE DEF l
  <1>5. /\ caps \in BOOLEAN /\ caps' \in BOOLEAN /\ r \in BOOLEAN
        /\ ~r => ((l.caps <=> caps') <=> (k.caps <=> caps))
    BY <1>2, <1>4 DEF KeyboardTypeOK
  <1>6. /\ Agrees(l)'
        /\ "shift" \notin crossed' => ~(Shifts \subseteq down')
        /\ "ctrl" \notin crossed' => ~(Ctrls \subseteq down')
    <2>1. /\ down' = down \cup {key} /\ crossed' = Crossing(down', r)
          /\ "shift" \notin crossed => ~(Shifts \subseteq down)
          /\ "ctrl" \notin crossed => ~(Ctrls \subseteq down)
      BY DEF RepeatKey, KeyboardInv
    <2> HIDE DEF r
    <2> QED
      BY <1>1, <1>4, <1>5, <2>1, StillAgrees
  <1> QED
    BY <1>2, <1>3, <1>4, <1>5, <1>6 DEF KeyboardInv, KeyboardTypeOK

LEMMA LetGoStep ==
  ASSUME KeyboardInv, NEW key \in Keys, LetGo(key)
  PROVE  KeyboardInv'
  <1>1. PICK k \in KbdState : Agrees(k) /\ Follows(wire, meant, kbd, k)
    BY DEF KeyboardInv
  <1> DEFINE l == KeyAfter(k, key, key.code + 128)
  <1>2. /\ KeyboardTypeOK /\ UNCHANGED <<kbd, char, meant, caps>> /\ ~k.ext
        /\ wire' = wire \o Sends(key, key.code + 128) /\ key.code + 128 \in Nat
    <2>1. key.code \in 1..127
      BY KeyFacts
    <2>2. key.code + 128 \in Nat
      BY <2>1
    <2> QED
      BY <1>1, <2>2 DEF KeyboardInv, LetGo, Agrees
  <1>3. wire' \in Seq(Nat) /\ Follows(wire', meant', kbd', l)
    <2>1. wire \in Seq(Nat)
      BY <1>2 DEF KeyboardTypeOK
    <2>2. wire \o Sends(key, key.code + 128) \in Seq(Nat)
      BY <1>2, <2>1, SendsBytes
    <2>3. Follows(wire \o Sends(key, key.code + 128), meant, kbd, l)
      BY <1>1, <1>2, <2>1, SendQuiet
    <2> HIDE DEF l
    <2> QED
      BY <1>2, <2>2, <2>3
  <1>4. /\ l \in KbdState /\ ~l.ext
        /\ l.shift <=> k.shift /\ key \notin Shifts
        /\ l.ctrl <=> k.ctrl /\ key \notin Ctrls
        /\ l.caps = k.caps
    BY <1>2, BreakStatus
  <1> HIDE DEF l
  <1>5. caps \in BOOLEAN /\ caps' = caps
    BY <1>2 DEF KeyboardTypeOK
  <1>6. /\ Agrees(l)'
        /\ "shift" \notin crossed' => ~(Shifts \subseteq down')
        /\ "ctrl" \notin crossed' => ~(Ctrls \subseteq down')
    <2>1. /\ down' = down \ {key} /\ key \in down /\ crossed' = Crossing(down', FALSE)
          /\ "shift" \notin crossed => ~(Shifts \subseteq down)
          /\ "ctrl" \notin crossed => ~(Ctrls \subseteq down)
      BY DEF LetGo, KeyboardInv
    <2> QED
      BY <1>1, <1>4, <1>5, <2>1, StillAgrees
  <1> QED
    BY <1>2, <1>3, <1>4, <1>5, <1>6 DEF KeyboardInv, KeyboardTypeOK

LEMMA InterruptStep ==
  ASSUME KeyboardInv, KeyboardInterrupt
  PROVE  KeyboardInv'
  <1>1. PICK k \in KbdState : Agrees(k) /\ Follows(wire, meant, kbd, k)
    BY DEF KeyboardInv
  <1> DEFINE b == Head(wire)
  <1>2. /\ wire \in Seq(Nat) /\ wire # <<>> /\ meant \in Seq(Meanings) /\ kbd \in KbdState
        /\ caps \in BOOLEAN /\ wire' = Tail(wire) /\ kbd' = Decoded(kbd, b)
        /\ UNCHANGED <<down, caps, crossed>>
    BY DEF KeyboardInv, KeyboardTypeOK, KeyboardInterrupt
  <1>3. Tail(wire) \in Seq(Nat) /\ b \in Nat
    BY <1>2, HeadTailProperties
  <1>4. /\ Prints(kbd, b) =>
             /\ meant # <<>> /\ Character(kbd, b) \in Head(meant)
             /\ Follows(Tail(wire), Tail(meant), Decoded(kbd, b), k)
        /\ ~Prints(kbd, b) => Follows(Tail(wire), meant, Decoded(kbd, b), k)
    BY <1>1, <1>2, Pop
  <1>5. kbd' \in KbdState
    BY <1>2, <1>3, DecodedType
  <1>6. Agrees(k)'
    BY <1>1, <1>2 DEF Agrees, Held
  <1>7. /\ meant' \in Seq(Meanings) /\ Follows(wire', meant', kbd', k)
        /\ char'.got \in char'.meant
    <2>1. CASE Prints(kbd, b)
      <3>1. /\ char' = [got |-> Character(kbd, b), meant |-> Head(meant)]
            /\ meant' = Tail(meant)
        BY <2>1 DEF KeyboardInterrupt
      <3>2. Tail(meant) \in Seq(Meanings)
        BY <1>2, <1>4, <2>1, HeadTailProperties
      <3> QED
        BY <1>2, <1>4, <2>1, <3>1, <3>2
    <2>2. CASE ~Prints(kbd, b)
      <3>1. char' = Nothing /\ meant' = meant
        BY <2>2 DEF KeyboardInterrupt
      <3> QED
        BY <1>2, <1>4, <2>2, <3>1 DEF Nothing
    <2> QED
      BY <2>1, <2>2
  <1> QED
    BY <1>2, <1>3, <1>5, <1>6, <1>7 DEF KeyboardInv, KeyboardTypeOK

LEMMA KeyboardInitial ==
  ASSUME KeyboardInit
  PROVE  KeyboardInv
  <1>1. KeyboardTypeOK /\ char.got \in char.meant
    <2>1. <<>> \in Seq(Nat) /\ <<>> \in Seq(Meanings)
      OBVIOUS
    <2>2. kbd \in KbdState
      BY DEF KeyboardInit, KbdState
    <2> QED
      BY <2>1, <2>2 DEF KeyboardInit, KeyboardTypeOK, Nothing
  <1>2. Agrees(kbd) /\ ~(Shifts \subseteq down) /\ ~(Ctrls \subseteq down)
    BY DEF KeyboardInit, Agrees, Held, Shifts, Ctrls
  <1>3. Follows(wire, meant, kbd, kbd)
    BY <1>1, Drained DEF KeyboardInit, KeyboardTypeOK
  <1> QED
    BY <1>1, <1>2, <1>3 DEF KeyboardInv, KeyboardTypeOK

\* The driver knows the keys: every character it takes is one that the user means, and
\* with nothing on the wire its flags agree with the keys that are down.
THEOREM KeyboardCorrect == KeyboardSpec => []KeysAsHeld
  <1>1. KeyboardInit => KeyboardInv
    BY KeyboardInitial
  <1>2. KeyboardInv /\ [KeyboardNext]_keyboardVars => KeyboardInv'
    <2> SUFFICES ASSUME KeyboardInv, [KeyboardNext]_keyboardVars
                 PROVE  KeyboardInv'
      OBVIOUS
    <2>1. CASE KeyboardNext
      BY <2>1, PressStep, RepeatStep, LetGoStep, InterruptStep DEF KeyboardNext
    <2>2. CASE UNCHANGED keyboardVars
      BY <2>2 DEF keyboardVars, KeyboardInv, KeyboardTypeOK, Agrees, Held
    <2> QED
      BY <2>1, <2>2
  <1>3. KeyboardInv => KeysAsHeld
    <2> SUFFICES ASSUME KeyboardInv
                 PROVE  KeysAsHeld
      OBVIOUS
    <2>1. PICK k \in KbdState : Agrees(k) /\ Follows(wire, meant, kbd, k)
      BY DEF KeyboardInv
    <2>2. kbd \in KbdState /\ caps \in BOOLEAN /\ char.got \in char.meant
      BY DEF KeyboardInv, KeyboardTypeOK
    <2>3. CASE wire = <<>>
      <3>1. kbd = k
        BY <2>1, <2>2, <2>3, Drained
      <3>2. kbd.shift \in BOOLEAN /\ kbd.ctrl \in BOOLEAN /\ kbd.caps \in BOOLEAN
        BY <2>2 DEF KbdState
      <3> QED
        BY <2>1, <2>2, <3>1, <3>2 DEF KeysAsHeld, Agrees, Held
    <2> QED
      BY <2>2, <2>3 DEF KeysAsHeld
  <1> QED
    BY <1>1, <1>2, <1>3, PTL DEF KeyboardSpec

=============================================================================
