---------------------------- MODULE IoQueue_proofs -----------------------------
(***************************************************************************)
(* The safety of the keyboard buffer for every set of readers and keys,    *)
(* every priority and every size of the ring: IInv is inductive, the       *)
(* invariants follow, and the ring implements KeyQueue.                    *)
(***************************************************************************)
EXTENDS IoQueue, Scheduler_proofs

\* What the proofs need of the constants.
LEMMA Constants ==
  /\ Idle \in Tasks /\ First \in Readers /\ Readers \subseteq Tasks
  /\ NoTask \notin Tasks /\ BufSize \in Nat \ {0, 1}
  BY SchedulerAssumption, IoQueueAssumption DEF Readers

\* What TypeOK says of the parts of the state, in the form the steps use it.
LEMMA Types ==
  ASSUME TypeOK
  PROVE  /\ sched \in SchedulerState /\ sched.cur \in Tasks
         /\ sched.status \in [Tasks -> TaskStatus]
         /\ lock \in SemaphoreState
         /\ lock.waiters \in Seq(Tasks)
         /\ consumer \in Readers \cup {NoTask}
         /\ head \in 0..BufSize-1 /\ tail \in 0..BufSize-1
  BY StateComponents DEF TypeOK, SemaphoreState

\* NextPos stays in the ring.
LEMMA NextPosLemma ==
  ASSUME NEW pos \in 0..BufSize-1
  PROVE  /\ NextPos(pos) = IF pos = BufSize - 1 THEN 0 ELSE pos + 1
         /\ NextPos(pos) \in 0..BufSize-1
  BY Constants DEF NextPos

\* The state in which a reader arrives at the loop of ioq_getchar, or at its
\* sema_down: the processor is its own, it holds no lock and is not recorded.
Ready(t, s, l) ==
  /\ s \in SchedulerState /\ s.ok /\ WellFormed(s) /\ s.cur = t
  /\ l \in SemaphoreState /\ l.value \in {0, 1}
  /\ l.value = 1 <=> \A u \in Readers \ {t} : pc[u] # "asleep"
  /\ IsInjective(l.waiters)
  /\ \A u \in Tasks :
       Contains(l.waiters, u) <=>
         u \in Readers /\ pc[u] = "queued" /\ s.status[u] = "BLOCKED"
  /\ \A u \in Readers :
       consumer = u <=> u # t /\ pc[u] = "asleep" /\ s.status[u] = "BLOCKED"

-----------------------------------------------------------------------------
\* IInv holds when the ring has been set up.
THEOREM InitIInv == Init => IInv
  <1> SUFFICES ASSUME Init PROVE IInv
    OBVIOUS
  <1> USE Constants
  <1>1. sched \in SchedulerState
    BY SchedulerAssumption, IoQueueAssumption DEF Init, SchedulerState, TaskStatus, Readers
  <1>2. TypeOK
    BY <1>1 DEF Init, TypeOK, SemaphoreState, SemaInit
  <1>3. WellFormed(sched)
    BY IoQueueAssumption DEF Init, WellFormed, OneRunning, ReadyListExact, IdleAvailable
  <1>4. sched.ok /\ PcInv /\ LockInv /\ ConsumerInv
    BY DEF Init, PcInv, LockInv, ConsumerInv, SemaInit, Readers
  <1>5. WaitersInv
    BY DEF Init, WaitersInv, SemaInit, IsInjective, Contains
  <1> QED
    BY <1>2, <1>3, <1>4, <1>5 DEF IInv

\* A reader on the processor that is in user mode or has been woken in
\* sema_down is ready; one woken in ioq_wait is when it has released the lock.
LEMMA ReaderReady ==
  ASSUME IInv, NEW t \in Readers, sched.cur = t
  PROVE  /\ pc[t] \in {"user", "queued"} => Ready(t, sched, lock)
         /\ pc[t] = "asleep" => Ready(t, SemaUpSched(sched, lock), SemaUp(lock))
  <1> USE Constants
  <1>1. sched.status[t] = "RUNNING"
    BY DEF IInv, WellFormed, OneRunning
  <1>2. ASSUME pc[t] \in {"user", "queued"}
        PROVE  Ready(t, sched, lock)
    BY <1>2, Types DEF IInv, Ready, LockInv, WaitersInv, ConsumerInv
  <1>3. ASSUME pc[t] = "asleep"
        PROVE  Ready(t, SemaUpSched(sched, lock), SemaUp(lock))
    <2> DEFINE s == SemaUpSched(sched, lock)
               l == SemaUp(lock)
    <2>1. lock.value = 0 /\ \A u \in Readers \ {t} : pc[u] # "asleep"
      BY <1>3 DEF IInv, LockInv
    <2>a. /\ sched \in SchedulerState /\ WellFormed(sched) /\ sched.ok
          /\ lock \in SemaphoreState /\ IsInjective(lock.waiters)
          /\ \A u \in Tasks : Contains(lock.waiters, u) => sched.status[u] = "BLOCKED"
      BY Types DEF IInv, WaitersInv
    <2>2. /\ s \in SchedulerState /\ s.ok /\ s.cur = t /\ WellFormed(s)
          /\ l \in SemaphoreState /\ l.value = 1 /\ IsInjective(l.waiters)
          /\ \E W \in SUBSET Tasks :
              /\ \A u \in W : Contains(lock.waiters, u) /\ s.status[u] = "READY"
              /\ \A u \in Tasks \ W : s.status[u] = sched.status[u]
              /\ \A u \in Tasks : Contains(l.waiters, u) <=> Contains(lock.waiters, u) /\ u \notin W
      BY <2>1, <2>a, SemaUpLemma
    <2> HIDE DEF s, l
    <2>3. \A u \in Tasks :
            Contains(l.waiters, u) <=>
              u \in Readers /\ pc[u] = "queued" /\ s.status[u] = "BLOCKED"
      BY <2>2 DEF IInv, WaitersInv
    <2>4. \A u \in Readers : consumer # u
      BY <1>1, <2>1 DEF IInv, ConsumerInv
    <2>5. Ready(t, s, l)
      BY <2>1, <2>2, <2>3, <2>4 DEF Ready
    <2> QED
      BY <2>5 DEF s, l
  <1> QED
    BY <1>2, <1>3

\* From there it takes a character ...
LEMMA TakeCharKeeps ==
  ASSUME IInv, NEW t \in Readers, NEW s, NEW l, Ready(t, s, l),
         sched' = s, lock' = l, TakeChar(t)
  PROVE  IInv'
  <1> USE Constants DEF TakeChar, Goto
  <1>1. pc'[t] = "user" /\ \A u \in Tasks \ {t} : pc'[u] = pc[u]
    BY DEF IInv, TypeOK
  <1>2. /\ sched' \in SchedulerState /\ sched'.ok /\ WellFormed(sched') /\ sched'.cur = t
        /\ lock' \in SemaphoreState /\ lock'.value \in {0, 1} /\ IsInjective(lock'.waiters)
    BY DEF Ready
  <1>3. TypeOK'
    <2>1. tail' \in 0..BufSize-1
      BY Types, NextPosLemma DEF IInv
    <2>2. char' \in [Readers -> Keys \cup {NoKey}]
      BY Types DEF IInv, TypeOK
    <2> QED
      BY <1>2, <2>1, <2>2 DEF IInv, TypeOK
  <1>4. \A u \in Tasks : sched'.status[u] = "BLOCKED" => u # t
    BY <1>2 DEF WellFormed, OneRunning
  <1>5. PcInv' /\ LockInv'
    BY <1>1, <1>2 DEF IInv, PcInv, LockInv, Ready, Readers
  <1>6. WaitersInv'
    BY <1>1, <1>2, <1>4 DEF WaitersInv, Ready
  <1>7. ConsumerInv'
    BY <1>1, <1>4 DEF ConsumerInv, Ready
  <1> QED
    BY <1>2, <1>3, <1>5, <1>6, <1>7 DEF IInv

\* ... or queues up for the lock, which another reader has ...
LEMMA QueueUpKeeps ==
  ASSUME IInv, NEW t \in Readers, NEW s, NEW l, Ready(t, s, l), QueueUp(t, s, l)
  PROVE  IInv'
  <1> USE Constants DEF QueueUp, Goto
  <1>1. pc'[t] = "queued" /\ \A u \in Tasks \ {t} : pc'[u] = pc[u]
    BY DEF IInv, TypeOK
  <1>2. /\ s \in SchedulerState /\ s.ok /\ WellFormed(s) /\ s.cur = t /\ t # Idle
        /\ l \in SemaphoreState /\ IsInjective(l.waiters)
        /\ ~Contains(l.waiters, t)
    BY DEF Ready, WellFormed, OneRunning, Readers
  <1>3. /\ sched' \in SchedulerState /\ sched'.ok /\ WellFormed(sched')
        /\ sched'.status[t] = "BLOCKED"
        /\ \A u \in Readers \ {t} : sched'.status[u] = "BLOCKED" <=> s.status[u] = "BLOCKED"
        /\ lock' \in SemaphoreState /\ lock'.value = 0 /\ IsInjective(lock'.waiters)
        /\ \A u : Contains(lock'.waiters, u) <=> Contains(l.waiters, u) \/ u = t
    <2>1. sched' = SemaWaitSched(s, l) /\ lock' = SemaWait(l, s.cur) /\ l.value = 0
      BY <1>2
    <2>2. \A u \in Readers \ {t} : u \in Tasks \ {Idle, s.cur}
      BY <1>2 DEF Readers
    <2> QED
      BY <1>2, <2>1, <2>2, SemaWaitLemma DEF Parked
  <1>4. TypeOK'
    BY <1>3 DEF IInv, TypeOK
  <1>5. PcInv' /\ LockInv'
    BY <1>1, <1>3 DEF IInv, PcInv, LockInv, Ready, Readers
  <1>6. WaitersInv'
    BY <1>1, <1>3 DEF WaitersInv, Ready, Readers
  <1>7. ConsumerInv'
    BY <1>1, <1>3 DEF ConsumerInv, Ready
  <1> QED
    BY <1>3, <1>4, <1>5, <1>6, <1>7 DEF IInv

\* ... or gets the lock and sleeps in ioq_wait.
LEMMA IoqWaitKeeps ==
  ASSUME IInv, NEW t \in Readers, NEW s, NEW l, Ready(t, s, l), IoqWait(t, s, l)
  PROVE  IInv'
  <1> USE Constants DEF IoqWait, Goto
  <1>1. pc'[t] = "asleep" /\ \A u \in Tasks \ {t} : pc'[u] = pc[u]
    BY DEF IInv, TypeOK
  <1>2. /\ s \in SchedulerState /\ s.ok /\ WellFormed(s) /\ s.cur = t /\ t # Idle
        /\ l \in SemaphoreState /\ l.value = 1
        /\ \A u \in Readers \ {t} : pc[u] # "asleep"
    BY DEF Ready, Readers
  <1>3. consumer = NoTask
    BY <1>2, Types DEF Ready, IInv
  <1>4. /\ sched' \in SchedulerState /\ sched'.ok /\ WellFormed(sched')
        /\ sched'.status[t] = "BLOCKED"
        /\ \A u \in Readers \ {t} : sched'.status[u] = "BLOCKED" <=> s.status[u] = "BLOCKED"
    <2> DEFINE b == SemaTakeSched(s, l)
               a == Asserting(b, consumer = NoTask)
    <2>2. sched' = Block(a, "BLOCKED")
      OBVIOUS
    <2>0. /\ b \in SchedulerState /\ b.ok /\ WellFormed(b) /\ b.cur = t
          /\ b.status = s.status
      BY <1>2, SemaTakeLemma
    <2> HIDE DEF b
    <2>1. /\ a \in SchedulerState /\ a.ok /\ WellFormed(a) /\ a.cur = t
          /\ a.status = s.status
      BY <1>3, <2>0, AssertingLemma
    <2> HIDE DEF a
    <2>3. \A u \in Readers \ {t} : u \in Tasks \ {Idle, a.cur}
      BY <2>1 DEF Readers
    <2> QED
      BY <1>2, <2>1, <2>2, <2>3, BlockLemma DEF Parked
  <1>5. lock' \in SemaphoreState /\ lock'.value = 0 /\ lock'.waiters = l.waiters
    BY <1>2, SemaTakeLemma
  <1>6. TypeOK'
    BY <1>4, <1>5 DEF IInv, TypeOK
  <1>7. PcInv' /\ LockInv'
    BY <1>1, <1>2, <1>5 DEF IInv, PcInv, LockInv, Readers
  <1>8. ~Contains(l.waiters, t)
    BY <1>2 DEF Ready, WellFormed, OneRunning
  <1>9. WaitersInv'
    BY <1>1, <1>4, <1>5, <1>8 DEF WaitersInv, Ready, Readers
  <1>10. ConsumerInv'
    BY <1>1, <1>2, <1>4 DEF ConsumerInv
  <1> QED
    BY <1>4, <1>6, <1>7, <1>9, <1>10 DEF IInv

\* So every way through ioq_getchar keeps IInv.
LEMMA GetCharKeeps ==
  ASSUME IInv, NEW t \in Readers, Read(t) \/ RetryLock(t) \/ Wake(t)
  PROVE  IInv'
  <1>1. CASE Read(t)
    <2>1. Ready(t, sched, lock)
      BY <1>1, ReaderReady DEF Read, At
    <2> QED
      BY <1>1, <2>1, TakeCharKeeps, QueueUpKeeps, IoqWaitKeeps DEF Read, GetChar
  <1>2. CASE RetryLock(t)
    <2>1. Ready(t, sched, lock)
      BY <1>2, ReaderReady DEF RetryLock, At
    <2> QED
      BY <1>2, <2>1, QueueUpKeeps, IoqWaitKeeps DEF RetryLock
  <1>3. CASE Wake(t)
    <2> DEFINE s == SemaUpSched(sched, lock)
               l == SemaUp(lock)
    <2>1. Ready(t, s, l) /\ GetChar(t, s, l)
      BY <1>3, ReaderReady DEF Wake, At
    <2> HIDE DEF s, l
    <2> QED
      BY <2>1, TakeCharKeeps, QueueUpKeeps, IoqWaitKeeps DEF GetChar
  <1> QED
    BY <1>1, <1>2, <1>3

\* An interrupt does no more to pc than to end the hlt of the idle thread.
LEMMA AfterHaltLemma ==
  ASSUME IInv
  PROVE  /\ AfterHalt \in [Tasks -> {"user", "queued", "asleep", "loop", "halt"}]
         /\ AfterHalt[Idle] \in {"loop", "halt"}
         /\ \A t \in Readers : AfterHalt[t] = pc[t]
  <1> USE Constants
  <1>1. sched.cur \in Tasks /\ pc \in [Tasks -> {"user", "queued", "asleep", "loop", "halt"}]
    BY Types DEF IInv, TypeOK
  <1>2. pc[sched.cur] = "halt" => sched.cur = Idle
    BY <1>1 DEF IInv, PcInv, Readers
  <1> QED
    BY <1>1, <1>2 DEF IInv, PcInv, AfterHalt, Readers

\* A step that moves the idle thread at most, and parks or wakes no reader,
\* keeps IInv.
LEMMA FrameKeeps ==
  ASSUME IInv, TypeOK', sched'.ok, WellFormed(sched'), UNCHANGED <<lock, consumer>>,
         pc'[Idle] \in {"loop", "halt"},
         \A t \in Readers :
           /\ pc'[t] = pc[t]
           /\ sched'.status[t] = "BLOCKED" <=> sched.status[t] = "BLOCKED"
  PROVE  IInv'
  <1>1. PcInv' /\ LockInv'
    BY DEF IInv, PcInv, LockInv
  <1>2. WaitersInv' /\ ConsumerInv'
    BY DEF IInv, WaitersInv, ConsumerInv
  <1> QED
    BY <1>1, <1>2 DEF IInv

\* A key that is typed wakes the reader that is recorded.
LEMMA KeyPressKeeps ==
  ASSUME IInv, NEW k \in Keys, KeyPress(k)
  PROVE  IInv'
  <1> USE Constants DEF KeyPress
  <1>1. /\ pc' \in [Tasks -> {"user", "queued", "asleep", "loop", "halt"}]
        /\ pc'[Idle] \in {"loop", "halt"}
        /\ \A t \in Readers : pc'[t] = pc[t]
    BY AfterHaltLemma
  <1>2. head' \in 0..BufSize-1 /\ buf' \in [0..BufSize-1 -> Keys \cup {NoKey}]
    BY Types, NextPosLemma DEF IInv, TypeOK
  <1>3. CASE consumer = NoTask
    <2>1. sched' = sched /\ UNCHANGED <<lock, consumer>>
      BY <1>3
    <2>2. TypeOK'
      BY <1>1, <1>2, <2>1 DEF IInv, TypeOK
    <2> QED
      BY <1>1, <2>1, <2>2, FrameKeeps DEF IInv
  <1>4. CASE consumer # NoTask
    <2>1. consumer \in Readers /\ consumer \in Tasks
      BY <1>4, Types DEF IInv
    <2>2. pc[consumer] = "asleep" /\ sched.status[consumer] = "BLOCKED"
      BY <2>1 DEF IInv, ConsumerInv
    <2>3. sched' = Unblock(sched, consumer) /\ UNCHANGED lock /\ consumer' = NoTask
      BY <1>4
    <2>4. /\ sched' \in SchedulerState /\ sched'.ok /\ WellFormed(sched')
          /\ sched'.status = [sched.status EXCEPT ![consumer] = "READY"]
      BY <2>1, <2>2, <2>3, Types, UnblockLemma, UnblockKeepsWellFormed DEF IInv, WellFormed, Parked
    <2>5. sched'.status[consumer] = "READY"
          /\ \A t \in Tasks \ {consumer} : sched'.status[t] = sched.status[t]
      BY <2>1, <2>4, Types DEF IInv
    <2>6. TypeOK'
      BY <1>1, <1>2, <2>3, <2>4 DEF IInv, TypeOK
    <2>7. PcInv' /\ LockInv'
      BY <1>1, <2>3 DEF IInv, PcInv, LockInv
    <2>8. WaitersInv'
      BY <1>1, <2>2, <2>3, <2>5 DEF IInv, WaitersInv
    <2>9. ConsumerInv'
      BY <1>1, <2>3, <2>5 DEF IInv, ConsumerInv
    <2> QED
      BY <2>4, <2>6, <2>7, <2>8, <2>9 DEF IInv
  <1> QED
    BY <1>3, <1>4

\* A key that finds the ring full, the timer and the idle thread keep IInv.
LEMMA OthersKeep ==
  ASSUME IInv, KeyDropped \/ TimerInterrupt \/ IdleBlock
  PROVE  IInv'
  <1> USE Constants
  <1>1. CASE KeyDropped
    <2>1. sched' = sched /\ TypeOK'
      BY <1>1, AfterHaltLemma DEF KeyDropped, IInv, TypeOK
    <2> QED
      BY <1>1, <2>1, AfterHaltLemma, FrameKeeps DEF KeyDropped, IInv
  <1>2. CASE TimerInterrupt
    <2>1. /\ sched' \in SchedulerState /\ sched'.ok /\ WellFormed(sched')
          /\ SameParked(sched, sched')
      BY <1>2, Types, TimerTickLemma DEF TimerInterrupt, IInv
    <2>2. TypeOK'
      BY <1>2, <2>1, AfterHaltLemma DEF TimerInterrupt, IInv, TypeOK
    <2>3. \A t \in Readers : sched'.status[t] = "BLOCKED" <=> sched.status[t] = "BLOCKED"
      BY <2>1 DEF SameParked, Readers, Parked
    <2> QED
      BY <1>2, <2>1, <2>2, <2>3, AfterHaltLemma, FrameKeeps DEF TimerInterrupt
  <1>3. CASE IdleBlock
    <2>1. sched.cur = Idle /\ sched' = Block(sched, "BLOCKED")
      BY <1>3 DEF IdleBlock, At
    <2>2. /\ sched' \in SchedulerState /\ sched'.ok /\ WellFormed(sched')
          /\ \A t \in Tasks \ {Idle}, p \in Parked \cup {"DIED"} :
               sched.status[t] = p <=> sched'.status[t] = p
      BY <2>1, Types, BlockLemma DEF IInv, Parked
    <2>3. TypeOK' /\ pc'[Idle] = "halt" /\ \A t \in Readers : pc'[t] = pc[t]
      BY <1>3, <2>2 DEF IdleBlock, Goto, IInv, TypeOK, Readers
    <2>4. \A t \in Readers : sched'.status[t] = "BLOCKED" <=> sched.status[t] = "BLOCKED"
      BY <2>2 DEF Readers, Parked
    <2> QED
      BY <1>3, <2>2, <2>3, <2>4, FrameKeeps DEF IdleBlock
  <1> QED
    BY <1>1, <1>2, <1>3

\* IInv is inductive.
THEOREM StepIInv == IInv /\ [Next]_vars => IInv'
  <1>1. CASE UNCHANGED vars
    BY <1>1, FrameKeeps DEF vars, IInv, TypeOK, PcInv
  <1> QED
    BY <1>1, GetCharKeeps, KeyPressKeeps, OthersKeep DEF Next

\* IInv holds in every reachable state of IoQueue.
THEOREM Invariant == Spec => []IInv
  BY InitIInv, StepIInv, PTL DEF Spec

\* The state of the ring, its lock and the scheduler keeps its shape: head and
\* tail never leave the buffer.
THEOREM TypeCorrect == Spec => []TypeOK
  <1>1. IInv => TypeOK
    BY DEF IInv
  <1> QED
    BY <1>1, Invariant, PTL

\* Who is blocked in ioq_wait is the one recorded, alone with the lock, and no
\* ASSERT of ioqueue.c, sync.c or thread.c fails on the way.
THEOREM Recorded == Spec => []SleeperRecorded
  <1>1. IInv => SleeperRecorded
    BY DEF IInv, LockInv, ConsumerInv, SleeperRecorded
  <1> QED
    BY <1>1, Invariant, PTL

-----------------------------------------------------------------------------
\* The lock is passed on. Besides IInv this takes that a reader woken in
\* sema_down stays awake until it runs.

\* A step that leaves the lock alone and neither parks nor moves such a reader.
LEMMA FramePassesOn ==
  ASSUME LockPassedOn, UNCHANGED lock, sched \in SchedulerState, sched' \in SchedulerState,
         \A t \in Readers : pc[t] = "queued" =>
           /\ pc'[t] = "queued"
           /\ \/ sched'.status[t] \in {sched.status[t], "READY"}
              \/ \A p \in Parked \cup {"DIED"} : sched.status[t] = p <=> sched'.status[t] = p
  PROVE  LockPassedOn'
  <1> SUFFICES ASSUME lock.value > 0, lock.waiters # <<>>
               PROVE  \E t \in Readers : pc'[t] = "queued" /\ sched'.status[t] \in {"READY", "RUNNING"}
    BY DEF LockPassedOn
  <1>1. PICK t \in Readers : pc[t] = "queued" /\ sched.status[t] \in {"READY", "RUNNING"}
    BY DEF LockPassedOn
  <1>2. t \in Tasks
    BY DEF Readers
  <1>3. sched'.status[t] \in TaskStatus
    BY <1>2, StateComponents
  <1>4. sched'.status[t] \in {"READY", "RUNNING"}
    BY <1>1, <1>3 DEF TaskStatus, Parked
  <1> QED
    BY <1>1, <1>4

\* Every step keeps the lock from being left free with sleepers only.
LEMMA StepPassesOn ==
  ASSUME IInv, IInv', LockPassedOn, [Next]_vars
  PROVE  LockPassedOn'
  <1> USE Constants
  <1>0. /\ sched \in SchedulerState /\ sched' \in SchedulerState /\ WellFormed(sched)
        /\ sched.status \in [Tasks -> TaskStatus]
    BY Types DEF IInv, TypeOK
  <1>1. ASSUME NEW t \in Readers, NEW s, NEW l, Ready(t, s, l),
               QueueUp(t, s, l) \/ IoqWait(t, s, l)
        PROVE  LockPassedOn'
    <2>1. lock'.value = 0
      BY <1>1, SemaphoreFields, SemaTakeLemma DEF QueueUp, IoqWait, Ready, Readers
    <2> QED
      BY <2>1 DEF LockPassedOn
  <1>2. ASSUME NEW t \in Readers, Read(t) PROVE LockPassedOn'
    <2>1. Ready(t, sched, lock)
      BY <1>2, ReaderReady DEF Read, At
    <2>2. CASE sched' = sched /\ lock' = lock /\ TakeChar(t)
      <3>1. \A u \in Readers : pc[u] = "queued" => pc'[u] = "queued"
        BY <1>2, <2>2 DEF Read, At, TakeChar, Goto, IInv, TypeOK, Readers
      <3> QED
        BY <1>0, <2>2, <3>1, FramePassesOn
    <2> QED
      BY <1>1, <1>2, <2>1, <2>2 DEF Read, GetChar
  <1>3. ASSUME NEW t \in Readers, RetryLock(t) PROVE LockPassedOn'
    <2>1. Ready(t, sched, lock)
      BY <1>3, ReaderReady DEF RetryLock, At
    <2> QED
      BY <1>1, <1>3, <2>1 DEF RetryLock
  <1>4. ASSUME NEW t \in Readers, Wake(t) PROVE LockPassedOn'
    <2> DEFINE s == SemaUpSched(sched, lock)
               l == SemaUp(lock)
    <2>1. Ready(t, s, l) /\ GetChar(t, s, l) /\ pc[t] = "asleep" /\ sched.cur = t
      BY <1>4, ReaderReady DEF Wake, At
    <2>2. lock.value = 0 /\ lock \in SemaphoreState /\ IsInjective(lock.waiters)
          /\ \A u \in Tasks : Contains(lock.waiters, u) =>
               u \in Readers /\ pc[u] = "queued" /\ sched.status[u] = "BLOCKED"
      BY <2>1, Types DEF IInv, LockInv, WaitersInv
    <2>3. \E W \in SUBSET Tasks :
            /\ lock.waiters # <<>> => W # {}
            /\ \A u \in W : Contains(lock.waiters, u) /\ s.status[u] = "READY"
      BY <1>0, <2>2, SemaUpLemma
    <2>4. lock.waiters = <<>> => l.waiters = <<>>
      BY DEF SemaUp
    <2> HIDE DEF s, l
    <2>5. CASE sched' = s /\ lock' = l /\ TakeChar(t)
      <3>1. \A u \in Tasks \ {t} : pc'[u] = pc[u]
        BY <2>5 DEF TakeChar, Goto, IInv, TypeOK
      <3> SUFFICES ASSUME lock.waiters # <<>>
                   PROVE  LockPassedOn'
        BY <2>4, <2>5 DEF LockPassedOn
      <3>2. PICK u \in Readers : pc[u] = "queued" /\ s.status[u] = "READY"
        BY <2>2, <2>3
      <3>3. u # t /\ u \in Tasks
        BY <2>1, <3>2 DEF Readers
      <3> QED
        BY <2>5, <3>1, <3>2, <3>3 DEF LockPassedOn
    <2> QED
      BY <1>1, <2>1, <2>5 DEF GetChar
  <1>5. ASSUME NEW k \in Keys, KeyPress(k) PROVE LockPassedOn'
    <2>1. \A u \in Readers : sched'.status[u] \in {sched.status[u], "READY"}
      <3>1. CASE consumer = NoTask
        BY <1>5, <3>1 DEF KeyPress
      <3>2. CASE consumer # NoTask
        <4>1. consumer \in Tasks /\ sched.status[consumer] = "BLOCKED"
          BY <3>2, Types DEF IInv, ConsumerInv
        <4>2. sched'.status = [sched.status EXCEPT ![consumer] = "READY"]
          BY <1>0, <1>5, <3>2, <4>1, UnblockLemma DEF KeyPress, WellFormed, Parked
        <4> QED
          BY <1>0, <4>1, <4>2
      <3> QED
        BY <3>1, <3>2
    <2> QED
      BY <1>0, <1>5, <2>1, AfterHaltLemma, FramePassesOn DEF KeyPress
  <1>6. CASE KeyDropped
    BY <1>0, <1>6, AfterHaltLemma, FramePassesOn DEF KeyDropped
  <1>7. CASE TimerInterrupt
    <2>1. SameParked(sched, sched')
      BY <1>0, <1>7, TimerTickLemma DEF TimerInterrupt
    <2> QED
      BY <1>0, <1>7, <2>1, AfterHaltLemma, FramePassesOn DEF TimerInterrupt, SameParked, Readers
  <1>8. CASE IdleBlock
    <2>1. sched.cur = Idle /\ sched' = Block(sched, "BLOCKED")
      BY <1>8 DEF IdleBlock, At
    <2>2. \A t \in Readers, p \in Parked \cup {"DIED"} :
            sched.status[t] = p <=> sched'.status[t] = p
      BY <1>0, <2>1, BlockLemma DEF Parked, Readers
    <2>3. \A t \in Readers : pc'[t] = pc[t]
      BY <1>8 DEF IdleBlock, Goto, IInv, TypeOK, Readers
    <2> QED
      BY <1>0, <1>8, <2>2, <2>3, FramePassesOn DEF IdleBlock
  <1>9. CASE UNCHANGED vars
    BY <1>9 DEF vars, LockPassedOn
  <1> QED
    BY <1>2, <1>3, <1>4, <1>5, <1>6, <1>7, <1>8, <1>9 DEF Next

\* A free lock with readers asleep in its queue has one awake on its way to it.
THEOREM PassedOn == Spec => []LockPassedOn
  <1>1. Init => LockPassedOn
    BY DEF Init, LockPassedOn, SemaInit
  <1>2. IInv /\ IInv' /\ LockPassedOn /\ [Next]_vars => LockPassedOn'
    BY StepPassesOn
  <1> QED
    BY <1>1, <1>2, Invariant, PTL DEF Spec

-----------------------------------------------------------------------------
\* The ring is a queue. How many characters it holds, and the cell of the
\* i-th of them:
Held(h, t) == (h + BufSize - t) % BufSize
Cell(t, i) == (t + i - 1) % BufSize

\* The arithmetic of the ring: a position moves to the next one, or wraps.
LEMMA RingLemma ==
  ASSUME NEW h \in 0..BufSize-1, NEW t \in 0..BufSize-1
  PROVE  /\ Held(h, t) \in 0..BufSize-1
         /\ Held(h, t) = 0 <=> h = t
         /\ h # t => Held(h, NextPos(t)) = Held(h, t) - 1
         /\ NextPos(h) # t => Held(NextPos(h), t) = Held(h, t) + 1
         /\ NextPos(h) # t <=> Held(h, t) < BufSize - 1
         /\ Cell(t, 1) = t
         /\ Cell(t, Held(h, t) + 1) = h
         /\ \A i \in 1..Held(h, t) : Cell(t, i) \in 0..BufSize-1 \ {h}
         /\ \A i \in 1..BufSize-1 : Cell(NextPos(t), i) = Cell(t, i + 1)
  <1> USE Constants
  <1>1. Held(h, t) = IF h < t THEN h + BufSize - t ELSE h - t
    BY DEF Held
  <1>2. \A u \in 0..BufSize-1, i \in 1..BufSize :
          Cell(u, i) = IF u + i - 1 < BufSize THEN u + i - 1 ELSE u + i - 1 - BufSize
    BY DEF Cell
  <1>3. /\ NextPos(h) = IF h = BufSize - 1 THEN 0 ELSE h + 1
        /\ NextPos(t) = IF t = BufSize - 1 THEN 0 ELSE t + 1
        /\ NextPos(h) \in 0..BufSize-1 /\ NextPos(t) \in 0..BufSize-1
    BY NextPosLemma
  <1>4. /\ Held(h, NextPos(t)) = IF h < NextPos(t) THEN h + BufSize - NextPos(t) ELSE h - NextPos(t)
        /\ Held(NextPos(h), t) = IF NextPos(h) < t THEN NextPos(h) + BufSize - t ELSE NextPos(h) - t
    BY <1>3 DEF Held
  <1>5. Held(h, t) \in 0..BufSize-1 /\ (Held(h, t) = 0 <=> h = t)
    BY <1>1
  <1>6. h # t => Held(h, NextPos(t)) = Held(h, t) - 1
    BY <1>1, <1>3, <1>4
  <1>7. /\ NextPos(h) # t => Held(NextPos(h), t) = Held(h, t) + 1
        /\ NextPos(h) # t <=> Held(h, t) < BufSize - 1
    BY <1>1, <1>3, <1>4
  <1>8. Cell(t, 1) = t /\ Cell(t, Held(h, t) + 1) = h
    BY <1>1, <1>2, <1>5
  <1>9. \A i \in 1..Held(h, t) : Cell(t, i) \in 0..BufSize-1 \ {h}
    BY <1>1, <1>2, <1>5
  <1>10. \A i \in 1..BufSize-1 : Cell(NextPos(t), i) = Cell(t, i + 1)
    BY <1>2, <1>3
  <1> QED
    BY <1>5, <1>6, <1>7, <1>8, <1>9, <1>10

\* The queue that the ring stands for, character by character.
RingIsQueue ==
  /\ Contents \in Seq(Keys \cup {NoKey})
  /\ Len(Contents) = Held(head, tail)
  /\ \A i \in 1..Held(head, tail) : Contents[i] = buf[Cell(tail, i)]

\* That is what Contents says.
LEMMA ContentsLemma == TypeOK => RingIsQueue
  <1> SUFFICES ASSUME TypeOK PROVE RingIsQueue
    OBVIOUS
  <1>1. Held(head, tail) \in Nat
    BY Types, RingLemma
  <1>2. \A i \in 1..Held(head, tail) : buf[Cell(tail, i)] \in Keys \cup {NoKey}
    BY Types, RingLemma DEF TypeOK
  <1>3. Contents = [i \in 1..Held(head, tail) |-> buf[Cell(tail, i)]]
    BY DEF Contents, Held, Cell
  <1> QED
    BY <1>1, <1>2, <1>3 DEF RingIsQueue

\* ioq_getchar takes the head of the queue.
LEMMA ReadRefines ==
  ASSUME TypeOK, RingIsQueue, RingIsQueue', NEW t \in Readers, ~IoqEmpty, TakeChar(t)
  PROVE  Abstract!Read(t)
  <1> DEFINE n == Held(head, tail)
  <1> USE Constants
  <1>1. /\ head \in 0..BufSize-1 /\ tail \in 0..BufSize-1 /\ head # tail
        /\ head' = head /\ buf' = buf /\ tail' = NextPos(tail)
        /\ char' = [char EXCEPT ![t] = buf[tail]]
    BY Types DEF IoqEmpty, TakeChar
  <1>2. /\ n \in 1..BufSize-1 /\ Held(head, tail)' = n - 1
        /\ Cell(tail, 1) = tail
        /\ \A i \in 1..n-1 : Cell(tail, i)' = Cell(tail, i + 1)
    <2>1. Held(head, tail)' = Held(head, NextPos(tail))
      BY <1>1 DEF Held
    <2>2. \A i \in 1..n-1 : Cell(tail, i)' = Cell(NextPos(tail), i)
      BY <1>1 DEF Cell
    <2>3. n \in 0..BufSize-1 /\ n # 0 /\ Held(head, NextPos(tail)) = n - 1
      <3>1. n \in 0..BufSize-1
        BY <1>1, RingLemma
      <3>2. n = 0 <=> head = tail
        BY <1>1, RingLemma
      <3>3. head # tail => Held(head, NextPos(tail)) = n - 1
        BY <1>1, RingLemma
      <3> QED
        BY <1>1, <3>1, <3>2, <3>3
    <2>4. Cell(tail, 1) = tail /\ \A i \in 1..BufSize-1 : Cell(NextPos(tail), i) = Cell(tail, i + 1)
      BY <1>1, RingLemma
    <2> HIDE DEF n
    <2> QED
      BY <2>1, <2>2, <2>3, <2>4
  <1>3. /\ Contents \in Seq(Keys \cup {NoKey}) /\ Len(Contents) = n
        /\ \A i \in 1..n : Contents[i] = buf[Cell(tail, i)]
    BY DEF RingIsQueue
  <1>4. /\ Contents' \in Seq(Keys \cup {NoKey}) /\ Len(Contents') = n - 1
        /\ \A i \in 1..n-1 : Contents'[i] = buf[Cell(tail, i)']
    BY <1>1, <1>2 DEF RingIsQueue
  <1> HIDE DEF n
  <1>5. Contents # <<>> /\ Head(Contents) = buf[tail]
    BY <1>2, <1>3, EmptySeq, HeadTailProperties
  <1>6. Contents' = Tail(Contents)
    <2>1. /\ Tail(Contents) \in Seq(Keys \cup {NoKey}) /\ Len(Tail(Contents)) = n - 1
          /\ \A i \in 1..n-1 : Tail(Contents)[i] = Contents[i + 1]
      BY <1>2, <1>3, <1>5, HeadTailProperties
    <2>2. \A i \in 1..n-1 : Contents'[i] = Tail(Contents)[i]
      BY <1>2, <1>3, <1>4, <2>1
    <2> QED
      BY <1>4, <2>1, <2>2, SeqEqual
  <1> QED
    BY <1>1, <1>5, <1>6 DEF Abstract!Read

\* The keyboard handler appends to the queue, unless it is full.
LEMMA PressRefines ==
  ASSUME TypeOK, RingIsQueue, RingIsQueue', NEW k \in Keys, KeyPress(k)
  PROVE  Abstract!Press(k)
  <1> DEFINE n == Held(head, tail)
  <1> USE Constants
  <1>1. /\ head \in 0..BufSize-1 /\ tail \in 0..BufSize-1 /\ NextPos(head) # tail
        /\ head' = NextPos(head) /\ buf' = [buf EXCEPT ![head] = k] /\ tail' = tail
        /\ char' = char
    BY Types DEF IoqFull, KeyPress
  <1>2. /\ n \in Nat /\ n < BufSize - 1 /\ Held(head, tail)' = n + 1
        /\ \A i \in Nat : Cell(tail, i)' = Cell(tail, i)
        /\ Cell(tail, n + 1) = head
        /\ \A i \in 1..n : Cell(tail, i) \in 0..BufSize-1 \ {head}
    <2>1. Held(head, tail)' = Held(NextPos(head), tail)
      BY <1>1 DEF Held
    <2>2. \A i \in Nat : Cell(tail, i)' = Cell(tail, i)
      BY <1>1 DEF Cell
    <2> QED
      BY <1>1, <2>1, <2>2, RingLemma
  <1>3. buf'[head] = k /\ \A c \in 0..BufSize-1 \ {head} : buf'[c] = buf[c]
    BY <1>1 DEF TypeOK
  <1>4. /\ Contents \in Seq(Keys \cup {NoKey}) /\ Len(Contents) = n
        /\ \A i \in 1..n : Contents[i] = buf[Cell(tail, i)]
    BY DEF RingIsQueue
  <1>5. /\ Contents' \in Seq(Keys \cup {NoKey}) /\ Len(Contents') = n + 1
        /\ \A i \in 1..n+1 : Contents'[i] = buf'[Cell(tail, i)]
    BY <1>2 DEF RingIsQueue
  <1> HIDE DEF n
  <1>6. Contents' = Append(Contents, k)
    <2>1. /\ Append(Contents, k) \in Seq(Keys \cup {NoKey})
          /\ Len(Append(Contents, k)) = n + 1
          /\ \A i \in 1..n : Append(Contents, k)[i] = Contents[i]
          /\ Append(Contents, k)[n + 1] = k
      BY <1>2, <1>4, AppendProperties
    <2>2. \A i \in 1..n+1 : Contents'[i] = Append(Contents, k)[i]
      <3>1. \A i \in 1..n : Contents'[i] = Append(Contents, k)[i]
        BY <1>2, <1>3, <1>4, <1>5, <2>1
      <3>2. Contents'[n + 1] = k
        BY <1>2, <1>3, <1>5
      <3> QED
        BY <1>2, <2>1, <3>1, <3>2
    <2> QED
      BY <1>5, <2>1, <2>2, SeqEqual
  <1> QED
    BY <1>1, <1>2, <1>4, <1>6 DEF Abstract!Press

\* Every step of IoQueue is one of KeyQueue or none.
LEMMA StepRefines ==
  ASSUME TypeOK, RingIsQueue, RingIsQueue', [Next]_vars
  PROVE  [Abstract!Next]_<<Contents, char>>
  <1>1. ASSUME UNCHANGED <<buf, head, tail, char>>
        PROVE  UNCHANGED <<Contents, char>>
    BY <1>1 DEF Contents
  <1>2. ASSUME NEW t \in Readers, NEW s, NEW l, QueueUp(t, s, l) \/ IoqWait(t, s, l)
        PROVE  UNCHANGED <<buf, head, tail, char>>
    BY <1>2 DEF QueueUp, IoqWait
  <1>3. ASSUME NEW t \in Readers, Read(t) \/ RetryLock(t) \/ Wake(t)
        PROVE  Abstract!Read(t) \/ UNCHANGED <<Contents, char>>
    <2>1. \/ ~IoqEmpty /\ TakeChar(t)
          \/ UNCHANGED <<buf, head, tail, char>>
      BY <1>2, <1>3 DEF Read, RetryLock, Wake, GetChar
    <2> QED
      BY <1>1, <2>1, ReadRefines
  <1>4. CASE KeyDropped \/ TimerInterrupt \/ IdleBlock \/ UNCHANGED vars
    BY <1>1, <1>4 DEF KeyDropped, TimerInterrupt, IdleBlock, vars
  <1> QED
    BY <1>3, <1>4, PressRefines DEF Next, Abstract!Next

\* The keyboard buffer implements KeyQueue: the characters come out in the
\* order they went in, each once, and one is refused only by a full ring.
THEOREM Refines == Spec => ImplementsKeyQueue
  <1>1. Init => Abstract!Init
    <2> SUFFICES ASSUME Init PROVE Abstract!Init
      OBVIOUS
    <2>1. TypeOK
      BY InitIInv DEF IInv
    <2>2. Contents \in Seq(Keys \cup {NoKey}) /\ Len(Contents) = 0
      BY <2>1, Types, ContentsLemma, RingLemma DEF Init, RingIsQueue
    <2>3. Contents = <<>>
      BY <2>2, EmptySeq
    <2> QED
      BY <2>3 DEF Init, Abstract!Init
  <1>2. IInv => TypeOK
    BY DEF IInv
  <1>3. TypeOK => RingIsQueue
    BY ContentsLemma
  <1>4. TypeOK /\ RingIsQueue /\ RingIsQueue' /\ [Next]_vars => [Abstract!Next]_<<Contents, char>>
    BY StepRefines
  <1> QED
    BY <1>1, <1>2, <1>3, <1>4, Invariant, PTL DEF Spec, ImplementsKeyQueue, Abstract!Spec
=============================================================================
