------------------------------ MODULE Sync_proofs ------------------------------
(***************************************************************************)
(* Sync for every set of tasks and locks, every priority and every initial *)
(* ready list: IInv is inductive, the invariants that TLC checks on small  *)
(* instances follow from it, and the locks implement LockSpec.             *)
(***************************************************************************)
EXTENDS Sync, Scheduler_proofs

\* What the proofs need of the constants.
LEMMA Constants ==
  /\ Idle \in Tasks /\ Main \in Tasks /\ Main # Idle
  /\ NoLock \notin Locks /\ NoTask \notin Tasks
  BY SchedulerAssumption, SyncAssumption

\* What TypeOK says of the parts of the state, in the form the steps use it.
LEMMA Types ==
  ASSUME TypeOK
  PROVE  /\ sched \in SchedulerState
         /\ sched.cur \in Tasks
         /\ sched.status \in [Tasks -> TaskStatus]
         /\ \A l \in Locks : /\ sema[l].value \in 0..255
                             /\ sema[l].waiters \in Seq(Tasks)
                             /\ repeat[l] \in Nat
         /\ \A t \in Tasks, l \in Locks : depth[t][l] \in Nat
         /\ lk \in [Tasks -> Locks \cup {NoLock}]
         /\ pc \in [Tasks -> Pcs]
  BY StateComponents DEF TypeOK, SemaphoreState

\* A step that moves no task inside lock_acquire and lock_release and leaves
\* the locks alone keeps what is known of them.
LEMMA LockFrame ==
  ASSUME NEW l \in Locks, OwnerInv(l), HolderInv(l),
         UNCHANGED <<sema, holder, repeat, lk, depth>>,
         \A t \in Tasks : lk[t] \in Locks => pc'[t] = pc[t]
  PROVE  OwnerInv(l)' /\ HolderInv(l)'
  <1>1. \A t \in Tasks : Owns(t, l)' <=> Owns(t, l)
    BY DEF Owns
  <1>2. OwnerInv(l)'
    BY <1>1 DEF OwnerInv
  <1>3. HolderInv(l)'
    BY <1>1 DEF HolderInv
  <1> QED
    BY <1>2, <1>3

\* One that also leaves the sleepers of sema_down asleep keeps the queues.
LEMMA WaitersFrame ==
  ASSUME NEW l \in Locks, WaitersInv(l),
         UNCHANGED lk, sema'[l] = sema[l],
         \A t \in Tasks : lk[t] \in Locks =>
           /\ pc'[t] = pc[t]
           /\ sched'.status[t] = "BLOCKED" <=> sched.status[t] = "BLOCKED"
  PROVE  WaitersInv(l)'
  BY DEF WaitersInv

\* Idle aside, the tasks inside lock_acquire and lock_release.
LEMMA InsideIsNotIdle ==
  ASSUME IInv, NEW t \in Tasks, lk[t] \in Locks
  PROVE  t # Idle /\ pc[t] \in Acquiring \cup Owning
  BY DEF IInv, TaskInv, Acquiring, Owning

\* IInv holds when scheduling starts.
THEOREM InitIInv == Init => IInv
  <1> SUFFICES ASSUME Init PROVE IInv
    OBVIOUS
  <1> USE Constants
  <1>1. sched \in SchedulerState
    BY SchedulerAssumption, SyncAssumption DEF Init, SchedulerState, TaskStatus
  <1>2. TypeOK
    BY <1>1 DEF Init, TypeOK, SemaphoreState, SemaInit, Pcs, Acquiring, Owning
  <1>3. sched.ok
    BY DEF Init
  <1>4. WellFormed(sched)
    BY SyncAssumption DEF Init, WellFormed, OneRunning, ReadyListExact, IdleAvailable
  <1>5. \A t \in Tasks : TaskInv(t)
    BY DEF Init, TaskInv, LocksFree, Acquiring, Owning, Parked
  <1>6. \A l \in Locks : OwnerInv(l) /\ HolderInv(l)
    BY DEF Init, OwnerInv, HolderInv, Owns, SemaInit
  <1>7. \A l \in Locks : WaitersInv(l)
    BY DEF Init, WaitersInv, SemaInit, IsInjective, Contains
  <1> QED
    BY <1>2, <1>3, <1>4, <1>5, <1>6, <1>7 DEF IInv

-----------------------------------------------------------------------------
\* Steps of a task outside lock_acquire and lock_release.

\* A system call and the return from it keep IInv.
LEMMA ModeSwitchStep ==
  ASSUME IInv, NEW t \in Tasks, SystemCall(t) \/ ReturnToUser(t)
  PROVE  IInv'
  <1> USE Constants DEF SystemCall, ReturnToUser, At, Goto
  <1>1. /\ UNCHANGED <<sched, sema, holder, repeat, lk, depth>>
        /\ t # Idle /\ pc[t] \in {"user", "run"}
        /\ \E loc \in {"user", "run"} : pc' = [pc EXCEPT ![t] = loc]
    BY SyncAssumption DEF IInv, TaskInv
  <1>2. TypeOK'
    BY ZenonT(40) DEF IInv, TypeOK, Pcs
  <1>3. \A u \in Tasks : TaskInv(u)'
    BY <1>1, Types DEF IInv, TaskInv, LocksFree, Acquiring, Owning, Parked
  <1>4. \A u \in Tasks : lk[u] \in Locks => pc'[u] = pc[u]
    BY <1>1, Types, InsideIsNotIdle DEF Acquiring, Owning, IInv
  <1>5. \A l \in Locks : OwnerInv(l)' /\ HolderInv(l)' /\ WaitersInv(l)'
    BY <1>1, <1>4, LockFrame, WaitersFrame DEF IInv
  <1> QED
    BY <1>1, <1>2, <1>3, <1>5 DEF IInv

\* So does the hlt of the idle thread.
LEMMA IdleHaltStep ==
  ASSUME IInv, IdleHalt
  PROVE  IInv'
  <1> USE Constants DEF IdleHalt, At, Goto
  <1>1. TypeOK'
    BY DEF IInv, TypeOK, Pcs
  <1>2. \A u \in Tasks : TaskInv(u)'
    BY Types DEF IInv, TaskInv, LocksFree, Acquiring, Owning, Parked
  <1>3. \A u \in Tasks : lk[u] \in Locks => pc'[u] = pc[u]
    BY Types, InsideIsNotIdle DEF IInv
  <1>4. \A l \in Locks : OwnerInv(l)' /\ HolderInv(l)' /\ WaitersInv(l)'
    BY <1>3, LockFrame, WaitersFrame DEF IInv
  <1> QED
    BY <1>1, <1>2, <1>4 DEF IInv

\* A change of the scheduler state that parks and wakes nobody but idle.
LEMMA RotateStep ==
  ASSUME IInv, UNCHANGED <<sema, holder, repeat, lk, ion, depth>>,
         sched' \in SchedulerState, sched'.ok, WellFormed(sched'),
         SameParked(sched, sched'),
         pc' = pc \/ pc' = [pc EXCEPT ![Idle] = "loop"]
  PROVE  IInv'
  <1> USE Constants
  <1>1. TypeOK'
    BY DEF IInv, TypeOK, Pcs
  <1>2. \A u \in Tasks \ {Idle} : pc'[u] = pc[u]
    BY Types DEF IInv
  <1>3. \A u \in Tasks \ {Idle} :
          /\ sched'.status[u] \in Parked <=> sched.status[u] \in Parked
          /\ sched'.status[u] = "BLOCKED" <=> sched.status[u] = "BLOCKED"
    BY DEF SameParked, Parked
  <1>4. \A u \in Tasks : TaskInv(u)'
    <2>1. TaskInv(Idle)'
      BY Types DEF IInv, TaskInv, LocksFree, Acquiring, Owning
    <2>2. \A u \in Tasks \ {Idle} : TaskInv(u)'
      BY <1>2, <1>3 DEF IInv, TaskInv
    <2> QED
      BY <2>1, <2>2
  <1>5. \A u \in Tasks : lk[u] \in Locks => u # Idle
    BY InsideIsNotIdle
  <1>6. \A l \in Locks : OwnerInv(l)' /\ HolderInv(l)'
    BY <1>2, <1>5, LockFrame DEF IInv
  <1>7. \A l \in Locks : WaitersInv(l)'
    BY <1>2, <1>3, <1>5, WaitersFrame DEF IInv
  <1> QED
    BY <1>1, <1>4, <1>6, <1>7 DEF IInv

\* thread_yield keeps IInv.
LEMMA YieldStep ==
  ASSUME IInv, NEW t \in Tasks, YieldCpu(t)
  PROVE  IInv'
  <1>1. sched' \in SchedulerState /\ sched'.ok /\ WellFormed(sched') /\ SameParked(sched, sched')
    BY Types, YieldLemma DEF IInv, YieldCpu
  <1> QED
    BY <1>1, RotateStep DEF YieldCpu

\* A timer interrupt, with or without a switch, keeps IInv.
LEMMA TimerStep ==
  ASSUME IInv, TimerInterrupt
  PROVE  IInv'
  <1>1. sched' \in SchedulerState /\ sched'.ok /\ WellFormed(sched') /\ SameParked(sched, sched')
    BY Types, TimerTickLemma DEF IInv, TimerInterrupt
  <1>2. pc' = pc \/ pc' = [pc EXCEPT ![Idle] = "loop"]
    BY DEF TimerInterrupt, AfterHalt
  <1> QED
    BY <1>1, <1>2, RotateStep DEF TimerInterrupt

\* The idle thread blocks itself and stays available.
LEMMA IdleBlockStep ==
  ASSUME IInv, IdleBlock
  PROVE  IInv'
  <1> USE Constants
  <1>1. sched.cur = Idle
    BY DEF IdleBlock, At
  <1>2. /\ sched' \in SchedulerState /\ sched'.ok /\ WellFormed(sched')
        /\ \A t \in Tasks \ {Idle}, p \in Parked \cup {"DIED"} :
             sched.status[t] = p <=> sched'.status[t] = p
    BY <1>1, Types, BlockLemma DEF IInv, IdleBlock, Parked
  <1>3. TypeOK'
    BY <1>2 DEF IInv, TypeOK, IdleBlock, Goto, Pcs
  <1>4. \A u \in Tasks \ {Idle} :
          /\ pc'[u] = pc[u]
          /\ sched'.status[u] \in Parked <=> sched.status[u] \in Parked
          /\ sched'.status[u] = "BLOCKED" <=> sched.status[u] = "BLOCKED"
    BY <1>2, Types DEF IInv, IdleBlock, Goto, Parked
  <1>5. \A u \in Tasks : TaskInv(u)'
    <2>1. TaskInv(Idle)'
      BY Types DEF IInv, TaskInv, LocksFree, Acquiring, Owning, IdleBlock, Goto
    <2>2. \A u \in Tasks \ {Idle} : TaskInv(u)'
      BY <1>4 DEF IInv, TaskInv, IdleBlock
    <2> QED
      BY <2>1, <2>2
  <1>6. \A u \in Tasks : lk[u] \in Locks => u # Idle
    BY InsideIsNotIdle
  <1>7. \A l \in Locks : OwnerInv(l)' /\ HolderInv(l)' /\ WaitersInv(l)'
    BY <1>4, <1>6, LockFrame, WaitersFrame DEF IInv, IdleBlock
  <1> QED
    BY <1>2, <1>3, <1>5, <1>7 DEF IInv

\* A task that parks itself outside sema_down is in no queue of a lock.
LEMMA ParkStep ==
  ASSUME IInv, NEW t \in Tasks, NEW stat \in {"BLOCKED", "WAITING"}, Park(t, stat)
  PROVE  IInv'
  <1> USE Constants DEF Park, At, Goto
  <1>1. sched.cur = t /\ t # Idle /\ pc[t] = "run"
    OBVIOUS
  <1>2. /\ sched' \in SchedulerState /\ sched'.ok /\ WellFormed(sched')
        /\ \A u \in Tasks \ {Idle, t}, p \in Parked \cup {"DIED"} :
             sched.status[u] = p <=> sched'.status[u] = p
        /\ sched'.status[t] = stat
    BY <1>1, Types, BlockLemma DEF IInv, Parked
  <1>3. TypeOK'
    BY <1>2 DEF IInv, TypeOK, Pcs
  <1>4. \A u \in Tasks \ {Idle, t} :
          /\ sched'.status[u] \in Parked <=> sched.status[u] \in Parked
          /\ sched'.status[u] = "BLOCKED" <=> sched.status[u] = "BLOCKED"
    BY <1>2 DEF Parked
  <1>5. pc'[t] = "parked" /\ \A u \in Tasks \ {t} : pc'[u] = pc[u]
    BY Types DEF IInv
  <1>6. \A u \in Tasks : TaskInv(u)'
    <2>1. TaskInv(t)'
      BY <1>1, <1>2, <1>5 DEF IInv, TaskInv, Acquiring, Owning, Parked
    <2>2. TaskInv(Idle)'
      BY <1>1, <1>5 DEF IInv, TaskInv, LocksFree, Acquiring, Owning
    <2>3. \A u \in Tasks \ {Idle, t} : TaskInv(u)'
      BY <1>4, <1>5 DEF IInv, TaskInv
    <2> QED
      BY <2>1, <2>2, <2>3
  <1>7. \A u \in Tasks : lk[u] \in Locks => u # Idle /\ u # t
    BY <1>1, InsideIsNotIdle DEF Acquiring, Owning
  <1>8. \A l \in Locks : OwnerInv(l)' /\ HolderInv(l)' /\ WaitersInv(l)'
    BY <1>4, <1>5, <1>7, LockFrame, WaitersFrame DEF IInv
  <1> QED
    BY <1>2, <1>3, <1>6, <1>8 DEF IInv

\* thread_unblock of a parked task, from a task or from a device interrupt.
LEMMA WakeStep ==
  ASSUME IInv, NEW u \in Tasks, pc[u] = "parked",
         sched' = Unblock(sched, u),
         UNCHANGED <<sema, holder, repeat, lk, ion, depth>>,
         \/ pc' = [pc EXCEPT ![u] = "run"]
         \/ pc' = [pc EXCEPT ![Idle] = "loop", ![u] = "run"]
  PROVE  IInv'
  <1> USE Constants
  <1>1. sched.status[u] \in Parked /\ u # Idle
    BY DEF IInv, TaskInv
  <1>2. /\ sched' \in SchedulerState /\ sched'.ok /\ WellFormed(sched')
        /\ sched'.status = [sched.status EXCEPT ![u] = "READY"]
    BY <1>1, Types, UnblockLemma, UnblockKeepsWellFormed DEF IInv, WellFormed
  <1>3. TypeOK'
    BY <1>2 DEF IInv, TypeOK, Pcs
  <1>4. /\ pc'[u] = "run"
        /\ \A v \in Tasks \ {Idle, u} : pc'[v] = pc[v]
        /\ pc'[Idle] \in {pc[Idle], "loop"}
    BY <1>1, Types DEF IInv
  <1>5. \A v \in Tasks \ {u} : sched'.status[v] = sched.status[v]
    BY <1>2, Types DEF IInv
  <1>6. sched'.status[u] = "READY"
    BY <1>2, Types DEF IInv
  <1>7. \A v \in Tasks : TaskInv(v)'
    <2>1. TaskInv(u)'
      BY <1>1, <1>4, <1>6 DEF IInv, TaskInv, Acquiring, Owning, Parked
    <2>2. TaskInv(Idle)'
      BY <1>1, <1>4 DEF IInv, TaskInv, LocksFree, Acquiring, Owning
    <2>3. \A v \in Tasks \ {Idle, u} : TaskInv(v)'
      BY <1>4, <1>5 DEF IInv, TaskInv
    <2> QED
      BY <2>1, <2>2, <2>3
  <1>8. \A v \in Tasks : lk[v] \in Locks => v # Idle /\ v # u
    BY InsideIsNotIdle DEF Acquiring, Owning
  <1>9. \A l \in Locks : OwnerInv(l)' /\ HolderInv(l)' /\ WaitersInv(l)'
    BY <1>4, <1>5, <1>8, LockFrame, WaitersFrame DEF IInv
  <1> QED
    BY <1>2, <1>3, <1>7, <1>9 DEF IInv

\* A task that wakes a parked one keeps IInv.
LEMMA WakeParkedStep ==
  ASSUME IInv, NEW t \in Tasks, NEW u \in Tasks, WakeParked(t, u)
  PROVE  IInv'
  BY WakeStep DEF WakeParked, Goto

\* An interrupt that wakes a parked task keeps IInv.
LEMMA DeviceStep ==
  ASSUME IInv, NEW u \in Tasks, DeviceInterrupt(u)
  PROVE  IInv'
  <1>1. \/ pc' = [pc EXCEPT ![u] = "run"]
        \/ pc' = [pc EXCEPT ![Idle] = "loop", ![u] = "run"]
    BY DEF DeviceInterrupt, AfterHalt
  <1> QED
    BY <1>1, WakeStep DEF DeviceInterrupt

-----------------------------------------------------------------------------
\* Steps inside lock_acquire and lock_release. The lock that the step works on
\* is l; the other locks keep their invariants, because the task does not
\* become or cease to be one of theirs.

\* What a task does with one lock leaves the invariants of the others alone.
LEMMA OtherLocks ==
  ASSUME NEW t \in Tasks, NEW l \in Locks, NEW m \in Locks \ {l},
         OwnerInv(m), HolderInv(m), WaitersInv(m),
         sema'[m] = sema[m], holder'[m] = holder[m], repeat'[m] = repeat[m],
         lk'[t] # m, lk[t] # m, depth'[t][m] = depth[t][m],
         \A u \in Tasks \ {t} : /\ pc'[u] = pc[u] /\ lk'[u] = lk[u]
                                /\ depth'[u][m] = depth[u][m],
         \A u \in Tasks : lk[u] = m =>
           (sched'.status[u] = "BLOCKED" <=> sched.status[u] = "BLOCKED")
  PROVE  OwnerInv(m)' /\ HolderInv(m)' /\ WaitersInv(m)'
  <1>1. \A u \in Tasks : /\ lk'[u] = m <=> lk[u] = m
                         /\ lk[u] = m => pc'[u] = pc[u]
                         /\ depth'[u][m] = depth[u][m]
    OBVIOUS
  <1>2. \A u \in Tasks : Owns(u, m)' <=> Owns(u, m)
    BY <1>1 DEF Owns
  <1>3. OwnerInv(m)'
    BY <1>1, <1>2 DEF OwnerInv
  <1>4. HolderInv(m)'
    BY <1>1, <1>2 DEF HolderInv
  <1>5. WaitersInv(m)'
    BY <1>1 DEF WaitersInv
  <1> QED
    BY <1>3, <1>4, <1>5

\* A nested lock_acquire keeps the count and the depth equal.
LEMMA ReacquireStep ==
  ASSUME IInv, NEW t \in Tasks, NEW l \in Locks, Reacquire(t, l)
  PROVE  IInv'
  <1> USE Constants DEF Reacquire, At
  <1>1. depth[t][l] > 0 /\ t # Idle /\ lk[t] \notin Locks /\ repeat[l] = depth[t][l]
    BY DEF IInv, HolderInv, TaskInv, LocksFree, Acquiring, Owning, TypeOK
  <1>2. /\ repeat'[l] = repeat[l] + 1 /\ depth'[t][l] = depth[t][l] + 1
        /\ \A m \in Locks \ {l} : repeat'[m] = repeat[m] /\ depth'[t][m] = depth[t][m]
        /\ \A u \in Tasks \ {t} : depth'[u] = depth[u]
    BY DEF IInv, TypeOK
  <1>3. TypeOK'
    BY DEF IInv, TypeOK
  <1>4. \A u \in Tasks : TaskInv(u)'
    BY <1>1, <1>2 DEF IInv, TaskInv, LocksFree
  <1>5. \A m \in Locks \ {l} : OwnerInv(m)' /\ HolderInv(m)' /\ WaitersInv(m)'
    BY <1>1, <1>2, OtherLocks DEF IInv
  <1>6. WaitersInv(l)'
    BY DEF IInv, WaitersInv
  <1>7. depth[t][l] \in Nat
    BY Types DEF IInv
  <1>8. \A u \in Tasks : Owns(u, l)' <=> Owns(u, l)
    BY <1>1, <1>2, <1>7 DEF Owns
  <1>9. OwnerInv(l)'
    BY <1>1, <1>2, <1>8 DEF IInv, OwnerInv
  <1>10. HolderInv(l)'
    <2>1. \A u \in Tasks : depth'[u][l] > 0 <=> depth[u][l] > 0
      BY <1>1, <1>2, <1>7
    <2>2. \A u \in Tasks : Owns(u, l) => u = t
      BY <1>1 DEF IInv, OwnerInv, Owns
    <2>3. \A u \in Tasks \ {t} : ~(depth[u][l] > 0) /\ ~(lk[u] = l /\ pc[u] \in Owning)
      BY <2>2 DEF Owns
    <2> QED
      BY <1>1, <1>2, <1>8, <2>1, <2>3 DEF IInv, HolderInv, Owns, Owning
  <1> QED
    BY <1>3, <1>4, <1>5, <1>6, <1>9, <1>10 DEF IInv

\* A call of lock_acquire by a task that does not hold the lock keeps IInv.
LEMMA StartAcquireStep ==
  ASSUME IInv, NEW t \in Tasks, NEW l \in Locks, StartAcquire(t, l)
  PROVE  IInv'
  <1> USE Constants DEF StartAcquire, At, Goto
  <1>1. /\ t # Idle /\ lk[t] \notin Locks /\ sched.cur = t
        /\ pc'[t] = "down" /\ lk'[t] = l /\ pc[t] = "run" /\ depth[t][l] = 0
        /\ \A u \in Tasks \ {t} : pc'[u] = pc[u] /\ lk'[u] = lk[u]
    BY Types DEF IInv, TaskInv, LocksFree, Acquiring, Owning
  <1>2. TypeOK'
    BY DEF IInv, TypeOK, Pcs, Acquiring
  <1>3. sched.status[t] = "RUNNING"
    BY <1>1 DEF IInv, WellFormed, OneRunning
  <1>4. \A u \in Tasks : TaskInv(u)'
    <2>1. TaskInv(t)'
      BY <1>1, <1>3 DEF IInv, TaskInv, Acquiring, Parked
    <2>2. \A u \in Tasks \ {t} : TaskInv(u)'
      BY <1>1 DEF IInv, TaskInv, LocksFree
    <2> QED
      BY <2>1, <2>2
  <1>5. \A m \in Locks \ {l} : OwnerInv(m)' /\ HolderInv(m)' /\ WaitersInv(m)'
    BY <1>1, OtherLocks DEF IInv
  <1>6. \A u \in Tasks : Owns(u, l)' <=> Owns(u, l)
    BY <1>1 DEF Owns, Owning
  <1>7. OwnerInv(l)'
    BY <1>1, <1>6 DEF IInv, OwnerInv
  <1>8. HolderInv(l)'
    BY <1>1, <1>6 DEF IInv, HolderInv
  <1>9. WaitersInv(l)'
    BY <1>1 DEF IInv, WaitersInv
  <1> QED
    BY <1>2, <1>4, <1>5, <1>7, <1>8, <1>9 DEF IInv

\* What is known when the current task t is at one of the places inside
\* lock_acquire or lock_release: it is the only owner of its lock if it owns
\* it, and it sits in no queue.
LEMMA AtLock ==
  ASSUME IInv, NEW t \in Tasks, sched.cur = t, pc[t] \in Acquiring \cup Owning
  PROVE  /\ lk[t] \in Locks /\ t # Idle
         /\ depth[t][lk[t]] = 0
         /\ sched.status[t] = "RUNNING"
         /\ ~Contains(sema[lk[t]].waiters, t)
         /\ pc[t] \in Owning => /\ Owns(t, lk[t])
                                /\ \A u \in Tasks \ {t} : ~Owns(u, lk[t])
                                /\ sema[lk[t]].value = 0
  <1> USE Constants
  <1>1. lk[t] \in Locks /\ t # Idle
    BY DEF IInv, TaskInv, Acquiring, Owning
  <1>2. sched.status[t] = "RUNNING"
    BY DEF IInv, WellFormed, OneRunning
  <1>3. depth[t][lk[t]] = 0
    BY <1>1 DEF IInv, OwnerInv
  <1>4. ~Contains(sema[lk[t]].waiters, t)
    BY <1>1, <1>2 DEF IInv, WaitersInv
  <1>5. ASSUME pc[t] \in Owning
        PROVE  /\ Owns(t, lk[t])
               /\ \A u \in Tasks \ {t} : ~Owns(u, lk[t])
               /\ sema[lk[t]].value = 0
    BY <1>1, <1>5 DEF IInv, OwnerInv, Owns
  <1> QED
    BY <1>1, <1>2, <1>3, <1>4, <1>5

\* A task that stays inside, with the scheduler state as it was.
LEMMA MoveInside ==
  ASSUME IInv, NEW t \in Tasks, sched.cur = t, pc[t] \in Acquiring \cup Owning,
         NEW loc \in Acquiring \cup Owning, pc' = [pc EXCEPT ![t] = loc],
         UNCHANGED <<sched, lk, ion, depth>>
  PROVE  /\ \A u \in Tasks : TaskInv(u)'
         /\ pc' \in [Tasks -> Pcs]
         /\ pc'[t] = loc
         /\ \A u \in Tasks \ {t} : pc'[u] = pc[u]
  <1>1. pc'[t] = loc /\ \A u \in Tasks \ {t} : pc'[u] = pc[u]
    BY Types DEF IInv
  <1>2. t # Idle /\ lk[t] \in Locks /\ sched.status[t] = "RUNNING"
    BY AtLock
  <1>3. TaskInv(t)'
    BY <1>1, <1>2 DEF TaskInv, Acquiring, Owning, Parked
  <1>4. \A u \in Tasks \ {t} : TaskInv(u)'
    BY <1>1 DEF IInv, TaskInv, LocksFree
  <1> QED
    BY <1>1, <1>3, <1>4, Types DEF IInv, Pcs

\* The new owner becomes the holder.
LEMMA SetHolderStep ==
  ASSUME IInv, NEW t \in Tasks, SetHolder(t)
  PROVE  IInv'
  <1> DEFINE l == lk[t]
  <1> USE DEF SetHolder, At, Goto
  <1>1. /\ sched.cur = t /\ pc[t] = "got" /\ l \in Locks /\ depth[t][l] = 0
        /\ \A u \in Tasks \ {t} : ~Owns(u, l)
    BY AtLock DEF Owning
  <1>2. /\ \A u \in Tasks : TaskInv(u)'
        /\ pc' \in [Tasks -> Pcs] /\ pc'[t] = "held"
        /\ \A u \in Tasks \ {t} : pc'[u] = pc[u]
    BY <1>1, MoveInside DEF Owning
  <1>3. TypeOK'
    BY <1>2 DEF IInv, TypeOK
  <1>4. holder'[l] = t /\ \A m \in Locks \ {l} : holder'[m] = holder[m]
    BY <1>1 DEF IInv, TypeOK
  <1>5. \A m \in Locks \ {l} : OwnerInv(m)' /\ HolderInv(m)' /\ WaitersInv(m)'
    BY <1>1, <1>2, <1>4, OtherLocks DEF IInv
  <1>6. \A u \in Tasks : Owns(u, l)' <=> Owns(u, l)
    BY <1>1, <1>2 DEF Owns, Owning
  <1>7. OwnerInv(l)'
    BY <1>1, <1>6 DEF IInv, OwnerInv
  <1>8. HolderInv(l)'
    BY <1>1, <1>2, <1>4, <1>6 DEF IInv, HolderInv, Owns, Owning
  <1>9. WaitersInv(l)'
    BY <1>1, <1>2 DEF IInv, WaitersInv
  <1> QED
    BY <1>1, <1>2, <1>3, <1>5, <1>7, <1>8, <1>9 DEF IInv

\* The owner that gives the lock back is the holder no longer.
LEMMA ClearHolderStep ==
  ASSUME IInv, NEW t \in Tasks, ClearHolder(t)
  PROVE  IInv'
  <1> DEFINE l == lk[t]
  <1> USE Constants DEF ClearHolder, At, Goto
  <1>1. /\ sched.cur = t /\ pc[t] = "rel" /\ l \in Locks /\ depth[t][l] = 0
        /\ \A u \in Tasks \ {t} : ~Owns(u, l)
    BY AtLock DEF Owning
  <1>2. /\ \A u \in Tasks : TaskInv(u)'
        /\ pc' \in [Tasks -> Pcs] /\ pc'[t] = "clear"
        /\ \A u \in Tasks \ {t} : pc'[u] = pc[u]
    BY <1>1, MoveInside DEF Owning
  <1>3. TypeOK'
    BY <1>2 DEF IInv, TypeOK
  <1>4. holder'[l] = NoTask /\ \A m \in Locks \ {l} : holder'[m] = holder[m]
    BY <1>1 DEF IInv, TypeOK
  <1>5. \A m \in Locks \ {l} : OwnerInv(m)' /\ HolderInv(m)' /\ WaitersInv(m)'
    BY <1>1, <1>2, <1>4, OtherLocks DEF IInv
  <1>6. \A u \in Tasks : Owns(u, l)' <=> Owns(u, l)
    BY <1>1, <1>2 DEF Owns, Owning
  <1>7. OwnerInv(l)'
    BY <1>1, <1>6 DEF IInv, OwnerInv
  <1>8. HolderInv(l)'
    BY <1>1, <1>2, <1>4, <1>6 DEF IInv, HolderInv, Owns, Owning
  <1>9. WaitersInv(l)'
    BY <1>1, <1>2 DEF IInv, WaitersInv
  <1> QED
    BY <1>1, <1>2, <1>3, <1>5, <1>7, <1>8, <1>9 DEF IInv

\* The count of a lock about to be free is 0.
LEMMA ClearRepeatStep ==
  ASSUME IInv, NEW t \in Tasks, ClearRepeat(t)
  PROVE  IInv'
  <1> DEFINE l == lk[t]
  <1> USE Constants DEF ClearRepeat, At, Goto
  <1>1. /\ sched.cur = t /\ pc[t] = "clear" /\ l \in Locks /\ depth[t][l] = 0
        /\ \A u \in Tasks \ {t} : ~Owns(u, l)
    BY AtLock DEF Owning
  <1>2. /\ \A u \in Tasks : TaskInv(u)'
        /\ pc' \in [Tasks -> Pcs] /\ pc'[t] = "up"
        /\ \A u \in Tasks \ {t} : pc'[u] = pc[u]
    BY <1>1, MoveInside DEF Owning
  <1>3. TypeOK'
    BY <1>2 DEF IInv, TypeOK
  <1>4. repeat'[l] = 0 /\ \A m \in Locks \ {l} : repeat'[m] = repeat[m]
    BY <1>1 DEF IInv, TypeOK
  <1>5. \A m \in Locks \ {l} : OwnerInv(m)' /\ HolderInv(m)' /\ WaitersInv(m)'
    BY <1>1, <1>2, <1>4, OtherLocks DEF IInv
  <1>6. \A u \in Tasks : Owns(u, l)' <=> Owns(u, l)
    BY <1>1, <1>2 DEF Owns, Owning
  <1>7. OwnerInv(l)'
    BY <1>1, <1>6 DEF IInv, OwnerInv
  <1>8. HolderInv(l)'
    BY <1>1, <1>2, <1>4, <1>6 DEF IInv, HolderInv, Owns, Owning
  <1>9. WaitersInv(l)'
    BY <1>1, <1>2 DEF IInv, WaitersInv
  <1> QED
    BY <1>1, <1>2, <1>3, <1>5, <1>7, <1>8, <1>9 DEF IInv

\* Steps with an ASSERT that holds: the scheduler state is as before.
LEMMA AssertingStep ==
  ASSUME IInv, NEW cond, cond, sched' = Asserting(sched, cond)
  PROVE  /\ sched' \in SchedulerState /\ sched'.ok /\ WellFormed(sched')
         /\ sched'.cur = sched.cur /\ sched'.status = sched.status
  BY Types, AssertingLemma DEF IInv

\* The count is 0 when a new owner sets it to 1: no ASSERT fails.
LEMMA SetRepeatStep ==
  ASSUME IInv, NEW t \in Tasks, SetRepeat(t)
  PROVE  IInv'
  <1> USE Constants DEF SetRepeat, At, Goto
  <1>0. PICK l \in Locks : lk[t] = l
    BY AtLock DEF Owning
  <1>1. /\ sched.cur = t /\ pc[t] = "held" /\ depth[t][l] = 0
        /\ t # Idle /\ sched.status[t] = "RUNNING"
        /\ \A u \in Tasks \ {t} : ~Owns(u, l)
        /\ repeat[l] = 0
    BY <1>0, AtLock DEF Owning, IInv, HolderInv
  <1>2. /\ sched' \in SchedulerState /\ sched'.ok /\ WellFormed(sched')
        /\ sched'.cur = sched.cur /\ sched'.status = sched.status
    BY <1>0, <1>1, AssertingStep
  <1>3. /\ pc'[t] = "run" /\ lk'[t] = NoLock /\ depth'[t][l] = 1 /\ repeat'[l] = 1
        /\ \A u \in Tasks \ {t} : pc'[u] = pc[u] /\ lk'[u] = lk[u] /\ depth'[u] = depth[u]
        /\ \A m \in Locks \ {l} : depth'[t][m] = depth[t][m] /\ repeat'[m] = repeat[m]
    BY <1>0, <1>1 DEF IInv, TypeOK
  <1>4. TypeOK'
    BY <1>0, <1>1, <1>2 DEF IInv, TypeOK, Pcs
  <1>5. \A u \in Tasks : TaskInv(u)'
    <2>1. TaskInv(t)'
      BY <1>0, <1>1, <1>2, <1>3 DEF TaskInv, Acquiring, Owning, Parked
    <2>2. \A u \in Tasks \ {t} : TaskInv(u)'
      BY <1>2, <1>3 DEF IInv, TaskInv, LocksFree
    <2> QED
      BY <2>1, <2>2
  <1>6. \A m \in Locks \ {l} : OwnerInv(m)' /\ HolderInv(m)' /\ WaitersInv(m)'
    BY <1>0, <1>1, <1>2, <1>3, OtherLocks DEF IInv
  <1>7. \A u \in Tasks : Owns(u, l)' <=> Owns(u, l)
    BY <1>0, <1>1, <1>3 DEF Owns, Owning
  <1>8. OwnerInv(l)'
    BY <1>0, <1>1, <1>3, <1>7 DEF IInv, OwnerInv
  <1>9. HolderInv(l)'
    BY <1>0, <1>1, <1>3, <1>7 DEF IInv, HolderInv, Owns, Owning
  <1>10. WaitersInv(l)'
    BY <1>0, <1>1, <1>2, <1>3 DEF IInv, WaitersInv
  <1> QED
    BY <1>0, <1>1, <1>2, <1>4, <1>5, <1>6, <1>8, <1>9, <1>10 DEF IInv

\* A task that calls lock_release has the lock, knows it, and is alone.
LEMMA CallerOwns ==
  ASSUME IInv, NEW t \in Tasks, NEW l \in Locks, sched.cur = t, pc[t] = "run",
         depth[t][l] > 0
  PROVE  /\ holder[l] = t /\ repeat[l] = depth[t][l] /\ repeat[l] \in Nat \ {0}
         /\ lk[t] \notin Locks /\ t # Idle
         /\ sched.status[t] = "RUNNING"
         /\ Owns(t, l) /\ \A u \in Tasks \ {t} : ~Owns(u, l)
  <1>1. holder[l] = t /\ repeat[l] = depth[t][l] /\ repeat[l] \in Nat \ {0}
    BY Types DEF IInv, HolderInv
  <1>2. lk[t] \notin Locks /\ t # Idle
    BY DEF IInv, TaskInv, LocksFree, Acquiring, Owning
  <1>3. sched.status[t] = "RUNNING"
    BY DEF IInv, WellFormed, OneRunning
  <1>4. Owns(t, l) /\ \A u \in Tasks \ {t} : ~Owns(u, l)
    BY DEF IInv, OwnerInv, Owns
  <1> QED
    BY <1>1, <1>2, <1>3, <1>4

\* A nested lock_release keeps the count and the depth equal.
LEMMA ReleaseNestedStep ==
  ASSUME IInv, NEW t \in Tasks, NEW l \in Locks, ReleaseNested(t, l)
  PROVE  IInv'
  <1> USE Constants DEF ReleaseNested, At
  <1>1. /\ holder[l] = t /\ repeat[l] = depth[t][l] /\ repeat[l] \in Nat /\ repeat[l] > 1
        /\ lk[t] \notin Locks /\ t # Idle
        /\ Owns(t, l) /\ \A u \in Tasks \ {t} : ~Owns(u, l)
    BY CallerOwns
  <1>2. /\ sched' \in SchedulerState /\ sched'.ok /\ WellFormed(sched')
        /\ sched'.cur = sched.cur /\ sched'.status = sched.status
    BY <1>1, AssertingStep
  <1>3. /\ repeat'[l] = repeat[l] - 1 /\ depth'[t][l] = depth[t][l] - 1
        /\ \A u \in Tasks \ {t} : depth'[u] = depth[u]
        /\ \A m \in Locks \ {l} : depth'[t][m] = depth[t][m] /\ repeat'[m] = repeat[m]
    BY <1>1 DEF IInv, TypeOK
  <1>4. repeat' \in [Locks -> Nat] /\ depth' \in [Tasks -> [Locks -> Nat]]
    <2>1. repeat[l] - 1 \in Nat /\ depth[t][l] - 1 \in Nat
      BY <1>1
    <2>2. [depth[t] EXCEPT ![l] = depth[t][l] - 1] \in [Locks -> Nat]
      BY <2>1 DEF IInv, TypeOK
    <2> QED
      BY <2>1, <2>2 DEF IInv, TypeOK
  <1>5. TypeOK'
    BY <1>2, <1>4 DEF IInv, TypeOK
  <1>6. \A u \in Tasks : TaskInv(u)'
    BY <1>1, <1>2, <1>3 DEF IInv, TaskInv, LocksFree
  <1>7. \A m \in Locks \ {l} : OwnerInv(m)' /\ HolderInv(m)' /\ WaitersInv(m)'
    BY <1>1, <1>2, <1>3, OtherLocks DEF IInv
  <1>8. \A u \in Tasks : /\ Owns(u, l)' <=> Owns(u, l)
                         /\ depth'[u][l] > 0 <=> depth[u][l] > 0
    BY <1>1, <1>3 DEF Owns
  <1>9. OwnerInv(l)'
    BY <1>1, <1>3, <1>8 DEF IInv, OwnerInv
  <1>10. HolderInv(l)'
    BY <1>1, <1>3, <1>8 DEF IInv, HolderInv, Owns, Owning
  <1>11. WaitersInv(l)'
    BY <1>2 DEF IInv, WaitersInv
  <1> QED
    BY <1>2, <1>5, <1>6, <1>7, <1>9, <1>10, <1>11 DEF IInv

\* The last lock_release finds its caller the holder, with a count of 1.
LEMMA StartReleaseStep ==
  ASSUME IInv, NEW t \in Tasks, NEW l \in Locks, StartRelease(t, l)
  PROVE  IInv'
  <1> USE Constants DEF StartRelease, At, Goto
  <1>1. /\ holder[l] = t /\ repeat[l] = 1 /\ depth[t][l] = 1
        /\ lk[t] \notin Locks /\ t # Idle /\ sched.status[t] = "RUNNING"
        /\ Owns(t, l) /\ \A u \in Tasks \ {t} : ~Owns(u, l)
    BY CallerOwns
  <1>2. /\ sched' \in SchedulerState /\ sched'.ok /\ WellFormed(sched')
        /\ sched'.cur = sched.cur /\ sched'.status = sched.status
    BY <1>1, AssertingStep
  <1>3. /\ pc'[t] = "rel" /\ lk'[t] = l /\ depth'[t][l] = 0
        /\ \A u \in Tasks \ {t} : pc'[u] = pc[u] /\ lk'[u] = lk[u] /\ depth'[u] = depth[u]
        /\ \A m \in Locks \ {l} : depth'[t][m] = depth[t][m]
    BY <1>1 DEF IInv, TypeOK
  <1>4. TypeOK'
    <2>1. [depth[t] EXCEPT ![l] = 0] \in [Locks -> Nat]
      BY DEF IInv, TypeOK
    <2>2. depth' \in [Tasks -> [Locks -> Nat]]
      BY <1>1, <2>1 DEF IInv, TypeOK
    <2> QED
      BY <1>2, <2>2 DEF IInv, TypeOK, Pcs, Owning
  <1>5. \A u \in Tasks : TaskInv(u)'
    <2>1. TaskInv(t)'
      BY <1>1, <1>2, <1>3 DEF TaskInv, Acquiring, Owning, Parked
    <2>2. \A u \in Tasks \ {t} : TaskInv(u)'
      BY <1>2, <1>3 DEF IInv, TaskInv, LocksFree
    <2> QED
      BY <2>1, <2>2
  <1>6. \A m \in Locks \ {l} : OwnerInv(m)' /\ HolderInv(m)' /\ WaitersInv(m)'
    BY <1>1, <1>2, <1>3, OtherLocks DEF IInv
  <1>7. \A u \in Tasks : Owns(u, l)' <=> Owns(u, l)
    BY <1>1, <1>3 DEF Owns, Owning
  <1>8. OwnerInv(l)'
    BY <1>1, <1>3, <1>7 DEF IInv, OwnerInv
  <1>9. HolderInv(l)'
    BY <1>1, <1>3, <1>7 DEF IInv, HolderInv, Owns, Owning
  <1>10. WaitersInv(l)'
    BY <1>1, <1>2, <1>3 DEF IInv, WaitersInv
  <1> QED
    BY <1>2, <1>4, <1>5, <1>6, <1>8, <1>9, <1>10 DEF IInv

\* Assigning one semaphore leaves the others alone.
LEMMA SemaAssigned ==
  ASSUME TypeOK, NEW l \in Locks, NEW v \in SemaphoreState,
         sema' = [sema EXCEPT ![l] = v]
  PROVE  /\ sema'[l] = v
         /\ \A m \in Locks \ {l} : sema'[m] = sema[m]
         /\ sema' \in [Locks -> SemaphoreState]
  BY DEF TypeOK

\* The semaphore is free, so nobody owns the lock; now t does.
LEMMA TakeSemaphoreStep ==
  ASSUME IInv, NEW t \in Tasks, TakeSemaphore(t)
  PROVE  IInv'
  <1> DEFINE l == lk[t]
  <1> USE Constants DEF TakeSemaphore, At, Goto
  <1>1. /\ sched.cur = t /\ pc[t] \in Acquiring /\ l \in Locks /\ depth[t][l] = 0
        /\ sched.status[t] = "RUNNING"
    BY AtLock DEF Acquiring
  <1>2. sema[l].value = 1 /\ \A u \in Tasks : ~Owns(u, l)
    BY <1>1 DEF IInv, OwnerInv
  <1>3. /\ sched' \in SchedulerState /\ sched'.ok /\ WellFormed(sched')
        /\ sched'.cur = sched.cur /\ sched'.status = sched.status
    <2>1. sema[l].value - 1 = 0
      BY <1>2
    <2>2. sched' = Asserting(sched, sema[l].value - 1 = 0)
      BY DEF SemaTakeSched
    <2> QED
      BY <2>1, <2>2, AssertingStep
  <1>4. /\ sema'[l].value = 0 /\ sema'[l].waiters = sema[l].waiters
        /\ \A m \in Locks \ {l} : sema'[m] = sema[m]
        /\ sema' \in [Locks -> SemaphoreState]
    <2>1. sema[l] \in SemaphoreState /\ sema' = [sema EXCEPT ![l] = SemaTake(sema[l])]
      BY <1>1 DEF IInv, TypeOK
    <2>2. /\ SemaTake(sema[l]) \in SemaphoreState /\ SemaTake(sema[l]).value = 0
          /\ SemaTake(sema[l]).waiters = sema[l].waiters
      BY <1>2, <2>1, SemaphoreFields
    <2> QED
      BY <1>1, <2>1, <2>2, SemaAssigned, ZenonT(40) DEF IInv
  <1>5. pc'[t] = "got" /\ \A u \in Tasks \ {t} : pc'[u] = pc[u]
    BY Types DEF IInv
  <1>6. TypeOK'
    BY <1>3, <1>4 DEF IInv, TypeOK, Pcs, Owning
  <1>7. \A u \in Tasks : TaskInv(u)'
    <2>1. TaskInv(t)'
      BY <1>1, <1>3, <1>5, AtLock DEF TaskInv, Acquiring, Owning, Parked
    <2>2. \A u \in Tasks \ {t} : TaskInv(u)'
      BY <1>3, <1>5 DEF IInv, TaskInv, LocksFree
    <2> QED
      BY <2>1, <2>2
  <1>8. \A m \in Locks \ {l} : OwnerInv(m)' /\ HolderInv(m)' /\ WaitersInv(m)'
    BY <1>1, <1>3, <1>4, <1>5, OtherLocks DEF IInv
  <1>9. \A u \in Tasks : Owns(u, l)' <=> u = t
    BY <1>1, <1>2, <1>5 DEF Owns, Owning
  <1>10. OwnerInv(l)'
    BY <1>1, <1>4, <1>9 DEF IInv, OwnerInv
  <1>11. HolderInv(l)'
    BY <1>1, <1>2, <1>5, <1>9 DEF IInv, HolderInv, Owns, Owning, Acquiring
  <1>12. WaitersInv(l)'
    BY <1>1, <1>3, <1>4, <1>5 DEF IInv, WaitersInv
  <1> QED
    BY <1>1, <1>3, <1>6, <1>7, <1>8, <1>10, <1>11, <1>12 DEF IInv

\* The semaphore is taken: t joins its queue and sleeps.
LEMMA SleepInDownStep ==
  ASSUME IInv, NEW t \in Tasks, SleepInDown(t)
  PROVE  IInv'
  <1> DEFINE l == lk[t]
  <1> USE Constants DEF SleepInDown, At, Goto
  <1>1. /\ sched.cur = t /\ pc[t] \in Acquiring /\ l \in Locks /\ t # Idle
        /\ ~Contains(sema[l].waiters, t)
    BY AtLock DEF Acquiring
  <1>2. /\ sched' \in SchedulerState /\ sched'.ok /\ WellFormed(sched')
        /\ \A u \in Tasks \ {Idle, t}, p \in Parked \cup {"DIED"} :
             sched.status[u] = p <=> sched'.status[u] = p
        /\ sched'.status[t] = "BLOCKED"
    <2> DEFINE a == Asserting(sched, ~Contains(sema[l].waiters, sched.cur))
    <2>0. ~Contains(sema[l].waiters, sched.cur)
      BY <1>1
    <2>1. /\ a \in SchedulerState /\ a.ok = sched.ok /\ a.cur = t
          /\ a.status = sched.status /\ WellFormed(a)
      BY <1>1, <2>0, Types, AssertingLemma, ZenonT(40) DEF IInv
    <2>2. sched' = Block(a, "BLOCKED")
      BY DEF SemaWaitSched
    <2>3. "BLOCKED" \in Parked
      BY DEF Parked
    <2>4. sched.ok
      BY DEF IInv
    <2> HIDE DEF a, SleepInDown
    <2>5. /\ Block(a, "BLOCKED") \in SchedulerState
          /\ Block(a, "BLOCKED").ok = a.ok
          /\ WellFormed(Block(a, "BLOCKED"))
          /\ \A u \in Tasks \ {Idle, a.cur}, p \in Parked \cup {"DIED"} :
               a.status[u] = p <=> Block(a, "BLOCKED").status[u] = p
          /\ a.cur # Idle => Block(a, "BLOCKED").status[a.cur] = "BLOCKED"
      BY <2>1, <2>3, BlockLemma
    <2>6. /\ sched' \in SchedulerState /\ sched'.ok /\ WellFormed(sched')
      BY <2>1, <2>2, <2>4, <2>5
    <2>7. sched'.status[t] = "BLOCKED"
      BY <1>1, <2>1, <2>2, <2>5
    <2>8. \A u \in Tasks \ {Idle, t}, p \in Parked \cup {"DIED"} :
            sched.status[u] = p <=> sched'.status[u] = p
      BY <2>1, <2>2, <2>5
    <2> QED
      BY <2>6, <2>7, <2>8
  <1>3. /\ sema'[l].value = sema[l].value
        /\ sema'[l].waiters = Append(sema[l].waiters, t)
        /\ \A m \in Locks \ {l} : sema'[m] = sema[m]
        /\ sema' \in [Locks -> SemaphoreState]
    <2>1. sema[l] \in SemaphoreState /\ sema' = [sema EXCEPT ![l] = SemaWait(sema[l], t)]
      BY <1>1 DEF IInv, TypeOK
    <2>2. /\ SemaWait(sema[l], t) \in SemaphoreState
          /\ SemaWait(sema[l], t).value = sema[l].value
          /\ SemaWait(sema[l], t).waiters = Append(sema[l].waiters, t)
      BY <2>1, SemaphoreFields
    <2> QED
      BY <1>1, <2>1, <2>2, SemaAssigned DEF IInv
  <1>4. IsInjective(sema[l].waiters) /\ sema[l].waiters \in Seq(Tasks)
    BY <1>1, Types DEF IInv, WaitersInv
  <1>5. /\ sema'[l].waiters \in Seq(Tasks)
        /\ IsInjective(sema'[l].waiters)
        /\ \A u : Contains(sema'[l].waiters, u) <=> Contains(sema[l].waiters, u) \/ u = t
    <2> DEFINE q == sema[l].waiters
    <2>1. q \in Seq(Tasks) /\ IsInjective(q) /\ ~Contains(q, t)
      BY <1>1, <1>4
    <2>2. sema'[l].waiters = Append(q, t)
      BY <1>3
    <2> HIDE DEF q, SleepInDown
    <2>3. /\ Append(q, t) \in Seq(Tasks)
          /\ IsInjective(Append(q, t))
          /\ \A u : Contains(Append(q, t), u) <=> Contains(q, u) \/ u = t
      BY <2>1, AppendToList
    <2> QED
      BY <2>2, <2>3 DEF q
  <1>7. pc'[t] = "woken" /\ \A u \in Tasks \ {t} : pc'[u] = pc[u]
    BY Types DEF IInv
  <1>8. TypeOK'
    BY <1>2, <1>3 DEF IInv, TypeOK, Pcs, Acquiring
  <1>9. \A u \in Tasks \ {Idle, t} :
          /\ sched'.status[u] \in Parked <=> sched.status[u] \in Parked
          /\ sched'.status[u] = "BLOCKED" <=> sched.status[u] = "BLOCKED"
    BY <1>2 DEF Parked
  <1>10. \A u \in Tasks : TaskInv(u)'
    <2>1. TaskInv(t)'
      BY <1>1, <1>2, <1>7 DEF TaskInv, Acquiring
    <2>2. TaskInv(Idle)'
      BY <1>1, <1>7 DEF IInv, TaskInv, LocksFree
    <2>3. \A u \in Tasks \ {Idle, t} : TaskInv(u)'
      BY <1>7, <1>9 DEF IInv, TaskInv, LocksFree
    <2> QED
      BY <2>1, <2>2, <2>3
  <1>11. \A u \in Tasks : lk[u] \in Locks => u # Idle
    BY InsideIsNotIdle
  <1>12. \A m \in Locks \ {l} : OwnerInv(m)' /\ HolderInv(m)' /\ WaitersInv(m)'
    <2> SUFFICES ASSUME NEW m \in Locks \ {l}
                 PROVE  OwnerInv(m)' /\ HolderInv(m)' /\ WaitersInv(m)'
      OBVIOUS
    <2>1. \A u \in Tasks : lk[u] = m =>
            (sched'.status[u] = "BLOCKED" <=> sched.status[u] = "BLOCKED")
      BY <1>9, <1>11
    <2> QED
      BY <1>1, <1>3, <1>7, <2>1, OtherLocks DEF IInv
  <1>13. \A u \in Tasks : Owns(u, l)' <=> Owns(u, l)
    BY <1>1, <1>7 DEF Owns, Owning, Acquiring
  <1>14. OwnerInv(l)'
    BY <1>1, <1>3, <1>13 DEF IInv, OwnerInv
  <1>15. HolderInv(l)'
    BY <1>1, <1>7, <1>13 DEF IInv, HolderInv, Acquiring
  <1>16. WaitersInv(l)'
    <2>1. Contains(sema'[l].waiters, t) /\ sched'.status[t] = "BLOCKED"
      BY <1>2, <1>5
    <2>2. ~Contains(sema[l].waiters, Idle) /\ lk[Idle] # l
      BY <1>1, <1>11 DEF IInv, WaitersInv
    <2>3. \A u \in Tasks \ {Idle, t} :
            Contains(sema'[l].waiters, u) <=>
              pc'[u] = "woken" /\ lk'[u] = l /\ sched'.status[u] = "BLOCKED"
      BY <1>1, <1>5, <1>7, <1>9 DEF IInv, WaitersInv
    <2> QED
      BY <1>1, <1>5, <1>7, <2>1, <2>2, <2>3 DEF WaitersInv
  <1> QED
    BY <1>1, <1>2, <1>8, <1>10, <1>12, <1>14, <1>15, <1>16 DEF IInv

\* t, the only owner, gives the semaphore back and wakes the first sleeper.
LEMMA UpSemaphoreStep ==
  ASSUME IInv, NEW t \in Tasks, UpSemaphore(t)
  PROVE  IInv'
  <1> USE Constants DEF UpSemaphore, At, Goto
  <1>0. PICK l \in Locks : lk[t] = l
    BY AtLock DEF Owning
  <1>1. /\ sched.cur = t /\ pc[t] = "up" /\ depth[t][l] = 0 /\ t # Idle
        /\ sched.status[t] = "RUNNING"
        /\ \A u \in Tasks \ {t} : ~Owns(u, l)
        /\ sema[l].value = 0 /\ repeat[l] = 0 /\ \A u \in Tasks : holder[l] # u
    <2>1. /\ sched.cur = t /\ pc[t] = "up" /\ depth[t][l] = 0 /\ t # Idle
          /\ sched.status[t] = "RUNNING"
          /\ \A u \in Tasks \ {t} : ~Owns(u, l)
          /\ sema[l].value = 0
      BY <1>0, AtLock DEF Owning
    <2> QED
      BY <1>0, <2>1 DEF IInv, HolderInv, Owns, Owning
  <1> DEFINE q == sema[l].waiters
  <1>2. q \in Seq(Tasks) /\ IsInjective(q)
    BY Types DEF IInv, WaitersInv
  <1>3. \A u \in Tasks : Contains(q, u) <=>
          pc[u] = "woken" /\ lk[u] = l /\ sched.status[u] = "BLOCKED"
    BY DEF IInv, WaitersInv
  \* The one task that is woken, if there is one.
  <1>4. PICK W \in SUBSET Tasks :
          /\ sched' \in SchedulerState /\ sched'.ok /\ WellFormed(sched')
          /\ \A u \in W : sched'.status[u] = "READY" /\ Contains(q, u)
          /\ \A u \in Tasks \ W : sched'.status[u] = sched.status[u]
          /\ sema'[l].waiters \in Seq(Tasks)
          /\ IsInjective(sema'[l].waiters)
          /\ \A u \in Tasks : Contains(sema'[l].waiters, u) <=> Contains(q, u) /\ u \notin W
    <2>1. sched' = Asserting(IF q = <<>> THEN sched ELSE Unblock(sched, Head(q)),
                             sema[l].value = 0)
      BY <1>0 DEF SemaUpSched
    <2>2. sema'[l].waiters = IF q = <<>> THEN <<>> ELSE Tail(q)
      BY <1>0 DEF SemaUp, IInv, TypeOK
    <2>3. CASE q = <<>>
      <3>1. /\ sched' \in SchedulerState /\ sched'.ok /\ WellFormed(sched')
            /\ sched'.status = sched.status
        BY <1>1, <2>1, <2>3, AssertingStep
      <3>2. sema'[l].waiters = q
        BY <2>2, <2>3
      <3>3. {} \in SUBSET Tasks /\ Tasks \ {} = Tasks
        OBVIOUS
      <3> HIDE DEF q
      <3> QED
        BY <1>2, <3>1, <3>2, <3>3
    <2>4. CASE q # <<>>
      <3> DEFINE w == Head(q)
                 r == Unblock(sched, w)
      <3>1. /\ w \in Tasks /\ Contains(q, w)
            /\ Tail(q) \in Seq(Tasks) /\ IsInjective(Tail(q))
            /\ \A u : Contains(Tail(q), u) <=> Contains(q, u) /\ u # w
        BY <1>2, <2>4, PopFromList
      <3>2. sched.status[w] \in Parked
        BY <1>3, <3>1 DEF Parked
      <3>3. /\ r \in SchedulerState /\ r.ok = sched.ok /\ WellFormed(r)
            /\ r.status = [sched.status EXCEPT ![w] = "READY"]
        BY <3>1, <3>2, Types, UnblockLemma, UnblockKeepsWellFormed DEF IInv, WellFormed
      <3>4. sched' = Asserting(r, sema[l].value = 0)
        BY <2>1, <2>4
      <3> HIDE DEF r
      <3>5. /\ sched' \in SchedulerState /\ sched'.ok = r.ok /\ WellFormed(sched')
            /\ sched'.status = r.status
        <4>1. (sema[l].value = 0) = TRUE
          BY <1>1
        <4>2. sched' = Asserting(r, TRUE)
          BY <3>4, <4>1
        <4> HIDE DEF UpSemaphore
        <4>3. /\ Asserting(r, TRUE) \in SchedulerState
              /\ Asserting(r, TRUE).ok = r.ok
              /\ Asserting(r, TRUE).status = r.status
              /\ WellFormed(Asserting(r, TRUE))
          BY <3>3, AssertingLemma
        <4> QED
          BY <4>2, <4>3
      <3>6. /\ sched'.status[w] = "READY"
            /\ \A u \in Tasks \ {w} : sched'.status[u] = sched.status[u]
        BY <3>1, <3>3, <3>5, Types DEF IInv
      <3>7. sched'.ok
        BY <3>3, <3>5 DEF IInv
      <3> HIDE DEF w, q
      <3>8. {w} \in SUBSET Tasks
        BY <3>1
      <3>9. /\ \A u \in {w} : sched'.status[u] = "READY" /\ Contains(q, u)
            /\ sema'[l].waiters = Tail(q)
            /\ \A u \in Tasks : Contains(sema'[l].waiters, u) <=> Contains(q, u) /\ u \notin {w}
        BY <2>2, <2>4, <3>1, <3>6
      <3> QED
        BY <3>1, <3>5, <3>6, <3>7, <3>8, <3>9
    <2> QED
      BY <2>3, <2>4
  <1>5. /\ sema'[l].value = 1
        /\ \A m \in Locks \ {l} : sema'[m] = sema[m]
        /\ sema' \in [Locks -> SemaphoreState]
    <2>1. SemaUp(sema[l]).value = 1 /\ SemaUp(sema[l]).waiters = sema'[l].waiters
      BY <1>0, <1>1 DEF SemaUp, IInv, TypeOK
    <2>2. SemaUp(sema[l]) \in SemaphoreState
      <3> DEFINE up == SemaUp(sema[l])
      <3>1. up = [value |-> up.value, waiters |-> up.waiters]
        BY DEF SemaUp
      <3> HIDE DEF up
      <3>2. up.value = 1 /\ up.waiters = sema'[l].waiters
        BY <2>1 DEF up
      <3>3. up.value \in 0..255 /\ up.waiters \in Seq(Tasks)
        BY <1>4, <3>2
      <3>4. up \in SemaphoreState
        BY <3>1, <3>3 DEF SemaphoreState
      <3> QED
        BY <3>4 DEF up
    <2> QED
      BY <1>0, <2>1, <2>2 DEF IInv, TypeOK
  <1> HIDE DEF q
  <1>6. /\ pc'[t] = "run" /\ lk'[t] = NoLock
        /\ \A u \in Tasks \ {t} : pc'[u] = pc[u] /\ lk'[u] = lk[u]
    BY Types DEF IInv
  <1>7. TypeOK'
    BY <1>4, <1>5 DEF IInv, TypeOK, Pcs
  <1>8. \A u \in W : pc[u] = "woken" /\ lk[u] = l /\ sched.status[u] = "BLOCKED" /\ u # t
    BY <1>1, <1>3, <1>4
  <1>9. \A u \in Tasks : TaskInv(u)'
    <2>1. TaskInv(t)'
      BY <1>1, <1>4, <1>6, <1>8 DEF TaskInv, Acquiring, Owning, Parked
    <2>2. \A u \in Tasks \ {t} : u \notin W => TaskInv(u)'
      BY <1>4, <1>6 DEF IInv, TaskInv, LocksFree
    <2>3. \A u \in W : TaskInv(u)'
      BY <1>4, <1>6, <1>8 DEF IInv, TaskInv, LocksFree, Parked
    <2> QED
      BY <2>1, <2>2, <2>3
  <1>10. \A m \in Locks \ {l} : OwnerInv(m)' /\ HolderInv(m)' /\ WaitersInv(m)'
    <2> SUFFICES ASSUME NEW m \in Locks \ {l}
                 PROVE  OwnerInv(m)' /\ HolderInv(m)' /\ WaitersInv(m)'
      OBVIOUS
    <2>1. \A u \in Tasks : lk[u] = m =>
            (sched'.status[u] = "BLOCKED" <=> sched.status[u] = "BLOCKED")
      BY <1>4, <1>8
    <2> QED
      BY <1>0, <1>5, <1>6, <2>1, OtherLocks DEF IInv
  <1>11. \A u \in Tasks : ~Owns(u, l)' /\ ~(lk'[u] = l /\ pc'[u] \in Owning)
    BY <1>0, <1>1, <1>6 DEF Owns
  <1>12. OwnerInv(l)'
    BY <1>1, <1>5, <1>6, <1>11 DEF IInv, OwnerInv
  <1>13. HolderInv(l)'
    BY <1>1, <1>6, <1>11 DEF IInv, HolderInv, Owns, Owning
  <1>14. WaitersInv(l)'
    <2>1. \A u \in Tasks \ {t} : Contains(sema'[l].waiters, u) <=>
            pc'[u] = "woken" /\ lk'[u] = l /\ sched'.status[u] = "BLOCKED"
      BY <1>3, <1>4, <1>6
    <2>2. ~Contains(sema'[l].waiters, t) /\ lk'[t] # l
      BY <1>1, <1>3, <1>4, <1>6
    <2> QED
      BY <1>4, <2>1, <2>2 DEF WaitersInv
  <1> QED
    BY <1>4, <1>7, <1>9, <1>10, <1>12, <1>13, <1>14 DEF IInv

-----------------------------------------------------------------------------
\* IInv is inductive: whatever action of Sync is taken, or none.
THEOREM StepIInv == IInv /\ [Next]_vars => IInv'
  <1> SUFFICES ASSUME IInv, [Next]_vars PROVE IInv'
    OBVIOUS
  <1>1. ASSUME NEW t \in Tasks, Forced(t) PROVE IInv'
    BY <1>1, SleepInDownStep, TakeSemaphoreStep, SetHolderStep, SetRepeatStep,
       ClearHolderStep, ClearRepeatStep, UpSemaphoreStep, IdleBlockStep, IdleHaltStep
       DEF Forced
  <1>2. ASSUME NEW t \in Tasks, Chosen(t) PROVE IInv'
    <2>1. CASE SystemCall(t) \/ ReturnToUser(t) \/ YieldCpu(t)
      BY <2>1, ModeSwitchStep, YieldStep
    <2>2. CASE \E stat \in {"BLOCKED", "WAITING"} : Park(t, stat)
      BY <2>2, ParkStep
    <2>3. CASE \E u \in Tasks : WakeParked(t, u)
      BY <2>3, WakeParkedStep
    <2>4. CASE \E l \in Locks : Reacquire(t, l) \/ StartAcquire(t, l)
      BY <2>4, ReacquireStep, StartAcquireStep
    <2>5. CASE \E l \in Locks : ReleaseNested(t, l) \/ StartRelease(t, l)
      BY <2>5, ReleaseNestedStep, StartReleaseStep
    <2> QED
      BY <1>2, <2>1, <2>2, <2>3, <2>4, <2>5 DEF Chosen
  <1>3. ASSUME TimerInterrupt PROVE IInv'
    BY <1>3, TimerStep
  <1>4. ASSUME NEW u \in Tasks, DeviceInterrupt(u) PROVE IInv'
    BY <1>4, DeviceStep
  <1>5. CASE UNCHANGED vars
    BY <1>5 DEF vars, IInv, TypeOK, TaskInv, LocksFree, OwnerInv, HolderInv, Owns, WaitersInv
  <1> QED
    BY <1>1, <1>2, <1>3, <1>4, <1>5 DEF Next

\* IInv holds in every reachable state of Sync.
THEOREM Invariant == Spec => []IInv
  BY InitIInv, StepIInv, PTL DEF Spec

\* The state of the scheduler and of the locks keeps its shape: counters of
\* uint8_t in range, lists of tasks on both kinds of queue.
THEOREM TypeCorrect == Spec => []TypeOK
  <1>1. IInv => TypeOK
    BY DEF IInv
  <1> QED
    BY <1>1, Invariant, PTL

\* No ASSERT of thread.c or sync.c ever fails.
THEOREM NeverPanics == Spec => []NoPanic
  <1>1. IInv => NoPanic
    BY DEF IInv, NoPanic
  <1> QED
    BY <1>1, Invariant, PTL

\* A lock excludes: two tasks are never both between the return of
\* lock_acquire and the call of lock_release.
THEOREM Exclusion == Spec => []MutualExclusion
  <1>1. IInv => MutualExclusion
    BY DEF IInv, MutualExclusion, OwnerInv, Owns
  <1> QED
    BY <1>1, Invariant, PTL

\* The ready list and the queues of the semaphores hold exactly the tasks
\* they should, each once.
THEOREM Lists == Spec => []ListsExact
  <1>1. IInv => ListsExact
    BY DEF IInv, ListsExact, WellFormed, WaitersInv
  <1> QED
    BY <1>1, Invariant, PTL

\* holder and holder_repeat_nr agree with what the owner of a lock has done.
THEOREM Holders == Spec => []HolderKnown
  <1>1. IInv => HolderKnown
    BY DEF IInv, HolderKnown, HolderInv
  <1> QED
    BY <1>1, Invariant, PTL

-----------------------------------------------------------------------------
\* No wakeup is lost. IInv does not say so by itself: what is needed besides
\* is that a waiter that has been woken stays awake until it takes the
\* semaphore or queues up again.
Awake(s, t) == s.status[t] \in {"READY", "RUNNING"}

\* Operations that park only the task given, or idle, keep the others awake.
LEMMA ParkedOnly ==
  ASSUME NEW s \in SchedulerState, NEW r \in SchedulerState, NEW u \in Tasks,
         \A p \in Parked \cup {"DIED"} : s.status[u] = p <=> r.status[u] = p,
         Awake(s, u)
  PROVE  Awake(r, u)
  BY StateComponents DEF Awake, TaskStatus, Parked

\* An ASSERT changes nothing but, perhaps, ok.
LEMMA AssertingStatus ==
  ASSUME NEW cond
  PROVE  sched \in SchedulerState => Asserting(sched, cond).status = sched.status
  BY DEF Asserting, SchedulerState

\* Whatever happens, a woken waiter that is still one sleeps only if it has
\* joined the queue again.
LEMMA WaiterStaysAwake ==
  ASSUME IInv, Next, NEW u \in Tasks, pc[u] = "woken", Awake(sched, u),
         pc'[u] = "woken", ~Contains(sema'[lk[u]].waiters, u)
  PROVE  Awake(sched', u)
  <1> USE Constants
  <1>0. /\ sched \in SchedulerState /\ sched' \in SchedulerState /\ WellFormed(sched)
        /\ u # Idle /\ lk[u] \in Locks
    BY Types, StepIInv DEF IInv, TypeOK, TaskInv, Acquiring
  <1>1. CASE sched'.status = sched.status
    BY <1>1 DEF Awake
  <1>2. CASE SameParked(sched, sched')
    BY <1>0, <1>2, ParkedOnly DEF SameParked
  <1>3. ASSUME NEW v \in Tasks, sched' = Unblock(sched, v)
        PROVE  Awake(sched', u)
    BY <1>0, <1>3, StateComponents, ZenonT(40) DEF Awake, Unblock, SchedulerState
  <1>4. ASSUME NEW t \in Tasks \ {u}, NEW stat \in Parked, NEW s \in SchedulerState,
               s.cur = t, s.status = sched.status, WellFormed(s),
               t = Idle => stat = "BLOCKED", sched' = Block(s, stat)
        PROVE  Awake(sched', u)
    <2>1. \A p \in Parked \cup {"DIED"} : s.status[u] = p <=> Block(s, stat).status[u] = p
      BY <1>0, <1>4, BlockLemma
    <2> QED
      BY <1>0, <1>4, <2>1, ParkedOnly
  <1>5. ASSUME NEW t \in Tasks, Forced(t) PROVE Awake(sched', u)
    <2>1. CASE SetHolder(t) \/ ClearHolder(t) \/ ClearRepeat(t) \/ IdleHalt
      BY <1>1, <2>1 DEF SetHolder, ClearHolder, ClearRepeat, IdleHalt
    <2>2. CASE TakeSemaphore(t) \/ SetRepeat(t)
      BY <1>0, <1>1, <2>2, AssertingStatus DEF TakeSemaphore, SetRepeat, SemaTakeSched
    <2>3. CASE IdleBlock
      BY <1>0, <1>4, <2>3 DEF IdleBlock, At, Parked
    <2>4. CASE SleepInDown(t)
      <3>1. PICK l \in Locks : lk[t] = l
        BY <2>4, AtLock DEF SleepInDown, At, Acquiring
      <3>2. sched.cur = t /\ t # Idle /\ ~Contains(sema[l].waiters, sched.cur)
        BY <2>4, <3>1, AtLock DEF SleepInDown, At, Acquiring
      <3> DEFINE s == Asserting(sched, ~Contains(sema[l].waiters, sched.cur))
      <3>3. /\ s \in SchedulerState /\ s.cur = t /\ s.status = sched.status
            /\ WellFormed(s)
        BY <1>0, <3>2, AssertingLemma
      <3>4. sched' = Block(s, "BLOCKED")
        BY <2>4, <3>1 DEF SleepInDown, SemaWaitSched
      <3> HIDE DEF s
      <3>5. t # u
        <4>1. sema[l] \in SemaphoreState /\ sema' = [sema EXCEPT ![l] = SemaWait(sema[l], t)]
          BY <2>4, <3>1 DEF SleepInDown, IInv, TypeOK
        <4>2. sema'[l].waiters = Append(sema[l].waiters, t)
          <5>1. /\ SemaWait(sema[l], t) \in SemaphoreState
                /\ SemaWait(sema[l], t).waiters = Append(sema[l].waiters, t)
            BY <4>1, SemaphoreFields
          <5>2. sema'[l] = SemaWait(sema[l], t)
            BY <4>1, <5>1, SemaAssigned DEF IInv
          <5> QED
            BY <5>1, <5>2
        <4>3. sema[l].waiters \in Seq(Tasks) /\ IsInjective(sema[l].waiters)
          BY Types DEF IInv, WaitersInv
        <4>4. Contains(sema'[l].waiters, t)
          BY <3>2, <4>2, <4>3, AppendToList
        <4> QED
          BY <3>1, <4>4
      <3> QED
        BY <1>4, <3>2, <3>3, <3>4, <3>5 DEF Parked
    <2>5. CASE UpSemaphore(t)
      <3>1. PICK l \in Locks : lk[t] = l
        BY <2>5, AtLock DEF UpSemaphore, At, Owning
      <3> DEFINE q == sema[l].waiters
                 s == IF q = <<>> THEN sched ELSE Unblock(sched, Head(q))
      <3>2. sched' = Asserting(s, sema[l].value = 0)
        BY <2>5, <3>1 DEF UpSemaphore, SemaUpSched
      <3>3. q \in Seq(Tasks)
        BY Types DEF IInv
      <3>4. s.status[u] \in {sched.status[u], "READY"}
        BY <1>0, <3>3, StateComponents DEF Unblock, SchedulerState
      <3>5. sched'.status = s.status
        BY <1>0, <3>2 DEF Asserting, SchedulerState, Unblock
      <3> QED
        BY <3>4, <3>5 DEF Awake
    <2> QED
      BY <1>5, <2>1, <2>2, <2>3, <2>4, <2>5 DEF Forced
  <1>6. ASSUME NEW t \in Tasks, Chosen(t) PROVE Awake(sched', u)
    <2>1. CASE \/ SystemCall(t) \/ ReturnToUser(t)
               \/ \E l \in Locks : Reacquire(t, l) \/ StartAcquire(t, l)
      BY <1>1, <2>1 DEF SystemCall, ReturnToUser, Reacquire, StartAcquire
    <2>2. CASE \E l \in Locks : ReleaseNested(t, l) \/ StartRelease(t, l)
      BY <1>0, <1>1, <2>2, AssertingStatus DEF ReleaseNested, StartRelease
    <2>3. CASE YieldCpu(t)
      BY <1>0, <1>2, <2>3, YieldLemma DEF YieldCpu
    <2>4. CASE \E v \in Tasks : WakeParked(t, v)
      BY <1>3, <2>4 DEF WakeParked
    <2>5. CASE \E stat \in {"BLOCKED", "WAITING"} : Park(t, stat)
      <3>1. sched.cur = t /\ t # Idle /\ pc[t] = "run"
        BY <2>5 DEF Park, At
      <3> QED
        BY <1>0, <1>4, <2>5, <3>1 DEF Park, Parked
    <2> QED
      BY <1>6, <2>1, <2>2, <2>3, <2>4, <2>5 DEF Chosen
  <1>7. CASE TimerInterrupt
    BY <1>0, <1>2, <1>7, TimerTickLemma DEF TimerInterrupt
  <1>8. ASSUME NEW v \in Tasks, DeviceInterrupt(v) PROVE Awake(sched', u)
    BY <1>3, <1>8 DEF DeviceInterrupt
  <1> QED
    BY <1>5, <1>6, <1>7, <1>8 DEF Next

\* A lock with sleepers that is free has a waiter awake, after every step too.
LEMMA StepNoLostWakeup ==
  ASSUME IInv, NoLostWakeup, [Next]_vars
  PROVE  NoLostWakeup'
  <1> USE Constants
  <1>1. CASE UNCHANGED vars
    BY <1>1 DEF vars, NoLostWakeup
  <1>2. CASE Next
    <2> SUFFICES ASSUME NEW l \in Locks, sema'[l].value > 0, sema'[l].waiters # <<>>
                 PROVE  \E t \in Tasks : pc'[t] = "woken" /\ lk'[t] = l /\ Awake(sched', t)
      BY DEF NoLostWakeup, Awake
    \* A step that leaves this semaphore alone and takes no waiter off it.
    <2>1. ASSUME sema'[l] = sema[l],
                 \A u \in Tasks : pc[u] = "woken" /\ lk[u] = l /\ Awake(sched, u)
                   => pc'[u] = "woken" /\ lk'[u] = l
          PROVE  \E t \in Tasks : pc'[t] = "woken" /\ lk'[t] = l /\ Awake(sched', t)
      <3>1. PICK u \in Tasks : pc[u] = "woken" /\ lk[u] = l /\ Awake(sched, u)
        BY <2>1 DEF NoLostWakeup, Awake
      <3>2. ~Contains(sema[l].waiters, u)
        BY <3>1 DEF IInv, WaitersInv, Awake
      <3> QED
        BY <1>2, <2>1, <3>1, <3>2, WaiterStaysAwake
    <2>2. ASSUME NEW t \in Tasks, Forced(t)
          PROVE  \E u \in Tasks : pc'[u] = "woken" /\ lk'[u] = l /\ Awake(sched', u)
      <3>1. CASE \/ SetHolder(t) \/ SetRepeat(t) \/ ClearHolder(t) \/ ClearRepeat(t)
                 \/ t = Idle /\ (IdleBlock \/ IdleHalt)
        <4>1. sema' = sema /\ \A u \in Tasks : pc[u] = "woken" => pc'[u] = "woken" /\ lk'[u] = lk[u]
          BY <3>1, Types DEF SetHolder, SetRepeat, ClearHolder, ClearRepeat, IdleBlock,
                             IdleHalt, At, Goto, IInv
        <4> QED
          BY <2>1, <4>1
      \* lk[t] is the lock that the step works on.
      <3>2. PICK m \in Locks \cup {NoLock} : lk[t] = m
        BY Types DEF IInv
      <3>3. CASE TakeSemaphore(t) \/ SleepInDown(t)
        <4>1. /\ m \in Locks /\ \A u \in Tasks \ {t} : pc'[u] = pc[u]
              /\ lk' = lk
          BY <3>2, <3>3, AtLock, Types DEF TakeSemaphore, SleepInDown, At, Goto, Acquiring, IInv
        <4>2. sema[m] \in SemaphoreState
          BY <4>1 DEF IInv, TypeOK
        <4>3. CASE m = l
          <5>1. sema'[l].value = 0
            <6>1. CASE TakeSemaphore(t)
              <7>1. /\ SemaTake(sema[l]) \in SemaphoreState
                    /\ SemaTake(sema[l]).value = 0
                <8>1. sema[l].value = 1
                  BY <3>2, <4>3, <6>1 DEF IInv, OwnerInv, TakeSemaphore
                <8> QED
                  BY <4>2, <4>3, <8>1, SemaphoreFields
              <7>2. sema' = [sema EXCEPT ![l] = SemaTake(sema[l])]
                BY <3>2, <4>3, <6>1 DEF TakeSemaphore
              <7> QED
                BY <7>1, <7>2, SemaAssigned DEF IInv
            <6>2. CASE SleepInDown(t)
              <7>1. /\ SemaWait(sema[l], t) \in SemaphoreState
                    /\ SemaWait(sema[l], t).value = 0
                BY <3>2, <4>2, <4>3, <6>2, SemaphoreFields DEF SleepInDown
              <7>2. sema' = [sema EXCEPT ![l] = SemaWait(sema[l], t)]
                BY <3>2, <4>3, <6>2 DEF SleepInDown
              <7> QED
                BY <7>1, <7>2, SemaAssigned DEF IInv
            <6> QED
              BY <3>3, <6>1, <6>2
          <5> QED
            BY <5>1
        <4>4. CASE m # l
          BY <2>1, <3>2, <3>3, <4>1, <4>4 DEF TakeSemaphore, SleepInDown, IInv, TypeOK
        <4> QED
          BY <4>3, <4>4
      <3>4. CASE UpSemaphore(t)
        <4>1. /\ m \in Locks /\ pc[t] = "up"
              /\ \A u \in Tasks \ {t} : pc'[u] = pc[u] /\ lk'[u] = lk[u]
          BY <3>2, <3>4, AtLock, Types DEF UpSemaphore, At, Goto, Owning, IInv
        <4>2. CASE m # l
          <5>1. sema'[l] = sema[l]
            BY <3>2, <3>4, <4>2 DEF UpSemaphore, IInv, TypeOK
          <5> QED
            BY <2>1, <4>1, <5>1
        <4>3. CASE m = l
          <5> DEFINE q == sema[l].waiters
          <5>1. q \in Seq(Tasks) /\ IsInjective(q)
            BY Types DEF IInv, WaitersInv
          <5>2. sema'[l].waiters = IF q = <<>> THEN <<>> ELSE Tail(q)
            BY <3>2, <3>4, <4>3 DEF UpSemaphore, SemaUp, IInv, TypeOK
          <5>3. q # <<>>
            BY <5>2
          <5>4. Head(q) \in Tasks /\ Contains(q, Head(q))
            BY <5>1, <5>3, PopFromList
          <5>5. pc[Head(q)] = "woken" /\ lk[Head(q)] = l
            BY <5>4 DEF IInv, WaitersInv
          <5>6. sched' = Asserting(Unblock(sched, Head(q)), sema[l].value = 0)
            BY <3>2, <3>4, <4>3, <5>3 DEF UpSemaphore, SemaUpSched
          <5>7. sched'.status[Head(q)] = "READY"
            BY <5>4, <5>6, Types, ZenonT(40) DEF Asserting, Unblock, SchedulerState, IInv
          <5> QED
            BY <4>1, <5>4, <5>5, <5>7 DEF Awake
        <4> QED
          BY <4>2, <4>3
      <3> QED
        BY <2>2, <3>1, <3>3, <3>4 DEF Forced
    <2>3. ASSUME NEW t \in Tasks, Chosen(t)
          PROVE  \E u \in Tasks : pc'[u] = "woken" /\ lk'[u] = l /\ Awake(sched', u)
      <3>1. sema' = sema
        BY <2>3 DEF Chosen, SystemCall, ReturnToUser, YieldCpu, Park, WakeParked, Reacquire,
                    StartAcquire, ReleaseNested, StartRelease
      <3>2. \A u \in Tasks : pc[u] = "woken" => pc'[u] = "woken" /\ lk'[u] = lk[u]
        BY <2>3, Types DEF Chosen, SystemCall, ReturnToUser, YieldCpu, Park, WakeParked, Reacquire,
                    StartAcquire, ReleaseNested, StartRelease, At, Goto, IInv
      <3> QED
        BY <2>1, <3>1, <3>2
    <2>4. CASE TimerInterrupt \/ \E u \in Tasks : DeviceInterrupt(u)
      <3>1. /\ sema' = sema /\ lk' = lk
            /\ \A u \in Tasks : pc[u] = "woken" /\ u # Idle => pc'[u] = "woken"
        BY <2>4, Types DEF TimerInterrupt, DeviceInterrupt, AfterHalt, IInv
      <3> QED
        BY <2>1, <3>1, InsideIsNotIdle
    <2> QED
      BY <1>2, <2>2, <2>3, <2>4 DEF Next
  <1> QED
    BY <1>1, <1>2

\* A lock that is free while tasks sleep in its queue always has a woken
\* waiter on its way to it, who will take it and wake the next.
THEOREM NoWakeupLost == Spec => []NoLostWakeup
  <1>1. Init => NoLostWakeup
    BY DEF Init, NoLostWakeup, SemaInit
  <1> QED
    BY <1>1, StepNoLostWakeup, Invariant, PTL DEF Spec

-----------------------------------------------------------------------------
\* What the locks promise: they implement LockSpec, and the scheduler they run on
\* lets nobody overtake but those that are woken.


\* The owner and the count of LockSpec in a state that satisfies IInv.
Mapped ==
  \A l \in Locks :
    /\ \A t \in Tasks : Owns(t, l) =>
         /\ Owner(l) = t
         /\ Count(l) = IF depth[t][l] > 0 THEN depth[t][l] ELSE 1
    /\ (\A t \in Tasks : ~Owns(t, l)) => Owner(l) = NoTask /\ Count(l) = 0

\* A lock has one owner at most, so the CHOOSE in Owner finds it.
LEMMA MappedState == IInv => Mapped
  <1> SUFFICES ASSUME IInv, NEW l \in Locks
               PROVE  /\ \A t \in Tasks : Owns(t, l) =>
                           /\ Owner(l) = t
                           /\ Count(l) = IF depth[t][l] > 0 THEN depth[t][l] ELSE 1
                      /\ (\A t \in Tasks : ~Owns(t, l)) => Owner(l) = NoTask /\ Count(l) = 0
    BY DEF Mapped
  <1>1. ASSUME NEW t \in Tasks, Owns(t, l)
        PROVE  Owner(l) = t /\ Count(l) = IF depth[t][l] > 0 THEN depth[t][l] ELSE 1
    <2>1. \A u \in Tasks : Owns(u, l) => u = t
      BY <1>1 DEF IInv, OwnerInv
    <2>2. Owner(l) = t
      BY <1>1, <2>1 DEF Owner
    <2>3. t # NoTask
      BY Constants
    <2> QED
      BY <2>2, <2>3 DEF Count
  <1>2. ASSUME \A t \in Tasks : ~Owns(t, l)
        PROVE  Owner(l) = NoTask /\ Count(l) = 0
    <2>1. Owner(l) = NoTask
      BY <1>2 DEF Owner
    <2> QED
      BY <2>1 DEF Count
  <1> QED
    BY <1>1, <1>2

\* When scheduling starts every lock is free.
LEMMA InitRefines == Init => Abstract!Init
  <1> SUFFICES ASSUME Init PROVE Abstract!Init
    OBVIOUS
  <1>1. \A l \in Locks, t \in Tasks : ~Owns(t, l)
    BY Constants DEF Init, Owns
  <1>2. \A l \in Locks : Owner(l) = NoTask /\ Count(l) = 0
    BY <1>1, InitIInv, MappedState DEF Mapped
  <1> QED
    BY <1>2 DEF Abstract!Init

\* A step that changes neither who owns a lock nor how often.
LEMMA StutterRefines ==
  ASSUME Mapped, Mapped',
         \A l \in Locks, t \in Tasks :
           /\ Owns(t, l)' <=> Owns(t, l)
           /\ Owns(t, l) => \/ depth'[t][l] = depth[t][l]
                            \/ depth[t][l] \in {0, 1} /\ depth'[t][l] \in {0, 1}
  PROVE  UNCHANGED <<[l \in Locks |-> Owner(l)], [l \in Locks |-> Count(l)]>>
  <1>1. ASSUME NEW l \in Locks
        PROVE  Owner(l)' = Owner(l) /\ Count(l)' = Count(l)
    <2>1. CASE \A t \in Tasks : ~Owns(t, l)
      BY <2>1 DEF Mapped
    <2>2. ASSUME NEW t \in Tasks, Owns(t, l)
          PROVE  Owner(l)' = Owner(l) /\ Count(l)' = Count(l)
      BY <2>2 DEF Mapped
    <2> QED
      BY <2>1, <2>2
  <1> QED
    BY <1>1

\* A step that changes what is known of lock l only, from owner and count
\* a, m to b, n.
LEMMA OneLockChanges ==
  ASSUME Mapped, Mapped', NEW l \in Locks,
         \A k \in Locks \ {l}, t \in Tasks :
           /\ Owns(t, k)' <=> Owns(t, k)
           /\ depth'[t][k] = depth[t][k]
  PROVE  /\ [k \in Locks |-> Owner(k)]' = [[k \in Locks |-> Owner(k)] EXCEPT ![l] = Owner(l)']
         /\ [k \in Locks |-> Count(k)]' = [[k \in Locks |-> Count(k)] EXCEPT ![l] = Count(l)']
  <1>1. ASSUME NEW k \in Locks \ {l}
        PROVE  Owner(k)' = Owner(k) /\ Count(k)' = Count(k)
    <2>1. CASE \A t \in Tasks : ~Owns(t, k)
      BY <2>1 DEF Mapped
    <2>2. ASSUME NEW t \in Tasks, Owns(t, k)
          PROVE  Owner(k)' = Owner(k) /\ Count(k)' = Count(k)
      BY <2>2 DEF Mapped
    <2> QED
      BY <2>1, <2>2
  <1> QED
    BY <1>1

\* The step of lock_acquire that takes the lock.
LEMMA TakeRefines ==
  ASSUME IInv, Mapped, Mapped', NEW t \in Tasks, TakeSemaphore(t)
  PROVE  Abstract!Take(t, lk[t])
  <1>0. PICK l \in Locks : lk[t] = l
    BY AtLock DEF TakeSemaphore, UpSemaphore, At, Acquiring, Owning
  <1> USE Constants DEF TakeSemaphore, At, Goto
  <1>1. sched.cur = t /\ pc[t] \in Acquiring /\ l \in Locks /\ depth[t][l] = 0
    BY <1>0, AtLock DEF Acquiring
  <1>2. \A u \in Tasks : ~Owns(u, l)
    BY <1>0, <1>1 DEF IInv, OwnerInv
  <1>3. pc'[t] = "got" /\ \A u \in Tasks \ {t} : pc'[u] = pc[u]
    BY Types DEF IInv
  <1>4. Owns(t, l)' /\ lk' = lk /\ depth' = depth
    BY <1>0, <1>1, <1>3 DEF Owns, Owning
  <1>5. \A k \in Locks \ {l}, u \in Tasks : Owns(u, k)' <=> Owns(u, k)
    BY <1>0, <1>1, <1>3, <1>4 DEF Owns
  <1>6. Owner(l) = NoTask /\ Owner(l)' = t /\ Count(l)' = 1
    BY <1>1, <1>2, <1>4 DEF Mapped
  <1>7. /\ [k \in Locks |-> Owner(k)]' = [[k \in Locks |-> Owner(k)] EXCEPT ![l] = Owner(l)']
        /\ [k \in Locks |-> Count(k)]' = [[k \in Locks |-> Count(k)] EXCEPT ![l] = Count(l)']
    BY <1>1, <1>4, <1>5, OneLockChanges
  <1>8. Abstract!Take(t, l)
    BY <1>1, <1>6, <1>7 DEF Abstract!Take
  <1> QED
    BY <1>0, <1>8

\* A nested lock_acquire.
LEMMA TakeAgainRefines ==
  ASSUME IInv, Mapped, Mapped', NEW t \in Tasks, NEW l \in Locks, Reacquire(t, l)
  PROVE  Abstract!TakeAgain(t, l)
  <1>1. sched.cur = t /\ pc[t] = "run" /\ holder[l] = t /\ lk[t] \notin Locks
    BY Types DEF Reacquire, At, IInv, TaskInv, Acquiring, Owning
  <1>2. depth[t][l] \in Nat \ {0}
    BY <1>1, Types DEF IInv, HolderInv
  <1>3. /\ depth'[t][l] = depth[t][l] + 1
        /\ \A k \in Locks, u \in Tasks : k # l \/ u # t => depth'[u][k] = depth[u][k]
        /\ lk' = lk /\ pc' = pc
    BY DEF Reacquire, IInv, TypeOK
  <1>4. \A k \in Locks, u \in Tasks : Owns(u, k)' <=> Owns(u, k)
    BY <1>2, <1>3 DEF Owns
  <1>5. Owns(t, l) /\ Owns(t, l)'
    BY <1>2, <1>4 DEF Owns
  <1>6. /\ Owner(l) = t /\ Owner(l)' = t
        /\ Count(l) = depth[t][l] /\ Count(l)' = Count(l) + 1
    BY <1>2, <1>3, <1>5 DEF Mapped
  <1>7. /\ [k \in Locks |-> Owner(k)]' = [[k \in Locks |-> Owner(k)] EXCEPT ![l] = Owner(l)']
        /\ [k \in Locks |-> Count(k)]' = [[k \in Locks |-> Count(k)] EXCEPT ![l] = Count(l)']
    BY <1>3, <1>4, OneLockChanges
  <1> QED
    BY <1>6, <1>7 DEF Abstract!TakeAgain

\* A nested lock_release.
LEMMA GiveBackRefines ==
  ASSUME IInv, Mapped, Mapped', NEW t \in Tasks, NEW l \in Locks, ReleaseNested(t, l)
  PROVE  Abstract!GiveBack(t, l)
  <1>1. depth[t][l] \in Nat /\ depth[t][l] > 1
    BY Types DEF ReleaseNested, IInv, HolderInv
  <1>2. /\ depth'[t][l] = depth[t][l] - 1
        /\ \A k \in Locks, u \in Tasks : k # l \/ u # t => depth'[u][k] = depth[u][k]
        /\ lk' = lk /\ pc' = pc
    BY DEF ReleaseNested, IInv, TypeOK
  <1>3. \A k \in Locks, u \in Tasks : Owns(u, k)' <=> Owns(u, k)
    BY <1>1, <1>2 DEF Owns
  <1>4. Owns(t, l) /\ Owns(t, l)'
    BY <1>1, <1>3 DEF Owns
  <1>5. /\ Owner(l) = t /\ Owner(l)' = t
        /\ Count(l) = depth[t][l] /\ Count(l)' = Count(l) - 1
    BY <1>1, <1>2, <1>4 DEF Mapped
  <1>6. /\ [k \in Locks |-> Owner(k)]' = [[k \in Locks |-> Owner(k)] EXCEPT ![l] = Owner(l)']
        /\ [k \in Locks |-> Count(k)]' = [[k \in Locks |-> Count(k)] EXCEPT ![l] = Count(l)']
    BY <1>2, <1>3, OneLockChanges
  <1> QED
    BY <1>1, <1>5, <1>6 DEF Abstract!GiveBack

\* The sema_up of the last lock_release.
LEMMA SetFreeRefines ==
  ASSUME IInv, Mapped, Mapped', NEW t \in Tasks, UpSemaphore(t)
  PROVE  Abstract!SetFree(t, lk[t])
  <1>0. PICK l \in Locks : lk[t] = l
    BY AtLock DEF TakeSemaphore, UpSemaphore, At, Acquiring, Owning
  <1> USE Constants DEF UpSemaphore, At, Goto
  <1>1. /\ sched.cur = t /\ pc[t] = "up" /\ l \in Locks /\ depth[t][l] = 0
        /\ Owns(t, l) /\ \A u \in Tasks \ {t} : ~Owns(u, l)
    BY <1>0, AtLock DEF Owning
  <1>2. /\ pc'[t] = "run" /\ lk'[t] = NoLock /\ depth' = depth
        /\ \A u \in Tasks \ {t} : pc'[u] = pc[u] /\ lk'[u] = lk[u]
    BY Types DEF IInv
  <1>3. \A u \in Tasks : ~Owns(u, l)'
    BY <1>0, <1>1, <1>2 DEF Owns
  <1>4. \A k \in Locks \ {l}, u \in Tasks : Owns(u, k)' <=> Owns(u, k)
    BY <1>0, <1>1, <1>2 DEF Owns
  <1>5. /\ Owner(l) = t /\ Count(l) = 1 /\ Owner(l)' = NoTask /\ Count(l)' = 0
    BY <1>1, <1>3 DEF Mapped
  <1>6. /\ [k \in Locks |-> Owner(k)]' = [[k \in Locks |-> Owner(k)] EXCEPT ![l] = Owner(l)']
        /\ [k \in Locks |-> Count(k)]' = [[k \in Locks |-> Count(k)] EXCEPT ![l] = Count(l)']
    BY <1>1, <1>2, <1>4, OneLockChanges
  <1>7. Abstract!SetFree(t, l)
    BY <1>1, <1>5, <1>6 DEF Abstract!SetFree
  <1> QED
    BY <1>0, <1>7

\* The steps that LockSpec does not see: lock_acquire returns, the last
\* lock_release begins, and all the others.
LEMMA HiddenRefines ==
  ASSUME IInv, Mapped, Mapped', NEW t \in Tasks,
         \/ SetRepeat(t)
         \/ \E l \in Locks : StartRelease(t, l)
  PROVE  UNCHANGED <<[l \in Locks |-> Owner(l)], [l \in Locks |-> Count(l)]>>
  <1> USE Constants DEF At, Goto
  <1>1. PICK l \in Locks : \/ SetRepeat(t) /\ lk[t] = l
                           \/ StartRelease(t, l)
    BY AtLock DEF SetRepeat, Owning
  <1>2. /\ \A u \in Tasks : depth[u][l] > 0 => repeat[l] = depth[u][l]
        /\ \A k \in Locks, u \in Tasks : depth[u][k] \in Nat
        /\ repeat[l] \in Nat
    BY Types DEF IInv, HolderInv
  <1>3. CASE SetRepeat(t) /\ lk[t] = l
    <2>1. pc[t] = "held" /\ depth[t][l] = 0
      BY <1>3, AtLock DEF SetRepeat, Owning
    <2>2. /\ depth'[t][l] = 1 /\ lk'[t] = NoLock
          /\ \A k \in Locks, u \in Tasks : k # l \/ u # t => depth'[u][k] = depth[u][k]
          /\ \A u \in Tasks \ {t} : pc'[u] = pc[u] /\ lk'[u] = lk[u]
      BY <1>3, <2>1, Types DEF SetRepeat, IInv, TypeOK
    <2>3. \A k \in Locks, u \in Tasks : Owns(u, k)' <=> Owns(u, k)
      BY <1>3, <2>1, <2>2 DEF Owns, Owning
    <2> QED
      BY <2>1, <2>2, <2>3, StutterRefines
  <1>4. CASE StartRelease(t, l)
    <2>1. depth[t][l] = 1 /\ pc[t] = "run" /\ lk[t] \notin Locks
      BY <1>2, <1>4, Types, SMTT(30) DEF StartRelease, IInv, TaskInv, Acquiring, Owning
    <2>2. /\ depth'[t][l] = 0 /\ lk'[t] = l /\ pc'[t] = "rel"
          /\ \A k \in Locks, u \in Tasks : k # l \/ u # t => depth'[u][k] = depth[u][k]
          /\ \A u \in Tasks \ {t} : pc'[u] = pc[u] /\ lk'[u] = lk[u]
      BY <1>4, <2>1, Types DEF StartRelease, IInv, TypeOK
    <2>3. \A k \in Locks, u \in Tasks : Owns(u, k)' <=> Owns(u, k)
      BY <2>1, <2>2 DEF Owns, Owning
    <2> QED
      BY <2>1, <2>2, <2>3, StutterRefines
  <1> QED
    BY <1>1, <1>3, <1>4

\* A step that moves no task into or out of the part where it owns a lock.
LEMMA OutsideRefines ==
  ASSUME Mapped, Mapped', UNCHANGED <<lk, depth>>,
         \A u \in Tasks : lk[u] \in Locks => (pc'[u] \in Owning <=> pc[u] \in Owning)
  PROVE  UNCHANGED <<[l \in Locks |-> Owner(l)], [l \in Locks |-> Count(l)]>>
  <1>1. \A l \in Locks, u \in Tasks : Owns(u, l)' <=> Owns(u, l)
    BY DEF Owns
  <1> QED
    BY <1>1, StutterRefines

\* Every step of Sync is a step of LockSpec or none.
LEMMA StepRefines ==
  ASSUME IInv, IInv', Mapped, Mapped', [Next]_vars
  PROVE  [Abstract!Next]_<<[l \in Locks |-> Owner(l)], [l \in Locks |-> Count(l)]>>
  <1> DEFINE Same == UNCHANGED <<[l \in Locks |-> Owner(l)], [l \in Locks |-> Count(l)]>>
  <1>1. ASSUME NEW t \in Tasks, Forced(t) PROVE Abstract!Next \/ Same
    <2>1. CASE TakeSemaphore(t)
      <3>1. lk[t] \in Locks
        BY <2>1, AtLock DEF TakeSemaphore, At, Acquiring
      <3> QED
        BY <2>1, <3>1, TakeRefines DEF Abstract!Next
    <2>2. CASE UpSemaphore(t)
      <3>1. lk[t] \in Locks
        BY <2>2, AtLock DEF UpSemaphore, At, Owning
      <3> QED
        BY <2>2, <3>1, SetFreeRefines DEF Abstract!Next
    <2>3. CASE SetRepeat(t)
      BY <2>3, HiddenRefines
    <2>4. CASE SleepInDown(t) \/ SetHolder(t) \/ ClearHolder(t) \/ ClearRepeat(t)
      <3>1. /\ lk' = lk /\ depth' = depth
            /\ \A u \in Tasks : pc'[u] \in Owning <=> pc[u] \in Owning
        BY <2>4, Types DEF SleepInDown, SetHolder, ClearHolder, ClearRepeat, At, Goto, Owning, IInv
      <3> QED
        BY <3>1, OutsideRefines
    <2>5. CASE t = Idle /\ (IdleBlock \/ IdleHalt)
      <3>1. /\ lk' = lk /\ depth' = depth
            /\ \A u \in Tasks : pc'[u] \in Owning <=> pc[u] \in Owning
        BY <2>5, Types DEF IdleBlock, IdleHalt, At, Goto, Owning, IInv
      <3> QED
        BY <3>1, OutsideRefines
    <2> QED
      BY <1>1, <2>1, <2>2, <2>3, <2>4, <2>5 DEF Forced
  <1>2. ASSUME NEW t \in Tasks, Chosen(t) PROVE Abstract!Next \/ Same
    <2>1. ASSUME NEW l \in Locks, Reacquire(t, l) PROVE Abstract!Next
      BY <2>1, TakeAgainRefines DEF Abstract!Next
    <2>2. ASSUME NEW l \in Locks, ReleaseNested(t, l) PROVE Abstract!Next
      BY <2>2, GiveBackRefines DEF Abstract!Next
    <2>3. ASSUME NEW l \in Locks, StartRelease(t, l) PROVE Same
      BY <2>3, HiddenRefines
    <2>4. ASSUME NEW l \in Locks, StartAcquire(t, l) PROVE Same
      <3>1. /\ depth' = depth /\ pc[t] = "run" /\ lk[t] \notin Locks /\ pc'[t] = "down"
            /\ \A u \in Tasks \ {t} : pc'[u] = pc[u] /\ lk'[u] = lk[u]
        BY <2>4, Types DEF StartAcquire, At, Goto, IInv, TaskInv, Acquiring, Owning
      <3>2. \A k \in Locks, u \in Tasks : Owns(u, k)' <=> Owns(u, k)
        BY <3>1 DEF Owns, Owning
      <3> QED
        BY <3>1, <3>2, StutterRefines
    <2>5. CASE \/ SystemCall(t) \/ ReturnToUser(t) \/ YieldCpu(t)
               \/ \E stat \in {"BLOCKED", "WAITING"} : Park(t, stat)
               \/ \E u \in Tasks : WakeParked(t, u)
      <3>1. /\ lk' = lk /\ depth' = depth
            /\ \A u \in Tasks : pc'[u] \in Owning <=> pc[u] \in Owning
        BY <2>5, Types DEF SystemCall, ReturnToUser, YieldCpu, Park, WakeParked, At, Goto, Owning, IInv
      <3> QED
        BY <3>1, OutsideRefines
    <2> QED
      BY <1>2, <2>1, <2>2, <2>3, <2>4, <2>5 DEF Chosen
  <1>3. CASE TimerInterrupt \/ \E u \in Tasks : DeviceInterrupt(u)
    <2>1. /\ lk' = lk /\ depth' = depth
          /\ \A u \in Tasks : pc'[u] \in Owning <=> pc[u] \in Owning
      BY <1>3, Types, Constants DEF TimerInterrupt, DeviceInterrupt, AfterHalt, Owning, IInv
    <2> QED
      BY <2>1, OutsideRefines
  <1>4. CASE UNCHANGED vars
    BY <1>4, OutsideRefines DEF vars
  <1> QED
    BY <1>1, <1>2, <1>3, <1>4 DEF Next

\* The locks of thread/sync.c implement LockSpec: one owner at a time, which
\* alone takes the lock again and gives it back as often as it took it.
THEOREM Refines == Spec => ImplementsLockSpec
  <1>1. IInv => Mapped
    BY MappedState
  <1>2. IInv /\ IInv' /\ Mapped /\ Mapped' /\ [Next]_vars
          => [Abstract!Next]_<<[l \in Locks |-> Owner(l)], [l \in Locks |-> Count(l)]>>
    BY StepRefines
  <1> QED
    BY <1>1, <1>2, InitRefines, Invariant, PTL DEF Spec, ImplementsLockSpec, Abstract!Spec

-----------------------------------------------------------------------------
\* The order of the ready list. t is somewhere before u:
Before(s, t, u) ==
  \E i, j \in DOMAIN s.ready : i < j /\ s.ready[i] = t /\ s.ready[j] = u

\* list_append behind a list keeps its order.
LEMMA AppendKeepsOrder ==
  ASSUME NEW s \in SchedulerState, NEW r \in SchedulerState, NEW x \in Tasks,
         r.ready = Append(s.ready, x), NEW t, NEW u, Before(s, t, u)
  PROVE  Before(r, t, u)
  <1>1. PICK i, j \in DOMAIN s.ready : i < j /\ s.ready[i] = t /\ s.ready[j] = u
    BY DEF Before
  <1>2. /\ DOMAIN s.ready \subseteq DOMAIN r.ready
        /\ \A k \in DOMAIN s.ready : r.ready[k] = s.ready[k]
    BY StateComponents, AppendProperties
  <1> QED
    BY <1>1, <1>2 DEF Before

\* list_pop keeps the order of the tasks that stay.
LEMMA TailKeepsOrder ==
  ASSUME NEW s \in SchedulerState, NEW r \in SchedulerState,
         s.ready # <<>>, r.ready = Tail(s.ready),
         NEW t, NEW u, t # Head(s.ready), Before(s, t, u)
  PROVE  Before(r, t, u)
  <1>1. PICK i, j \in DOMAIN s.ready : i < j /\ s.ready[i] = t /\ s.ready[j] = u
    BY DEF Before
  <1>2. /\ s.ready \in Seq(Tasks) /\ DOMAIN s.ready = 1 .. Len(s.ready)
        /\ Len(s.ready) \in Nat \ {0} /\ Head(s.ready) = s.ready[1]
        /\ r.ready \in Seq(Tasks) /\ DOMAIN r.ready = 1 .. Len(r.ready)
        /\ Len(r.ready) = Len(s.ready) - 1
        /\ \A k \in 1 .. Len(r.ready) : r.ready[k] = s.ready[k + 1]
    BY StateComponents, HeadTailProperties, EmptySeq, LenProperties
  <1>3. i # 1
    BY <1>1, <1>2
  <1>4. i - 1 \in 1 .. Len(r.ready) /\ j - 1 \in 1 .. Len(r.ready) /\ i - 1 < j - 1
    BY <1>1, <1>2, <1>3
  <1>5. r.ready[i - 1] = t /\ r.ready[j - 1] = u
    <2>1. (i - 1) + 1 = i /\ (j - 1) + 1 = j
      BY <1>1, <1>2
    <2> QED
      BY <1>1, <1>2, <1>4, <2>1
  <1> QED
    BY <1>2, <1>4, <1>5 DEF Before

\* schedule keeps the order of the tasks that stay ready: the one it puts
\* back goes to the tail, and idle is woken only when the list is empty.
LEMMA ScheduleKeepsOrder ==
  ASSUME NEW s, Switchable(s), NEW t \in Tasks, NEW u \in Tasks, Before(s, t, u),
         Schedule(s).status[t] = "READY"
  PROVE  Before(Schedule(s), t, u)
  <1> DEFINE q == Requeue(s)
             r == Schedule(s)
  <1>1. s \in SchedulerState /\ q \in SchedulerState
    BY RequeueLemma DEF Switchable
  <1>2. Before(q, t, u)
    <2>1. q.ready = s.ready \/ q.ready = Append(s.ready, s.cur)
      BY RequeueLemma
    <2> HIDE DEF q
    <2>2. CASE q.ready = s.ready
      BY <2>2 DEF Before
    <2>3. CASE q.ready = Append(s.ready, s.cur)
      BY <1>1, <2>3, StateComponents, AppendKeepsOrder
    <2> QED
      BY <2>1, <2>2, <2>3
  <1>3. q.ready # <<>>
    BY <1>2 DEF Before
  <1>4. r = Dispatch(q)
    BY <1>3 DEF Schedule, WakeIdle
  <1>5. r \in SchedulerState
    BY ScheduleLemma
  <1> HIDE DEF q, r
  <1>6. /\ Head(q.ready) \in Tasks
        /\ r.ready = Tail(q.ready)
        /\ r.status = [q.status EXCEPT ![Head(q.ready)] = "RUNNING"]
    BY <1>1, <1>3, <1>4, StateComponents, HeadTailProperties, EmptySeq DEF Dispatch
  <1>7. t # Head(q.ready)
    BY <1>1, <1>6, StateComponents DEF r
  <1> QED
    BY <1>1, <1>2, <1>3, <1>5, <1>6, <1>7, TailKeepsOrder DEF r

\* thread_block keeps the order.
LEMMA BlockKeepsOrder ==
  ASSUME NEW s \in SchedulerState, WellFormed(s),
         NEW stat \in Parked, s.cur = Idle => stat = "BLOCKED",
         NEW t \in Tasks, NEW u \in Tasks, Before(s, t, u),
         Block(s, stat).status[t] = "READY"
  PROVE  Before(Block(s, stat), t, u)
  <1> DEFINE b == Parking(s, stat)
  <1>1. Switchable(b) /\ b.ready = s.ready /\ Block(s, stat) = Schedule(b)
    BY ParkedSwitchable
  <1> HIDE DEF b
  <1>2. Before(b, t, u)
    BY <1>1 DEF Before
  <1> QED
    BY <1>1, <1>2, ScheduleKeepsOrder

\* thread_yield and the timer keep the order.
LEMMA RotateKeepsOrder ==
  ASSUME NEW s \in SchedulerState, WellFormed(s), NEW r, r \in {Yield(s), TimerTick(s)},
         NEW t \in Tasks, NEW u \in Tasks, Before(s, t, u), r.status[t] = "READY"
  PROVE  Before(r, t, u)
  <1>1. CASE r = Yield(s)
    <2> DEFINE e == Enqueue(s, s.cur)
    <2>1. Switchable(e) /\ e.ready = Append(s.ready, s.cur) /\ e \in SchedulerState
      BY YieldedSwitchable DEF Switchable
    <2>2. r = Schedule(e)
      BY <1>1 DEF Yield
    <2> HIDE DEF e
    <2>3. Before(e, t, u)
      BY <2>1, StateComponents, AppendKeepsOrder
    <2> QED
      BY <2>1, <2>2, <2>3, ScheduleKeepsOrder
  <1>2. CASE r = TimerTick(s) /\ s.ticks[s.cur] = 0
    <2>1. Switchable(s) /\ r = Schedule(s)
      BY <1>2 DEF Switchable, WellFormed, OneRunning, TimerTick
    <2> QED
      BY <2>1, ScheduleKeepsOrder
  <1>3. CASE r = TimerTick(s) /\ s.ticks[s.cur] # 0
    <2>1. r.ready = s.ready
      BY <1>3, StateComponents DEF TimerTick
    <2> QED
      BY <2>1 DEF Before
  <1> QED
    BY <1>1, <1>2, <1>3

\* A step that wakes nobody keeps the order of the tasks that stay ready.
LEMMA StepKeepsOrder ==
  ASSUME IInv, IInv', [Next]_vars, ~WakeupStep,
         NEW t \in Tasks, NEW u \in Tasks, Before(sched, t, u), sched'.status[t] = "READY"
  PROVE  Before(sched', t, u)
  <1> USE Constants
  <1>0. /\ sched \in SchedulerState /\ sched' \in SchedulerState
        /\ WellFormed(sched)
    BY DEF IInv, TypeOK
  <1>1. CASE sched'.ready = sched.ready
    BY <1>1 DEF Before
  <1>2. ASSUME NEW cond, sched' = Asserting(sched, cond)
        PROVE  Before(sched', t, u)
    BY <1>0, <1>1, <1>2, StateComponents DEF Asserting
  <1>3. ASSUME NEW v \in Tasks, sched.status[v] \in Parked, sched' = Unblock(sched, v)
        PROVE  FALSE
    <2>1. sched'.status[v] = "READY"
      <3>1. sched'.status = [sched.status EXCEPT ![v] = "READY"]
        BY <1>0, <1>3, UnblockLemma DEF WellFormed
      <3> QED
        BY <1>0, <3>1, StateComponents
    <2> QED
      BY <1>3, <2>1 DEF WakeupStep
  <1>4. ASSUME NEW s \in SchedulerState, NEW stat \in Parked, WellFormed(s),
               s.cur = Idle => stat = "BLOCKED",
               s.ready = sched.ready, sched' = Block(s, stat)
        PROVE  Before(sched', t, u)
    <2>1. Before(s, t, u)
      BY <1>4 DEF Before
    <2> QED
      BY <1>4, <2>1, BlockKeepsOrder
  <1>5. ASSUME NEW v \in Tasks, Forced(v) PROVE Before(sched', t, u)
    <2>1. CASE SetHolder(v) \/ ClearHolder(v) \/ ClearRepeat(v) \/ IdleHalt
      BY <1>1, <2>1 DEF SetHolder, ClearHolder, ClearRepeat, IdleHalt
    <2>2. CASE TakeSemaphore(v) \/ SetRepeat(v)
      BY <1>2, <2>2 DEF TakeSemaphore, SetRepeat, SemaTakeSched
    <2>3. CASE IdleBlock
      BY <1>0, <1>4, <2>3 DEF IdleBlock, At, Parked
    <2>4. CASE SleepInDown(v)
      <3>1. /\ sched.cur = v /\ v # Idle
            /\ ~Contains(sema[lk[v]].waiters, sched.cur)
        BY <2>4, AtLock DEF SleepInDown, At, Acquiring
      <3> DEFINE s == Asserting(sched, ~Contains(sema[lk[v]].waiters, sched.cur))
      <3>2. /\ s \in SchedulerState /\ s.cur = v /\ s.ready = sched.ready /\ WellFormed(s)
        BY <1>0, <3>1, AssertingLemma
      <3>3. sched' = Block(s, "BLOCKED")
        BY <2>4 DEF SleepInDown, SemaWaitSched
      <3> HIDE DEF s
      <3> QED
        BY <1>4, <3>1, <3>2, <3>3 DEF Parked
    <2>5. CASE UpSemaphore(v)
      <3>1. PICK l \in Locks : lk[v] = l
        BY <2>5, AtLock DEF UpSemaphore, At, Owning
      <3> DEFINE q == sema[l].waiters
                 s == IF q = <<>> THEN sched ELSE Unblock(sched, Head(q))
      <3>2. sched' = Asserting(s, sema[l].value = 0)
        BY <2>5, <3>1 DEF UpSemaphore, SemaUpSched
      <3>3. CASE q = <<>>
        BY <1>2, <3>2, <3>3
      <3>4. CASE q # <<>>
        <4>1. q \in Seq(Tasks) /\ IsInjective(q)
          BY Types DEF IInv, WaitersInv
        <4>2. Head(q) \in Tasks /\ sched.status[Head(q)] = "BLOCKED"
          BY <3>4, <4>1, PopFromList DEF IInv, WaitersInv
        <4>3. s \in SchedulerState /\ s.status = [sched.status EXCEPT ![Head(q)] = "READY"]
          BY <1>0, <3>4, <4>2, UnblockLemma DEF WellFormed, Parked
        <4>4. sched'.status = s.status
          BY <3>2, <4>3 DEF Asserting, SchedulerState
        <4>5. sched'.status[Head(q)] = "READY"
          BY <1>0, <4>2, <4>3, <4>4, StateComponents
        <4> QED
          BY <4>2, <4>5 DEF WakeupStep, Parked
      <3> QED
        BY <3>3, <3>4
    <2> QED
      BY <1>5, <2>1, <2>2, <2>3, <2>4, <2>5 DEF Forced
  <1>6. ASSUME NEW v \in Tasks, Chosen(v) PROVE Before(sched', t, u)
    <2>1. CASE \/ SystemCall(v) \/ ReturnToUser(v)
               \/ \E l \in Locks : Reacquire(v, l) \/ StartAcquire(v, l)
      BY <1>1, <2>1 DEF SystemCall, ReturnToUser, Reacquire, StartAcquire
    <2>2. CASE \E l \in Locks : ReleaseNested(v, l) \/ StartRelease(v, l)
      BY <1>2, <2>2 DEF ReleaseNested, StartRelease
    <2>3. CASE YieldCpu(v)
      BY <1>0, <2>3, RotateKeepsOrder DEF YieldCpu
    <2>4. CASE \E w \in Tasks : WakeParked(v, w)
      BY <1>3, <2>4 DEF WakeParked, IInv, TaskInv
    <2>5. CASE \E stat \in {"BLOCKED", "WAITING"} : Park(v, stat)
      BY <1>0, <1>4, <2>5 DEF Park, At, Parked
    <2> QED
      BY <1>6, <2>1, <2>2, <2>3, <2>4, <2>5 DEF Chosen
  <1>7. CASE TimerInterrupt
    BY <1>0, <1>7, RotateKeepsOrder DEF TimerInterrupt
  <1>8. ASSUME NEW w \in Tasks, DeviceInterrupt(w) PROVE Before(sched', t, u)
    BY <1>3, <1>8 DEF DeviceInterrupt, IInv, TaskInv
  <1>9. CASE UNCHANGED vars
    BY <1>1, <1>9 DEF vars
  <1> QED
    BY <1>5, <1>6, <1>7, <1>8, <1>9 DEF Next

\* Nobody overtakes but those that are woken: preemption, yielding and
\* blocking keep the order of the ready list.
THEOREM Order == Spec => NoOvertaking
  <1> DEFINE Kept ==
        \A t, u \in Tasks :
          LET before(s) == \E i, j \in DOMAIN s.ready :
                             i < j /\ s.ready[i] = t /\ s.ready[j] = u
          IN before(sched) /\ ~WakeupStep /\ sched'.status[t] = "READY" => before(sched)'
  <1>1. IInv /\ IInv' /\ [Next]_vars => Kept
    BY StepKeepsOrder DEF Before
  <1>2. IInv /\ IInv' /\ [Next]_vars => [Kept]_vars
    BY <1>1
  <1> QED
    BY <1>2, Invariant, PTL DEF Spec, NoOvertaking
=============================================================================
