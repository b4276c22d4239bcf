---------------------------- MODULE ProcLife_proofs ----------------------------
(***************************************************************************)
(* The safety of the life of processes for every set of PCBs, every        *)
(* priority, any number of pids, of kernel pages and of forks: IInv is     *)
(* inductive, and the properties of ProcLife follow from it.               *)
(***************************************************************************)
EXTENDS ProcLife, Scheduler_proofs, FiniteSetTheorems

\* What the proofs need of the constants.
LEMMA Names ==
  /\ Idle \in Tasks /\ Main \in Tasks /\ Init \in Tasks
  /\ Main # Init /\ Main # Idle /\ Init # Idle
  /\ Init \in Processes /\ Processes \subseteq Tasks
  /\ \A t \in Tasks : t \in Processes <=> t # Idle /\ t # Main
  BY SchedulerAssumption, ProcLifeAssumption DEF Processes

LEMMA Numbers ==
  MaxPid \in Nat /\ MaxPid >= 3 /\ KernelPages \in Nat /\ MaxForks \in Nat
  BY ProcLifeAssumption

\* An exit does not give more of the bitmap back than the process has.
LEMMA PageNumbers ==
  /\ BitmapPages \in Nat /\ FreedByExit \in Nat /\ FreedByExit <= BitmapPages
  /\ ProcPages = 2 + BitmapPages /\ ProcPages = 25
  <1>1. BitmapPages = 23 /\ FreedByExit = 22
    BY SMT DEF BitmapPages, FreedByExit, BitmapBytes, PgSize
  <1> QED
    BY <1>1 DEF ProcPages

-----------------------------------------------------------------------------
\* Lists and sets.

\* list_traversal finds the first of a set of tasks that are on the list.
LEMMA FirstListedLemma ==
  ASSUME all \in Seq(Tasks), NEW S, S # {}, \A t \in S : Listed(t)
  PROVE  FirstListed(S) \in S
  <1> DEFINE I == {i \in DOMAIN all : all[i] \in S}
  <1>1. DOMAIN all = 1..Len(all) /\ Len(all) \in Nat
    OBVIOUS
  <1>2. I \in SUBSET Nat /\ I # {}
    BY <1>1 DEF Listed, Contains
  <1>3. PICK n \in I : \A m \in I : n <= m
    BY <1>2, LeastNat
  <1>4. \A j \in 1..n-1 : all[j] \notin S
    BY <1>1, <1>3
  <1>5. \E t \in S : \E i \in DOMAIN all : all[i] = t /\ \A j \in 1..i-1 : all[j] \notin S
    BY <1>3, <1>4
  <1> QED
    BY <1>5 DEF FirstListed

\* allocate_pid returns a pid that nobody has.
LEMMA FreePidLemma ==
  ASSUME pids \in SUBSET (1..MaxPid), pids # 1..MaxPid
  PROVE  FreePid \in 1..MaxPid /\ FreePid \notin pids
  <1> DEFINE F == 1..MaxPid \ pids
  <1>1. F \in SUBSET Nat /\ F # {}
    <2>1. F \in SUBSET (1..MaxPid) /\ F # {}
      OBVIOUS
    <2>2. 1..MaxPid \in SUBSET Nat
      BY Numbers
    <2> QED
      BY <2>1, <2>2
  <1>2. \E n \in F : \A m \in F : n <= m
    BY <1>1, LeastNat
  <1> QED
    BY <1>2 DEF FreePid

-----------------------------------------------------------------------------
\* What TypeOK says of the parts of the state, in the form the steps use it.
LEMMA Types ==
  ASSUME TypeOK
  PROVE  /\ sched \in SchedulerState /\ sched.cur \in Tasks
         /\ sched.status \in [Tasks -> TaskStatus] /\ sched.ok \in BOOLEAN
         /\ pool \in SemaphoreState
         /\ all \in Seq(Tasks)
  BY StateComponents DEF TypeOK

\* The parts of FamilyTree, and what it says of the parent of t.
LEMMA Tree ==
  ASSUME IInv
  PROVE  /\ pid[Init] = 1 /\ IsInjective(all)
         /\ \A t, u \in Tasks : Listed(t) /\ Listed(u) /\ pid[t] = pid[u] => t = u
         /\ \A t \in Tasks : Listed(t) => pid[t] \in pids /\ pid[t] \in 1..MaxPid
         /\ \A t \in Processes \ {Init} :
              Listed(t) => \E p \in Processes \ {t} :
                             Listed(p) /\ pid[p] = parent[t] /\ pc[p] \notin {"exit", "zombie"}
  BY DEF IInv, FamilyTree, ParentLives, PidsDistinct, TypeOK

\* What holds of the task on the processor that is at loc.
LEMMA Acting ==
  ASSUME IInv, NEW p \in Tasks, sched.cur = p
  PROVE  /\ sched.status[p] = "RUNNING"
         /\ \A t \in Tasks \ {p} : sched.status[t] # "RUNNING"
  BY Types DEF IInv, WellFormed, OneRunning

-----------------------------------------------------------------------------
\* The lock of the kernel pool.

\* The processor and the lock after some calls of lock_acquire and lock_release
\* that did not have to wait: they have woken some of those who sleep in the lock.
Passing(x) ==
  /\ x.sched \in SchedulerState /\ WellFormed(x.sched)
  /\ x.sched.ok = sched.ok /\ x.sched.cur = sched.cur
  /\ x.pool \in SemaphoreState /\ IsInjective(x.pool.waiters)
  /\ \A t \in Tasks : Contains(x.pool.waiters, t) <=>
                        pc[t] \in {"fork", "exit"} /\ x.sched.status[t] = "BLOCKED"
  /\ \A t \in Tasks : \/ x.sched.status[t] = sched.status[t]
                      \/ /\ sched.status[t] = "BLOCKED" /\ x.sched.status[t] = "READY"
                         /\ pc[t] \in {"fork", "exit"}

\* The lock was free, and is.
Passed(x) == Passing(x) /\ x.pool.value = 1

LEMMA PassedNow ==
  ASSUME IInv, pool.value # 0
  PROVE  Passed(Now)
  <1>1. Now.sched = sched /\ Now.pool = pool
    BY DEF Now
  <1>2. pool.value = 1
    BY DEF IInv, PoolInv
  <1> QED
    BY <1>1, <1>2, Types DEF IInv, PoolInv, Passed, Passing

LEMMA PassedOnce ==
  ASSUME IInv, NEW x, Passed(x)
  PROVE  Passed(PassLock(x))
  <1> DEFINE s == SemaTakeSched(x.sched, x.pool)
             l == SemaTake(x.pool)
             y == PassLock(x)
  <1>1. y.sched = SemaUpSched(s, l) /\ y.pool = SemaUp(l)
    BY DEF PassLock
  <1>2. /\ s \in SchedulerState /\ WellFormed(s) /\ s.ok = sched.ok /\ s.cur = sched.cur
        /\ s.status = x.sched.status
        /\ l \in SemaphoreState /\ l.value = 0 /\ l.waiters = x.pool.waiters
    BY SemaTakeLemma DEF Passed, Passing
  <1> HIDE DEF s, l, y
  <1>3. /\ IsInjective(l.waiters)
        /\ \A u \in Tasks : Contains(l.waiters, u) <=>
             pc[u] \in {"fork", "exit"} /\ s.status[u] = "BLOCKED"
    BY <1>2 DEF Passed, Passing
  <1>a. \A u \in Tasks : Contains(l.waiters, u) => s.status[u] = "BLOCKED"
    BY <1>3
  <1>b. /\ SemaUpSched(s, l) \in SchedulerState /\ SemaUpSched(s, l).ok = s.ok
        /\ SemaUpSched(s, l).cur = s.cur /\ WellFormed(SemaUpSched(s, l))
        /\ SemaUp(l) \in SemaphoreState /\ SemaUp(l).value = 1 /\ IsInjective(SemaUp(l).waiters)
        /\ \E W \in SUBSET Tasks :
              /\ l.waiters # <<>> => W # {}
              /\ \A u \in W : Contains(l.waiters, u) /\ SemaUpSched(s, l).status[u] = "READY"
              /\ \A u \in Tasks \ W : SemaUpSched(s, l).status[u] = s.status[u]
              /\ \A u \in Tasks : Contains(SemaUp(l).waiters, u) <=>
                                    Contains(l.waiters, u) /\ u \notin W
    BY <1>2, <1>3, <1>a, SemaUpLemma
  <1>4. /\ y.sched \in SchedulerState /\ y.sched.ok = s.ok /\ y.sched.cur = s.cur
        /\ WellFormed(y.sched)
        /\ y.pool \in SemaphoreState /\ y.pool.value = 1 /\ IsInjective(y.pool.waiters)
        /\ \E W \in SUBSET Tasks :
              /\ \A u \in W : Contains(l.waiters, u) /\ y.sched.status[u] = "READY"
              /\ \A u \in Tasks \ W : y.sched.status[u] = s.status[u]
              /\ \A u \in Tasks : Contains(y.pool.waiters, u) <=>
                                    Contains(l.waiters, u) /\ u \notin W
    BY <1>1, <1>b
  <1>5. PICK W \in SUBSET Tasks :
              /\ \A u \in W : Contains(l.waiters, u) /\ y.sched.status[u] = "READY"
              /\ \A u \in Tasks \ W : y.sched.status[u] = s.status[u]
              /\ \A u \in Tasks : Contains(y.pool.waiters, u) <=>
                                    Contains(l.waiters, u) /\ u \notin W
    BY <1>4
  <1>6. \A u \in Tasks : Contains(y.pool.waiters, u) <=>
                           pc[u] \in {"fork", "exit"} /\ y.sched.status[u] = "BLOCKED"
    BY <1>3, <1>5
  <1>7. ASSUME NEW u \in Tasks
        PROVE  \/ y.sched.status[u] = sched.status[u]
               \/ /\ sched.status[u] = "BLOCKED" /\ y.sched.status[u] = "READY"
                  /\ pc[u] \in {"fork", "exit"}
    <2>1. \/ x.sched.status[u] = sched.status[u]
          \/ /\ sched.status[u] = "BLOCKED" /\ x.sched.status[u] = "READY"
             /\ pc[u] \in {"fork", "exit"}
      BY DEF Passed, Passing
    <2> QED
      BY <1>2, <1>3, <1>5, <2>1
  <1>8. Passed(y)
    BY <1>2, <1>4, <1>6, <1>7 DEF Passed, Passing
  <1> QED
    BY <1>8 DEF y

\* One, two, three or four times.
LEMMA PassedOften ==
  ASSUME IInv, pool.value # 0
  PROVE  /\ Passed(PassLock(Now)) /\ Passed(PassLock(PassLock(Now)))
         /\ Passed(PassLock(PassLock(PassLock(Now))))
         /\ Passed(PassLock(PassLock(PassLock(PassLock(Now)))))
  <1>1. Passed(PassLock(Now))
    BY PassedNow, PassedOnce
  <1>2. Passed(PassLock(PassLock(Now)))
    BY <1>1, PassedOnce
  <1>3. Passed(PassLock(PassLock(PassLock(Now))))
    BY <1>2, PassedOnce
  <1>4. Passed(PassLock(PassLock(PassLock(PassLock(Now)))))
    BY <1>3, PassedOnce
  <1> QED
    BY <1>1, <1>2, <1>3, <1>4

\* A task that finds the lock taken queues up for it.
LEMMA QueueUp ==
  ASSUME IInv, NEW p \in Processes, sched.cur = p, pc[p] \in {"user", "fork", "exit"},
         pool.value = 0,
         sched' = SemaWaitSched(sched, pool), pool' = SemaWait(pool, p),
         NEW loc \in {"fork", "exit"}, Goto(p, loc), loc = "exit" => p # Init
  PROVE  /\ sched' \in SchedulerState /\ WellFormed(sched') /\ sched'.ok = sched.ok
         /\ pool' \in SemaphoreState /\ PoolInv' /\ PcInv'
         /\ pc'[p] = loc /\ \A u \in Tasks \ {p} : pc'[u] = pc[u]
         /\ \A u \in Tasks, st \in {"WAITING", "HANGING", "DIED"} :
              u # Idle => (sched'.status[u] = st <=> sched.status[u] = st)
  <1> USE Names
  <1>1. pc'[p] = loc /\ \A u \in Tasks \ {p} : pc'[u] = pc[u]
    BY DEF IInv, TypeOK, Goto
  <1>2. sched.status[p] = "RUNNING" /\ ~Contains(pool.waiters, sched.cur)
    BY Acting DEF IInv, PoolInv
  <1>3. /\ sched' \in SchedulerState /\ sched'.ok = sched.ok /\ WellFormed(sched')
        /\ sched'.status[p] = "BLOCKED"
        /\ \A u \in Tasks \ {Idle, p}, q \in Parked \cup {"DIED"} :
             sched.status[u] = q <=> sched'.status[u] = q
        /\ pool' \in SemaphoreState /\ pool'.value = pool.value /\ IsInjective(pool'.waiters)
        /\ \A u : Contains(pool'.waiters, u) <=> Contains(pool.waiters, u) \/ u = p
    <2>1. /\ sched' = SemaWaitSched(sched, pool) /\ pool' = SemaWait(pool, sched.cur)
          /\ sched \in SchedulerState /\ WellFormed(sched) /\ sched.cur # Idle
          /\ pool \in SemaphoreState /\ IsInjective(pool.waiters)
          /\ ~Contains(pool.waiters, sched.cur)
      BY <1>2, Types DEF IInv, PoolInv
    <2>2. /\ SemaWaitSched(sched, pool) \in SchedulerState
          /\ SemaWaitSched(sched, pool).ok = sched.ok
          /\ WellFormed(SemaWaitSched(sched, pool))
          /\ SemaWaitSched(sched, pool).status[sched.cur] = "BLOCKED"
          /\ \A u \in Tasks \ {Idle, sched.cur}, q \in Parked \cup {"DIED"} :
               sched.status[u] = q <=> SemaWaitSched(sched, pool).status[u] = q
          /\ SemaWait(pool, sched.cur) \in SemaphoreState
          /\ SemaWait(pool, sched.cur).value = pool.value
          /\ IsInjective(SemaWait(pool, sched.cur).waiters)
          /\ \A u : Contains(SemaWait(pool, sched.cur).waiters, u) <=>
                      Contains(pool.waiters, u) \/ u = sched.cur
      BY <2>1, SemaWaitLemma
    <2> QED
      BY <2>1, <2>2
  <1>4. \A u \in Tasks \ {Idle}, st \in {"WAITING", "HANGING", "DIED"} :
          sched'.status[u] = st <=> sched.status[u] = st
    BY <1>2, <1>3 DEF Parked
  <1>5. \A u \in Tasks \ {Idle, p} : sched'.status[u] = "BLOCKED" <=> sched.status[u] = "BLOCKED"
    BY <1>3 DEF Parked
  <1>6. PcInv'
    BY <1>1, <1>3, <1>4, <1>5 DEF IInv, PcInv
  <1>7. PoolInv'
    <2>1. pc[Idle] \notin {"fork", "exit"} /\ pc[Main] = "locked" => pc'[Main] = "locked"
      BY <1>1 DEF IInv, PcInv
    <2> QED
      BY <1>1, <1>2, <1>3, <1>5, <2>1 DEF IInv, PcInv, PoolInv
  <1> QED
    BY <1>1, <1>3, <1>4, <1>6, <1>7

-----------------------------------------------------------------------------
\* The pages that processes have.

\* The processes that have been forked, and those of them that have given back
\* their bitmap.
Forked  == {t \in Processes \ {Init} : Listed(t)}
Exiting == {t \in Forked : pc[t] \in {"exit", "zombie"}}

\* How many tasks can be on a list is bounded by its length.
LEMMA FiniteList ==
  ASSUME NEW q \in Seq(Tasks), NEW S
  PROVE  IsFiniteSet({t \in S : Contains(q, t)})
  <1> DEFINE D == 1..Len(q)
             R == {q[i] : i \in D}
  <1>1. Len(q) \in Nat /\ DOMAIN q = D
    OBVIOUS
  <1>2. IsFiniteSet(D)
    BY <1>1, FS_Interval
  <1>3. IsFiniteSet(R)
    <2> DEFINE f == [i \in D |-> q[i]]
    <2>1. f \in Surjection(D, R)
      BY DEF Surjection
    <2> QED
      BY <1>2, <2>1, FS_Surjection
  <1>4. {t \in S : Contains(q, t)} \subseteq R
    BY <1>1 DEF Contains
  <1> QED
    BY <1>3, <1>4, FS_Subset

\* What Held counts.
LEMMA HeldLemma ==
  ASSUME all \in Seq(Tasks)
  PROVE  /\ Held = 2 * Cardinality(Exiting) + 25 * Cardinality(Forked \ Exiting)
         /\ IsFiniteSet(Exiting) /\ IsFiniteSet(Forked \ Exiting)
         /\ Cardinality(Exiting) \in Nat /\ Cardinality(Forked \ Exiting) \in Nat
         /\ Held \in Nat
  <1>1. IsFiniteSet(Forked)
    BY FiniteList DEF Forked, Listed
  <1>2. IsFiniteSet(Exiting) /\ IsFiniteSet(Forked \ Exiting)
    <2>1. Exiting \subseteq Forked /\ Forked \ Exiting \subseteq Forked
      BY DEF Exiting
    <2> QED
      BY <1>1, <2>1, FS_Subset
  <1>3. Cardinality(Exiting) \in Nat /\ Cardinality(Forked \ Exiting) \in Nat
    BY <1>2, FS_CardinalityType
  <1>4. ProcPages = 25
    BY PageNumbers
  <1>5. Held = 2 * Cardinality(Exiting) + ProcPages * Cardinality(Forked \ Exiting)
    BY DEF Held, Forked, Exiting
  <1>6. Held = 2 * Cardinality(Exiting) + 25 * Cardinality(Forked \ Exiting)
    BY <1>4, <1>5
  <1> QED
    BY <1>2, <1>3, <1>6

\* The same in the next state.
LEMMA HeldNext ==
  ASSUME all' \in Seq(Tasks)
  PROVE  /\ Held' = 2 * Cardinality(Exiting') + 25 * Cardinality(Forked' \ Exiting')
         /\ IsFiniteSet(Exiting') /\ IsFiniteSet(Forked' \ Exiting')
         /\ Cardinality(Exiting') \in Nat /\ Cardinality(Forked' \ Exiting') \in Nat
         /\ Held' \in Nat
  <1>1. IsFiniteSet(Forked')
    BY FiniteList DEF Forked, Listed
  <1>2. IsFiniteSet(Exiting') /\ IsFiniteSet(Forked' \ Exiting')
    <2>1. Exiting' \subseteq Forked' /\ Forked' \ Exiting' \subseteq Forked'
      BY DEF Exiting
    <2> QED
      BY <1>1, <2>1, FS_Subset
  <1>3. Cardinality(Exiting') \in Nat /\ Cardinality(Forked' \ Exiting') \in Nat
    BY <1>2, FS_CardinalityType
  <1>4. ProcPages = 25
    BY PageNumbers
  <1>5. Held' = 2 * Cardinality(Exiting') + ProcPages * Cardinality(Forked' \ Exiting')
    BY DEF Held, Forked, Exiting, ProcPages, BitmapPages, BitmapBytes, PgSize
  <1>6. Held' = 2 * Cardinality(Exiting') + 25 * Cardinality(Forked' \ Exiting')
    BY <1>4, <1>5
  <1> QED
    BY <1>2, <1>3, <1>6

\* NoPageTwice and the type of pages follow from what is free and what is held.
LEMMA Sums ==
  ASSUME NEW g \in Nat, NEW h \in Nat, NEW f \in Nat, NEW i \in Nat, NEW k \in Nat,
         g + h <= k, f + i <= g + h
  PROVE  f + i <= k /\ f \in 0..k
  OBVIOUS

\* What holds of the pages before and after a step.
LEMMA PagesLemma ==
  ASSUME IInv, all' \in Seq(Tasks), pages' \in Nat, pages' + Held' <= pages + Held
  PROVE  NoPageTwice' /\ pages' \in 0..KernelPages
  <1>1. pages \in Nat /\ KernelPages \in Nat /\ pages + Held <= KernelPages
    BY Numbers DEF IInv, TypeOK, NoPageTwice
  <1>2. Held \in Nat
    BY Types, HeldLemma DEF IInv
  <1>3. Held' \in Nat
    BY HeldNext
  <1>4. pages' + Held' <= KernelPages /\ pages' \in 0..KernelPages
    BY <1>1, <1>2, <1>3, Sums
  <1> QED
    BY <1>4 DEF NoPageTwice

\* Nothing changes for the forked processes.
LEMMA PagesSame ==
  ASSUME IInv, all' \in Seq(Tasks), pages' \in Nat, pages' <= pages,
         Forked' = Forked, Exiting' = Exiting
  PROVE  NoPageTwice' /\ pages' \in 0..KernelPages
  <1>1. Held' = Held /\ Held \in Nat
    BY Types, HeldLemma, HeldNext DEF IInv
  <1>2. pages \in Nat
    BY DEF IInv, TypeOK
  <1>3. \A f, g, h \in Nat : f <= g => f + h <= g + h
    OBVIOUS
  <1>4. pages' + Held <= pages + Held
    BY <1>1, <1>2, <1>3
  <1> QED
    BY <1>1, <1>4, PagesLemma

\* One process more has been forked.
LEMMA PagesFork ==
  ASSUME IInv, all' \in Seq(Tasks), pages > ProcPages, pages' = pages - ProcPages,
         NEW c, c \notin Forked, Forked' = Forked \cup {c}, Exiting' = Exiting
  PROVE  NoPageTwice' /\ pages' \in 0..KernelPages
  <1> DEFINE n == Cardinality(Exiting)
             m == Cardinality(Forked \ Exiting)
             k == Cardinality(Forked' \ Exiting')
  <1>1. Forked' \ Exiting' = (Forked \ Exiting) \cup {c} /\ c \notin Forked \ Exiting
    BY DEF Exiting
  <1>2. k = m + 1
    BY Types, <1>1, HeldLemma, FS_AddElement DEF IInv
  <1>3. n \in Nat /\ m \in Nat /\ Held = 2 * n + 25 * m
    BY Types, HeldLemma DEF IInv
  <1>4. Held' = 2 * n + 25 * k
    BY HeldNext
  <1>5. pages \in Nat /\ pages > 25 /\ pages' = pages - 25
    BY PageNumbers DEF IInv, TypeOK
  <1> HIDE DEF n, m, k
  <1>6. pages' \in Nat /\ pages' + Held' = pages + Held
    BY <1>2, <1>3, <1>4, <1>5
  <1>7. pages' + Held' <= pages + Held
    BY <1>2, <1>3, <1>4, <1>5
  <1> QED
    BY <1>6, <1>7, PagesLemma

\* A process has begun to exit and has given back its bitmap.
LEMMA PagesExit ==
  ASSUME IInv, all' \in Seq(Tasks), pages' = pages + FreedByExit,
         NEW p \in Forked \ Exiting, Forked' = Forked, Exiting' = Exiting \cup {p}
  PROVE  NoPageTwice' /\ pages' \in 0..KernelPages
  <1> DEFINE n == Cardinality(Exiting)
             m == Cardinality(Forked \ Exiting)
             e == Cardinality(Exiting')
             k == Cardinality(Forked' \ Exiting')
  <1>1. Forked' \ Exiting' = (Forked \ Exiting) \ {p} /\ p \notin Exiting
    OBVIOUS
  <1>2. k = m - 1
    BY Types, <1>1, HeldLemma, FS_RemoveElement, ZenonT(40) DEF IInv
  <1>3. e = n + 1
    BY Types, <1>1, HeldLemma, FS_AddElement DEF IInv
  <1>4. n \in Nat /\ m \in Nat /\ Held = 2 * n + 25 * m
    BY Types, HeldLemma DEF IInv
  <1>5. e \in Nat /\ k \in Nat /\ Held' = 2 * e + 25 * k
    BY HeldNext
  <1>6. pages \in Nat /\ FreedByExit \in Nat /\ FreedByExit <= 23
    BY PageNumbers DEF IInv, TypeOK
  <1> HIDE DEF n, m, e, k
  <1>7. pages' \in Nat /\ pages' + Held' <= pages + Held
    BY <1>2, <1>3, <1>4, <1>5, <1>6
  <1> QED
    BY <1>7, PagesLemma

\* A zombie has been waited for.
LEMMA PagesReap ==
  ASSUME IInv, all' \in Seq(Tasks), pages' = pages + 2,
         NEW c \in Exiting, Forked' = Forked \ {c}, Exiting' = Exiting \ {c}
  PROVE  NoPageTwice' /\ pages' \in 0..KernelPages
  <1> DEFINE n == Cardinality(Exiting)
             m == Cardinality(Forked \ Exiting)
             e == Cardinality(Exiting')
             k == Cardinality(Forked' \ Exiting')
  <1>1. k = m
    <2>1. Forked' \ Exiting' = Forked \ Exiting
      OBVIOUS
    <2> QED
      BY <2>1
  <1>2. e = n - 1
    BY Types, HeldLemma, FS_RemoveElement DEF IInv
  <1>3. n \in Nat /\ m \in Nat /\ Held = 2 * n + 25 * m
    BY Types, HeldLemma DEF IInv
  <1>4. e \in Nat /\ k \in Nat /\ Held' = 2 * e + 25 * k
    BY HeldNext
  <1>5. pages \in Nat
    BY DEF IInv, TypeOK
  <1> HIDE DEF n, m, e, k
  <1>6. pages' \in Nat /\ pages' + Held' <= pages + Held
    BY <1>1, <1>2, <1>3, <1>4, <1>5
  <1> QED
    BY <1>6, PagesLemma

-----------------------------------------------------------------------------
\* What a step keeps that changes nobody's place in the family.

LEMMA SameFamily ==
  ASSUME IInv, all' = all, pid' = pid, parent' = parent, pids \subseteq pids',
         \A t \in Tasks : pc'[t] = "none" <=> pc[t] = "none",
         \A t \in Tasks : pc'[t] \in {"exit", "zombie"} => pc[t] \in {"exit", "zombie"}
  PROVE  FamilyTree' /\ ListInv'
  <1>1. \A t \in Tasks : Listed(t)' <=> Listed(t)
    BY DEF Listed
  <1>2. ListInv'
    BY <1>1 DEF IInv, ListInv
  <1>3. PidsDistinct'
    BY <1>1 DEF IInv, FamilyTree, PidsDistinct
  <1>4. ParentLives'
    BY <1>1, Names DEF IInv, FamilyTree, ParentLives
  <1> QED
    BY <1>2, <1>3, <1>4 DEF FamilyTree

LEMMA SameWaits ==
  ASSUME IInv, all' = all, pid' = pid, parent' = parent, WellFormed(sched'), PcInv',
         \A t \in Processes : sched'.status[t] = "HANGING" => sched.status[t] = "HANGING",
         \A t \in Processes : sched'.status[t] = "WAITING" =>
           sched.status[t] = "WAITING" \/ (Hanging(t) = {} /\ Children(t) # {})
  PROVE  WaitsForTheLiving'
  <1>1. \A t : Children(t)' = Children(t)
    BY DEF Children, Listed
  <1>2. \A t \in Tasks : sched'.status[t] = "HANGING" => sched.status[t] = "HANGING"
    BY Names DEF WellFormed, IdleAvailable, PcInv
  <1>3. \A t : Hanging(t)' \subseteq Hanging(t)
    BY <1>1, <1>2 DEF Hanging, Children
  <1> QED
    BY <1>1, <1>3 DEF IInv, WaitsForTheLiving

LEMMA SamePages ==
  ASSUME IInv, all' = all, pages' \in Nat, pages' <= pages,
         \A t \in Tasks : pc'[t] \in {"exit", "zombie"} <=> pc[t] \in {"exit", "zombie"}
  PROVE  NoPageTwice' /\ pages' \in 0..KernelPages
  <1>1. Forked' = Forked
    BY DEF Forked, Listed
  <1>2. Exiting' = Exiting
    BY <1>1, Names DEF Exiting, Forked
  <1>3. all' \in Seq(Tasks)
    BY Types DEF IInv
  <1> QED
    BY <1>1, <1>2, <1>3, PagesSame

-----------------------------------------------------------------------------
\* The steps, one by one.

\* TypeOK speaks of these values of pc.
Locations == {"none", "user", "locked", "fork", "exit", "wait", "zombie", "loop", "halt"}

LEMMA GotoType ==
  ASSUME TypeOK, NEW t \in Tasks, NEW loc \in Locations, Goto(t, loc)
  PROVE  /\ pc' \in [Tasks -> Locations]
         /\ pc'[t] = loc /\ \A u \in Tasks \ {t} : pc'[u] = pc[u]
  BY DEF TypeOK, Goto, Locations

LEMMA CountForkType ==
  ASSUME TypeOK, NEW p, CountFork(p)
  PROVE  forks' \in 0..MaxForks
  BY Numbers DEF TypeOK, CountFork

LEMMA ForkWaitStep ==
  ASSUME IInv, NEW p \in Processes, ForkWait(p)
  PROVE  IInv'
  <1> USE Names
  <1>1. /\ sched.cur = p /\ pc[p] \in {"user", "fork"} /\ pool.value = 0
        /\ sched' = SemaWaitSched(sched, pool) /\ pool' = SemaWait(pool, p)
        /\ Goto(p, "fork") /\ all' = all /\ pid' = pid /\ parent' = parent
        /\ pids' = pids /\ pages' = pages /\ TypeOK
    BY DEF IInv, ForkWait, At
  <1>2. /\ sched' \in SchedulerState /\ WellFormed(sched')
        /\ pool' \in SemaphoreState /\ PoolInv' /\ PcInv'
        /\ \A u \in Tasks, st \in {"WAITING", "HANGING", "DIED"} :
              u # Idle => (sched'.status[u] = st <=> sched.status[u] = st)
    BY <1>1, QueueUp
  <1>3. /\ pc' \in [Tasks -> Locations]
        /\ pc'[p] = "fork" /\ \A u \in Tasks \ {p} : pc'[u] = pc[u]
    BY <1>1, GotoType DEF Locations
  <1>4. FamilyTree' /\ ListInv'
    BY <1>1, <1>3, SameFamily
  <1>5. WaitsForTheLiving'
    BY <1>1, <1>2, SameWaits
  <1>6. NoPageTwice'
    BY <1>1, <1>3, SamePages DEF TypeOK
  <1>7. TypeOK'
    BY <1>1, <1>2, <1>3, CountForkType DEF TypeOK, Locations, ForkWait
  <1> QED
    BY <1>2, <1>4, <1>5, <1>6, <1>7 DEF IInv

\* A process that goes on with the fork, having passed the lock.
LEMMA ForkGoesOn ==
  ASSUME IInv, NEW p \in Processes, sched.cur = p, pc[p] \in {"user", "fork"},
         pool.value # 0, NEW x, Passed(x), sched' = x.sched, pool' = x.pool, pc' = [pc EXCEPT ![p] = "user"]
  PROVE  /\ PcInv' /\ PoolInv'
         /\ \A t \in Tasks, st \in {"WAITING", "HANGING", "DIED"} :
              sched'.status[t] = st <=> sched.status[t] = st
  <1> USE Names
  <1>1. /\ pc'[p] = "user" /\ \A u \in Tasks \ {p} : pc'[u] = pc[u]
    BY DEF IInv, TypeOK
  <1>2. sched.status[p] = "RUNNING"
    BY Acting
  <1>3. \A t \in Tasks : \/ sched'.status[t] = sched.status[t]
                         \/ /\ sched.status[t] = "BLOCKED" /\ sched'.status[t] = "READY"
                            /\ pc[t] \in {"fork", "exit"}
    BY DEF Passed, Passing
  <1>4. \A t \in Tasks, st \in {"WAITING", "HANGING", "DIED"} :
              sched'.status[t] = st <=> sched.status[t] = st
    BY <1>3
  <1>5. \A t \in Tasks : sched'.status[t] = "BLOCKED" => sched.status[t] = "BLOCKED"
    BY <1>3
  <1>6. sched'.status[p] = "RUNNING"
    BY <1>2, <1>3
  <1>7. PcInv'
    BY <1>1, <1>4, <1>5, <1>6 DEF IInv, PcInv
  <1>8. PoolInv'
    <2>1. pool'.value = 1 /\ IsInjective(pool'.waiters)
          /\ \A t \in Tasks : Contains(pool'.waiters, t) <=>
                        pc[t] \in {"fork", "exit"} /\ sched'.status[t] = "BLOCKED"
      BY DEF Passed, Passing
    <2>2. pc'[Main] # "locked"
      BY <1>1 DEF IInv, PcInv, PoolInv
    <2> QED
      BY <1>1, <1>6, <2>1, <2>2 DEF PoolInv
  <1> QED
    BY <1>4, <1>7, <1>8

LEMMA ForkFailsStep ==
  ASSUME IInv, NEW p \in Processes, ForkFails(p)
  PROVE  IInv'
  <1> USE Names
  <1> DEFINE x == PassLock(PassLock(PassLock(Now)))
  <1>1. /\ sched.cur = p /\ pc[p] \in {"user", "fork"} /\ pool.value # 0
        /\ sched' = x.sched /\ pool' = x.pool
        /\ Goto(p, "user") /\ all' = all /\ pid' = pid /\ parent' = parent
        /\ pids # 1..MaxPid /\ pids' = pids \cup {FreePid}
        /\ pages > 2 /\ pages' = pages - 2 /\ TypeOK
    BY DEF IInv, ForkFails, ForkProceeds, At
  <1>2. Passed(x)
    BY <1>1, PassedOften
  <1> HIDE DEF x
  <1>3. /\ sched' \in SchedulerState /\ WellFormed(sched') /\ pool' \in SemaphoreState
    BY <1>1, <1>2 DEF Passed, Passing
  <1>4. /\ PcInv' /\ PoolInv'
        /\ \A t \in Tasks, st \in {"WAITING", "HANGING", "DIED"} :
             sched'.status[t] = st <=> sched.status[t] = st
    BY <1>1, <1>2, ForkGoesOn DEF Goto
  <1>5. /\ pc' \in [Tasks -> Locations]
        /\ pc'[p] = "user" /\ \A u \in Tasks \ {p} : pc'[u] = pc[u]
    BY <1>1, GotoType DEF Locations
  <1>6. pids' \in SUBSET (1..MaxPid)
    BY <1>1, FreePidLemma DEF TypeOK
  <1>7. FamilyTree' /\ ListInv'
    BY <1>1, <1>5, SameFamily
  <1>8. WaitsForTheLiving'
    BY <1>1, <1>3, <1>4, SameWaits
  <1>9. NoPageTwice' /\ pages' \in 0..KernelPages
    <2>1. pages \in Nat
      BY <1>1 DEF TypeOK
    <2>2. pages' \in Nat /\ pages' <= pages
      BY <1>1, <2>1
    <2> QED
      BY <1>1, <1>5, <2>2, SamePages
  <1>10. TypeOK'
    BY <1>1, <1>3, <1>5, <1>6, <1>9, CountForkType DEF TypeOK, Locations, ForkFails, ForkProceeds
  <1> QED
    BY <1>3, <1>4, <1>7, <1>8, <1>9, <1>10 DEF IInv

\* A failed ASSERT stops everything and changes nothing else.
LEMMA ForkPanicsStep ==
  ASSUME IInv, NEW p \in Processes, ForkPanics(p)
  PROVE  IInv'
  <1>1. /\ sched' = Asserting(sched, FALSE)
        /\ pool' = pool /\ pc' = pc /\ all' = all /\ pid' = pid /\ parent' = parent
        /\ pids' = pids /\ pages' = pages /\ TypeOK
    BY DEF IInv, ForkPanics
  <1>2. /\ sched' \in SchedulerState /\ sched'.status = sched.status
        /\ sched'.cur = sched.cur /\ sched'.ready = sched.ready
    BY <1>1, Types DEF Asserting, SchedulerState
  <1>3. WellFormed(sched')
    BY <1>2 DEF IInv, WellFormed, OneRunning, ReadyListExact, IdleAvailable
  <1>4. PcInv' /\ PoolInv'
    BY <1>1, <1>2, ZenonT(40) DEF IInv, PcInv, PoolInv
  <1>5. FamilyTree' /\ ListInv'
    BY <1>1, SameFamily
  <1>6. WaitsForTheLiving'
    BY <1>1, <1>2, <1>3, <1>4, SameWaits
  <1>7. NoPageTwice'
    BY <1>1, SamePages DEF TypeOK
  <1>8. TypeOK'
    BY <1>1, <1>2, CountForkType DEF TypeOK, ForkPanics, ForkProceeds
  <1> QED
    BY <1>3, <1>4, <1>5, <1>6, <1>7, <1>8 DEF IInv

\* A step of the scheduler and of the lock only.
LEMMA QuietStep ==
  ASSUME IInv, UNCHANGED <<all, pid, parent, pids, pages, forks>>,
         sched' \in SchedulerState, WellFormed(sched'), pool' \in SemaphoreState,
         pc' \in [Tasks -> Locations], PcInv', PoolInv',
         \A t \in Tasks, loc \in {"none", "exit", "zombie"} : pc'[t] = loc <=> pc[t] = loc,
         \A t \in Processes : sched'.status[t] = "WAITING" =>
           sched.status[t] = "WAITING" \/ (Hanging(t) = {} /\ Children(t) # {})
  PROVE  IInv'
  <1>1. /\ all' = all /\ pid' = pid /\ parent' = parent /\ pids' = pids
        /\ pages' = pages /\ forks' = forks /\ TypeOK
    BY DEF IInv
  <1>2. FamilyTree' /\ ListInv'
    BY <1>1, SameFamily
  <1>3. WaitsForTheLiving'
    <2>1. \A t \in Processes : sched'.status[t] = "HANGING" => sched.status[t] = "HANGING"
      <3>1. \A t \in Processes : sched'.status[t] = "HANGING" => pc'[t] = "zombie"
        BY Names DEF PcInv
      <3>2. \A t \in Processes : pc'[t] = "zombie" => pc[t] = "zombie"
        BY Names
      <3>3. \A t \in Processes : pc[t] = "zombie" => sched.status[t] = "HANGING"
        BY Names DEF IInv, PcInv
      <3> QED
        BY <3>1, <3>2, <3>3
    <2> QED
      BY <1>1, <2>1, SameWaits
  <1>4. NoPageTwice'
    BY <1>1, SamePages DEF TypeOK
  <1>5. TypeOK'
    BY <1>1 DEF TypeOK, Locations
  <1> QED
    BY <1>2, <1>3, <1>4, <1>5 DEF IInv

LEMMA TimerStep ==
  ASSUME IInv, TimerInterrupt
  PROVE  IInv'
  <1> USE Names
  <1>1. /\ pc[sched.cur] \in {"user", "locked", "halt"} /\ sched.cur \in Tasks
        /\ sched' = TimerTick(sched)
        /\ pc' = IF pc[sched.cur] = "halt" THEN [pc EXCEPT ![Idle] = "loop"] ELSE pc
        /\ pool' = pool /\ UNCHANGED <<all, pid, parent, pids, pages, forks>>
        /\ TypeOK
    BY Types DEF IInv, TimerInterrupt
  <1>2. /\ sched' \in SchedulerState /\ WellFormed(sched')
        /\ \A t \in Tasks \ {Idle}, q \in Parked \cup {"DIED"} :
             sched.status[t] = q <=> sched'.status[t] = q
    <2>1. sched \in SchedulerState /\ WellFormed(sched)
      BY Types DEF IInv
    <2> QED
      BY <1>1, <2>1, TimerTickLemma DEF SameParked
  <1>3. \A t \in Tasks \ {Idle} : \A q \in {"BLOCKED", "WAITING", "HANGING", "DIED"} :
          sched.status[t] = q <=> sched'.status[t] = q
    BY <1>2 DEF Parked
  <1>4. /\ pc' \in [Tasks -> Locations] /\ \A t \in Tasks \ {Idle} : pc'[t] = pc[t]
        /\ pc[Idle] \in {"loop", "halt"} /\ pc'[Idle] \in {"loop", "halt"}
    BY <1>1 DEF TypeOK, Locations, IInv, PcInv
  <1>5. PcInv'
    BY <1>3, <1>4 DEF IInv, PcInv
  <1>6. PoolInv'
    BY <1>1, <1>3, <1>4 DEF IInv, PoolInv
  <1>7. \A t \in Tasks, loc \in {"none", "exit", "zombie"} : pc'[t] = loc <=> pc[t] = loc
    BY <1>4
  <1>8. \A t \in Processes : sched'.status[t] = "WAITING" => sched.status[t] = "WAITING"
    BY <1>3
  <1>9. pool' \in SemaphoreState
    BY <1>1, Types
  <1> QED
    BY <1>1, <1>2, <1>4, <1>5, <1>6, <1>7, <1>8, <1>9, QuietStep

LEMMA IdleStep ==
  ASSUME IInv, IdleBlock
  PROVE  IInv'
  <1> USE Names
  <1>1. /\ sched.cur = Idle /\ pc[Idle] = "loop"
        /\ sched' = Block(sched, "BLOCKED") /\ Goto(Idle, "halt")
        /\ pool' = pool /\ UNCHANGED <<all, pid, parent, pids, pages, forks>>
        /\ TypeOK
    BY DEF IInv, IdleBlock, At
  <1>2. /\ sched' \in SchedulerState /\ WellFormed(sched')
        /\ \A t \in Tasks \ {Idle}, q \in Parked \cup {"DIED"} :
             sched.status[t] = q <=> sched'.status[t] = q
    <2>1. /\ sched \in SchedulerState /\ WellFormed(sched) /\ "BLOCKED" \in Parked
          /\ (sched.cur = Idle => "BLOCKED" = "BLOCKED")
      BY Types DEF IInv, Parked
    <2>2. /\ Block(sched, "BLOCKED") \in SchedulerState /\ WellFormed(Block(sched, "BLOCKED"))
          /\ \A t \in Tasks \ {Idle, sched.cur}, q \in Parked \cup {"DIED"} :
               sched.status[t] = q <=> Block(sched, "BLOCKED").status[t] = q
      BY <2>1, BlockLemma
    <2> QED
      BY <1>1, <2>2
  <1>3. \A t \in Tasks \ {Idle} : \A q \in {"BLOCKED", "WAITING", "HANGING", "DIED"} :
          sched.status[t] = q <=> sched'.status[t] = q
    BY <1>2 DEF Parked
  <1>4. /\ pc' \in [Tasks -> Locations] /\ \A t \in Tasks \ {Idle} : pc'[t] = pc[t]
        /\ pc'[Idle] = "halt"
    BY <1>1, GotoType DEF Locations
  <1>5. PcInv'
    BY <1>3, <1>4 DEF IInv, PcInv
  <1>6. PoolInv'
    BY <1>1, <1>3, <1>4 DEF IInv, PoolInv
  <1>7. \A t \in Tasks, loc \in {"none", "exit", "zombie"} : pc'[t] = loc <=> pc[t] = loc
    BY <1>1, <1>4
  <1>8. \A t \in Processes : sched'.status[t] = "WAITING" => sched.status[t] = "WAITING"
    BY <1>3
  <1>9. pool' \in SemaphoreState
    BY <1>1, Types
  <1> QED
    BY <1>1, <1>2, <1>4, <1>5, <1>6, <1>7, <1>8, <1>9, QuietStep

LEMMA MainLockStep ==
  ASSUME IInv, MainLock
  PROVE  IInv'
  <1> USE Names
  <1>1. /\ sched.cur = Main /\ pc[Main] = "user" /\ pool.value = 1
        /\ sched' = SemaTakeSched(sched, pool) /\ pool' = SemaTake(pool) /\ Goto(Main, "locked")
        /\ UNCHANGED <<all, pid, parent, pids, pages, forks>>
        /\ TypeOK /\ sched \in SchedulerState /\ WellFormed(sched) /\ pool \in SemaphoreState
    BY Types DEF IInv, MainLock, At, PoolInv
  <1>2. /\ sched' \in SchedulerState /\ WellFormed(sched') /\ sched'.status = sched.status
        /\ pool' \in SemaphoreState /\ pool'.value = 0 /\ pool'.waiters = pool.waiters
    BY <1>1, SemaTakeLemma
  <1>3. /\ pc' \in [Tasks -> Locations] /\ \A t \in Tasks \ {Main} : pc'[t] = pc[t]
        /\ pc'[Main] = "locked"
    BY <1>1, GotoType DEF Locations
  <1>4. PcInv'
    BY <1>1, <1>2, <1>3 DEF IInv, PcInv
  <1>5. PoolInv'
    BY <1>1, <1>2, <1>3 DEF IInv, PoolInv
  <1>6. \A t \in Tasks, loc \in {"none", "exit", "zombie"} : pc'[t] = loc <=> pc[t] = loc
    BY <1>1, <1>3
  <1> QED
    BY <1>1, <1>2, <1>3, <1>4, <1>5, <1>6, QuietStep

LEMMA MainUnlockStep ==
  ASSUME IInv, MainUnlock
  PROVE  IInv'
  <1> USE Names
  <1>1. /\ sched.cur = Main /\ pc[Main] = "locked" /\ pool.value = 0
        /\ sched' = SemaUpSched(sched, pool) /\ pool' = SemaUp(pool) /\ Goto(Main, "user")
        /\ UNCHANGED <<all, pid, parent, pids, pages, forks>>
        /\ TypeOK /\ sched \in SchedulerState /\ WellFormed(sched) /\ pool \in SemaphoreState
        /\ IsInjective(pool.waiters)
        /\ \A t \in Tasks : Contains(pool.waiters, t) <=>
                              pc[t] \in {"fork", "exit"} /\ sched.status[t] = "BLOCKED"
    BY Types DEF IInv, MainUnlock, At, PoolInv
  <1>2. \A t \in Tasks : Contains(pool.waiters, t) => sched.status[t] = "BLOCKED"
    BY <1>1
  <1>3. /\ SemaUpSched(sched, pool) \in SchedulerState /\ WellFormed(SemaUpSched(sched, pool))
        /\ SemaUp(pool) \in SemaphoreState /\ SemaUp(pool).value = 1
        /\ IsInjective(SemaUp(pool).waiters)
        /\ \E W \in SUBSET Tasks :
              /\ pool.waiters # <<>> => W # {}
              /\ \A u \in W : /\ Contains(pool.waiters, u)
                              /\ SemaUpSched(sched, pool).status[u] = "READY"
              /\ \A u \in Tasks \ W : SemaUpSched(sched, pool).status[u] = sched.status[u]
              /\ \A u \in Tasks : Contains(SemaUp(pool).waiters, u) <=>
                                    Contains(pool.waiters, u) /\ u \notin W
    BY <1>1, <1>2, SemaUpLemma
  <1>4. PICK W \in SUBSET Tasks :
              /\ \A u \in W : Contains(pool.waiters, u) /\ sched'.status[u] = "READY"
              /\ \A u \in Tasks \ W : sched'.status[u] = sched.status[u]
              /\ \A u \in Tasks : Contains(pool'.waiters, u) <=>
                                    Contains(pool.waiters, u) /\ u \notin W
    BY <1>1, <1>3
  <1>5. /\ pc' \in [Tasks -> Locations] /\ \A t \in Tasks \ {Main} : pc'[t] = pc[t]
        /\ pc'[Main] = "user"
    BY <1>1, GotoType DEF Locations
  <1>6. \A t \in Tasks : \/ sched'.status[t] = sched.status[t]
                         \/ sched.status[t] = "BLOCKED" /\ sched'.status[t] = "READY"
    BY <1>2, <1>4
  <1>7. PcInv'
    BY <1>1, <1>5, <1>6 DEF IInv, PcInv
  <1>8. PoolInv'
    <2>1. \A t \in Tasks : Contains(pool'.waiters, t) <=>
                             pc'[t] \in {"fork", "exit"} /\ sched'.status[t] = "BLOCKED"
      BY <1>1, <1>4, <1>5, <1>6
    <2>2. pool'.value = 1 /\ IsInjective(pool'.waiters)
      BY <1>1, <1>3
    <2> QED
      BY <1>5, <2>1, <2>2 DEF PoolInv
  <1>9. \A t \in Tasks, loc \in {"none", "exit", "zombie"} : pc'[t] = loc <=> pc[t] = loc
    BY <1>1, <1>5
  <1>10. \A t \in Processes : sched'.status[t] = "WAITING" => sched.status[t] = "WAITING"
    BY <1>6
  <1>11. sched' \in SchedulerState /\ WellFormed(sched') /\ pool' \in SemaphoreState
    BY <1>1, <1>3
  <1> QED
    BY <1>1, <1>5, <1>7, <1>8, <1>9, <1>10, <1>11, QuietStep

\* sys_wait returns because there is no child.
LEMMA WaitReturns ==
  ASSUME IInv, NEW p \in Processes, sched.cur = p, pc[p] \in {"user", "wait"},
         Goto(p, "user"), UNCHANGED <<sched, pool, all, pid, parent, pids, pages, forks>>
  PROVE  IInv'
  <1> USE Names
  <1>1. /\ sched' = sched /\ pool' = pool /\ TypeOK /\ sched \in SchedulerState
        /\ UNCHANGED <<all, pid, parent, pids, pages, forks>>
        /\ WellFormed(sched') /\ pool' \in SemaphoreState
    BY Types DEF IInv
  <1>2. sched.status[p] = "RUNNING"
    BY Acting
  <1>3. /\ pc' \in [Tasks -> Locations] /\ \A t \in Tasks \ {p} : pc'[t] = pc[t]
        /\ pc'[p] = "user"
    BY <1>1, GotoType DEF Locations
  <1>4. PcInv'
    BY <1>1, <1>2, <1>3 DEF IInv, PcInv
  <1>5. PoolInv'
    BY <1>1, <1>2, <1>3 DEF IInv, PoolInv
  <1>6. \A t \in Tasks, loc \in {"none", "exit", "zombie"} : pc'[t] = loc <=> pc[t] = loc
    BY <1>3
  <1> QED
    BY <1>1, <1>3, <1>4, <1>5, <1>6, QuietStep

\* sys_wait sleeps.
LEMMA WaitSleeps ==
  ASSUME IInv, NEW p \in Processes, sched.cur = p, pc[p] \in {"user", "wait"},
         Hanging(p) = {}, Children(p) # {}, sched' = Block(sched, "WAITING"),
         Goto(p, "wait"), UNCHANGED <<pool, all, pid, parent, pids, pages, forks>>
  PROVE  IInv'
  <1> USE Names
  <1>1. /\ pool' = pool /\ TypeOK /\ pool' \in SemaphoreState
        /\ UNCHANGED <<all, pid, parent, pids, pages, forks>>
    BY Types DEF IInv
  <1>2. sched.status[p] = "RUNNING"
    BY Acting
  <1>3. /\ sched' \in SchedulerState /\ WellFormed(sched') /\ sched'.status[p] = "WAITING"
        /\ \A t \in Tasks \ {Idle, p}, q \in Parked \cup {"DIED"} :
             sched.status[t] = q <=> sched'.status[t] = q
    <2>1. /\ sched \in SchedulerState /\ WellFormed(sched) /\ "WAITING" \in Parked
          /\ (sched.cur = Idle => "WAITING" = "BLOCKED") /\ sched.cur # Idle
      BY Types DEF IInv, Parked
    <2>2. /\ Block(sched, "WAITING") \in SchedulerState /\ WellFormed(Block(sched, "WAITING"))
          /\ \A t \in Tasks \ {Idle, sched.cur}, q \in Parked \cup {"DIED"} :
               sched.status[t] = q <=> Block(sched, "WAITING").status[t] = q
          /\ (sched.cur # Idle => Block(sched, "WAITING").status[sched.cur] = "WAITING")
      BY <2>1, BlockLemma
    <2> QED
      BY <2>1, <2>2
  <1>4. \A t \in Tasks \ {Idle, p} : \A q \in {"BLOCKED", "WAITING", "HANGING", "DIED"} :
          sched.status[t] = q <=> sched'.status[t] = q
    BY <1>3 DEF Parked
  <1>5. /\ pc' \in [Tasks -> Locations] /\ \A t \in Tasks \ {p} : pc'[t] = pc[t]
        /\ pc'[p] = "wait"
    BY <1>1, GotoType DEF Locations
  <1>6. PcInv'
    BY <1>3, <1>4, <1>5 DEF IInv, PcInv
  <1>7. PoolInv'
    BY <1>1, <1>2, <1>3, <1>4, <1>5 DEF IInv, PoolInv, PcInv
  <1>8. \A t \in Tasks, loc \in {"none", "exit", "zombie"} : pc'[t] = loc <=> pc[t] = loc
    BY <1>5
  <1>9. \A t \in Processes : sched'.status[t] = "WAITING" =>
           sched.status[t] = "WAITING" \/ (Hanging(t) = {} /\ Children(t) # {})
    BY <1>4
  <1> QED
    BY <1>1, <1>3, <1>5, <1>6, <1>7, <1>8, <1>9, QuietStep

\* A task has been taken off thread_all_list: what the list is then.
LEMMA Delisted ==
  ASSUME IInv, NEW c \in Tasks, Listed(c), all' = Without(c)
  PROVE  /\ all' \in Seq(Tasks) /\ IsInjective(all')
         /\ \A t : Listed(t)' <=> Listed(t) /\ t # c
  <1>1. all \in Seq(Tasks) /\ IsInjective(all) /\ Contains(all, c)
    BY Types, Tree DEF IInv, Listed
  <1>2. LET r == RemoveAt(all, CHOOSE i \in DOMAIN all : all[i] = c)
        IN /\ r \in Seq(Tasks) /\ IsInjective(r)
           /\ \A y : Contains(r, y) <=> Contains(all, y) /\ y # c
    BY <1>1, RemoveFromList
  <1>3. /\ Without(c) \in Seq(Tasks) /\ IsInjective(Without(c))
        /\ \A y : Contains(Without(c), y) <=> Contains(all, y) /\ y # c
    BY <1>2 DEF Without
  <1> QED
    BY <1>3 DEF Listed

\* A task with no children that is off the list leaves the family in order.
LEMMA Removed ==
  ASSUME IInv, NEW c \in Tasks \ {Init, Idle}, Listed(c), c = Main \/ pc[c] = "zombie",
         all' = Without(c), pids' = pids \ {pid[c]}, pid' = [pid EXCEPT ![c] = NoPid],
         parent' \in [Tasks -> 0..MaxPid], \A t \in Tasks \ {c} : parent'[t] = parent[t],
         c = Main => parent'[c] = NoPid, pc'[c] = "none",
         \A t \in Tasks \ {c}, loc \in {"none", "exit", "zombie"} : pc'[t] = loc <=> pc[t] = loc
  PROVE  FamilyTree' /\ ListInv'
  <1> USE Names
  <1>1. /\ all' \in Seq(Tasks) /\ IsInjective(all')
        /\ \A t : Listed(t)' <=> Listed(t) /\ t # c
    BY Delisted
  <1>2. \A t \in Tasks \ {c} : pid'[t] = pid[t]
    BY DEF IInv, TypeOK
  <1>3. ListInv'
    BY <1>1 DEF IInv, ListInv
  <1>4. PidsDistinct'
    BY <1>1, <1>2, Tree DEF PidsDistinct
  <1>5. ParentLives'
    <2> SUFFICES ASSUME NEW t \in Processes \ {Init}, Listed(t)'
                 PROVE  \E p \in Processes \ {t} :
                          /\ Listed(p)' /\ pid'[p] = parent'[t]
                          /\ pc'[p] \notin {"exit", "zombie"}
      BY DEF ParentLives
    <2>1. Listed(t) /\ t # c /\ parent'[t] = parent[t]
      BY <1>1
    <2>2. PICK p \in Processes \ {t} :
                 Listed(p) /\ pid[p] = parent[t] /\ pc[p] \notin {"exit", "zombie"}
      BY <2>1, Tree
    <2>3. p # c
      BY <2>2
    <2> QED
      BY <1>1, <1>2, <2>1, <2>2, <2>3
  <1> QED
    BY <1>3, <1>4, <1>5 DEF FamilyTree

\* Who waits does not wait for it.
LEMMA RemovedWaits ==
  ASSUME IInv, NEW c \in Tasks, Listed(c), all' = Without(c),
         pid' = [pid EXCEPT ![c] = NoPid],
         \A t \in Tasks \ {c} : parent'[t] = parent[t],
         \A t \in Tasks \ {c} : sched'.status[t] = "HANGING" => sched.status[t] = "HANGING",
         \A t \in Tasks : sched'.status[t] = "WAITING" =>
           t # c /\ sched.status[t] = "WAITING" /\ parent[c] # pid[t]
  PROVE  WaitsForTheLiving'
  <1> USE Names
  <1>1. \A t : Listed(t)' <=> Listed(t) /\ t # c
    BY Delisted
  <1> SUFFICES ASSUME NEW q \in Processes, sched'.status[q] = "WAITING"
               PROVE  Children(q)' # {} /\ (q # Init => Hanging(q)' = {})
    BY DEF WaitsForTheLiving
  <1>2. q # c /\ sched.status[q] = "WAITING" /\ parent[c] # pid[q] /\ pid'[q] = pid[q]
    BY DEF IInv, TypeOK
  <1>3. Children(q)' = Children(q)
    BY <1>1, <1>2 DEF Children
  <1>4. Hanging(q)' \subseteq Hanging(q)
    BY <1>1, <1>3 DEF Hanging, Children
  <1> QED
    BY <1>2, <1>3, <1>4 DEF IInv, WaitsForTheLiving

LEMMA ReapStep ==
  ASSUME IInv, NEW p \in Processes, sched.cur = p, pc[p] \in {"user", "wait"},
         NEW c \in Hanging(p), Reap(p, c)
  PROVE  IInv'
  <1> USE Names
  <1>1. /\ sched' = [sched EXCEPT !.status[c] = "DIED"] /\ all' = Without(c)
        /\ pages' = pages + 2 /\ pids' = pids \ {pid[c]}
        /\ pid' = [pid EXCEPT ![c] = NoPid] /\ parent' = [parent EXCEPT ![c] = NoPid]
        /\ pc' = [pc EXCEPT ![p] = "user", ![c] = "none"]
        /\ pool' = pool /\ forks' = forks /\ TypeOK
    BY DEF Reap, IInv
  <1>2. /\ c \in Tasks /\ Listed(c) /\ parent[c] = pid[p] /\ sched.status[c] = "HANGING"
        /\ sched.status[p] = "RUNNING" /\ c # p
    BY Acting DEF Hanging, Children
  <1>3. c # Idle
    BY <1>2 DEF IInv, WellFormed, IdleAvailable
  <1>4. pc[c] = "zombie" /\ c # Main /\ c # Init
    BY <1>2, <1>3 DEF IInv, PcInv
  <1>5. /\ pc' \in [Tasks -> Locations] /\ pc'[c] = "none" /\ pc'[p] = "user"
        /\ \A t \in Tasks \ {p, c} : pc'[t] = pc[t]
    BY <1>1, <1>2 DEF TypeOK, Locations
  <1>6. /\ sched' \in SchedulerState /\ sched'.status[c] = "DIED" /\ sched'.cur = sched.cur
        /\ sched'.ready = sched.ready
        /\ \A t \in Tasks \ {c} : sched'.status[t] = sched.status[t]
    BY <1>1, <1>2, Types DEF SchedulerState, TaskStatus
  <1>7. WellFormed(sched')
    BY <1>2, <1>3, <1>6 DEF IInv, WellFormed, OneRunning, ReadyListExact, IdleAvailable
  <1>8. PcInv'
    BY <1>2, <1>3, <1>4, <1>5, <1>6 DEF IInv, PcInv
  <1>9. PoolInv'
    BY <1>1, <1>2, <1>4, <1>5, <1>6 DEF IInv, PoolInv
  <1>10. /\ parent' \in [Tasks -> 0..MaxPid] /\ pid' \in [Tasks -> 0..MaxPid]
         /\ \A t \in Tasks \ {c} : parent'[t] = parent[t]
    <2>1. pid \in [Tasks -> 0..MaxPid] /\ parent \in [Tasks -> 0..MaxPid]
      BY <1>1 DEF TypeOK
    <2>2. NoPid \in 0..MaxPid
      BY Numbers DEF NoPid
    <2> QED
      BY <1>1, <2>1, <2>2
  <1>11. \A t \in Tasks \ {c}, loc \in {"none", "exit", "zombie"} : pc'[t] = loc <=> pc[t] = loc
    BY <1>5
  <1>12. FamilyTree' /\ ListInv'
    BY <1>1, <1>2, <1>3, <1>4, <1>5, <1>10, <1>11, Removed
  <1>13. WaitsForTheLiving'
    <2>1. ASSUME NEW t \in Tasks, sched'.status[t] = "WAITING"
          PROVE  t # c /\ sched.status[t] = "WAITING" /\ parent[c] # pid[t]
      <3>1. t # c /\ sched.status[t] = "WAITING" /\ t # p /\ t # Idle
        BY <1>2, <1>6, <2>1 DEF IInv, WellFormed, IdleAvailable
      <3>2. pc[t] = "wait"
        BY <3>1 DEF IInv, PcInv
      <3>3. Listed(t) /\ Listed(p)
        BY <3>2 DEF IInv, ListInv
      <3> QED
        BY <1>2, <3>1, <3>3, Tree
    <2> QED
      BY <1>1, <1>2, <1>6, <1>10, <2>1, RemovedWaits, ZenonT(40)
  <1>14. /\ all' \in Seq(Tasks) /\ \A t : Listed(t)' <=> Listed(t) /\ t # c
    BY <1>1, <1>2, Delisted
  <1>15. NoPageTwice' /\ pages' \in 0..KernelPages
    <2>1. Forked' = Forked \ {c}
      BY <1>14 DEF Forked
    <2>2. Exiting' = Exiting \ {c} /\ c \in Exiting
      <3>1. c \in Exiting
        BY <1>2, <1>3, <1>4 DEF Exiting, Forked
      <3>2. \A t \in Tasks \ {c} : pc'[t] \in {"exit", "zombie"} <=> pc[t] \in {"exit", "zombie"}
        BY <1>11
      <3> QED
        BY <2>1, <3>1, <3>2 DEF Exiting, Forked
    <2> QED
      BY <1>1, <1>14, <2>1, <2>2, PagesReap
  <1>16. TypeOK'
    BY <1>1, <1>5, <1>6, <1>10, <1>14, <1>15 DEF TypeOK, Locations
  <1> QED
    BY <1>7, <1>8, <1>9, <1>12, <1>13, <1>15, <1>16 DEF IInv

LEMMA WaitStep ==
  ASSUME IInv, NEW p \in Processes, Wait(p)
  PROVE  IInv'
  <1>1. sched.cur = p /\ pc[p] \in {"user", "wait"}
    BY DEF Wait, At
  <1>2. CASE Hanging(p) # {} /\ Reap(p, FirstListed(Hanging(p)))
    <2>1. \A t \in Hanging(p) : Listed(t)
      BY DEF Hanging, Children
    <2>2. FirstListed(Hanging(p)) \in Hanging(p)
      BY <1>2, <2>1, Types, FirstListedLemma DEF IInv
    <2> QED
      BY <1>1, <1>2, <2>2, ReapStep
  <1>3. CASE Goto(p, "user") /\ UNCHANGED <<sched, pool, all, pid, parent, pids, pages, forks>>
    BY <1>1, <1>3, WaitReturns
  <1>4. CASE /\ Hanging(p) = {} /\ Children(p) # {} /\ sched' = Block(sched, "WAITING")
             /\ Goto(p, "wait") /\ UNCHANGED <<pool, all, pid, parent, pids, pages, forks>>
    BY <1>1, <1>4, WaitSleeps
  <1> QED
    BY <1>2, <1>3, <1>4 DEF Wait

LEMMA MainExitStep ==
  ASSUME IInv, MainExit
  PROVE  IInv'
  <1> USE Names
  <1> DEFINE s == [sched EXCEPT !.status[Main] = "DIED"]
  <1>1. /\ sched.cur = Main /\ pc[Main] = "user"
        /\ sched' = Schedule(s) /\ all' = Without(Main) /\ pids' = pids \ {pid[Main]}
        /\ pid' = [pid EXCEPT ![Main] = NoPid] /\ Goto(Main, "none")
        /\ pool' = pool /\ parent' = parent /\ pages' = pages /\ forks' = forks /\ TypeOK
    BY DEF IInv, MainExit, At
  <1>2. sched \in SchedulerState /\ WellFormed(sched) /\ sched.status[Main] = "RUNNING"
    BY <1>1, Types, Acting DEF IInv
  <1>3. /\ s \in SchedulerState /\ s.cur = sched.cur /\ s.ready = sched.ready
        /\ s.status[Main] = "DIED" /\ \A t \in Tasks \ {Main} : s.status[t] = sched.status[t]
    BY <1>2 DEF SchedulerState, TaskStatus
  <1> HIDE DEF s
  <1>4. Switchable(s)
    BY <1>1, <1>2, <1>3 DEF Switchable, WellFormed, OneRunning, ReadyListExact, IdleAvailable
  <1>5. /\ sched' \in SchedulerState /\ WellFormed(sched')
        /\ \A t \in Tasks \ {Idle}, q \in Parked \cup {"DIED"} : s.status[t] = q <=> sched'.status[t] = q
    <2>1. /\ Schedule(s) \in SchedulerState /\ WellFormed(Schedule(s)) /\ SameParked(s, Schedule(s))
      BY <1>4, ScheduleLemma
    <2> QED
      BY <1>1, <2>1 DEF SameParked
  <1>6. /\ sched'.status[Main] = "DIED"
        /\ \A t \in Tasks \ {Idle, Main} : \A q \in {"BLOCKED", "WAITING", "HANGING", "DIED"} :
             sched.status[t] = q <=> sched'.status[t] = q
    BY <1>3, <1>5 DEF Parked
  <1>7. /\ pc' \in [Tasks -> Locations] /\ pc'[Main] = "none"
        /\ \A t \in Tasks \ {Main} : pc'[t] = pc[t]
    BY <1>1, GotoType DEF Locations
  <1>8. PcInv'
    BY <1>6, <1>7 DEF IInv, PcInv
  <1>9. PoolInv'
    <2>1. pc[Idle] \notin {"fork", "exit"}
      BY DEF IInv, PcInv
    <2> QED
      BY <1>1, <1>6, <1>7, <2>1 DEF IInv, PoolInv
  <1>10. /\ parent' \in [Tasks -> 0..MaxPid] /\ pid' \in [Tasks -> 0..MaxPid]
         /\ \A t \in Tasks \ {Main} : parent'[t] = parent[t]
         /\ parent[Main] = NoPid /\ Listed(Main)
    <2>1. pid \in [Tasks -> 0..MaxPid] /\ parent \in [Tasks -> 0..MaxPid]
      BY <1>1 DEF TypeOK
    <2>2. NoPid \in 0..MaxPid
      BY Numbers DEF NoPid
    <2>3. parent[Main] = NoPid /\ Listed(Main)
      BY <1>1 DEF IInv, ListInv
    <2> QED
      BY <1>1, <2>1, <2>2, <2>3
  <1>11. \A t \in Tasks \ {Main}, loc \in {"none", "exit", "zombie"} : pc'[t] = loc <=> pc[t] = loc
    BY <1>7
  <1>12. FamilyTree' /\ ListInv'
    BY <1>1, <1>7, <1>10, <1>11, Removed
  <1>13. WaitsForTheLiving'
    <2>1. ASSUME NEW t \in Tasks, sched'.status[t] = "WAITING"
          PROVE  t # Main /\ sched.status[t] = "WAITING" /\ parent[Main] # pid[t]
      <3>1. t # Main /\ t # Idle
        BY <1>5, <1>6, <2>1 DEF WellFormed, IdleAvailable
      <3>2. sched.status[t] = "WAITING"
        BY <1>6, <2>1, <3>1
      <3>3. pc[t] = "wait"
        BY <3>1, <3>2 DEF IInv, PcInv
      <3>4. Listed(t)
        BY <3>3 DEF IInv, ListInv
      <3>5. pid[t] \in 1..MaxPid
        BY <3>4, Tree
      <3> QED
        BY <1>10, <3>1, <3>2, <3>5, Numbers DEF NoPid
    <2>2. \A t \in Tasks \ {Main} : sched'.status[t] = "HANGING" => sched.status[t] = "HANGING"
      BY <1>5, <1>6 DEF WellFormed, IdleAvailable
    <2> QED
      BY <1>1, <1>10, <2>1, <2>2, RemovedWaits
  <1>14. /\ all' \in Seq(Tasks) /\ \A t : Listed(t)' <=> Listed(t) /\ t # Main
    BY <1>1, <1>10, Delisted
  <1>15. NoPageTwice' /\ pages' \in 0..KernelPages
    <2>1. Forked' = Forked
      BY <1>14 DEF Forked
    <2>2. \A t \in Tasks \ {Main} : pc'[t] \in {"exit", "zombie"} <=> pc[t] \in {"exit", "zombie"}
      BY <1>11
    <2>3. Exiting' = Exiting
      BY <2>1, <2>2 DEF Exiting, Forked
    <2>4. pages' \in Nat /\ pages' <= pages
      BY <1>1, Numbers DEF TypeOK
    <2> QED
      BY <1>14, <2>1, <2>3, <2>4, PagesSame
  <1>16. TypeOK'
    BY <1>1, <1>5, <1>7, <1>10, <1>14, <1>15 DEF TypeOK, Locations
  <1> QED
    BY <1>5, <1>8, <1>9, <1>12, <1>13, <1>15, <1>16 DEF IInv

\* The child that sys_fork has put on the ready list.
LEMMA ForkEnqueues ==
  ASSUME IInv, NEW p \in Processes, sched.cur = p, NEW c \in Tasks, sched.status[c] = "DIED",
         NEW x, Passed(x),
         sched' = Enqueue([x.sched EXCEPT !.ticks[c] = Priority[c]], c)
  PROVE  /\ sched' \in SchedulerState /\ WellFormed(sched') /\ sched'.ok = sched.ok
         /\ sched'.status[c] = "READY"
         /\ \A t \in Tasks \ {c} : sched'.status[t] = x.sched.status[t]
  <1> USE Names
  <1> DEFINE y == [x.sched EXCEPT !.ticks[c] = Priority[c]]
  <1>1. x.sched \in SchedulerState /\ WellFormed(x.sched) /\ x.sched.ok = sched.ok
        /\ x.sched.cur = p /\ x.sched.status[c] = "DIED"
    BY DEF Passed, Passing
  <1>2. Priority[c] \in 0..255
    BY SchedulerAssumption
  <1>3. /\ y \in SchedulerState /\ y.cur = x.sched.cur /\ y.status = x.sched.status
        /\ y.ready = x.sched.ready /\ y.ok = x.sched.ok
    BY <1>1, <1>2, StateComponents DEF SchedulerState
  <1>4. sched' = Enqueue(y, c)
    OBVIOUS
  <1> HIDE DEF y
  <1>5. ReadyListExact(y) /\ y.status[c] # "READY"
    BY <1>1, <1>3 DEF WellFormed, ReadyListExact
  <1>6. /\ Enqueue(y, c) \in SchedulerState
        /\ Enqueue(y, c).ok = y.ok
        /\ Enqueue(y, c).cur = y.cur
        /\ Enqueue(y, c).status = [y.status EXCEPT ![c] = "READY"]
        /\ ReadyListExact(Enqueue(y, c))
    BY <1>3, <1>5, EnqueueLemma
  <1>7. sched'.status[c] = "READY" /\ \A t \in Tasks \ {c} : sched'.status[t] = x.sched.status[t]
    <2>1. y.status \in [Tasks -> TaskStatus]
      BY <1>3, StateComponents
    <2>2. sched'.status = [y.status EXCEPT ![c] = "READY"]
      BY <1>4, <1>6
    <2>3. sched'.status[c] = "READY" /\ \A t \in Tasks \ {c} : sched'.status[t] = y.status[t]
      BY <2>1, <2>2
    <2> QED
      BY <1>3, <2>3
  <1>8. OneRunning(sched') /\ IdleAvailable(sched')
    BY <1>1, <1>3, <1>4, <1>6, <1>7, ZenonT(40) DEF WellFormed, OneRunning, IdleAvailable
  <1> QED
    BY <1>1, <1>3, <1>4, <1>6, <1>7, <1>8 DEF WellFormed

\* The child is added to the family.
LEMMA ForkFamily ==
  ASSUME IInv, NEW p \in Processes, NEW c \in Processes, NEW f \in 1..MaxPid, f \notin pids,
         pc[p] \in {"user", "fork"}, pc[c] = "none",
         pids' = pids \cup {f}, pid' = [pid EXCEPT ![c] = f],
         parent' = [parent EXCEPT ![c] = pid[p]], all' = Append(all, c),
         pc' = [pc EXCEPT ![p] = "user", ![c] = "user"]
  PROVE  /\ FamilyTree' /\ ListInv'
         /\ all' \in Seq(Tasks) /\ \A t : Listed(t)' <=> Listed(t) \/ t = c
  <1> USE Names
  <1>1. /\ TypeOK /\ p # c /\ ~Listed(c) /\ Listed(p) /\ c # Init /\ all \in Seq(Tasks)
    BY Types DEF IInv, ListInv, PcInv
  <1>2. /\ pc'[c] = "user" /\ pc'[p] = "user" /\ \A t \in Tasks \ {p, c} : pc'[t] = pc[t]
        /\ pid'[c] = f /\ \A t \in Tasks \ {c} : pid'[t] = pid[t]
        /\ parent'[c] = pid[p] /\ \A t \in Tasks \ {c} : parent'[t] = parent[t]
    BY <1>1 DEF TypeOK
  <1>3. /\ all' \in Seq(Tasks) /\ IsInjective(all')
        /\ \A t : Listed(t)' <=> Listed(t) \/ t = c
    <2>1. IsInjective(all) /\ ~Contains(all, c)
      BY <1>1, Tree DEF Listed
    <2>2. /\ Append(all, c) \in Seq(Tasks) /\ IsInjective(Append(all, c))
          /\ \A y : Contains(Append(all, c), y) <=> Contains(all, y) \/ y = c
      BY <1>1, <2>1, AppendToList
    <2> QED
      BY <2>2 DEF Listed
  <1>4. ListInv'
    BY <1>1, <1>2, <1>3 DEF IInv, ListInv
  <1>5. PidsDistinct'
    <2>1. \A t, u \in Tasks : Listed(t)' /\ Listed(u)' /\ t # u => pid'[t] # pid'[u]
      BY <1>1, <1>2, <1>3, Tree
    <2>2. \A t \in Tasks : Listed(t)' => pid'[t] \in pids'
      BY <1>1, <1>2, <1>3, Tree
    <2>3. pid'[Init] = 1
      BY <1>1, <1>2, Tree
    <2> QED
      BY <1>3, <2>1, <2>2, <2>3 DEF PidsDistinct
  <1>6. ParentLives'
    <2> SUFFICES ASSUME NEW t \in Processes \ {Init}, Listed(t)'
                 PROVE  \E q \in Processes \ {t} :
                          /\ Listed(q)' /\ pid'[q] = parent'[t]
                          /\ pc'[q] \notin {"exit", "zombie"}
      BY DEF ParentLives
    <2>1. CASE t = c
      BY <1>1, <1>2, <1>3, <2>1
    <2>2. CASE t # c
      <3>1. Listed(t) /\ parent'[t] = parent[t]
        BY <1>2, <1>3, <2>2
      <3>2. PICK q \in Processes \ {t} :
                   Listed(q) /\ pid[q] = parent[t] /\ pc[q] \notin {"exit", "zombie"}
        BY <3>1, Tree
      <3>3. q # c
        BY <1>1, <3>2
      <3> QED
        BY <1>2, <1>3, <3>1, <3>2, <3>3, ZenonT(40)
    <2> QED
      BY <2>1, <2>2
  <1> QED
    BY <1>3, <1>4, <1>5, <1>6 DEF FamilyTree

LEMMA ForkStep ==
  ASSUME IInv, NEW p \in Processes, NEW c \in Processes, Fork(p, c)
  PROVE  IInv'
  <1> USE Names
  <1> DEFINE x == PassLock(PassLock(PassLock(PassLock(Now))))
             f == FreePid
  <1>1. /\ sched.cur = p /\ pc[p] \in {"user", "fork"} /\ pool.value # 0 /\ pc[c] = "none"
        /\ sched' = Enqueue([x.sched EXCEPT !.ticks[c] = Priority[c]], c) /\ pool' = x.pool
        /\ pages > ProcPages /\ pages' = pages - ProcPages
        /\ pids # 1..MaxPid /\ pids' = pids \cup {f} /\ pid' = [pid EXCEPT ![c] = f]
        /\ parent' = [parent EXCEPT ![c] = pid[p]] /\ all' = Append(all, c)
        /\ pc' = [pc EXCEPT ![p] = "user", ![c] = "user"] /\ TypeOK
    BY DEF IInv, Fork, ForkProceeds, At
  <1>2. Passed(x)
    BY <1>1, PassedOften
  <1>3. f \in 1..MaxPid /\ f \notin pids
    BY <1>1, FreePidLemma DEF TypeOK
  <1> HIDE DEF x, f
  <1>4. sched.status[c] = "DIED" /\ sched.status[p] = "RUNNING" /\ p # c
    BY <1>1, Acting DEF IInv, PcInv
  <1>5. /\ sched' \in SchedulerState /\ WellFormed(sched')
        /\ sched'.status[c] = "READY"
        /\ \A t \in Tasks \ {c} : sched'.status[t] = x.sched.status[t]
    <2>1. c \in Tasks /\ sched' = Enqueue([x.sched EXCEPT !.ticks[c] = Priority[c]], c)
      BY <1>1
    <2> QED
      BY <1>1, <1>2, <1>4, <2>1, ForkEnqueues
  <1>6. \A t \in Tasks \ {c} : \/ sched'.status[t] = sched.status[t]
                               \/ /\ sched.status[t] = "BLOCKED" /\ sched'.status[t] = "READY"
                                  /\ pc[t] \in {"fork", "exit"}
    BY <1>2, <1>5 DEF Passed, Passing
  <1>7. /\ pc' \in [Tasks -> Locations] /\ pc'[c] = "user" /\ pc'[p] = "user"
        /\ \A t \in Tasks \ {p, c} : pc'[t] = pc[t]
    BY <1>1 DEF TypeOK, Locations
  <1>8. sched'.status[p] = "RUNNING"
    BY <1>4, <1>6
  <1>9. PcInv'
    <2>1. \A t \in Tasks \ {c} : \A q \in {"WAITING", "HANGING", "DIED"} :
            sched.status[t] = q <=> sched'.status[t] = q
      BY <1>6
    <2>2. \A t \in Tasks \ {c} : sched'.status[t] = "BLOCKED" => sched.status[t] = "BLOCKED"
      BY <1>6
    <2>3. c # Idle /\ c # Main /\ c # Init
      BY <1>1 DEF IInv, PcInv
    <2> QED
      BY <1>1, <1>5, <1>7, <1>8, <2>1, <2>2, <2>3, SMTT(30) DEF IInv, PcInv
  <1>10. PoolInv' /\ pool' \in SemaphoreState
    <2>1. /\ pool' \in SemaphoreState /\ pool'.value = 1 /\ IsInjective(pool'.waiters)
          /\ \A t \in Tasks : Contains(pool'.waiters, t) <=>
                        pc[t] \in {"fork", "exit"} /\ x.sched.status[t] = "BLOCKED"
      BY <1>1, <1>2 DEF Passed, Passing
    <2>2. pc'[Main] # "locked"
      BY <1>1, <1>7 DEF IInv, PcInv, PoolInv
    <2>3. \A t \in Tasks : Contains(pool'.waiters, t) <=>
                             pc'[t] \in {"fork", "exit"} /\ sched'.status[t] = "BLOCKED"
      BY <1>1, <1>5, <1>7, <1>8, <2>1
    <2> QED
      BY <2>1, <2>2, <2>3 DEF PoolInv
  <1>11. /\ FamilyTree' /\ ListInv'
         /\ all' \in Seq(Tasks) /\ \A t : Listed(t)' <=> Listed(t) \/ t = c
    BY <1>1, <1>3, ForkFamily
  <1>12. /\ parent' \in [Tasks -> 0..MaxPid] /\ pid' \in [Tasks -> 0..MaxPid]
         /\ pids' \in SUBSET (1..MaxPid)
    <2>1. /\ pid \in [Tasks -> 0..MaxPid] /\ parent \in [Tasks -> 0..MaxPid]
          /\ pids \in SUBSET (1..MaxPid)
      BY <1>1 DEF TypeOK
    <2>2. f \in 0..MaxPid
      BY <1>3, Numbers
    <2> QED
      BY <1>1, <1>3, <2>1, <2>2
  <1>13. ~Listed(c) /\ Listed(p) /\ c # Init
    BY <1>1 DEF IInv, ListInv, PcInv
  <1>14. /\ pid'[c] = f /\ \A t \in Tasks \ {c} : pid'[t] = pid[t]
         /\ parent'[c] = pid[p] /\ \A t \in Tasks \ {c} : parent'[t] = parent[t]
    BY <1>1 DEF TypeOK
  <1>15. WaitsForTheLiving'
    <2> SUFFICES ASSUME NEW q \in Processes, sched'.status[q] = "WAITING"
                 PROVE  Children(q)' # {} /\ (q # Init => Hanging(q)' = {})
      BY DEF WaitsForTheLiving
    <2>1. q # c /\ q # p /\ sched.status[q] = "WAITING"
      BY <1>5, <1>6, <1>8
    <2>2. Listed(q)
      BY <2>1 DEF IInv, PcInv, ListInv
    <2>3. pid[q] # pid[p]
      BY <1>13, <2>1, <2>2, Tree
    <2>4. Children(q)' = Children(q)
      BY <1>11, <1>13, <1>14, <2>1, <2>3 DEF Children
    <2>5. Hanging(q)' \subseteq Hanging(q)
      BY <1>5, <1>6, <2>4 DEF Hanging, Children
    <2> QED
      BY <2>1, <2>4, <2>5 DEF IInv, WaitsForTheLiving
  <1>16. NoPageTwice' /\ pages' \in 0..KernelPages
    <2>1. Forked' = Forked \cup {c} /\ c \notin Forked
      BY <1>11, <1>13 DEF Forked
    <2>2. \A t \in Tasks : pc'[t] \in {"exit", "zombie"} <=> pc[t] \in {"exit", "zombie"}
      BY <1>1, <1>7
    <2>3. Exiting' = Exiting
      BY <1>7, <2>1, <2>2 DEF Exiting, Forked
    <2> QED
      BY <1>1, <1>11, <2>1, <2>3, PagesFork
  <1>17. TypeOK'
    BY <1>5, <1>7, <1>10, <1>11, <1>12, <1>16, CountForkType
       DEF IInv, TypeOK, Locations, Fork, ForkProceeds
  <1> QED
    BY <1>5, <1>9, <1>10, <1>11, <1>15, <1>16, <1>17 DEF IInv

\* A sys_exit that comes to its end: the parent is there, it is woken if it
\* waits, and the task hangs.
LEMMA HangUpLemma ==
  ASSUME IInv, NEW p \in Processes \ {Init}, sched.cur = p, pc[p] \in {"user", "exit"},
         NEW x, Passing(x), x.pool.value = pool.value, HangUp(p, x)
  PROVE  /\ sched' \in SchedulerState /\ WellFormed(sched') /\ sched'.ok = sched.ok
         /\ pool' \in SemaphoreState /\ PoolInv' /\ PcInv'
         /\ pc' \in [Tasks -> Locations] /\ pc'[p] = "zombie"
         /\ \A t \in Tasks \ {p} : pc'[t] = pc[t]
         /\ \A t \in Tasks \ {p} : sched'.status[t] = "HANGING" => sched.status[t] = "HANGING"
         /\ \A t \in Tasks : sched'.status[t] = "WAITING" =>
              t # p /\ sched.status[t] = "WAITING" /\ pid[t] # parent[p]
  <1> USE Names
  <1> DEFINE father == {t \in Tasks : Listed(t) /\ pid[t] = parent[p]}
             woken  == {t \in father : sched.status[t] = "WAITING"}
             w      == CHOOSE t \in woken : TRUE
             s      == IF woken = {} THEN x.sched ELSE Unblock(x.sched, w)
             a      == Asserting(s, father # {})
  <1>1. /\ sched' = Block(a, "HANGING") /\ pool' = x.pool /\ Goto(p, "zombie") /\ TypeOK
    BY DEF HangUp, IInv
  <1>2. sched.status[p] = "RUNNING" /\ p # Idle /\ p # Main
    BY Acting
  <1>3. father # {} /\ \A t, u \in father : t = u
    <2>1. Listed(p)
      BY DEF IInv, ListInv
    <2>2. PICK q \in Processes \ {p} : Listed(q) /\ pid[q] = parent[p]
      BY <2>1, Tree
    <2> QED
      BY <2>2, Tree
  <1>4. /\ x.sched \in SchedulerState /\ WellFormed(x.sched) /\ x.sched.ok = sched.ok
        /\ x.sched.cur = p /\ pool' \in SemaphoreState /\ IsInjective(pool'.waiters)
        /\ pool'.value = pool.value
        /\ \A t \in Tasks : Contains(pool'.waiters, t) <=>
                              pc[t] \in {"fork", "exit"} /\ x.sched.status[t] = "BLOCKED"
        /\ \A t \in Tasks : \/ x.sched.status[t] = sched.status[t]
                            \/ sched.status[t] = "BLOCKED" /\ x.sched.status[t] = "READY"
    BY <1>1 DEF Passing
  <1> HIDE DEF father
  <1>5. /\ s \in SchedulerState /\ WellFormed(s) /\ s.ok = sched.ok /\ s.cur = p
        /\ \A t \in Tasks : s.status[t] = IF t \in woken THEN "READY" ELSE x.sched.status[t]
    <2>1. CASE woken = {}
      BY <1>4, <2>1
    <2>2. CASE woken # {}
      <3>1. w \in woken /\ \A t \in woken : t = w
        BY <1>3, <2>2
      <3> HIDE DEF w
      <3>2. w \in Tasks /\ sched.status[w] = "WAITING"
        BY <3>1 DEF father
      <3>3. x.sched.status[w] \in Parked
        BY <1>4, <3>2 DEF Parked
      <3>4. /\ Unblock(x.sched, w) \in SchedulerState
            /\ Unblock(x.sched, w).ok = x.sched.ok
            /\ Unblock(x.sched, w).cur = x.sched.cur
            /\ Unblock(x.sched, w).status = [x.sched.status EXCEPT ![w] = "READY"]
        BY <1>4, <3>2, <3>3, UnblockLemma DEF WellFormed
      <3>5. WellFormed(Unblock(x.sched, w))
        BY <1>4, <3>2, <3>3, UnblockKeepsWellFormed
      <3>6. s = Unblock(x.sched, w)
        BY <2>2
      <3> HIDE DEF s
      <3>7. x.sched.status \in [Tasks -> TaskStatus]
        BY <1>4, StateComponents
      <3>8. \A t \in Tasks : s.status[t] = IF t \in woken THEN "READY" ELSE x.sched.status[t]
        BY <3>1, <3>4, <3>6, <3>7
      <3> QED
        BY <1>4, <3>4, <3>5, <3>6, <3>8
    <2> QED
      BY <2>1, <2>2
  <1> HIDE DEF s
  <1>6. /\ a \in SchedulerState /\ WellFormed(a) /\ a.ok = sched.ok /\ a.cur = p
        /\ a.status = s.status
    BY <1>3, <1>5, AssertingLemma, ZenonT(40)
  <1> HIDE DEF a
  <1>7. /\ sched' \in SchedulerState /\ WellFormed(sched') /\ sched'.ok = sched.ok
        /\ sched'.status[p] = "HANGING"
        /\ \A t \in Tasks \ {Idle, p}, q \in Parked \cup {"DIED"} :
             a.status[t] = q <=> sched'.status[t] = q
    <2>1. /\ "HANGING" \in Parked /\ (a.cur = Idle => "HANGING" = "BLOCKED") /\ a.cur # Idle
      BY <1>2, <1>6 DEF Parked
    <2>2. /\ Block(a, "HANGING") \in SchedulerState /\ Block(a, "HANGING").ok = a.ok
          /\ WellFormed(Block(a, "HANGING"))
          /\ \A t \in Tasks \ {Idle, a.cur}, q \in Parked \cup {"DIED"} :
               a.status[t] = q <=> Block(a, "HANGING").status[t] = q
          /\ (a.cur # Idle => Block(a, "HANGING").status[a.cur] = "HANGING")
      BY <1>6, <2>1, BlockLemma
    <2> QED
      BY <1>1, <1>6, <2>1, <2>2
  <1>8. \A t \in Tasks \ {Idle, p} : \A q \in {"BLOCKED", "WAITING", "HANGING", "DIED"} :
          sched'.status[t] = q <=> (t \notin woken /\ x.sched.status[t] = q)
    BY <1>5, <1>6, <1>7 DEF Parked
  <1>9. /\ pc' \in [Tasks -> Locations] /\ pc'[p] = "zombie"
        /\ \A t \in Tasks \ {p} : pc'[t] = pc[t]
    BY <1>1, GotoType DEF Locations
  <1>10. \A t \in Tasks \ {Idle, p} : \A q \in {"HANGING", "DIED"} :
           sched'.status[t] = q <=> sched.status[t] = q
    BY <1>4, <1>8
  <1>11. \A t \in Tasks \ {Idle, p} :
           /\ sched'.status[t] = "BLOCKED" <=> x.sched.status[t] = "BLOCKED"
           /\ sched'.status[t] = "BLOCKED" => sched.status[t] = "BLOCKED"
           /\ sched'.status[t] = "WAITING" => sched.status[t] = "WAITING" /\ t \notin woken
    BY <1>4, <1>8
  <1>12. PcInv'
    BY <1>2, <1>7, <1>9, <1>10, <1>11 DEF IInv, PcInv
  <1>13. PoolInv'
    <2>1. pc[Idle] \notin {"fork", "exit"}
      BY DEF IInv, PcInv
    <2>2. x.sched.status[p] = "RUNNING"
      BY <1>2, <1>4
    <2>3. \A t \in Tasks : Contains(pool'.waiters, t) <=>
                             pc'[t] \in {"fork", "exit"} /\ sched'.status[t] = "BLOCKED"
      BY <1>4, <1>7, <1>9, <1>11, <2>1, <2>2
    <2> QED
      BY <1>2, <1>4, <1>9, <2>3 DEF IInv, PoolInv
  <1>14. sched'.status[Idle] \notin {"HANGING", "WAITING"}
    BY <1>7 DEF WellFormed, IdleAvailable
  <1>15. ASSUME NEW t \in Tasks, sched'.status[t] = "WAITING"
         PROVE  t # p /\ sched.status[t] = "WAITING" /\ pid[t] # parent[p]
    <2>1. t # p /\ t # Idle /\ sched.status[t] = "WAITING" /\ t \notin woken
      BY <1>7, <1>11, <1>14, <1>15
    <2>2. Listed(t)
      BY <2>1 DEF IInv, PcInv, ListInv
    <2> QED
      BY <2>1, <2>2 DEF father
  <1>16. \A t \in Tasks \ {p} : sched'.status[t] = "HANGING" => sched.status[t] = "HANGING"
    BY <1>10, <1>14
  <1> QED
    BY <1>4, <1>7, <1>9, <1>12, <1>13, <1>15, <1>16

\* An exit, begun or finished, moves children to init only, and wakes who waits
\* for a task that hangs.
LEMMA ExitWaits ==
  ASSUME IInv, NEW p \in Processes \ {Init}, sched.status[p] = "RUNNING",
         all' = all, pid' = pid, Listed(p),
         \A t \in Tasks : \/ parent'[t] = parent[t]
                          \/ parent[t] = pid[p] /\ parent'[t] = pid[Init],
         \A t \in Tasks \ {p} : sched'.status[t] = "HANGING" => sched.status[t] = "HANGING",
         \A t \in Tasks : sched'.status[t] = "WAITING" =>
           /\ t # p /\ sched.status[t] = "WAITING"
           /\ sched'.status[p] = "HANGING" => pid[t] # parent[p]
  PROVE  WaitsForTheLiving'
  <1> USE Names
  <1>1. \A t : Listed(t)' <=> Listed(t)
    BY DEF Listed
  <1> SUFFICES ASSUME NEW q \in Processes, sched'.status[q] = "WAITING"
               PROVE  Children(q)' # {} /\ (q # Init => Hanging(q)' = {})
    BY DEF WaitsForTheLiving
  <1>2. /\ q # p /\ sched.status[q] = "WAITING" /\ pid'[q] = pid[q]
        /\ sched'.status[p] = "HANGING" => pid[q] # parent[p]
    OBVIOUS
  <1>3. Listed(q) /\ Listed(Init)
    BY <1>2 DEF IInv, PcInv, ListInv
  <1>4. pid[q] # pid[p]
    BY <1>2, <1>3, Tree
  <1>5. Children(q) \subseteq Children(q)'
    BY <1>1, <1>2, <1>4 DEF Children
  <1>6. Children(q) # {} /\ (q # Init => Hanging(q) = {})
    BY <1>2 DEF IInv, WaitsForTheLiving
  <1>7. ASSUME q # Init
        PROVE  Hanging(q)' = {}
    <2>1. pid[q] # pid[Init]
      BY <1>3, <1>7, Tree
    <2>2. Children(q)' = Children(q)
      BY <1>1, <1>2, <1>4, <2>1 DEF Children
    <2>3. sched'.status[p] = "HANGING" => p \notin Children(q)
      BY <1>2 DEF Children
    <2>4. Hanging(q)' \subseteq Hanging(q)
      BY <2>2, <2>3 DEF Hanging, Children
    <2> QED
      BY <1>6, <1>7, <2>4
  <1> QED
    BY <1>5, <1>6, <1>7

\* The first part of sys_exit.
LEMMA ExitBegins ==
  ASSUME IInv, NEW p \in Processes \ {Init}, pc[p] = "user", GiveAway(p),
         all' = all, pid' = pid, pids' = pids, pc'[p] \in {"exit", "zombie"},
         \A t \in Tasks \ {p} : pc'[t] = pc[t]
  PROVE  /\ FamilyTree' /\ ListInv' /\ NoPageTwice' /\ pages' \in 0..KernelPages
         /\ parent' \in [Tasks -> 0..MaxPid] /\ Listed(p)
         /\ \A t \in Tasks : \/ parent'[t] = parent[t]
                             \/ parent[t] = pid[p] /\ parent'[t] = pid[Init]
  <1> USE Names
  <1>1. /\ parent' = Adopted(p) /\ pages' = pages + FreedByExit /\ TypeOK
        /\ pid \in [Tasks -> 0..MaxPid] /\ parent \in [Tasks -> 0..MaxPid]
    BY DEF GiveAway, IInv, TypeOK
  <1>2. /\ \A t : Listed(t)' <=> Listed(t)
        /\ Listed(p) /\ Listed(Init)
    <2>1. \A t : Listed(t)' <=> Listed(t)
      BY DEF Listed
    <2> QED
      BY <2>1 DEF IInv, ListInv, PcInv
  <1>3. \A t \in Tasks : parent'[t] = IF t \in Children(p) THEN pid[Init] ELSE parent[t]
    BY <1>1 DEF Adopted
  <1>4. parent' \in [Tasks -> 0..MaxPid]
    BY <1>1 DEF Adopted
  <1>5. \A t \in Tasks : \/ parent'[t] = parent[t]
                         \/ parent[t] = pid[p] /\ parent'[t] = pid[Init]
    BY <1>3 DEF Children
  <1>6. ListInv'
    <2>1. \A t \in {Main, Init, Idle} : parent'[t] = NoPid
      <3>1. \A t \in {Main, Init, Idle} : parent[t] = NoPid
        BY DEF IInv, ListInv
      <3>2. pid[p] # NoPid
        BY <1>2, Tree, Numbers DEF NoPid
      <3> QED
        BY <1>5, <3>1, <3>2
    <2>2. \A t \in Tasks : Listed(t)' <=> pc'[t] # "none"
      BY <1>2 DEF IInv, ListInv
    <2> QED
      BY <2>1, <2>2 DEF ListInv
  <1>7. PidsDistinct'
    BY <1>2 DEF IInv, FamilyTree, PidsDistinct
  <1>8. ParentLives'
    <2> SUFFICES ASSUME NEW t \in Processes \ {Init}, Listed(t)'
                 PROVE  \E q \in Processes \ {t} :
                          /\ Listed(q)' /\ pid'[q] = parent'[t]
                          /\ pc'[q] \notin {"exit", "zombie"}
      BY DEF ParentLives
    <2>1. CASE t \in Children(p)
      <3>1. pc'[Init] \notin {"exit", "zombie"}
        BY DEF IInv, PcInv
      <3> QED
        BY <1>2, <1>3, <2>1, <3>1
    <2>2. CASE t \notin Children(p)
      <3>1. Listed(t) /\ parent'[t] = parent[t] /\ parent[t] # pid[p]
        BY <1>2, <1>3, <2>2 DEF Children
      <3>2. PICK q \in Processes \ {t} :
                   Listed(q) /\ pid[q] = parent[t] /\ pc[q] \notin {"exit", "zombie"}
        BY <3>1, Tree
      <3>3. q # p
        BY <3>1, <3>2
      <3> QED
        BY <1>2, <3>1, <3>2, <3>3
    <2> QED
      BY <2>1, <2>2
  <1>9. NoPageTwice' /\ pages' \in 0..KernelPages
    <2>1. Forked' = Forked /\ p \in Forked \ Exiting
      BY <1>2 DEF Forked, Exiting
    <2>2. Exiting' = Exiting \cup {p}
      BY <2>1 DEF Exiting, Forked
    <2>3. all' \in Seq(Tasks)
      BY Types DEF IInv
    <2> QED
      BY <1>1, <2>1, <2>2, <2>3, PagesExit
  <1> QED
    BY <1>2, <1>4, <1>5, <1>6, <1>7, <1>8, <1>9 DEF FamilyTree

\* The rest of it.
LEMMA ExitGoesOn ==
  ASSUME IInv, NEW p \in Processes \ {Init}, pc[p] = "exit", parent' = parent, pages' = pages,
         all' = all, pid' = pid, pids' = pids, pc'[p] \in {"exit", "zombie"},
         \A t \in Tasks \ {p} : pc'[t] = pc[t]
  PROVE  /\ FamilyTree' /\ ListInv' /\ NoPageTwice' /\ pages' \in 0..KernelPages
         /\ parent' \in [Tasks -> 0..MaxPid] /\ Listed(p)
  <1> USE Names
  <1>1. FamilyTree' /\ ListInv'
    <2>1. \A t \in Tasks : pc'[t] = "none" <=> pc[t] = "none"
      OBVIOUS
    <2>2. \A t \in Tasks : pc'[t] \in {"exit", "zombie"} => pc[t] \in {"exit", "zombie"}
      OBVIOUS
    <2> QED
      BY <2>1, <2>2, SameFamily
  <1>2. NoPageTwice' /\ pages' \in 0..KernelPages
    <2>1. \A t \in Tasks : pc'[t] \in {"exit", "zombie"} <=> pc[t] \in {"exit", "zombie"}
      OBVIOUS
    <2>2. pages' \in Nat /\ pages' <= pages
      BY Numbers DEF IInv, TypeOK
    <2> QED
      BY <2>1, <2>2, SamePages
  <1> QED
    BY <1>1, <1>2 DEF IInv, TypeOK, ListInv

LEMMA ExitWaitStep ==
  ASSUME IInv, NEW p \in Processes, ExitWait(p)
  PROVE  IInv'
  <1> USE Names
  <1>1. /\ sched.cur = p /\ pc[p] \in {"user", "exit"} /\ pool.value = 0
        /\ sched' = SemaWaitSched(sched, pool) /\ pool' = SemaWait(pool, p)
        /\ IF pc[p] = "user" THEN GiveAway(p) ELSE UNCHANGED <<parent, pages>>
        /\ Goto(p, "exit") /\ all' = all /\ pid' = pid /\ pids' = pids /\ forks' = forks
        /\ TypeOK
    BY DEF IInv, ExitWait, At
  <1>2. p # Init
    BY <1>1 DEF IInv, PcInv, ExitWait, At
  <1>3. /\ sched' \in SchedulerState /\ WellFormed(sched')
        /\ pool' \in SemaphoreState /\ PoolInv' /\ PcInv'
        /\ \A u \in Tasks, st \in {"WAITING", "HANGING", "DIED"} :
              u # Idle => (sched'.status[u] = st <=> sched.status[u] = st)
    BY <1>1, <1>2, QueueUp
  <1>4. /\ pc' \in [Tasks -> Locations]
        /\ pc'[p] = "exit" /\ \A u \in Tasks \ {p} : pc'[u] = pc[u]
    BY <1>1, GotoType DEF Locations
  <1>5. sched.status[p] = "RUNNING"
    BY <1>1, Acting
  <1>6. /\ FamilyTree' /\ ListInv' /\ NoPageTwice' /\ pages' \in 0..KernelPages
        /\ parent' \in [Tasks -> 0..MaxPid] /\ Listed(p)
        /\ \A t \in Tasks : \/ parent'[t] = parent[t]
                            \/ parent[t] = pid[p] /\ parent'[t] = pid[Init]
    <2>1. CASE pc[p] = "user"
      BY <1>1, <1>2, <1>4, <2>1, ExitBegins
    <2>2. CASE pc[p] = "exit"
      BY <1>1, <1>2, <1>4, <2>2, ExitGoesOn
    <2> QED
      BY <1>1, <2>1, <2>2
  <1>7. WaitsForTheLiving'
    <2>1. \A t \in {p} \cup Tasks : sched'.status[t] = "HANGING" => sched.status[t] = "HANGING"
      BY <1>3 DEF WellFormed, IdleAvailable
    <2>2. \A t \in Tasks : sched'.status[t] = "WAITING" => sched.status[t] = "WAITING"
      BY <1>3 DEF WellFormed, IdleAvailable
    <2>3. sched'.status[p] # "HANGING"
      BY <1>5, <2>1
    <2> QED
      BY <1>1, <1>2, <1>5, <1>6, <2>1, <2>2, <2>3, ExitWaits
  <1>8. TypeOK'
    BY <1>1, <1>3, <1>4, <1>6 DEF TypeOK, Locations
  <1> QED
    BY <1>3, <1>6, <1>7, <1>8 DEF IInv

\* What there is of the lock when sys_exit keeps the processor.
LEMMA ClosingPasses ==
  ASSUME IInv, NEW x, x = Now \/ (x \in Closing /\ pool.value # 0)
  PROVE  Passing(x) /\ x.pool.value = pool.value
  <1>1. CASE x = Now
    <2>1. Now.sched = sched /\ Now.pool = pool
      BY DEF Now
    <2> QED
      BY <1>1, <2>1, Types DEF IInv, PoolInv, Passing
  <1>2. CASE x \in Closing /\ pool.value # 0
    <2>1. Passed(x)
      BY <1>2, PassedOften DEF Closing
    <2>2. pool.value = 1
      BY <1>2 DEF IInv, PoolInv
    <2> QED
      BY <2>1, <2>2 DEF Passed
  <1> QED
    BY <1>1, <1>2

LEMMA ExitStep ==
  ASSUME IInv, NEW p \in Processes, Exit(p)
  PROVE  IInv'
  <1> USE Names
  <1>1. /\ sched.cur = p /\ pc[p] = "user" /\ p # Init /\ GiveAway(p)
    BY DEF Exit, At
  <1>2. PICK x : (x = Now \/ (x \in Closing /\ pool.value # 0)) /\ HangUp(p, x)
    BY DEF Exit
  <1>3. Passing(x) /\ x.pool.value = pool.value
    BY <1>2, ClosingPasses
  <1>4. /\ sched' \in SchedulerState /\ WellFormed(sched')
        /\ pool' \in SemaphoreState /\ PoolInv' /\ PcInv'
        /\ pc' \in [Tasks -> Locations] /\ pc'[p] = "zombie"
        /\ \A t \in Tasks \ {p} : pc'[t] = pc[t]
        /\ \A t \in Tasks \ {p} : sched'.status[t] = "HANGING" => sched.status[t] = "HANGING"
        /\ \A t \in Tasks : sched'.status[t] = "WAITING" =>
              t # p /\ sched.status[t] = "WAITING" /\ pid[t] # parent[p]
    BY <1>1, <1>2, <1>3, HangUpLemma
  <1>5. all' = all /\ pid' = pid /\ pids' = pids /\ forks' = forks
    BY <1>2 DEF HangUp
  <1>6. /\ FamilyTree' /\ ListInv' /\ NoPageTwice' /\ pages' \in 0..KernelPages
        /\ parent' \in [Tasks -> 0..MaxPid] /\ Listed(p)
        /\ \A t \in Tasks : \/ parent'[t] = parent[t]
                            \/ parent[t] = pid[p] /\ parent'[t] = pid[Init]
    BY <1>1, <1>4, <1>5, ExitBegins
  <1>7. WaitsForTheLiving'
    BY <1>1, <1>4, <1>5, <1>6, Acting, ExitWaits
  <1>8. TypeOK'
    BY <1>4, <1>5, <1>6 DEF IInv, TypeOK, Locations
  <1> QED
    BY <1>4, <1>6, <1>7, <1>8 DEF IInv

LEMMA ExitResumeStep ==
  ASSUME IInv, NEW p \in Processes, ExitResume(p)
  PROVE  IInv'
  <1> USE Names
  <1>1. /\ sched.cur = p /\ pc[p] = "exit" /\ p # Init /\ pool.value # 0
        /\ parent' = parent /\ pages' = pages
    BY DEF ExitResume, At, IInv, PcInv
  <1>2. PICK x \in Closing : HangUp(p, x)
    BY DEF ExitResume
  <1>3. Passing(x) /\ x.pool.value = pool.value
    BY <1>1, <1>2, ClosingPasses
  <1>4. /\ sched' \in SchedulerState /\ WellFormed(sched')
        /\ pool' \in SemaphoreState /\ PoolInv' /\ PcInv'
        /\ pc' \in [Tasks -> Locations] /\ pc'[p] = "zombie"
        /\ \A t \in Tasks \ {p} : pc'[t] = pc[t]
        /\ \A t \in Tasks \ {p} : sched'.status[t] = "HANGING" => sched.status[t] = "HANGING"
        /\ \A t \in Tasks : sched'.status[t] = "WAITING" =>
              t # p /\ sched.status[t] = "WAITING" /\ pid[t] # parent[p]
    BY <1>1, <1>2, <1>3, HangUpLemma
  <1>5. all' = all /\ pid' = pid /\ pids' = pids /\ forks' = forks
    BY <1>2 DEF HangUp
  <1>6. /\ FamilyTree' /\ ListInv' /\ NoPageTwice' /\ pages' \in 0..KernelPages
        /\ parent' \in [Tasks -> 0..MaxPid] /\ Listed(p)
    BY <1>1, <1>4, <1>5, ExitGoesOn
  <1>7. WaitsForTheLiving'
    <2>1. \A t \in Tasks : parent'[t] = parent[t]
      BY <1>1
    <2> QED
      BY <1>1, <1>4, <1>5, <1>6, <2>1, Acting, ExitWaits
  <1>8. TypeOK'
    BY <1>4, <1>5, <1>6 DEF IInv, TypeOK, Locations
  <1> QED
    BY <1>4, <1>6, <1>7, <1>8 DEF IInv

-----------------------------------------------------------------------------
\* What thread_init leaves behind.

LEMMA InitialSchedule ==
  ASSUME InitState
  PROVE  /\ sched \in SchedulerState /\ WellFormed(sched) /\ sched.ok
         /\ sched.status[Main] = "RUNNING" /\ sched.status[Init] = "READY"
         /\ sched.status[Idle] = "READY"
         /\ \A t \in Tasks \ {Main, Init, Idle} : sched.status[t] = "DIED"
  <1> USE Names
  <1> DEFINE st == [t \in Tasks |-> CASE t = Main           -> "RUNNING"
                                      [] t \in {Init, Idle} -> "READY"
                                      [] OTHER              -> "DIED"]
             rd == <<Init, Idle>>
  <1>1. sched = [cur |-> Main, status |-> st, ready |-> rd, ticks |-> Priority, ok |-> TRUE]
    BY DEF InitState
  <1>2. /\ st[Main] = "RUNNING" /\ st[Init] = "READY" /\ st[Idle] = "READY"
        /\ \A t \in Tasks \ {Main, Init, Idle} : st[t] = "DIED"
    OBVIOUS
  <1>3. st \in [Tasks -> TaskStatus]
    BY <1>2 DEF TaskStatus
  <1>4. /\ rd \in Seq(Tasks) /\ IsInjective(rd)
        /\ \A t : Contains(rd, t) <=> t = Init \/ t = Idle
    BY DEF IsInjective, Contains
  <1> HIDE DEF st, rd
  <1>5. sched \in SchedulerState
    BY <1>1, <1>3, <1>4, SchedulerAssumption DEF SchedulerState
  <1>6. /\ sched.cur = Main /\ sched.status = st /\ sched.ready = rd /\ sched.ok
    BY <1>1
  <1>7. WellFormed(sched)
    BY <1>2, <1>4, <1>6 DEF WellFormed, OneRunning, ReadyListExact, IdleAvailable
  <1> QED
    BY <1>2, <1>5, <1>6, <1>7

LEMMA InitialFamily ==
  ASSUME InitState
  PROVE  /\ FamilyTree /\ ListInv /\ NoPageTwice
         /\ all \in Seq(Tasks) /\ pid \in [Tasks -> 0..MaxPid] /\ parent \in [Tasks -> 0..MaxPid]
         /\ pids \in SUBSET (1..MaxPid) /\ pages \in 0..KernelPages /\ forks \in 0..MaxForks
  <1> USE Names
  <1>1. /\ all = <<Init, Main, Idle>> /\ pid = InitialPid /\ parent = [t \in Tasks |-> NoPid]
        /\ pids = {1, 2, 3} /\ pages = KernelPages /\ forks = 0
        /\ pc = [t \in Tasks |-> CASE t = Idle           -> "loop"
                                   [] t \in {Main, Init} -> "user"
                                   [] OTHER              -> "none"]
    BY DEF InitState
  <1>2. /\ all \in Seq(Tasks) /\ IsInjective(all)
        /\ \A t : Listed(t) <=> t \in {Init, Main, Idle}
    BY <1>1 DEF IsInjective, Contains, Listed
  <1>3. /\ pid[Init] = 1 /\ pid[Main] = 2 /\ pid[Idle] = 3
        /\ \A t \in Tasks \ {Main, Init, Idle} : pid[t] = NoPid
    BY <1>1 DEF InitialPid
  <1>4. /\ 0 \in 0..MaxPid /\ 1 \in 0..MaxPid /\ 2 \in 0..MaxPid /\ 3 \in 0..MaxPid
        /\ {1, 2, 3} \in SUBSET (1..MaxPid)
    BY Numbers
  <1>5. /\ pid \in [Tasks -> 0..MaxPid] /\ parent \in [Tasks -> 0..MaxPid]
        /\ pids \in SUBSET (1..MaxPid)
    <2>1. \A t \in Tasks : pid[t] \in 0..MaxPid
      BY <1>3, <1>4 DEF NoPid
    <2>2. pid = [t \in Tasks |-> pid[t]]
      BY <1>1 DEF InitialPid
    <2> QED
      BY <1>1, <1>4, <2>1, <2>2 DEF NoPid
  <1>6. pages \in 0..KernelPages /\ forks \in 0..MaxForks
    BY <1>1, Numbers
  <1>7. /\ \A t \in Tasks \ {Main, Init, Idle} : pc[t] = "none"
        /\ pc[Main] = "user" /\ pc[Init] = "user" /\ pc[Idle] = "loop"
    BY <1>1
  <1>8. ListInv
    BY <1>1, <1>2, <1>7 DEF ListInv
  <1>9. ParentLives
    BY <1>2 DEF ParentLives
  <1>10. PidsDistinct
    BY <1>1, <1>2, <1>3 DEF PidsDistinct
  <1>11. NoPageTwice
    <2>1. Exiting = {} /\ Forked \ Exiting = {}
      BY <1>2 DEF Forked, Exiting
    <2>2. Cardinality({}) = 0
      BY FS_EmptySet
    <2>3. Cardinality(Exiting) = 0 /\ Cardinality(Forked \ Exiting) = 0
      BY <2>1, <2>2
    <2>4. Held = 2 * Cardinality(Exiting) + 25 * Cardinality(Forked \ Exiting)
      BY <1>2, HeldLemma
    <2>5. Held = 0
      BY <2>3, <2>4
    <2> QED
      BY <1>1, <2>5, Numbers DEF NoPageTwice
  <1> QED
    BY <1>2, <1>5, <1>6, <1>8, <1>9, <1>10, <1>11 DEF FamilyTree

\* The invariant holds when scheduling starts.
THEOREM InitIInv == InitState => IInv
  <1> SUFFICES ASSUME InitState PROVE IInv
    OBVIOUS
  <1> USE Names
  <1>1. /\ pc = [t \in Tasks |-> CASE t = Idle           -> "loop"
                                   [] t \in {Main, Init} -> "user"
                                   [] OTHER              -> "none"]
        /\ pool = [value |-> 1, waiters |-> <<>>]
    BY DEF InitState, SemaInit
  <1>2. /\ \A t \in Tasks \ {Main, Init, Idle} : pc[t] = "none"
        /\ pc[Main] = "user" /\ pc[Init] = "user" /\ pc[Idle] = "loop"
    BY <1>1
  <1>3. pc \in [Tasks -> Locations]
    <2>1. \A t \in Tasks : pc[t] \in Locations
      BY <1>2 DEF Locations
    <2>2. pc = [t \in Tasks |-> pc[t]]
      BY <1>1
    <2> QED
      BY <2>1, <2>2
  <1>4. /\ pool \in SemaphoreState /\ pool.value = 1 /\ IsInjective(pool.waiters)
        /\ \A t : ~Contains(pool.waiters, t)
    BY <1>1 DEF SemaphoreState, IsInjective, Contains
  <1>5. PcInv
    BY <1>2, InitialSchedule DEF PcInv
  <1>6. PoolInv
    BY <1>2, <1>4 DEF PoolInv
  <1>7. WaitsForTheLiving
    <2>1. \A t \in Tasks : sched.status[t] # "WAITING"
      BY InitialSchedule
    <2> QED
      BY <2>1 DEF WaitsForTheLiving
  <1>8. TypeOK
    BY <1>3, <1>4, InitialSchedule, InitialFamily DEF TypeOK, Locations
  <1> QED
    BY <1>5, <1>6, <1>7, <1>8, InitialSchedule, InitialFamily DEF IInv

\* Every system call, the boot thread, idle and the timer keep it.
THEOREM StepIInv == IInv /\ [Next]_vars => IInv'
  <1> SUFFICES ASSUME IInv, [Next]_vars PROVE IInv'
    OBVIOUS
  <1>1. ASSUME NEW p \in Processes, Resumed(p) \/ Called(p)
        PROVE  IInv'
    <2>1. CASE ForkWait(p)
      BY <2>1, ForkWaitStep
    <2>2. CASE ForkFails(p)
      BY <2>2, ForkFailsStep
    <2>3. CASE ForkPanics(p)
      BY <2>3, ForkPanicsStep
    <2>4. ASSUME NEW c \in Processes, Fork(p, c) PROVE IInv'
      BY <2>4, ForkStep
    <2>5. CASE Wait(p)
      BY <2>5, WaitStep
    <2>6. CASE ExitWait(p)
      BY <2>6, ExitWaitStep
    <2>7. CASE Exit(p)
      BY <2>7, ExitStep
    <2>8. CASE ExitResume(p)
      BY <2>8, ExitResumeStep
    <2> QED
      BY <1>1, <2>1, <2>2, <2>3, <2>4, <2>5, <2>6, <2>7, <2>8 DEF Resumed, Called
  <1>2. CASE MainLock
    BY <1>2, MainLockStep
  <1>3. CASE MainUnlock
    BY <1>3, MainUnlockStep
  <1>4. CASE MainExit
    BY <1>4, MainExitStep
  <1>5. CASE IdleBlock
    BY <1>5, IdleStep
  <1>6. CASE TimerInterrupt
    BY <1>6, TimerStep
  <1>7. CASE UNCHANGED vars
    <2>1. /\ sched' = sched /\ pool' = pool /\ pc' = pc /\ all' = all /\ pid' = pid
          /\ parent' = parent /\ pids' = pids /\ pages' = pages /\ forks' = forks
      BY <1>7 DEF vars
    <2>2. /\ TypeOK' /\ WellFormed(sched') /\ PcInv' /\ PoolInv'
      BY <2>1 DEF IInv, TypeOK, PcInv, PoolInv
    <2>3. FamilyTree' /\ ListInv'
      BY <2>1, SameFamily
    <2>4. WaitsForTheLiving'
      BY <2>1, <2>2, SameWaits
    <2>5. NoPageTwice'
      BY <2>1, SamePages DEF IInv, TypeOK
    <2> QED
      BY <2>2, <2>3, <2>4, <2>5 DEF IInv
  <1> QED
    BY <1>1, <1>2, <1>3, <1>4, <1>5, <1>6, <1>7 DEF Next

-----------------------------------------------------------------------------
\* IInv always holds.
THEOREM Invariant == Spec => []IInv
  <1>1. InitState => IInv
    BY InitIInv
  <1>2. IInv /\ [Next]_vars => IInv'
    BY StepIInv
  <1> QED
    BY <1>1, <1>2, PTL DEF Spec

\* Every variable keeps its type; of the numbers, pids and free pages keep
\* within their pools.
THEOREM TypeCorrect == Spec => []TypeOK
  <1>1. IInv => TypeOK
    BY DEF IInv
  <1> QED
    BY <1>1, Invariant, PTL

\* sys_exit and sys_wait keep the tree of processes together: every process but
\* init has a parent on thread_all_list that has not begun to exit, and a pid
\* of its own.
THEOREM Family == Spec => []FamilyTree
  <1>1. IInv => FamilyTree
    BY DEF IInv
  <1> QED
    BY <1>1, Invariant, PTL

\* No process but init sleeps in sys_wait with a child that has hung up, and
\* none without a child.
THEOREM Living == Spec => []WaitsForTheLiving
  <1>1. IInv => WaitsForTheLiving
    BY DEF IInv
  <1> QED
    BY <1>1, Invariant, PTL

\* However fork, exit and wait interleave, no kernel page is freed twice.
THEOREM Pages == Spec => []NoPageTwice
  <1>1. IInv => NoPageTwice
    BY DEF IInv
  <1> QED
    BY <1>1, Invariant, PTL

-----------------------------------------------------------------------------
\* The ASSERTs.

\* The scheduler's and the lock's own ASSERTs hold in every step.
LEMMA SchedulerKeepsOk ==
  ASSUME IInv
  PROVE  /\ TimerTick(sched).ok = sched.ok
         /\ sched.cur = Idle => Block(sched, "BLOCKED").ok = sched.ok
         /\ sched.cur # Idle => Block(sched, "WAITING").ok = sched.ok
         /\ pool.value = 1 => SemaTakeSched(sched, pool).ok = sched.ok
         /\ pool.value = 0 => SemaUpSched(sched, pool).ok = sched.ok
         /\ sched.cur = Main => Schedule([sched EXCEPT !.status[Main] = "DIED"]).ok = sched.ok
  <1> USE Names
  <1>1. sched \in SchedulerState /\ WellFormed(sched) /\ pool \in SemaphoreState
    BY Types DEF IInv
  <1>2. "BLOCKED" \in Parked /\ "WAITING" \in Parked
    BY DEF Parked
  <1>3. TimerTick(sched).ok = sched.ok
    BY <1>1, TimerTickLemma
  <1>4. sched.cur = Idle => Block(sched, "BLOCKED").ok = sched.ok
    BY <1>1, <1>2, BlockLemma
  <1>5. sched.cur # Idle => Block(sched, "WAITING").ok = sched.ok
    BY <1>1, <1>2, BlockLemma
  <1>6. pool.value = 1 => SemaTakeSched(sched, pool).ok = sched.ok
    BY <1>1, SemaTakeLemma
  <1>7. pool.value = 0 => SemaUpSched(sched, pool).ok = sched.ok
    <2>1. /\ IsInjective(pool.waiters)
          /\ \A t \in Tasks : Contains(pool.waiters, t) => sched.status[t] = "BLOCKED"
      BY DEF IInv, PoolInv
    <2> QED
      BY <1>1, <2>1, SemaUpLemma
  <1>8. ASSUME sched.cur = Main
        PROVE  Schedule([sched EXCEPT !.status[Main] = "DIED"]).ok = sched.ok
    <2> DEFINE s == [sched EXCEPT !.status[Main] = "DIED"]
    <2>1. sched.status[Main] = "RUNNING"
      BY <1>8, Acting
    <2>2. /\ s \in SchedulerState /\ s.cur = sched.cur /\ s.ready = sched.ready /\ s.ok = sched.ok
          /\ s.status[Main] = "DIED" /\ \A t \in Tasks \ {Main} : s.status[t] = sched.status[t]
      BY <1>1 DEF SchedulerState, TaskStatus
    <2> HIDE DEF s
    <2>3. Switchable(s)
      BY <1>1, <1>8, <2>1, <2>2 DEF Switchable, WellFormed, OneRunning, ReadyListExact, IdleAvailable
    <2>4. Schedule(s).ok = sched.ok
      BY <2>2, <2>3, ScheduleLemma
    <2> QED
      BY <2>4 DEF s
  <1> QED
    BY <1>3, <1>4, <1>5, <1>6, <1>7, <1>8

\* Whoever waits is on the list once, whoever is put on the ready list is not
\* on it, and who exits has a parent.
LEMMA CallKeepsOk ==
  ASSUME IInv, NEW p \in Processes, Resumed(p) \/ Called(p), ~ForkPanics(p)
  PROVE  sched'.ok = sched.ok
  <1> USE Names
  <1>1. CASE ForkWait(p)
    <2>1. /\ sched.cur = p /\ pc[p] \in {"user", "fork", "exit"} /\ pool.value = 0
          /\ sched' = SemaWaitSched(sched, pool) /\ pool' = SemaWait(pool, p) /\ Goto(p, "fork")
      BY <1>1 DEF ForkWait, At
    <2> QED
      BY <2>1, QueueUp
  <1>2. CASE ForkFails(p)
    <2>1. pool.value # 0 /\ sched' = PassLock(PassLock(PassLock(Now))).sched
      BY <1>2 DEF ForkFails, ForkProceeds
    <2>2. Passed(PassLock(PassLock(PassLock(Now))))
      BY <2>1, PassedOften
    <2> QED
      BY <2>1, <2>2 DEF Passed, Passing
  <1>3. ASSUME NEW c \in Processes, Fork(p, c)
        PROVE  sched'.ok = sched.ok
    <2> DEFINE x == PassLock(PassLock(PassLock(PassLock(Now))))
    <2>1. /\ sched.cur = p /\ pool.value # 0 /\ pc[c] = "none"
          /\ sched' = Enqueue([x.sched EXCEPT !.ticks[c] = Priority[c]], c)
      BY <1>3 DEF Fork, ForkProceeds, At
    <2>2. Passed(x)
      BY <2>1, PassedOften
    <2> HIDE DEF x
    <2>3. sched.status[c] = "DIED" /\ c \in Tasks
      BY <2>1 DEF IInv, PcInv
    <2> QED
      BY <2>1, <2>2, <2>3, ForkEnqueues
  <1>4. CASE Wait(p)
    <2>1. sched.cur = p /\ p # Idle
      BY <1>4 DEF Wait, At
    <2>2. CASE sched' = Block(sched, "WAITING")
      BY <2>1, <2>2, SchedulerKeepsOk
    <2>3. CASE sched' = sched
      BY <2>3
    <2>4. CASE \E c : sched' = [sched EXCEPT !.status[c] = "DIED"]
      BY <2>4, Types DEF IInv, SchedulerState
    <2> QED
      BY <1>4, <2>2, <2>3, <2>4 DEF Wait, Reap
  <1>5. CASE ExitWait(p)
    <2>1. /\ sched.cur = p /\ pc[p] \in {"user", "fork", "exit"} /\ pool.value = 0
          /\ sched' = SemaWaitSched(sched, pool) /\ pool' = SemaWait(pool, p) /\ Goto(p, "exit")
      BY <1>5 DEF ExitWait, At
    <2>2. p # Init
      BY <1>5 DEF ExitWait, At, IInv, PcInv
    <2> QED
      BY <2>1, <2>2, QueueUp
  <1>6. CASE Exit(p) \/ ExitResume(p)
    <2>1. /\ sched.cur = p /\ pc[p] \in {"user", "exit"} /\ p # Init
      BY <1>6 DEF Exit, ExitResume, At, IInv, PcInv
    <2>2. PICK x : (x = Now \/ (x \in Closing /\ pool.value # 0)) /\ HangUp(p, x)
      BY <1>6 DEF Exit, ExitResume
    <2>3. Passing(x) /\ x.pool.value = pool.value
      BY <2>2, ClosingPasses
    <2> QED
      BY <2>1, <2>2, <2>3, HangUpLemma
  <1> QED
    BY <1>1, <1>2, <1>3, <1>4, <1>5, <1>6 DEF Resumed, Called

\* No ASSERT fails and no NULL is followed but by a sys_fork that finds a pool
\* of pages or pids with nothing left.
THEOREM OnlyForkPanics ==
  Spec => [][sched.ok /\ ~sched'.ok => \E p \in Processes : ForkPanics(p)]_vars
  <1>1. IInv /\ [Next]_vars => [sched.ok /\ ~sched'.ok => \E p \in Processes : ForkPanics(p)]_vars
    <2> SUFFICES ASSUME IInv, Next, \A p \in Processes : ~ForkPanics(p)
                 PROVE  sched'.ok = sched.ok
      BY DEF vars
    <2>1. ASSUME NEW p \in Processes, Resumed(p) \/ Called(p)
          PROVE  sched'.ok = sched.ok
      BY <2>1, CallKeepsOk
    <2>2. CASE MainLock
      <3>1. pool.value = 1 /\ sched' = SemaTakeSched(sched, pool)
        BY <2>2 DEF MainLock, IInv, PoolInv
      <3> QED
        BY <3>1, SchedulerKeepsOk
    <2>3. CASE MainUnlock
      <3>1. pool.value = 0 /\ sched' = SemaUpSched(sched, pool)
        BY <2>3 DEF MainUnlock, At, IInv, PoolInv
      <3> QED
        BY <3>1, SchedulerKeepsOk
    <2>4. CASE MainExit
      <3>1. sched.cur = Main /\ sched' = Schedule([sched EXCEPT !.status[Main] = "DIED"])
        BY <2>4 DEF MainExit, At
      <3> QED
        BY <3>1, SchedulerKeepsOk
    <2>5. CASE IdleBlock
      <3>1. sched.cur = Idle /\ sched' = Block(sched, "BLOCKED")
        BY <2>5 DEF IdleBlock, At
      <3> QED
        BY <3>1, SchedulerKeepsOk
    <2>6. CASE TimerInterrupt
      <3>1. sched' = TimerTick(sched)
        BY <2>6 DEF TimerInterrupt
      <3> QED
        BY <3>1, SchedulerKeepsOk
    <2> QED
      BY <2>1, <2>2, <2>3, <2>4, <2>5, <2>6 DEF Next
  <1> QED
    BY <1>1, Invariant, PTL DEF Spec

\* So long as no sys_fork does, the kernel does not panic.
THEOREM PanicFree ==
  Spec /\ [][\A p \in Processes : ~ForkPanics(p)]_vars => []NoPanic
  <1>1. InitState => NoPanic
    BY InitialSchedule DEF NoPanic
  <1>2. ASSUME NoPanic, [\A p \in Processes : ~ForkPanics(p)]_vars,
               [sched.ok /\ ~sched'.ok => \E p \in Processes : ForkPanics(p)]_vars
        PROVE  NoPanic'
    <2>1. CASE UNCHANGED vars
      BY <1>2, <2>1 DEF vars, NoPanic
    <2>2. CASE ~UNCHANGED vars
      BY <1>2, <2>2 DEF NoPanic
    <2> QED
      BY <2>1, <2>2
  <1> QED
    BY <1>1, <1>2, OnlyForkPanics, PTL DEF Spec
=============================================================================
