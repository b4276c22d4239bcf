--------------------------- MODULE Scheduler_proofs ---------------------------
(***************************************************************************)
(* Facts about the operators of Scheduler and Semaphore, for every set of  *)
(* tasks and every priority. They are proved once here and cited wherever  *)
(* a step of the system calls the scheduler.                               *)
(*                                                                         *)
(* Before them the lists of lib/kernel/list.c as sequences without         *)
(* duplicates: what list_append, list_push, list_pop and list_remove leave *)
(* on them, and the least number of a set, by which what holds at every    *)
(* position of a list is proved.                                           *)
(***************************************************************************)
EXTENDS Semaphore, SequencesExt, SequenceTheorems, WellFoundedInduction, TLAPS

-----------------------------------------------------------------------------
\* A set of numbers that is not empty has a least one.
LEMMA LeastNat ==
  ASSUME NEW S \in SUBSET Nat, S # {}
  PROVE  \E n \in S : \A m \in S : n <= m
  <1> DEFINE R == {ss \in Nat \X Nat : ss[1] < ss[2]}
  <1>1. IsWellFoundedOn(R, Nat)
    BY NatLessThanWellFounded DEF OpToRel
  <1>2. PICK n \in S : \A m \in S : ~(<<m, n>> \in R)
    BY <1>1, WFMin
  <1>3. \A m \in S : ~(m < n)
    BY <1>2
  <1> QED
    BY <1>3

\* list_append puts one more element on a list, at the end.
LEMMA AppendToList ==
  ASSUME NEW S, NEW q \in Seq(S), NEW x \in S,
         IsInjective(q), ~Contains(q, x)
  PROVE  /\ Append(q, x) \in Seq(S)
         /\ IsInjective(Append(q, x))
         /\ \A y : Contains(Append(q, x), y) <=> Contains(q, y) \/ y = x
         /\ Append(q, x) # <<>>
  BY AppendProperties DEF IsInjective, Contains

\* list_push puts one more element on a list, in front.
LEMMA PushOnList ==
  ASSUME NEW S, NEW q \in Seq(S), NEW x \in S,
         IsInjective(q), ~Contains(q, x)
  PROVE  /\ Cons(x, q) \in Seq(S)
         /\ IsInjective(Cons(x, q))
         /\ \A y : Contains(Cons(x, q), y) <=> Contains(q, y) \/ y = x
         /\ Cons(x, q) # <<>>
  <1>1. /\ <<x>> \in Seq(S) /\ Len(<<x>>) = 1 /\ <<x>>[1] = x
    OBVIOUS
  <1>2. /\ Cons(x, q) \in Seq(S)
        /\ Len(Cons(x, q)) = Len(q) + 1
        /\ \A i \in 1 .. Len(q) + 1 : Cons(x, q)[i] = IF i = 1 THEN x ELSE q[i-1]
    BY <1>1, ConcatProperties DEF Cons
  <1>3. Len(q) \in Nat /\ DOMAIN q = 1 .. Len(q) /\ DOMAIN Cons(x, q) = 1 .. Len(q) + 1
    BY <1>2, LenProperties
  <1>4. IsInjective(Cons(x, q))
    <2> SUFFICES ASSUME NEW a \in 1 .. Len(q) + 1, NEW b \in 1 .. Len(q) + 1,
                        Cons(x, q)[a] = Cons(x, q)[b]
                 PROVE  a = b
      BY <1>3 DEF IsInjective
    <2>1. \A i \in 1 .. Len(q) : q[i] # x
      BY DEF Contains
    <2>2. \A i, j \in 1 .. Len(q) : q[i] = q[j] => i = j
      BY <1>3 DEF IsInjective
    <2>3. CASE a = 1
      BY <2>1, <2>3, <1>2, <1>3
    <2>4. CASE b = 1
      BY <2>1, <2>4, <1>2, <1>3
    <2>5. CASE a # 1 /\ b # 1
      <3>1. a - 1 \in 1 .. Len(q) /\ b - 1 \in 1 .. Len(q)
        BY <2>5, <1>3
      <3>2. q[a - 1] = q[b - 1]
        BY <2>5, <1>2
      <3> QED
        BY <3>1, <3>2, <2>2
    <2> QED
      BY <2>3, <2>4, <2>5
  <1>5. ASSUME NEW y
        PROVE  Contains(Cons(x, q), y) <=> Contains(q, y) \/ y = x
    <2>1. Contains(q, y) => Contains(Cons(x, q), y)
      <3> SUFFICES ASSUME NEW i \in 1 .. Len(q), q[i] = y
                   PROVE  Contains(Cons(x, q), y)
        BY DEF Contains
      <3>1. i + 1 \in 1 .. Len(q) + 1 /\ Cons(x, q)[i + 1] = y
        BY <1>2, <1>3
      <3> QED
        BY <1>2, <3>1 DEF Contains
    <2>2. Contains(Cons(x, q), x)
      BY <1>2, <1>3 DEF Contains
    <2>3. Contains(Cons(x, q), y) => Contains(q, y) \/ y = x
      BY <1>2, <1>3 DEF Contains
    <2> QED
      BY <2>1, <2>2, <2>3
  <1>6. Cons(x, q) # <<>>
    BY <1>2, <1>3, EmptySeq
  <1> QED
    BY <1>2, <1>4, <1>5, <1>6

\* list_pop takes the head off a list and nothing else.
LEMMA PopFromList ==
  ASSUME NEW S, NEW q \in Seq(S), IsInjective(q), q # <<>>
  PROVE  /\ Head(q) \in S
         /\ Contains(q, Head(q))
         /\ Tail(q) \in Seq(S)
         /\ IsInjective(Tail(q))
         /\ \A y : Contains(Tail(q), y) <=> Contains(q, y) /\ y # Head(q)
  <1>1. /\ Head(q) = q[1]
        /\ Len(q) \in Nat \ {0}
        /\ Tail(q) \in Seq(S)
        /\ Len(Tail(q)) = Len(q) - 1
        /\ \A i \in 1 .. Len(Tail(q)) : Tail(q)[i] = q[i+1]
    BY HeadTailProperties, EmptySeq
  <1> QED
    BY <1>1 DEF IsInjective, Contains

\* list_remove of an element that is on the list once.
LEMMA RemoveFromList ==
  ASSUME NEW S, NEW q \in Seq(S), IsInjective(q), NEW x, Contains(q, x)
  PROVE  LET r == RemoveAt(q, CHOOSE i \in DOMAIN q : q[i] = x)
         IN /\ r \in Seq(S) /\ IsInjective(r)
            /\ \A y : Contains(r, y) <=> Contains(q, y) /\ y # x
  <1> DEFINE k == CHOOSE i \in DOMAIN q : q[i] = x
             r == RemoveAt(q, k)
             n == Len(q)
  <1>1. /\ n \in Nat /\ DOMAIN q = 1..n
        /\ \A i \in 1..n : q[i] \in S
        /\ \A i, j \in 1..n : q[i] = q[j] => i = j
    BY DEF IsInjective
  <1>2. k \in 1..n /\ q[k] = x
    BY <1>1 DEF Contains
  <1> HIDE DEF k, n
  <1>3. /\ SubSeq(q, 1, k-1) \in Seq(S) /\ Len(SubSeq(q, 1, k-1)) = k - 1
        /\ \A i \in 1..k-1 : SubSeq(q, 1, k-1)[i] = q[i]
    BY <1>1, <1>2
  <1>4. /\ SubSeq(q, k+1, n) \in Seq(S) /\ Len(SubSeq(q, k+1, n)) = n - k
        /\ \A i \in 1..n-k : SubSeq(q, k+1, n)[i] = q[k+i]
    <2>1. k+1 \in Int /\ n \in Int /\ \A i \in (k+1)..n : q[i] \in S
      BY <1>1, <1>2
    <2>2. /\ SubSeq(q, k+1, n) \in Seq(S)
          /\ Len(SubSeq(q, k+1, n)) = IF k+1 <= n THEN n - (k+1) + 1 ELSE 0
          /\ \A i \in 1..n-(k+1)+1 : SubSeq(q, k+1, n)[i] = q[(k+1)+i-1]
      BY <2>1, SubSeqProperties
    <2>3. n - (k+1) + 1 = n - k /\ (~(k+1 <= n) => n - k = 0)
          /\ \A i \in 1..n-k : (k+1)+i-1 = k+i
      BY <1>1, <1>2
    <2> QED
      BY <2>2, <2>3
  <1>5. r = SubSeq(q, 1, k-1) \o SubSeq(q, k+1, n)
    BY DEF RemoveAt, n
  <1>6. /\ r \in Seq(S) /\ Len(r) = n - 1 /\ DOMAIN r = 1..n-1
        /\ \A i \in 1..n-1 : r[i] = IF i < k THEN q[i] ELSE q[i+1]
    <2> DEFINE a == SubSeq(q, 1, k-1)
               b == SubSeq(q, k+1, n)
    <2>1. /\ a \in Seq(S) /\ Len(a) = k - 1 /\ \A i \in 1..k-1 : a[i] = q[i]
          /\ b \in Seq(S) /\ Len(b) = n - k /\ \A i \in 1..n-k : b[i] = q[k+i]
          /\ r = a \o b
      BY <1>3, <1>4, <1>5
    <2> HIDE DEF a, b, r
    <2>2. /\ r \in Seq(S) /\ Len(r) = (k-1) + (n-k)
          /\ \A i \in 1..(k-1)+(n-k) : r[i] = IF i <= k-1 THEN a[i] ELSE b[i - (k-1)]
      <3>1. /\ r \in Seq(S) /\ Len(r) = Len(a) + Len(b)
            /\ \A i \in 1..Len(a)+Len(b) : r[i] = IF i <= Len(a) THEN a[i] ELSE b[i - Len(a)]
        BY <2>1, ConcatProperties
      <3> QED
        BY <2>1, <3>1
    <2>3. (k-1) + (n-k) = n - 1
      BY <1>1, <1>2
    <2>4. \A i \in 1..n-1 : r[i] = IF i < k THEN q[i] ELSE q[i+1]
      <3> SUFFICES ASSUME NEW i \in 1..n-1 PROVE r[i] = IF i < k THEN q[i] ELSE q[i+1]
        OBVIOUS
      <3>1. CASE i < k
        <4>1. i <= k-1 /\ i \in 1..k-1
          BY <1>1, <1>2, <3>1
        <4> QED
          BY <2>1, <2>2, <2>3, <3>1, <4>1
      <3>2. CASE ~(i < k)
        <4>1. ~(i <= k-1) /\ i-(k-1) \in 1..n-k /\ k+(i-(k-1)) = i+1
          BY <1>1, <1>2, <3>2
        <4> QED
          BY <2>1, <2>2, <2>3, <3>2, <4>1
      <3> QED
        BY <3>1, <3>2
    <2> QED
      BY <2>2, <2>3, <2>4
  <1> HIDE DEF r
  <1>7. IsInjective(r)
    BY <1>1, <1>2, <1>6 DEF IsInjective
  <1>8. ASSUME NEW y, Contains(r, y)
        PROVE  Contains(q, y) /\ y # x
    <2>1. PICK i \in 1..n-1 : r[i] = y
      BY <1>6, <1>8 DEF Contains
    <2>2. PICK j \in 1..n : q[j] = y /\ j # k
      BY <1>1, <1>2, <1>6, <2>1
    <2> QED
      BY <1>1, <1>2, <2>2 DEF Contains
  <1>9. ASSUME NEW y, Contains(q, y), y # x
        PROVE  Contains(r, y)
    <2>1. PICK j \in 1..n : q[j] = y
      BY <1>1, <1>9 DEF Contains
    <2>2. j # k
      BY <1>2, <1>9, <2>1
    <2>3. CASE j < k
      <3>1. j \in 1..n-1 /\ r[j] = y
        BY <1>1, <1>2, <1>6, <2>1, <2>3
      <3> QED
        BY <1>6, <3>1 DEF Contains
    <2>4. CASE j > k
      <3>1. j - 1 \in 1..n-1 /\ r[j-1] = y
        BY <1>1, <1>2, <1>6, <2>1, <2>4
      <3> QED
        BY <1>6, <3>1 DEF Contains
    <2> QED
      BY <1>2, <2>1, <2>2, <2>3, <2>4
  <1> QED
    BY <1>6, <1>7, <1>8, <1>9 DEF r, k, n

-----------------------------------------------------------------------------
\* The same parked (and dead) tasks, idle aside.
SameParked(s, r) ==
  \A t \in Tasks \ {Idle}, p \in Parked \cup {"DIED"} :
    s.status[t] = p <=> r.status[t] = p

\* Nobody but the current task is RUNNING, which may just have parked itself.
Switchable(s) ==
  /\ s \in SchedulerState
  /\ \A t \in Tasks : s.status[t] = "RUNNING" => t = s.cur
  /\ ReadyListExact(s)
  /\ IdleAvailable(s)

\* What a scheduler state is made of.
LEMMA StateComponents ==
  ASSUME NEW s \in SchedulerState
  PROVE  /\ s.cur \in Tasks
         /\ s.status \in [Tasks -> TaskStatus]
         /\ s.ready \in Seq(Tasks)
         /\ s.ticks \in [Tasks -> 0..255]
         /\ s.ok \in BOOLEAN
  BY DEF SchedulerState

\* list_append of a task that is not READY.
LEMMA EnqueueLemma ==
  ASSUME NEW s \in SchedulerState, NEW t \in Tasks,
         ReadyListExact(s), s.status[t] # "READY"
  PROVE  /\ Enqueue(s, t) \in SchedulerState
         /\ Enqueue(s, t).ok = s.ok
         /\ Enqueue(s, t).cur = s.cur
         /\ Enqueue(s, t).ticks = s.ticks
         /\ Enqueue(s, t).status = [s.status EXCEPT ![t] = "READY"]
         /\ Enqueue(s, t).ready = Append(s.ready, t)
         /\ ReadyListExact(Enqueue(s, t))
         /\ Enqueue(s, t).ready # <<>>
  <1> DEFINE r == Enqueue(s, t)
  <1>1. ~Contains(s.ready, t) /\ IsInjective(s.ready)
    BY DEF ReadyListExact
  <1>2. /\ r.cur = s.cur /\ r.ticks = s.ticks
        /\ r.status = [s.status EXCEPT ![t] = "READY"]
        /\ r.ready = Append(s.ready, t)
    BY StateComponents DEF Enqueue
  <1>ok. r.ok = s.ok /\ r.ok \in BOOLEAN
    BY <1>1, StateComponents DEF Enqueue
  <1>3. /\ r.ready \in Seq(Tasks) /\ IsInjective(r.ready) /\ r.ready # <<>>
        /\ \A u : Contains(r.ready, u) <=> Contains(s.ready, u) \/ u = t
    BY <1>1, <1>2, StateComponents, AppendToList
  <1>4. r.status \in [Tasks -> TaskStatus]
    BY <1>2, StateComponents DEF TaskStatus
  <1>5. r \in SchedulerState
    BY <1>2, <1>ok, <1>3, <1>4 DEF SchedulerState, Enqueue
  <1>6. ReadyListExact(r)
    BY <1>2, <1>3, StateComponents DEF ReadyListExact
  <1> QED
    BY <1>2, <1>ok, <1>3, <1>5, <1>6

\* thread_unblock of a task that is blocked.
LEMMA UnblockLemma ==
  ASSUME NEW s \in SchedulerState, NEW t \in Tasks,
         ReadyListExact(s), s.status[t] \in Parked
  PROVE  /\ Unblock(s, t) \in SchedulerState
         /\ Unblock(s, t).ok = s.ok
         /\ Unblock(s, t).cur = s.cur
         /\ Unblock(s, t).status = [s.status EXCEPT ![t] = "READY"]
         /\ ReadyListExact(Unblock(s, t))
         /\ Unblock(s, t).ready # <<>>
  <1> DEFINE r == Unblock(s, t)
  <1>1. ~Contains(s.ready, t) /\ IsInjective(s.ready)
    BY DEF ReadyListExact, Parked
  <1>2. /\ r.cur = s.cur /\ r.ticks = s.ticks
        /\ r.status = [s.status EXCEPT ![t] = "READY"]
        /\ r.ready = Cons(t, s.ready)
    BY StateComponents DEF Unblock
  <1>ok. r.ok = s.ok /\ r.ok \in BOOLEAN
    <2>1. (s.ok /\ s.status[t] \in Parked /\ ~Contains(s.ready, t)) = s.ok
      BY <1>1, StateComponents
    <2> DEFINE c == s.ok /\ s.status[t] \in Parked /\ ~Contains(s.ready, t)
    <2>2. r = [s EXCEPT !.ok = c, !.ready = Cons(t, @), !.status[t] = "READY"]
      BY DEF Unblock
    <2> HIDE DEF c, r
    <2>3. r.ok = c
      BY <2>2 DEF SchedulerState
    <2> QED
      BY <2>1, <2>3, StateComponents DEF c
  <1>3. /\ r.ready \in Seq(Tasks) /\ IsInjective(r.ready) /\ r.ready # <<>>
        /\ \A u : Contains(r.ready, u) <=> Contains(s.ready, u) \/ u = t
    BY <1>1, <1>2, StateComponents, PushOnList
  <1>4. r.status \in [Tasks -> TaskStatus]
    BY <1>2, StateComponents DEF TaskStatus
  <1>5. r \in SchedulerState
    BY <1>2, <1>ok, <1>3, <1>4 DEF SchedulerState, Unblock
  <1>6. ReadyListExact(r)
    BY <1>2, <1>3, StateComponents DEF ReadyListExact
  <1> QED
    BY <1>2, <1>ok, <1>3, <1>5, <1>6

\* list_pop and the switch, when somebody is ready and nobody is RUNNING.
LEMMA DispatchLemma ==
  ASSUME NEW s \in SchedulerState, ReadyListExact(s), IdleAvailable(s),
         s.ready # <<>>, \A t \in Tasks : s.status[t] # "RUNNING"
  PROVE  /\ Dispatch(s) \in SchedulerState
         /\ Dispatch(s).ok = s.ok
         /\ WellFormed(Dispatch(s))
         /\ SameParked(s, Dispatch(s))
         /\ s.status[Dispatch(s).cur] = "READY"
  <1> DEFINE r == Dispatch(s)
             n == Head(s.ready)
  <1>1. /\ n \in Tasks /\ Contains(s.ready, n)
        /\ Tail(s.ready) \in Seq(Tasks) /\ IsInjective(Tail(s.ready))
        /\ \A u : Contains(Tail(s.ready), u) <=> Contains(s.ready, u) /\ u # n
    BY StateComponents, PopFromList DEF ReadyListExact
  <1>2. s.status[n] = "READY"
    BY <1>1 DEF ReadyListExact
  <1>3. /\ r.cur = n /\ r.ticks = s.ticks /\ r.ok = s.ok
        /\ r.status = [s.status EXCEPT ![n] = "RUNNING"]
        /\ r.ready = Tail(s.ready)
    BY StateComponents DEF Dispatch
  <1>4. r.status \in [Tasks -> TaskStatus]
    BY <1>1, <1>3, StateComponents DEF TaskStatus
  <1>5. r \in SchedulerState
    BY <1>1, <1>3, <1>4 DEF SchedulerState, Dispatch
  <1>6. ReadyListExact(r)
    BY <1>1, <1>2, <1>3, StateComponents DEF ReadyListExact
  <1>7. OneRunning(r)
    BY <1>1, <1>3, StateComponents DEF OneRunning
  <1>8. IdleAvailable(r)
    BY <1>1, <1>3, StateComponents, SchedulerAssumption DEF IdleAvailable
  <1>9. SameParked(s, r)
    BY <1>1, <1>2, <1>3, StateComponents DEF SameParked, Parked
  <1> QED
    BY <1>2, <1>3, <1>5, <1>6, <1>7, <1>8, <1>9 DEF WellFormed

\* The first part of schedule puts the running task back and nobody is RUNNING.
LEMMA RequeueLemma ==
  ASSUME NEW s, Switchable(s)
  PROVE  /\ Requeue(s) \in SchedulerState
         /\ Requeue(s).ok = s.ok
         /\ ReadyListExact(Requeue(s))
         /\ \A t \in Tasks : Requeue(s).status[t] # "RUNNING"
         /\ IdleAvailable(Requeue(s))
         /\ SameParked(s, Requeue(s))
         /\ Requeue(s).ready \in {s.ready, Append(s.ready, s.cur)}
  <1> DEFINE q == Requeue(s)
  <1>0. s \in SchedulerState /\ ReadyListExact(s) /\ IdleAvailable(s)
    BY DEF Switchable
  <1>1. CASE s.status[s.cur] = "RUNNING"
    <2> DEFINE e == Enqueue(s, s.cur)
    <2>1. /\ e \in SchedulerState /\ e.ok = s.ok /\ ReadyListExact(e)
          /\ e.cur = s.cur
          /\ e.status = [s.status EXCEPT ![s.cur] = "READY"]
          /\ e.ready = Append(s.ready, s.cur)
      BY <1>0, <1>1, StateComponents, EnqueueLemma
    <2>2. q = [e EXCEPT !.ticks[s.cur] = Priority[s.cur]]
      BY <1>1 DEF Requeue
    <2> HIDE DEF e, q
    <2>3. /\ q.status = e.status /\ q.ready = e.ready /\ q.ok = e.ok /\ q.cur = e.cur
          /\ q.ticks = [e.ticks EXCEPT ![s.cur] = Priority[s.cur]]
      BY <2>1, <2>2, StateComponents
    <2>4. q.ticks \in [Tasks -> 0..255]
      <3>1. e.ticks \in [Tasks -> 0..255] /\ s.cur \in Tasks
        BY <1>0, <2>1, StateComponents
      <3>2. Priority[s.cur] \in 0..255
        BY <3>1, SchedulerAssumption
      <3> QED
        BY <2>3, <3>1, <3>2
    <2>5. q \in SchedulerState
      BY <2>1, <2>2, <2>3, <2>4 DEF SchedulerState
    <2>6. ReadyListExact(q)
      BY <2>1, <2>3 DEF ReadyListExact
    <2>7. \A t \in Tasks : q.status[t] # "RUNNING"
      BY <1>0, <2>1, <2>3, StateComponents DEF Switchable
    <2>8. IdleAvailable(q) /\ SameParked(s, q)
      BY <1>0, <1>1, <2>1, <2>3, StateComponents
      DEF IdleAvailable, SameParked, Parked
    <2> QED
      BY <2>1, <2>3, <2>5, <2>6, <2>7, <2>8 DEF q
  <1>2. CASE s.status[s.cur] # "RUNNING"
    <2>1. q = s
      BY <1>2 DEF Requeue
    <2> QED
      BY <1>0, <1>2, <2>1 DEF Switchable, SameParked
  <1> QED
    BY <1>1, <1>2

\* schedule leaves a well-formed state, whatever the current task did before,
\* and no ASSERT in it fails. The task it picks was READY, or was RUNNING and
\* has been put back, or is idle.
LEMMA ScheduleLemma ==
  ASSUME NEW s, Switchable(s)
  PROVE  /\ Schedule(s) \in SchedulerState
         /\ Schedule(s).ok = s.ok
         /\ WellFormed(Schedule(s))
         /\ SameParked(s, Schedule(s))
  <1> DEFINE q == Requeue(s)
             w == WakeIdle(q)
  <1>0. s \in SchedulerState /\ ReadyListExact(s) /\ IdleAvailable(s)
    BY DEF Switchable
  <1>1. /\ q \in SchedulerState /\ q.ok = s.ok /\ ReadyListExact(q)
        /\ \A t \in Tasks : q.status[t] # "RUNNING"
        /\ IdleAvailable(q)
        /\ SameParked(s, q)
    BY RequeueLemma
  <1>2. /\ w \in SchedulerState /\ w.ok = s.ok /\ ReadyListExact(w)
        /\ \A t \in Tasks : w.status[t] # "RUNNING"
        /\ IdleAvailable(w) /\ w.ready # <<>>
        /\ SameParked(s, w)
    <2> HIDE DEF q
    <2>1. CASE q.ready = <<>>
      <3>1. \A t \in Tasks : q.status[t] # "READY"
        BY <1>1, <2>1 DEF ReadyListExact, Contains
      <3>2. q.status[Idle] = "BLOCKED"
        BY <1>1, <3>1, SchedulerAssumption DEF IdleAvailable
      <3>3. w = Unblock(q, Idle)
        BY <2>1 DEF WakeIdle
      <3>4. /\ w \in SchedulerState /\ w.ok = s.ok /\ ReadyListExact(w)
            /\ w.ready # <<>>
            /\ w.status = [q.status EXCEPT ![Idle] = "READY"]
        BY <1>1, <3>2, <3>3, SchedulerAssumption, UnblockLemma DEF Parked
      <3> QED
        BY <1>1, <3>4, StateComponents, SchedulerAssumption
        DEF IdleAvailable, SameParked
    <2>2. CASE q.ready # <<>>
      BY <1>1, <2>2 DEF WakeIdle
    <2> QED
      BY <2>1, <2>2
  <1>3. Schedule(s) = Dispatch(w)
    BY DEF Schedule
  <1> HIDE DEF w, q
  <1>4. SameParked(w, Schedule(s))
    BY <1>2, <1>3, DispatchLemma
  <1>5. SameParked(s, Schedule(s))
    BY <1>2, <1>4 DEF SameParked
  <1> QED
    BY <1>2, <1>3, <1>5, DispatchLemma

-----------------------------------------------------------------------------
\* The entry points of the scheduler keep a well-formed state well-formed.

\* The state in which thread_block calls schedule.
Parking(s, stat) ==
  [s EXCEPT !.ok = @ /\ stat \in Parked, !.status[s.cur] = stat]

\* The task has parked itself, is on no list, and can be switched from.
LEMMA ParkedSwitchable ==
  ASSUME NEW s \in SchedulerState, WellFormed(s),
         NEW stat \in Parked, s.cur = Idle => stat = "BLOCKED"
  PROVE  /\ Block(s, stat) = Schedule(Parking(s, stat))
         /\ Switchable(Parking(s, stat))
         /\ Parking(s, stat).cur = s.cur
         /\ Parking(s, stat).ready = s.ready
         /\ Parking(s, stat).ok = s.ok
         /\ Parking(s, stat).status = [s.status EXCEPT ![s.cur] = stat]
  <1> DEFINE b == [s EXCEPT !.ok = @ /\ stat \in Parked, !.status[s.cur] = stat]
  <1>0. Block(s, stat) = Schedule(b) /\ Parking(s, stat) = b
    BY DEF Block, Parking
  <1>1. /\ b.cur = s.cur /\ b.ready = s.ready /\ b.ticks = s.ticks
        /\ b.status = [s.status EXCEPT ![s.cur] = stat]
    BY StateComponents
  <1>2. b.ok = s.ok /\ b.ok \in BOOLEAN
    BY StateComponents
  <1>3. b.status \in [Tasks -> TaskStatus]
    BY <1>1, StateComponents DEF TaskStatus
  <1>4. b \in SchedulerState
    BY <1>1, <1>2, <1>3 DEF SchedulerState
  <1>5. s.status[s.cur] = "RUNNING"
    BY StateComponents DEF WellFormed, OneRunning
  <1>6. Switchable(b)
    <2>1. ReadyListExact(b)
      BY <1>1, <1>5, StateComponents DEF WellFormed, ReadyListExact, Parked
    <2>2. \A t \in Tasks : b.status[t] = "RUNNING" => t = b.cur
      BY <1>1, StateComponents DEF WellFormed, OneRunning
    <2>3. IdleAvailable(b)
      BY <1>1, StateComponents, SchedulerAssumption DEF WellFormed, IdleAvailable
    <2> QED
      BY <1>4, <2>1, <2>2, <2>3 DEF Switchable
  <1> HIDE DEF b
  <1> QED
    BY <1>0, <1>1, <1>2, <1>6

\* thread_block parks the running task and runs another, or idle.
LEMMA BlockLemma ==
  ASSUME NEW s \in SchedulerState, WellFormed(s),
         NEW stat \in Parked, s.cur = Idle => stat = "BLOCKED"
  PROVE  /\ Block(s, stat) \in SchedulerState
         /\ Block(s, stat).ok = s.ok
         /\ WellFormed(Block(s, stat))
         /\ \A t \in Tasks \ {Idle, s.cur}, p \in Parked \cup {"DIED"} :
              s.status[t] = p <=> Block(s, stat).status[t] = p
         /\ s.cur # Idle => Block(s, stat).status[s.cur] = stat
  <1> DEFINE b == Parking(s, stat)
  <1>1. /\ b.cur = s.cur /\ b.ok = s.ok /\ Switchable(b) /\ Block(s, stat) = Schedule(b)
        /\ b.status = [s.status EXCEPT ![s.cur] = stat]
    BY ParkedSwitchable
  <1> HIDE DEF b
  <1>8. SameParked(b, Schedule(b))
    BY <1>1, ScheduleLemma
  <1>9. \A t \in Tasks \ {Idle, s.cur}, p \in Parked \cup {"DIED"} :
          s.status[t] = p <=> Schedule(b).status[t] = p
    <2> SUFFICES ASSUME NEW t \in Tasks \ {Idle, s.cur}, NEW p \in Parked \cup {"DIED"}
                 PROVE  s.status[t] = p <=> Schedule(b).status[t] = p
      OBVIOUS
    <2>1. b.status[t] = s.status[t]
      BY <1>1, StateComponents
    <2>2. b.status[t] = p <=> Schedule(b).status[t] = p
      BY <1>8 DEF SameParked
    <2> QED
      BY <2>1, <2>2
  <1>10. s.cur # Idle => Schedule(b).status[s.cur] = stat
    BY <1>1, <1>8, StateComponents DEF SameParked
  <1> QED
    BY <1>1, <1>9, <1>10, ScheduleLemma

\* A task that gives the processor up goes to the tail of the list.
LEMMA YieldedSwitchable ==
  ASSUME NEW s \in SchedulerState, WellFormed(s),
         NEW e, e = Enqueue(s, s.cur)
  PROVE  /\ Switchable(e) /\ SameParked(s, e)
         /\ e.ok = s.ok /\ e.ready = Append(s.ready, s.cur)
  <1>1. s.status[s.cur] = "RUNNING" /\ s.cur \in Tasks
    BY StateComponents DEF WellFormed, OneRunning
  <1>2. /\ e \in SchedulerState /\ e.ok = s.ok /\ e.cur = s.cur
        /\ e.status = [s.status EXCEPT ![s.cur] = "READY"]
        /\ e.ready = Append(s.ready, s.cur)
        /\ ReadyListExact(e)
    BY <1>1, EnqueueLemma DEF WellFormed
  <1>4. Switchable(e)
    <2>1. \A t \in Tasks : e.status[t] = "RUNNING" => t = e.cur
      BY <1>2, StateComponents DEF WellFormed, OneRunning
    <2>2. IdleAvailable(e)
      BY <1>2, StateComponents, SchedulerAssumption DEF WellFormed, IdleAvailable
    <2> QED
      BY <1>2, <2>1, <2>2 DEF Switchable
  <1>5. SameParked(s, e)
    BY <1>1, <1>2, StateComponents DEF SameParked, Parked
  <1> QED
    BY <1>2, <1>4, <1>5

\* thread_yield parks nobody.
LEMMA YieldLemma ==
  ASSUME NEW s \in SchedulerState, WellFormed(s)
  PROVE  /\ Yield(s) \in SchedulerState
         /\ Yield(s).ok = s.ok
         /\ WellFormed(Yield(s))
         /\ SameParked(s, Yield(s))
  <1> DEFINE e == Enqueue(s, s.cur)
  <1>1. Switchable(e) /\ SameParked(s, e) /\ e.ok = s.ok
    BY YieldedSwitchable
  <1>2. Yield(s) = Schedule(e)
    BY DEF Yield
  <1> HIDE DEF e
  <1>3. SameParked(e, Yield(s))
    BY <1>1, <1>2, ScheduleLemma
  <1>4. SameParked(s, Yield(s))
    BY <1>1, <1>3 DEF SameParked
  <1> QED
    BY <1>1, <1>2, <1>4, ScheduleLemma

\* A timer interrupt parks nobody, whether or not the slice is used up.
LEMMA TimerTickLemma ==
  ASSUME NEW s \in SchedulerState, WellFormed(s)
  PROVE  /\ TimerTick(s) \in SchedulerState
         /\ TimerTick(s).ok = s.ok
         /\ WellFormed(TimerTick(s))
         /\ SameParked(s, TimerTick(s))
  <1>1. CASE s.ticks[s.cur] = 0
    <2>1. Switchable(s)
      BY DEF Switchable, WellFormed, OneRunning
    <2> QED
      BY <1>1, <2>1, ScheduleLemma DEF TimerTick
  <1>2. CASE s.ticks[s.cur] # 0
    <2> DEFINE r == TimerTick(s)
    <2>1. r = [s EXCEPT !.ticks[s.cur] = @ - 1]
      BY <1>2 DEF TimerTick
    <2>2. /\ r.cur = s.cur /\ r.status = s.status /\ r.ready = s.ready /\ r.ok = s.ok
          /\ r.ticks = [s.ticks EXCEPT ![s.cur] = @ - 1]
      <3> DEFINE ticks == [s.ticks EXCEPT ![s.cur] = @ - 1]
      <3>1. r = [s EXCEPT !.ticks = ticks]
        BY <2>1
      <3> HIDE DEF r, ticks
      <3>2. /\ r.cur = s.cur /\ r.status = s.status /\ r.ready = s.ready /\ r.ok = s.ok
            /\ r.ticks = ticks
        BY <3>1, StateComponents
      <3> QED
        BY <3>2 DEF ticks
    <2>3. s.ticks[s.cur] \in 1..255
      <3> DEFINE left == s.ticks[s.cur]
      <3>1. left \in 0..255
        BY StateComponents
      <3> HIDE DEF r, left
      <3>2. left # 0 => left \in 1..255
        BY <3>1
      <3> QED
        BY <1>2, <3>2 DEF left
    <2>4. r.ticks \in [Tasks -> 0..255]
      <3> DEFINE left == s.ticks[s.cur] - 1
      <3>1. left \in 0..255
        BY <2>3
      <3>2. r.ticks = [s.ticks EXCEPT ![s.cur] = left]
        BY <2>2
      <3> HIDE DEF left, r
      <3>3. s.ticks \in [Tasks -> 0..255]
        BY StateComponents
      <3> QED
        BY <3>1, <3>2, <3>3
    <2>5. r \in SchedulerState
      BY <2>1, <2>2, <2>4 DEF SchedulerState
    <2> QED
      BY <2>2, <2>5
      DEF WellFormed, OneRunning, ReadyListExact, IdleAvailable, SameParked
  <1> QED
    BY <1>1, <1>2

\* thread_unblock of a parked task keeps the lists right.
LEMMA UnblockKeepsWellFormed ==
  ASSUME NEW s \in SchedulerState, WellFormed(s),
         NEW t \in Tasks, s.status[t] \in Parked
  PROVE  WellFormed(Unblock(s, t))
  <1> DEFINE r == Unblock(s, t)
  <1>1. /\ r.cur = s.cur
        /\ r.status = [s.status EXCEPT ![t] = "READY"]
        /\ ReadyListExact(r)
    BY UnblockLemma DEF WellFormed
  <1> HIDE DEF r
  <1>2. OneRunning(r)
    BY <1>1, StateComponents DEF WellFormed, OneRunning, Parked
  <1>3. IdleAvailable(r)
    BY <1>1, StateComponents, SchedulerAssumption DEF WellFormed, IdleAvailable
  <1> QED
    BY <1>1, <1>2, <1>3 DEF WellFormed, r

\* An ASSERT that holds changes nothing.
LEMMA AssertingLemma ==
  ASSUME NEW s \in SchedulerState, NEW cond, cond
  PROVE  /\ Asserting(s, cond) \in SchedulerState
         /\ Asserting(s, cond).ok = s.ok
         /\ Asserting(s, cond).cur = s.cur
         /\ Asserting(s, cond).status = s.status
         /\ Asserting(s, cond).ready = s.ready
         /\ WellFormed(s) => WellFormed(Asserting(s, cond))
  <1> DEFINE r == Asserting(s, cond)
  <1>1. r.cur = s.cur /\ r.status = s.status /\ r.ready = s.ready /\ r.ticks = s.ticks
    BY StateComponents DEF Asserting
  <1>2. (s.ok /\ cond) = s.ok
    BY StateComponents
  <1>3. r = [s EXCEPT !.ok = s.ok]
    BY <1>2 DEF Asserting
  <1>4. r.ok = s.ok /\ r \in SchedulerState
    BY <1>3, ZenonT(40) DEF SchedulerState
  <1> HIDE DEF r
  <1>5. WellFormed(s) => WellFormed(r)
    BY <1>1 DEF WellFormed, OneRunning, ReadyListExact, IdleAvailable
  <1> QED
    BY <1>1, <1>4, <1>5 DEF r

-----------------------------------------------------------------------------
\* The operations on a semaphore, field by field.
LEMMA SemaphoreFields ==
  ASSUME NEW sem \in SemaphoreState, NEW t \in Tasks
  PROVE  /\ sem.value > 0 =>
              /\ SemaTake(sem) \in SemaphoreState
              /\ SemaTake(sem).value = sem.value - 1
              /\ SemaTake(sem).waiters = sem.waiters
         /\ SemaWait(sem, t) \in SemaphoreState
         /\ SemaWait(sem, t).value = sem.value
         /\ SemaWait(sem, t).waiters = Append(sem.waiters, t)
  <1>1. sem.value \in 0..255 /\ sem.waiters \in Seq(Tasks)
    BY DEF SemaphoreState
  <1>2. Append(sem.waiters, t) \in Seq(Tasks)
    BY <1>1
  <1>3. SemaWait(sem, t) \in SemaphoreState
    BY <1>2 DEF SemaWait, SemaphoreState
  <1>4. SemaWait(sem, t).value = sem.value /\ SemaWait(sem, t).waiters = Append(sem.waiters, t)
    BY DEF SemaWait, SemaphoreState
  <1>5. ASSUME sem.value > 0
        PROVE  /\ SemaTake(sem) \in SemaphoreState
               /\ SemaTake(sem).value = sem.value - 1
               /\ SemaTake(sem).waiters = sem.waiters
    <2>1. sem.value - 1 \in 0..255
      BY <1>1, <1>5
    <2> QED
      BY <2>1 DEF SemaTake, SemaphoreState
  <1> QED
    BY <1>3, <1>4, <1>5

\* sema_down, value 0: the running task queues up and sleeps.
LEMMA SemaWaitLemma ==
  ASSUME NEW s \in SchedulerState, WellFormed(s), s.cur # Idle,
         NEW sem \in SemaphoreState, IsInjective(sem.waiters),
         ~Contains(sem.waiters, s.cur)
  PROVE  /\ SemaWaitSched(s, sem) \in SchedulerState
         /\ SemaWaitSched(s, sem).ok = s.ok
         /\ WellFormed(SemaWaitSched(s, sem))
         /\ SemaWaitSched(s, sem).status[s.cur] = "BLOCKED"
         /\ \A u \in Tasks \ {Idle, s.cur}, p \in Parked \cup {"DIED"} :
              s.status[u] = p <=> SemaWaitSched(s, sem).status[u] = p
         /\ SemaWait(sem, s.cur) \in SemaphoreState
         /\ SemaWait(sem, s.cur).value = sem.value
         /\ IsInjective(SemaWait(sem, s.cur).waiters)
         /\ \A u : Contains(SemaWait(sem, s.cur).waiters, u) <=>
                     Contains(sem.waiters, u) \/ u = s.cur
  <1> DEFINE a == Asserting(s, ~Contains(sem.waiters, s.cur))
  <1>1. /\ a \in SchedulerState /\ a.ok = s.ok /\ a.cur = s.cur
        /\ a.status = s.status /\ WellFormed(a)
    BY AssertingLemma
  <1>2. SemaWaitSched(s, sem) = Block(a, "BLOCKED")
    BY DEF SemaWaitSched
  <1> HIDE DEF a
  <1>3. /\ Block(a, "BLOCKED") \in SchedulerState
        /\ Block(a, "BLOCKED").ok = s.ok
        /\ WellFormed(Block(a, "BLOCKED"))
        /\ Block(a, "BLOCKED").status[s.cur] = "BLOCKED"
        /\ \A u \in Tasks \ {Idle, s.cur}, p \in Parked \cup {"DIED"} :
              s.status[u] = p <=> Block(a, "BLOCKED").status[u] = p
    BY <1>1, BlockLemma DEF Parked
  <1>4. s.cur \in Tasks /\ sem.waiters \in Seq(Tasks)
    BY StateComponents DEF SemaphoreState
  <1>5. /\ SemaWait(sem, s.cur) \in SemaphoreState
        /\ SemaWait(sem, s.cur).value = sem.value
        /\ SemaWait(sem, s.cur).waiters = Append(sem.waiters, s.cur)
    BY <1>4, SemaphoreFields
  <1> QED
    BY <1>2, <1>3, <1>4, <1>5, AppendToList

\* sema_down, value 1: the running task takes the semaphore.
LEMMA SemaTakeLemma ==
  ASSUME NEW s \in SchedulerState, NEW sem \in SemaphoreState, sem.value = 1
  PROVE  /\ SemaTakeSched(s, sem) \in SchedulerState
         /\ SemaTakeSched(s, sem).ok = s.ok
         /\ SemaTakeSched(s, sem).cur = s.cur
         /\ SemaTakeSched(s, sem).status = s.status
         /\ WellFormed(s) => WellFormed(SemaTakeSched(s, sem))
         /\ SemaTake(sem) \in SemaphoreState
         /\ SemaTake(sem).value = 0
         /\ SemaTake(sem).waiters = sem.waiters
  <1>1. sem.value - 1 = 0
    OBVIOUS
  <1>2. /\ SemaTake(sem) \in SemaphoreState /\ SemaTake(sem).value = 0
        /\ SemaTake(sem).waiters = sem.waiters
    <2>1. Idle \in Tasks
      BY SchedulerAssumption
    <2> QED
      BY <1>1, <2>1, SemaphoreFields
  <1> QED
    BY <1>1, <1>2, AssertingLemma DEF SemaTakeSched

\* sema_up, value 0: the first waiter W, if there is one, is woken.
LEMMA SemaUpLemma ==
  ASSUME NEW s \in SchedulerState, WellFormed(s),
         NEW sem \in SemaphoreState, sem.value = 0, IsInjective(sem.waiters),
         \A u \in Tasks : Contains(sem.waiters, u) => s.status[u] = "BLOCKED"
  PROVE  /\ SemaUpSched(s, sem) \in SchedulerState
         /\ SemaUpSched(s, sem).ok = s.ok
         /\ SemaUpSched(s, sem).cur = s.cur
         /\ WellFormed(SemaUpSched(s, sem))
         /\ SemaUp(sem) \in SemaphoreState
         /\ SemaUp(sem).value = 1
         /\ IsInjective(SemaUp(sem).waiters)
         /\ \E W \in SUBSET Tasks :
              /\ sem.waiters # <<>> => W # {}
              /\ \A u \in W : /\ Contains(sem.waiters, u)
                              /\ SemaUpSched(s, sem).status[u] = "READY"
              /\ \A u \in Tasks \ W : SemaUpSched(s, sem).status[u] = s.status[u]
              /\ \A u \in Tasks : Contains(SemaUp(sem).waiters, u) <=>
                                    Contains(sem.waiters, u) /\ u \notin W
  <1> DEFINE q == sem.waiters
             r == SemaUpSched(s, sem)
             p == SemaUp(sem)
  <1>1. q \in Seq(Tasks)
    BY DEF SemaphoreState
  <1>2. p.value = 1 /\ p.waiters = IF q = <<>> THEN <<>> ELSE Tail(q)
    BY DEF SemaUp
  <1>3. p = [value |-> 1, waiters |-> IF q = <<>> THEN <<>> ELSE Tail(q)]
    BY DEF SemaUp
  <1>4. CASE q = <<>>
    <2>1. r = Asserting(s, sem.value = 0)
      BY <1>4 DEF SemaUpSched
    <2> HIDE DEF r, p
    <2>2. /\ r \in SchedulerState /\ r.ok = s.ok /\ r.cur = s.cur /\ r.status = s.status
          /\ WellFormed(r)
      BY <2>1, AssertingLemma
    <2>3. p.waiters = q
      BY <1>2, <1>4
    <2>4. p \in SemaphoreState
      BY <1>1, <1>3, <2>3 DEF SemaphoreState
    <2>5. {} \in SUBSET Tasks /\ Tasks \ {} = Tasks
      OBVIOUS
    <2> QED
      BY <1>2, <1>4, <2>2, <2>3, <2>4, <2>5 DEF r, p
  <1>5. CASE q # <<>>
    <2> DEFINE w == Head(q)
               x == Unblock(s, w)
    <2>1. /\ w \in Tasks /\ Contains(q, w)
          /\ Tail(q) \in Seq(Tasks) /\ IsInjective(Tail(q))
          /\ \A u : Contains(Tail(q), u) <=> Contains(q, u) /\ u # w
      BY <1>1, <1>5, PopFromList
    <2>2. s.status[w] \in Parked
      BY <2>1 DEF Parked
    <2>3. /\ x \in SchedulerState /\ x.ok = s.ok /\ x.cur = s.cur /\ WellFormed(x)
          /\ x.status = [s.status EXCEPT ![w] = "READY"]
      BY <2>1, <2>2, UnblockLemma, UnblockKeepsWellFormed DEF WellFormed
    <2>4. r = Asserting(x, sem.value = 0)
      BY <1>5 DEF SemaUpSched
    <2> HIDE DEF x, r, p, w
    <2>5. /\ r \in SchedulerState /\ r.ok = s.ok /\ r.cur = s.cur /\ WellFormed(r)
          /\ r.status = [s.status EXCEPT ![w] = "READY"]
      BY <2>3, <2>4, AssertingLemma
    <2>6. /\ r.status[w] = "READY"
          /\ \A u \in Tasks \ {w} : r.status[u] = s.status[u]
      BY <2>1, <2>5, StateComponents
    <2>7. p.waiters = Tail(q)
      BY <1>2, <1>5
    <2>8. p \in SemaphoreState
      BY <1>3, <1>5, <2>1 DEF SemaphoreState
    <2>9. {w} \in SUBSET Tasks /\ {w} # {}
      BY <2>1
    <2>10. \E W \in SUBSET Tasks :
              /\ sem.waiters # <<>> => W # {}
              /\ \A u \in W : Contains(sem.waiters, u) /\ r.status[u] = "READY"
              /\ \A u \in Tasks \ W : r.status[u] = s.status[u]
              /\ \A u \in Tasks : Contains(p.waiters, u) <=> Contains(sem.waiters, u) /\ u \notin W
      BY <2>1, <2>6, <2>7, <2>9
    <2> QED
      BY <1>2, <2>1, <2>5, <2>7, <2>8, <2>10 DEF r, p
  <1> QED
    BY <1>4, <1>5
=============================================================================
