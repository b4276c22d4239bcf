------------------------------- MODULE LockSpec -------------------------------
(***************************************************************************)
(* What the locks of thread/sync.c promise: every lock is free or has one  *)
(* owner, only the owner may take it again or give it back, and it gets    *)
(* free only when the owner has given it back as often as it took it. No   *)
(* order among the tasks that want it is promised.                         *)
(***************************************************************************)
EXTENDS Naturals

CONSTANTS Tasks, Locks, NoTask

VARIABLES
  owner,  \* the task that has the lock, or NoTask
  count   \* how many times its owner has taken it

Init ==
  /\ owner = [l \in Locks |-> NoTask]
  /\ count = [l \in Locks |-> 0]

Take(t, l) ==
  /\ owner[l] = NoTask
  /\ owner' = [owner EXCEPT ![l] = t]
  /\ count' = [count EXCEPT ![l] = 1]

TakeAgain(t, l) ==
  /\ owner[l] = t
  /\ count' = [count EXCEPT ![l] = @ + 1]
  /\ UNCHANGED owner

GiveBack(t, l) ==
  /\ owner[l] = t
  /\ count[l] > 1
  /\ count' = [count EXCEPT ![l] = @ - 1]
  /\ UNCHANGED owner

SetFree(t, l) ==
  /\ owner[l] = t
  /\ count[l] = 1
  /\ owner' = [owner EXCEPT ![l] = NoTask]
  /\ count' = [count EXCEPT ![l] = 0]

Next == \E t \in Tasks, l \in Locks :
          Take(t, l) \/ TakeAgain(t, l) \/ GiveBack(t, l) \/ SetFree(t, l)

Spec == Init /\ [][Next]_<<owner, count>>
=============================================================================
