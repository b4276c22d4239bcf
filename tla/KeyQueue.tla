------------------------------- MODULE KeyQueue -------------------------------
(***************************************************************************)
(* What the keyboard buffer promises: the characters it accepts are read   *)
(* in the order they were typed, each by one reader, and it refuses one    *)
(* only when Capacity characters wait to be read.                          *)
(***************************************************************************)
EXTENDS Naturals, Sequences

CONSTANTS Readers, Keys, NoKey, Capacity

VARIABLES
  queue,  \* the characters typed and not yet read
  char    \* the last character each reader got

Init ==
  /\ queue = <<>>
  /\ char  = [r \in Readers |-> NoKey]

Press(k) ==
  /\ Len(queue) < Capacity
  /\ queue' = Append(queue, k)
  /\ UNCHANGED char

Read(r) ==
  /\ queue # <<>>
  /\ char'  = [char EXCEPT ![r] = Head(queue)]
  /\ queue' = Tail(queue)

Next == (\E k \in Keys : Press(k)) \/ (\E r \in Readers : Read(r))

Spec == Init /\ [][Next]_<<queue, char>>
=============================================================================
