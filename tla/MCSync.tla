------------------------------- MODULE MCSync --------------------------------
(* Small instances of Sync for TLC. *)
EXTENDS Sync

CONSTANTS idle, main, thread, init, console

FourTasks     == {idle, main, thread, init}
KThreads      == FourTasks \ {init}
Queue         == <<init, idle, thread>>
MixedSlices   == [t \in Tasks |-> IF t = init THEN 1 ELSE 0]
OneLock       == {console}
=============================================================================
