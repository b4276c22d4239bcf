-------------------------------- MODULE MCIde ---------------------------------
(* Small instances of Ide for TLC: with main, and a process by itself. *)
EXTENDS Ide

CONSTANTS idle, main, p

Three        == {idle, main, p}
OneProcess   == {idle, p}
KThreads     == {idle, main} \cap Tasks
Runs         == IF main \in Tasks THEN main ELSE p
Queue        == IF main \in Tasks THEN <<p, idle>> ELSE <<idle>>
ShortSlices  == [t \in Tasks |-> 0]
One          == {1}
OneOrTwo     == {1, 2}
=============================================================================
