------------------------------ MODULE MCProcLife ------------------------------
(* Small instances of ProcLife for TLC. *)
EXTENDS ProcLife

CONSTANTS idle, main, init, p1, p2, p3

ThreeSlots   == {idle, main, init, p1, p2, p3}
ShortSlices  == [t \in Tasks |-> 0]
=============================================================================
