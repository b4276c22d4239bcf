------------------------------ MODULE MCIoQueue -------------------------------
(* Small instances of IoQueue for TLC. *)
EXTENDS IoQueue

CONSTANTS idle, r1, r2, a, b

TwoReaders   == {idle, r1, r2}
Queue        == <<idle, r2>>
ShortSlices  == [t \in Tasks |-> 0]
LongSlices   == [t \in Tasks |-> 1]
TwoKeys      == {a, b}
=============================================================================
