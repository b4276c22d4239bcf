------------------------------- MODULE MCHeap -------------------------------
\* The heap alone, with a child that frees what its parent has allocated.
EXTENDS Heap

TwoClasses == <<2, 3>>
=============================================================================
