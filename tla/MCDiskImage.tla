------------------------------ MODULE MCDiskImage -----------------------------
(* A small instance of DiskImage for TLC. *)
EXTENDS DiskImage, TLC

CONSTANTS n1, n2, n3

ThreeNames == {n1, n2, n3}
Renamings  == Permutations(Names)
=============================================================================
