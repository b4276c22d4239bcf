------------------------------ MODULE MCFileTable -----------------------------
(* Small instances of FileTable for TLC. *)
EXTENDS FileTable

CONSTANTS p, q, boot, file

Two      == {p, q}
TwoFiles == {boot, file}
=============================================================================
