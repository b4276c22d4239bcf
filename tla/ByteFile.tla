------------------------------- MODULE ByteFile -------------------------------
(***************************************************************************)
(* What the users of file_write, file_read and sys_lseek see: a file is a  *)
(* sequence of bytes with a position; a write appends.  The kernel stops   *)
(* only in the cases Stop names.                                           *)
(***************************************************************************)
EXTENDS Integers, Sequences

CONSTANTS
  Bytes,
  MaxSize,   \* the size no file exceeds
  LastRead,  \* reads that reach this offset stop the kernel
  Wrap,      \* 2^32, what fd_pos is counted modulo
  MaxCall,   \* bound on the bytes of a call
  Need       \* the blocks a call may take

VARIABLES
  bytes,
  pos,
  got,       \* what the last call has read
  left,      \* free blocks
  ok

vars == <<bytes, pos, got, left, ok>>

Init == bytes = <<>> /\ pos = 0 /\ got = <<>> /\ left \in Nat /\ ok = TRUE

Appends(n) ==
  /\ Len(bytes) + n < MaxSize
  /\ \E v \in Bytes : bytes' = bytes \o [i \in 1..n |-> v]
  /\ pos' = (Len(bytes) + n - 1) % Wrap
  /\ got' = <<>>
  /\ left' \in 0..left
  /\ UNCHANGED ok

\* The file would become too large, there is nothing to read, or no such position.
Fails ==
  /\ got' = <<>>
  /\ UNCHANGED <<bytes, pos, left, ok>>

Read(n) ==
  /\ pos < Len(bytes)
  /\ LET m == IF pos + n > Len(bytes) THEN Len(bytes) - pos ELSE n
     IN /\ pos' = pos + m
        /\ got' = SubSeq(bytes, pos + 1, pos + m)
  /\ UNCHANGED <<bytes, left, ok>>

Seek ==
  /\ pos' \in 0..Len(bytes) - 1
  /\ got' = <<>>
  /\ UNCHANGED <<bytes, left, ok>>

Stop ==
  /\ \/ left < Need
     \/ Len(bytes) + MaxCall >= MaxSize
     \/ Len(bytes) >= LastRead
     \/ pos = Wrap - 1
  /\ ok' = FALSE
  /\ UNCHANGED <<bytes, pos, got, left>>

Next == ok /\ (Fails \/ Seek \/ Stop \/ \E n \in 0..MaxCall : Appends(n) \/ Read(n))

Spec == Init /\ [][Next]_vars
=============================================================================
