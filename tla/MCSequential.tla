----------------------------- MODULE MCSequential -----------------------------
(***************************************************************************)
(* The parts that run without interleaving: the blocks of a file, the heap *)
(* of a process, the decoding of keys and the line of the shell.  They     *)
(* share no state, so every behaviour explores one of them.                *)
(***************************************************************************)
EXTENDS FileBlocks, Heap, Keyboard, Shell

VARIABLE part

TwoClasses == <<2, 3>>
Programs   == {[at |-> 7, size |-> 7], [at |-> 10, size |-> 5]}

all == <<vars, heapVars, keyboardVars, shellVars, part>>

SequentialInit ==
  /\ Init /\ HeapInit /\ KeyboardInit /\ ShellInit
  /\ part \in {"file", "heap", "keyboard", "shell"}
  /\ part # "file" => free = {}

SequentialNext ==
  /\ UNCHANGED part
  /\ \/ part = "file" /\ Next /\ UNCHANGED <<heapVars, keyboardVars, shellVars>>
     \/ part = "heap" /\ HeapNext /\ UNCHANGED <<vars, keyboardVars, shellVars>>
     \/ part = "keyboard" /\ KeyboardNext /\ UNCHANGED <<vars, heapVars, shellVars>>
     \/ part = "shell" /\ ShellNext /\ UNCHANGED <<vars, heapVars, keyboardVars>>

SequentialSpec == SequentialInit /\ [][SequentialNext]_all

\* The type invariants of the file and of the heap.
TypesOK == TypeOK /\ HeapTypeOK
=============================================================================
