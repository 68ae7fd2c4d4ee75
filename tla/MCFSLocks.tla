----------------------------- MODULE MCFSLocks -----------------------------
(* Small instances of FSLocks for TLC: threads that may all call the same  *)
(* operations.                                                             *)
EXTENDS FSLocks, TLC

Each(operations) == [t \in Threads |-> operations]
Every       == Each({"open", "close", "write", "read", "copy"})
Creations   == Each({"open", "close", "write", "copy"})
Copies      == Each({"open", "write", "copy"})

Symmetry == Permutations(Threads) \cup Permutations(Names)
============================================================================
