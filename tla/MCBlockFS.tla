----------------------------- MODULE MCBlockFS -----------------------------
(* Small instances of BlockFS for TLC: one direct block, blocks of two     *)
(* cells, so that a file of three cells has a block of references.         *)
EXTENDS BlockFS, TLC

Symmetry == Permutations(Threads)
============================================================================
