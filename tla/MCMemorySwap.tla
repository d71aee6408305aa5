---------------------------- MODULE MCMemorySwap ----------------------------
(* Small instances of MemorySwap: two profiles, two memories, one or two processes. *)
EXTENDS MemorySwap, TLC

CONSTANTS debug, docs, p1, p2, n1, n2

Symmetry == Permutations({debug, docs}) \cup Permutations(Procs) \cup Permutations(Notes)
=============================================================================
