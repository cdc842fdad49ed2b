-------------------------- MODULE MCAutoCompaction --------------------------
(* Instances of AutoCompaction for TLC. *)
EXTENDS AutoCompaction, TLC

SessionSymmetry == Permutations(Sessions)
=============================================================================
