---------------------------- MODULE MCMutableCsr ----------------------------
(***************************************************************************)
(* Small instances of MutableCsr for TLC.                                  *)
(***************************************************************************)
EXTENDS MutableCsr, TLC

Symmetry == Permutations(Sessions) \union Permutations(Vertices)
=============================================================================
