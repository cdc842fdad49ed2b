-------------------------- MODULE MCVersionManager --------------------------
(* Instances of VersionManager for TLC. *)
EXTENDS VersionManager, TLC

\* Sessions only differ by name; used by the runs without liveness.
SessionSymmetry == Permutations(Sessions)
=============================================================================
