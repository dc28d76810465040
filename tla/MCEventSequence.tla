-------------------------- MODULE MCEventSequence --------------------------
(* Symmetry for checking EventSequence with TLC. *)
EXTENDS EventSequence, TLC

WriterSymmetry == Permutations(Writers)
=============================================================================
