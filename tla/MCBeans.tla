------------------------------- MODULE MCBeans -------------------------------
(* Symmetry for checking Beans with TLC. *)
EXTENDS Beans

ThreadSymmetry == Permutations(Threads)
=============================================================================
