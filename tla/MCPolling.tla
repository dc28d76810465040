------------------------------ MODULE MCPolling ------------------------------
(* Symmetry for checking Polling with TLC. *)
EXTENDS Polling, TLC

GroupSymmetry == Permutations(Pollers) \cup Permutations(Slots) \cup Permutations(Events)
=============================================================================
