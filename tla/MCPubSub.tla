------------------------------ MODULE MCPubSub ------------------------------
(* PubSub for TLC: its threads are alike. *)
EXTENDS PubSub, TLC

WorkerSymmetry == Permutations(Workers)
=============================================================================
