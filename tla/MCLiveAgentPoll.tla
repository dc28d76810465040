--------------------------- MODULE MCLiveAgentPoll ---------------------------
(* LiveAgentPoll for TLC: the places for requests are alike. *)
EXTENDS LiveAgentPoll, TLC

RequestSymmetry == Permutations(Requests)
=============================================================================
