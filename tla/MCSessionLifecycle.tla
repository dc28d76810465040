------------------------- MODULE MCSessionLifecycle -------------------------
(* Symmetry for checking SessionLifecycle with TLC. *)
EXTENDS SessionLifecycle, TLC

ActorSymmetry ==
    {s @@ r @@ t @@ d : s \in Permutations(Sids), r \in Permutations(Requests),
                        t \in Permutations(Tokens), d \in Permutations(Devices)}
=============================================================================
